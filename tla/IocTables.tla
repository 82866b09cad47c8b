----------------------------- MODULE IocTables -----------------------------
(***************************************************************************)
(* The tables of ioc-vault-store and the statements that change them, as   *)
(* operators from one value of the tables to the next.  Who runs them, in  *)
(* which transaction and against whom is the business of IocStore.         *)
(*                                                                         *)
(* A row of `iocs` is identified with its dedup key (the value_hash of the *)
(* type and the normalized value): rows are never deleted, so the id and   *)
(* the hash name the same thing.  A table is a total function from keys to *)
(* rows, None where there is no row.                                       *)
(***************************************************************************)
EXTENDS Integers, Sequences

CONSTANTS
    Spellings,   \* (type, raw value) pairs as a feed writes them
    Keys,        \* dedup keys: value_hash of the type and normalized value
    Canon,       \* the key a spelling normalizes to, or Invalid
    Sources,     \* source names
    Confs,       \* confidences a feed may state; RawIoc.confidence is a u8
    Labels,      \* values of threat_type / malware_family
    Tags,        \* tag names
    Cves,        \* CVE ids
    Rels,        \* values of ioc_cves.relationship
    DefaultRel,  \* the schema's default relationship, "related-to"
    Dates,       \* values of kev_date_added
    RawIocs,     \* the indicators feeds may deliver
    Agg(_),      \* confidence aggregated from the sightings' confidences
    None,        \* SQL NULL, Option::None, or an absent row
    Invalid      \* the result of normalize() for a malformed value

Pct   == 0 .. 100
Times == Nat
OrNone(S) == S \cup {None}

IocRow   == [first : Times, last : Times, conf : Pct,
             threat : OrNone(Labels), age : Nat]
Sighting == [first : Times, last : Times, conf : Pct]
CveRow   == [kev : BOOLEAN, date : OrNone(Dates)]
RawIoc   == [value : Spellings, first : OrNone(Times), last : OrNone(Times),
             conf : OrNone(Confs), threat : OrNone(Labels),
             tags : SUBSET Tags, cves : SUBSET Cves]

(* `age` stands for decay_score: the age, clipped at 0, at which the row   *)
(* was last scored.  A fresh row has decay_score 1.0, the score of age 0.  *)
Tables == [ioc  : [Keys -> OrNone(IocRow)],
           seen : [Keys -> [Sources -> OrNone(Sighting)]],
           tag  : [Keys -> SUBSET Tags],
           cve  : [Cves -> OrNone(CveRow)],
           link : [Keys -> [Cves -> OrNone(Rels)]],
           fts  : SUBSET (Keys \X OrNone(Labels))]

ASSUME CanonAssumption == Canon \in [Spellings -> Keys \cup {Invalid}]
ASSUME InvalidAssumption == Invalid \notin Keys
ASSUME RawAssumption   == RawIocs \subseteq RawIoc
ASSUME ConfAssumption  == Confs \subseteq Nat
ASSUME RelAssumption   == DefaultRel \in Rels
ASSUME NoneAssumption  ==
    /\ None \notin Nat
    /\ None \notin Sources
    /\ None \notin Labels
    /\ None \notin Rels
    /\ None \notin Dates
    /\ None \notin IocRow
    /\ None \notin Sighting
    /\ None \notin CveRow

(* What recompute_confidence() computes is a constant here: module         *)
(* Confidence defines it and the MC modules supply it.  The store relies   *)
(* on no more than that it is a percentage.                                *)
ASSUME AggAssumption ==
    \A confs \in [Sources -> OrNone(Pct)] : Agg(confs) \in Pct
-----------------------------------------------------------------------------
Or(x, y)      == IF x = None THEN y ELSE x      \* COALESCE, Option::unwrap_or
Earlier(x, y) == IF x <= y THEN x ELSE y
Later(x, y)   == IF x >= y THEN x ELSE y

EmptyTables ==
    [ioc  |-> [k \in Keys |-> None],
     seen |-> [k \in Keys |-> [s \in Sources |-> None]],
     tag  |-> [k \in Keys |-> {}],
     cve  |-> [v \in Cves |-> None],
     link |-> [k \in Keys |-> [v \in Cves |-> None]],
     fts  |-> {}]

(* normalize() refuses the value, or the row violates the CHECK that       *)
(* confidence is between 0 and 100.                                        *)
Malformed(raw)      == Canon[raw.value] = Invalid
Rejected(raw, dflt) == Malformed(raw) \/ Or(raw.conf, dflt) > 100

(* Mutant: first_seen = excluded.first_seen.                               *)
MergedSightingLatest(old, first, last, conf) ==
    [first |-> first, last |-> IF old = None THEN last ELSE Later(old.last, last),
     conf  |-> conf]

(* ON CONFLICT(ioc_id, source_id): the window grows, the confidence of the *)
(* latest sighting wins.                                                   *)
MergedSighting(old, first, last, conf) ==
    IF old = None
    THEN [first |-> first, last |-> last, conf |-> conf]
    ELSE [first |-> Earlier(old.first, first),
          last  |-> Later(old.last, last),
          conf  |-> conf]

ConfsOf(seen) ==
    [s \in Sources |-> IF seen[s] = None THEN None ELSE seen[s].conf]

(* Mutant: last_seen = excluded.last_seen.                                 *)
MergedRowLatest(old, first, last, threat, seen) ==
    [first  |-> IF old = None THEN first ELSE Earlier(old.first, first),
     last   |-> last,
     conf   |-> Agg(ConfsOf(seen)),
     threat |-> IF old = None THEN threat ELSE Or(old.threat, threat),
     age    |-> 0]

(* ON CONFLICT(value_hash), followed by recompute_confidence(), which      *)
(* overwrites the max() the conflict clause leaves in `confidence`.        *)
MergedRow(old, first, last, threat, seen) ==
    IF old = None
    THEN [first |-> first, last |-> last, conf |-> Agg(ConfsOf(seen)),
          threat |-> threat, age |-> 0]
    ELSE [first  |-> Earlier(old.first, first),
          last   |-> Later(old.last, last),
          conf   |-> Agg(ConfsOf(seen)),
          threat |-> Or(old.threat, threat),
          age    |-> old.age]

(* INSERT OR IGNORE INTO cves *)
WithStubs(cve, ids) ==
    [v \in Cves |-> IF v \in ids THEN Or(cve[v], [kev |-> FALSE, date |-> None])
                                 ELSE cve[v]]

(* Mutant: no 'delete' in iocs_au.                                         *)
ReindexedAdd(fts, k, old, new) == fts \cup {<<k, new.threat>>}

(* The iocs_ai and iocs_au triggers: drop what the old row contributed to  *)
(* the full-text index, add what the new row does.                         *)
Reindexed(fts, k, old, new) ==
    (IF old = None THEN fts ELSE fts \ {<<k, old.threat>>})
        \cup {<<k, new.threat>>}

(* upsert_in_tx() on an indicator that is not Rejected.                    *)
UpsertInTx(t, raw, s, dflt, now) ==
    LET k     == Canon[raw.value]
        first == Or(raw.first, now)
        last  == Or(raw.last, now)
        seen  == [t.seen[k] EXCEPT ![s] =
                     MergedSighting(t.seen[k][s], first, last,
                                    Or(raw.conf, dflt))]
        row   == MergedRow(t.ioc[k], first, last, raw.threat, seen)
    IN  [ioc  |-> [t.ioc EXCEPT ![k] = row],
         seen |-> [t.seen EXCEPT ![k] = seen],
         tag  |-> [t.tag EXCEPT ![k] = t.tag[k] \cup raw.tags],
         cve  |-> WithStubs(t.cve, raw.cves),
         link |-> [t.link EXCEPT ![k] =
                      [v \in Cves |-> IF v \in raw.cves
                                      THEN Or(t.link[k][v], DefaultRel)
                                      ELSE t.link[k][v]]],
         fts  |-> Reindexed(t.fts, k, t.ioc[k], row)]

(* The tables after a whole batch, its i-th indicator stamped nows[i].     *)
Applied(t, b, s, dflt, nows) ==
    LET after[i \in 0 .. Len(b)] ==
            IF i = 0 THEN t
            ELSE UpsertInTx(after[i - 1], b[i], s, dflt, nows[i])
    IN  after[Len(b)]

(* Mutant: no stub row.                                                    *)
LinkCveInBare(t, k, v, rel) == [t EXCEPT !.link[k][v] = rel]

(* link_cve(): unlike the links of an upsert, it overrides an older        *)
(* relationship.                                                           *)
LinkCveIn(t, k, v, rel) ==
    [t EXCEPT !.cve = WithStubs(t.cve, {v}), !.link[k][v] = rel]

(* upsert_cve(): a missing date keeps the stored one.                      *)
UpsertCveIn(t, v, date, kev) ==
    [t EXCEPT !.cve[v] =
        [kev |-> kev,
         date |-> Or(date, IF t.cve[v] = None THEN None ELSE t.cve[v].date)]]

(* DecayModel::score() halves with every half-life of the row's type: it   *)
(* tells no more apart than the age does, which it clips at 0.             *)
ScoredAge(last, now) == Later(0, now - last)

(* The UPDATEs of apply_decay(): `plan` maps each key that had a row when  *)
(* the rows were read to the last_seen read then.  The update triggers     *)
(* re-index each row under the text it already has.                        *)
LastSeen(t) ==
    [k \in Keys |-> IF t.ioc[k] = None THEN None ELSE t.ioc[k].last]

(* Mutant: the row read is written back with its score.                    *)
RescoredBack(t, plan, now) ==
    [t EXCEPT !.ioc =
        [k \in Keys |->
            IF plan[k] = None \/ t.ioc[k] = None
            THEN t.ioc[k]
            ELSE [t.ioc[k] EXCEPT !.last = plan[k],
                                  !.age = ScoredAge(plan[k], now)]]]

Rescored(t, plan, now) ==
    [t EXCEPT !.ioc =
        [k \in Keys |->
            IF plan[k] = None \/ t.ioc[k] = None
            THEN t.ioc[k]
            ELSE [t.ioc[k] EXCEPT !.age = ScoredAge(plan[k], now)]]]
-----------------------------------------------------------------------------
(* What makes a value of the tables coherent.                              *)

(* A row's window and confidence are those of its sightings: the row       *)
(* exists iff some source saw it, first_seen is the earliest and last_seen *)
(* the latest over the sources, and confidence is the aggregate.           *)
Aggregated(t) ==
    \A k \in Keys :
        IF t.ioc[k] = None
        THEN \A s \in Sources : t.seen[k][s] = None
        ELSE /\ \E s \in Sources : t.seen[k][s] # None
                                   /\ t.seen[k][s].first = t.ioc[k].first
             /\ \E s \in Sources : t.seen[k][s] # None
                                   /\ t.seen[k][s].last = t.ioc[k].last
             /\ \A s \in Sources : t.seen[k][s] # None =>
                    /\ t.ioc[k].first <= t.seen[k][s].first
                    /\ t.seen[k][s].last <= t.ioc[k].last
             /\ t.ioc[k].conf = Agg(ConfsOf(t.seen[k]))

(* The full-text index holds exactly the current text of every row.        *)
Indexed(t) ==
    \A k \in Keys, l \in OrNone(Labels) :
        <<k, l>> \in t.fts <=> t.ioc[k] # None /\ t.ioc[k].threat = l

(* Tags and CVE links hang off existing rows, and a link's CVE exists.     *)
Linked(t) ==
    \A k \in Keys :
        /\ t.ioc[k] = None => /\ t.tag[k] = {}
                              /\ \A v \in Cves : t.link[k][v] = None
        /\ \A v \in Cves : t.link[k][v] # None => t.cve[v] # None

Coherent(t) == Aggregated(t) /\ Indexed(t) /\ Linked(t)

(* u keeps everything t had observed: windows only widen, sightings, tags  *)
(* and links only accumulate, a threat label once set is kept.             *)
Extends(t, u) ==
    /\ \A k \in Keys :
        /\ t.ioc[k] # None =>
              /\ u.ioc[k] # None
              /\ u.ioc[k].first <= t.ioc[k].first
              /\ t.ioc[k].last <= u.ioc[k].last
              /\ t.ioc[k].threat # None => u.ioc[k].threat = t.ioc[k].threat
        /\ \A s \in Sources : t.seen[k][s] # None =>
              /\ u.seen[k][s] # None
              /\ u.seen[k][s].first <= t.seen[k][s].first
              /\ t.seen[k][s].last <= u.seen[k][s].last
        /\ t.tag[k] \subseteq u.tag[k]
        /\ \A v \in Cves : t.link[k][v] # None => u.link[k][v] # None
    /\ \A v \in Cves : t.cve[v] # None =>
          /\ u.cve[v] # None
          /\ t.cve[v].date # None => u.cve[v].date # None
=============================================================================
