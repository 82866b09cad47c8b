------------------------------- MODULE Search -------------------------------
(***************************************************************************)
(* IocStore::search(), lookup() and get() beside writers.  A search is one *)
(* SELECT of row ids followed by hydrate() of one id after the other, four *)
(* SELECTs each, all on the pool and none in a common transaction: writers *)
(* commit in between.  The writers are those of SerialStore, which IocStore*)
(* implements.                                                             *)
(***************************************************************************)
EXTENDS IocTables, SequencesExt

CONSTANTS Batches, Defaults,
          Queries,   \* what callers ask for
          MaxTime,   \* bound on the clock
          MaxWrites  \* bound on the commits of all writers together

Orders == {"none", "last desc", "last asc", "first desc", "conf desc", "decay desc"}

(* A SearchQuery.  Bounds are sets of admissible values.  `types` are the  *)
(* keys of the types asked for, `values` those the value matcher accepts,  *)
(* in SQL or, for a regex or CIDR matcher, afterwards in Rust (`post`).    *)
(* As in the code an empty set of threats, sources, tags or CVEs admits    *)
(* every row.  lookup() and get() are searches for one value, or id, with  *)
(* limit 1 in no order.  No code sets is_allowlisted.                      *)
SearchQuery ==
    [types : SUBSET Keys, values : SUBSET Keys, post : BOOLEAN,
     first : SUBSET Times, last : SUBSET Times, conf : SUBSET Pct, age : SUBSET Nat,
     threats : SUBSET Labels, sources : SUBSET Sources,
     tags : SUBSET Tags, cves : SUBSET Cves, fts : OrNone(Labels),
     order : Orders, limit : OrNone(Nat), offset : OrNone(Nat)]

(* What `search` and `export` take on the command line; a value matcher is *)
(* the set of keys it accepts.                                             *)
FilterArgs ==
    [types : SUBSET Keys, threats : SUBSET Labels, sources : SUBSET Sources,
     tags : SUBSET Tags, cves : SUBSET Cves, since : OrNone(Times),
     min_conf : OrNone(Pct), max_age : OrNone(Nat), fts : OrNone(Labels),
     cidr : OrNone(SUBSET Keys), regex : OrNone(SUBSET Keys),
     exact : OrNone(SUBSET Keys), prefix : OrNone(SUBSET Keys),
     contains : OrNone(SUBSET Keys), order : Orders, limit : Nat]

(* build_search_query(): of several value matchers the first of cidr,      *)
(* regex, exact, prefix and contains counts and the others are ignored.    *)
(* `horizon` is the last instant there is.                                 *)
BuildQuery(args, horizon) ==
    [types |-> IF args.types = {} THEN Keys ELSE args.types,
     post  |-> args.cidr # None \/ args.regex # None,
     values |-> Or(args.cidr, Or(args.regex, Or(args.exact,
                   Or(args.prefix, Or(args.contains, Keys))))),
     first |-> 0 .. horizon,
     last  |-> Or(args.since, 0) .. horizon,
     conf  |-> Or(args.min_conf, 0) .. 100,
     age   |-> 0 .. Or(args.max_age, horizon),
     threats |-> args.threats, sources |-> args.sources,
     tags |-> args.tags, cves |-> args.cves, fts |-> args.fts,
     order |-> args.order, limit |-> args.limit, offset |-> None]

ASSUME BatchAssumption   == Batches \subseteq Seq(RawIocs)
ASSUME DefaultAssumption == Defaults \subseteq Nat
ASSUME QueriesAssumption == Queries \subseteq SearchQuery

VARIABLES
    db, clock,   \* the store: SerialStore's variables
    pc,          \* which SELECT comes next
    query,       \* the query that is running, or was last answered
    todo,        \* row ids still to hydrate
    rec,         \* the record being put together
    out,         \* the records so far; at "done", the answer; at "failed", none
    base,        \* history: the tables the ids were selected from
    writes       \* the commits so far

reader == <<pc, query, todo, rec, out, base>>
vars   == <<db, clock, reader, writes>>

Store == INSTANCE SerialStore

NoRecord == [key |-> None, row |-> None, seen |-> <<>>, tags |-> {}, cves |-> {}]

Init ==
    /\ Store!Init
    /\ pc = "done"
    /\ query \in Queries
    /\ todo = <<>>
    /\ rec = NoRecord
    /\ out = <<>>
    /\ base = EmptyTables
    /\ writes = 0
-----------------------------------------------------------------------------
Admits(S, T) == S = {} \/ S \cap T # {}

SeenBy(t, k)  == {s \in Sources : t.seen[k][s] # None}
LinkedTo(t, k) == {v \in Cves : t.link[k][v] # None}

(* Mutant: a tag filter that is forgotten.                                 *)
SelectedUntagged(t, q) ==
    {k \in q.types :
        /\ t.ioc[k] # None
        /\ t.ioc[k].first \in q.first /\ t.ioc[k].last \in q.last
        /\ q.post \/ k \in q.values}

(* The WHERE clause.                                                       *)
Selected(t, q) ==
    {k \in q.types :
        /\ t.ioc[k] # None
        /\ t.ioc[k].first \in q.first /\ t.ioc[k].last \in q.last
        /\ t.ioc[k].conf \in q.conf   /\ t.ioc[k].age \in q.age
        /\ Admits(q.threats, {t.ioc[k].threat})
        /\ Admits(q.sources, SeenBy(t, k))
        /\ Admits(q.tags, t.tag[k])
        /\ Admits(q.cves, LinkedTo(t, k))
        /\ q.fts = None \/ <<k, q.fts>> \in t.fts
        /\ q.post \/ k \in q.values}

(* order_by_clause(), which breaks no ties.  Scores are compared by age:   *)
(* the indicators of the model are of types with the same half-life.       *)
MayPrecede(t, order, k, l) ==
    \/ order = "none"
    \/ order = "last desc"  /\ t.ioc[k].last  >= t.ioc[l].last
    \/ order = "last asc"   /\ t.ioc[k].last  <= t.ioc[l].last
    \/ order = "first desc" /\ t.ioc[k].first >= t.ioc[l].first
    \/ order = "conf desc"  /\ t.ioc[k].conf  >= t.ioc[l].conf
    \/ order = "decay desc" /\ t.ioc[k].age   <= t.ioc[l].age

Orderings(t, order, S) ==
    {s \in SetToSeqs(S) :
        \A i, j \in 1 .. Len(s) : i < j => MayPrecede(t, order, s[i], s[j])}

Window(s, offset, limit) ==
    SubSeq(s, offset + 1, IF limit = None THEN Len(s) ELSE Earlier(offset + limit, Len(s)))

(* LIMIT and OFFSET in SQL: without a limit the offset is not used either. *)
SqlPage(q, s) ==
    IF q.post \/ q.limit = None THEN s ELSE Window(s, Or(q.offset, 0), q.limit)

(* Mutant: LIMIT and OFFSET in SQL for every query.                        *)
SelectIdsPaged(q) ==
    /\ pc \in {"done", "failed"}
    /\ query' = q
    /\ base' = db
    /\ \E s \in Orderings(db, q.order, Selected(db, q)) :
          todo' = Window(s, Or(q.offset, 0), q.limit)
    /\ pc' = "row"
    /\ rec' = NoRecord
    /\ out' = <<>>
    /\ UNCHANGED <<db, clock, writes>>

SelectIds(q) ==
    /\ pc \in {"done", "failed"}
    /\ query' = q
    /\ base' = db
    /\ \E s \in Orderings(db, q.order, Selected(db, q)) : todo' = SqlPage(q, s)
    /\ pc' = "row"
    /\ rec' = NoRecord
    /\ out' = <<>>
    /\ UNCHANGED <<db, clock, writes>>

(* hydrate(): the row of iocs.  fetch_one() would fail if it were gone.    *)
ReadRow ==
    /\ pc = "row"
    /\ todo # <<>>
    /\ db.ioc[Head(todo)] # None
    /\ rec' = [NoRecord EXCEPT !.key = Head(todo), !.row = db.ioc[Head(todo)]]
    /\ pc' = "sources"
    /\ UNCHANGED <<db, clock, query, todo, out, base, writes>>

(* Mutant: the sightings are those of the SELECT that found the row.       *)
ReadSourcesEarly ==
    /\ pc = "sources"
    /\ rec' = [rec EXCEPT !.seen = base.seen[rec.key]]
    /\ pc' = "tags"
    /\ UNCHANGED <<db, clock, query, todo, out, base, writes>>

(* sources_for()                                                           *)
ReadSources ==
    /\ pc = "sources"
    /\ rec' = [rec EXCEPT !.seen = db.seen[rec.key]]
    /\ pc' = "tags"
    /\ UNCHANGED <<db, clock, query, todo, out, base, writes>>

(* tags_for()                                                              *)
ReadTags ==
    /\ pc = "tags"
    /\ rec' = [rec EXCEPT !.tags = db.tag[rec.key]]
    /\ pc' = "cves"
    /\ UNCHANGED <<db, clock, query, todo, out, base, writes>>

(* cves_for(), after which the record is complete.                         *)
ReadCves ==
    /\ pc = "cves"
    /\ out' = Append(out, [rec EXCEPT !.cves = LinkedTo(db, rec.key)])
    /\ todo' = Tail(todo)
    /\ rec' = NoRecord
    /\ pc' = "row"
    /\ UNCHANGED <<db, clock, query, base, writes>>

(* post_filter_records(): the records whose value the matcher accepts.     *)
PostFilter(records, values) ==
    LET kept[i \in 0 .. Len(records)] ==
            IF i = 0 THEN <<>>
            ELSE IF records[i].key \in values
            THEN Append(kept[i - 1], records[i])
            ELSE kept[i - 1]
    IN  kept[Len(records)]

(* The post-filter, skip(offset) and truncate(limit).                      *)
Answer ==
    /\ pc = "row"
    /\ todo = <<>>
    /\ out' = IF query.post
              THEN Window(PostFilter(out, query.values),
                          Or(query.offset, 0), query.limit)
              ELSE out
    /\ pc' = "done"
    /\ UNCHANGED <<db, clock, query, todo, rec, base, writes>>

(* A `?` of search(): one of its SELECTs fails, or, once every candidate   *)
(* has been hydrated, the pattern of a regex does not compile.  What was   *)
(* put together so far is lost, and the caller has an error.               *)
Fail ==
    /\ pc \in {"row", "sources", "tags", "cves"}
    /\ pc' = "failed"
    /\ todo' = <<>>
    /\ rec' = NoRecord
    /\ out' = <<>>
    /\ UNCHANGED <<db, clock, query, base, writes>>

Read == ReadRow \/ ReadSources \/ ReadTags \/ ReadCves \/ Answer \/ Fail

Write == /\ Store!Next
         /\ clock' <= MaxTime
         /\ writes' = writes + IF db' = db THEN 0 ELSE 1
         /\ writes' <= MaxWrites
         /\ UNCHANGED reader

Next == (\E q \in Queries : SelectIds(q)) \/ Read \/ Write

Spec == Init /\ [][Next]_vars
-----------------------------------------------------------------------------
(* A record is put together from four moments, yet never contradicts       *)
(* itself on when the indicator was seen: some sighting it lists goes back *)
(* to its first_seen, some reaches its last_seen.  This rests on the row   *)
(* being read before the sightings and on windows that only widen.         *)
RecordsCovered ==
    \A r \in ToSet(out) :
        /\ \E s \in Sources : r.seen[s] # None /\ r.seen[s].first <= r.row.first
        /\ \E s \in Sources : r.seen[s] # None /\ r.seen[s].last >= r.row.last

(* A record that is returned still passes the filters a writer cannot      *)
(* undo, although it is read after it was selected: the window's bounds on *)
(* their growing side, the threat label and its full-text match, sources, tags   *)
(* and CVEs.                                                               *)
StillMatches ==
    \A r \in ToSet(out) :
        /\ \E n \in query.first : r.row.first <= n
        /\ \E n \in query.last : n <= r.row.last
        /\ Admits(query.threats, {r.row.threat})
        /\ query.fts = None \/ r.row.threat = query.fts
        /\ Admits(query.sources, {s \in Sources : r.seen[s] # None})
        /\ Admits(query.tags, r.tags)
        /\ Admits(query.cves, r.cves)

(* Whether the value matcher runs in SQL or in Rust, the answer is a full  *)
(* page of all that match: `limit` records as long as there are that many  *)
(* behind `offset`, in the order asked for, of the rows that matched when  *)
(* they were selected.  (An offset without a limit is not used in SQL.)    *)
PageExact ==
    pc = "done" /\ (query.limit # None \/ query.post) =>
        LET all == Selected(base, query) \cap query.values
        IN  \E s \in Orderings(base, query.order, all) :
                [i \in 1 .. Len(out) |-> out[i].key] =
                    Window(s, Or(query.offset, 0), query.limit)
=============================================================================
