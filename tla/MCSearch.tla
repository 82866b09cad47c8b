------------------------------ MODULE MCSearch ------------------------------
(***************************************************************************)
(* Search on two indicators and two sources, with one query for each way   *)
(* of filtering, ordering and paging.                                      *)
(***************************************************************************)
EXTENDS Search

CONSTANTS urlhaus, threatfox, ka, kb, botnet, t1, cve1

C == INSTANCE Confidence
MCAgg(confs) == C!Aggregate(confs)

MCCanon == [x \in {"a", "b"} |-> IF x = "a" THEN ka ELSE kb]

Raw(value, first, last, conf, threat, tags, cves) ==
    [value |-> value, first |-> first, last |-> last, conf |-> conf,
     threat |-> threat, tags |-> tags, cves |-> cves]

Bare  == Raw("a", None, None, None, None,   {},   {})
Full  == Raw("a", 0,    1,    90,   botnet, {t1}, {cve1})
Other == Raw("b", None, None, 40,   None,   {},   {})

MCRawIocs == {Bare, Full, Other}
MCBatches == {<<Bare>>, <<Full>>, <<Other>>}

Everything ==
    [types |-> Keys, values |-> Keys, post |-> FALSE,
     first |-> 0 .. MaxTime, last |-> 0 .. MaxTime,
     conf |-> Pct, age |-> 0 .. MaxTime,
     threats |-> {}, sources |-> {}, tags |-> {}, cves |-> {}, fts |-> None,
     order |-> "none", limit |-> None, offset |-> None]

NoArgs ==
    [types |-> {}, threats |-> {}, sources |-> {}, tags |-> {}, cves |-> {},
     since |-> None, min_conf |-> None, max_age |-> None, fts |-> None,
     cidr |-> None, regex |-> None, exact |-> None, prefix |-> None,
     contains |-> None, order |-> "last desc", limit |-> 100]

MCArgs ==
    { [NoArgs EXCEPT !.order = "conf desc", !.cidr = {kb}, !.contains = {ka},
                     !.limit = 1],
      [NoArgs EXCEPT !.order = "last asc", !.sources = {urlhaus},
                     !.min_conf = 50, !.since = 1, !.prefix = {ka}],
      [NoArgs EXCEPT !.order = "decay desc", !.max_age = 0, !.tags = {t1},
                     !.cves = {cve1}, !.threats = {botnet}, !.fts = botnet] }

MCQueries ==
    { [Everything EXCEPT !.values = {ka}, !.limit = 1],              \* lookup()
      [Everything EXCEPT !.order = "last desc", !.limit = 1, !.offset = 1],
      [Everything EXCEPT !.order = "first desc", !.post = TRUE, !.offset = 1] }
    \cup {BuildQuery(args, MaxTime) : args \in MCArgs}
=============================================================================
