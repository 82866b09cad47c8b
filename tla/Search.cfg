CONSTANTS
    None = None  Invalid = Invalid
    urlhaus = urlhaus  threatfox = threatfox
    ka = ka  kb = kb  botnet = botnet  t1 = t1  cve1 = cve1
    Sources = {urlhaus, threatfox}
    Keys = {ka, kb}
    Spellings = {"a", "b"}
    Canon <- MCCanon
    Confs = {40, 90}
    Labels = {botnet}
    Tags = {t1}
    Cves = {cve1}
    Rels = {"related-to"}
    DefaultRel = "related-to"
    Dates = {}
    RawIocs <- MCRawIocs
    Batches <- MCBatches
    Agg <- MCAgg
    Defaults = {}
    MaxTime = 1
    MaxWrites = 3
    Queries <- MCQueries
SPECIFICATION Spec
INVARIANTS RecordsCovered StillMatches PageExact
