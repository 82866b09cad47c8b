CONSTANTS
    None = None  Invalid = Invalid
    c1 = c1  c2 = c2  urlhaus = urlhaus  threatfox = threatfox
    ka = ka  kb = kb  botnet = botnet  t1 = t1  cve1 = cve1
    Clients = {c1}
    Sources = {urlhaus, threatfox}
    Keys = {ka, kb}
    Spellings = {"a", "A.", "b", "bad"}
    Canon <- MCCanon
    Confs = {40, 90, 101}
    Labels = {botnet}
    Tags = {t1}
    Cves = {cve1}
    Rels = {"related-to"}
    DefaultRel = "related-to"
    Dates = {"2024-01-01"}
    RawIocs <- MCMergeRaw
    Batches <- MCMergeBatches
    Agg <- MCAgg
    Defaults = {200}
    MaxTime = 1
SYMMETRY MCSymmetry
SPECIFICATION Spec
INVARIANTS TypeOK AggregatesMatch FtsInSync LinksResolved
PROPERTY NoLostObservation
