CONSTANTS
    None = None  Invalid = Invalid
    c1 = c1  c2 = c2  urlhaus = urlhaus  threatfox = threatfox
    ka = ka  kb = kb  botnet = botnet  t1 = t1  cve1 = cve1
    Clients = {c1, c2}
    Sources = {urlhaus, threatfox}
    Keys = {ka, kb}
    Spellings = {"a", "A.", "b", "bad"}
    Canon <- MCCanon
    Confs = {40, 90, 101}
    Labels = {botnet}
    Tags = {t1}
    Cves = {}
    Rels = {"related-to"}
    DefaultRel = "related-to"
    Dates = {}
    RawIocs <- MCSerialRaw
    Batches <- MCSerialBatches
    Agg <- MCAgg
    Defaults = {}
    MaxTime = 1
SPECIFICATION Spec
PROPERTY AutoCreates
