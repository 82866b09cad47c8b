CONSTANTS
    None = None
    shell = shell  job = job
    urlhaus = urlhaus  threatfox = threatfox  demo = demo
    Procs = {shell, job}
    Commands <- MCCommands
    Names = {urlhaus, threatfox, demo}
    Collectors = {urlhaus, threatfox}
    Conditional = {urlhaus}
    ThreatFox = threatfox
    DefaultConf <- MCDefaultConf
    Records = 3
    BufferSize = 2
    DiskSpace = 3
    MaxLost = 2
SPECIFICATION Spec
INVARIANT ExportedIsWritten
