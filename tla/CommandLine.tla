----------------------------- MODULE CommandLine -----------------------------
(***************************************************************************)
(* The program `ioc-vault`: processes that open one vault, migrate it,     *)
(* register the built-in sources and then carry out one command.  Here are *)
(* the commands that change the table of sources, and `export`.  What an   *)
(* update does beyond its validators is the matter of UpdateRun, what a    *)
(* query finds that of Search.                                             *)
(***************************************************************************)
EXTENDS Integers

CONSTANTS
    Procs,        \* processes of the program
    Commands,     \* what each process may be told to do
    Names,        \* names of sources
    Collectors,   \* those of the collectors the program is built with
    Conditional,  \* those of them whose feed sends validators
    ThreatFox,    \* the one that needs an Auth-Key
    DefaultConf,  \* for each collector, metadata().default_confidence
    Records,      \* the number of records an export has to write
    BufferSize,   \* how many of them a BufWriter holds
    DiskSpace,    \* bound on the records the disk has room for
    MaxLost,      \* bound on the migrations a process attempts in vain
    None

ASSUME NamesAssumption  == /\ {ThreatFox} \cup Conditional \subseteq Collectors
                           /\ Collectors \subseteq Names
ASSUME BufferAssumption == BufferSize \in Nat \ {0}
ASSUME BoundsAssumption == Records \in Nat /\ DiskSpace \in Nat /\ MaxLost \in Nat
ASSUME ConfAssumption   == DefaultConf \in [Collectors -> Nat]
ASSUME CommandsAssumption ==
    \A p \in Procs : \A cmd \in Commands[p] :
        /\ cmd.kind \in {"add", "enable", "disable"} => cmd.name \in Names
        /\ cmd.kind = "add" => cmd.conf \in Nat

VARIABLES
    schema,     \* do the tables exist?
    ledger,     \* does _sqlx_migrations list the migration?
    rows,       \* table sources
    proc,       \* what each process is doing
    lost,       \* history: how often a process failed to migrate
    chosen      \* history: what an operator last set `enabled` to

vars == <<schema, ledger, rows, proc, lost, chosen>>

(* Columns of sources; `cached` is whether validators are stored.          *)
Rows == [conf : Nat, enabled : BOOLEAN, cached : BOOLEAN]
ASSUME NoneAssumption == None \notin Rows

(* Auth-Keys: a variable or entry that is missing, one that is blank, and  *)
(* one that is neither, called by where it is from.                        *)
Usable(key) == key \notin {None, "blank"}

Idle == [pc |-> "idle", cmd |-> None, left |-> {}, key |-> None,
         sent |-> 0, held |-> 0, file |-> 0, room |-> 0]

Init ==
    /\ schema = FALSE /\ ledger = FALSE
    /\ rows = [n \in Names |-> None]
    /\ proc = [p \in Procs |-> Idle]
    /\ lost = [p \in Procs |-> 0]
    /\ chosen = [n \in Names |-> None]
-----------------------------------------------------------------------------
At(p, pc)   == proc[p].pc = pc

(* p goes on at pc; the record r holds what else changes in it.            *)
Goto(p, r)   == proc' = [proc EXCEPT ![p] = r]
Moved(p, pc) == [proc[p] EXCEPT !.pc = pc]

Told(p, kind) == proc[p].cmd.kind = kind

(* build() is done: the command may begin.                                 *)
ReadyEarly(p) == At(p, "register")                 \* mutant
Ready(p)      == At(p, "register") /\ proc[p].left = {}

(* Config::threatfox_auth_key(): a blank variable still hides the entry.   *)
ConfigKey(env, config) ==
    LET key == IF env # None THEN env ELSE config
    IN  IF Usable(key) THEN key ELSE None

(* with_default_collectors()                                               *)
AuthKey(env, config) ==
    LET key == ConfigKey(env, config)
    IN  IF key # None THEN key ELSE IF Usable(env) THEN env ELSE None

(* main(), up to build(): the configuration is read.                       *)
Launch(p, cmd) ==
    /\ At(p, "idle")
    /\ Goto(p, [Idle EXCEPT !.pc = "open", !.cmd = cmd, !.left = Collectors,
                            !.key = AuthKey(cmd.env, cmd.config)])
    /\ UNCHANGED <<schema, ledger, rows, lost, chosen>>

(* IocStore::open(), and the migrator's look at what has been applied.     *)
Open(p) ==
    /\ At(p, "open")
    /\ Goto(p, Moved(p, IF ledger THEN "register" ELSE "migrate"))
    /\ UNCHANGED <<schema, ledger, rows, lost, chosen>>

(* Mutant: the tables and the ledger in two transactions, of which a       *)
(* process may not live to do the second.                                  *)
MigrateTorn(p) ==
    /\ At(p, "migrate")
    /\ ~schema
    /\ schema' = TRUE
    /\ ledger' \in BOOLEAN
    /\ Goto(p, Moved(p, IF ledger' THEN "register" ELSE "failed"))
    /\ UNCHANGED <<rows, lost, chosen>>

(* migrate(): the one migration and its entry, in one transaction.         *)
Migrate(p) ==
    /\ At(p, "migrate")
    /\ ~schema
    /\ schema' = TRUE
    /\ ledger' = TRUE
    /\ Goto(p, Moved(p, "register"))
    /\ UNCHANGED <<rows, lost, chosen>>

(* Another process has been faster: CREATE TABLE fails.                    *)
MigrateConflict(p) ==
    /\ At(p, "migrate")
    /\ schema
    /\ lost[p] < MaxLost
    /\ lost' = [lost EXCEPT ![p] = @ + 1]
    /\ Goto(p, Moved(p, "failed"))
    /\ UNCHANGED <<schema, ledger, rows, chosen>>

(* Mutant: INSERT OR REPLACE.                                              *)
RegisteredAnew(row, conf) == [conf |-> conf, enabled |-> TRUE, cached |-> FALSE]

(* register_source(): a row that exists keeps `enabled` and validators.    *)
Registered(row, conf) ==
    IF row = None THEN [conf |-> conf, enabled |-> TRUE, cached |-> FALSE]
                  ELSE [row EXCEPT !.conf = conf]

(* build(): every collector is registered, in the order of a HashMap.      *)
Register(p, s) ==
    /\ At(p, "register")
    /\ s \in proc[p].left
    /\ rows' = [rows EXCEPT ![s] = Registered(@, DefaultConf[s])]
    /\ Goto(p, [proc[p] EXCEPT !.left = @ \ {s}])
    /\ UNCHANGED <<schema, ledger, lost, chosen>>
-----------------------------------------------------------------------------
(* The commands that only read and print.                                  *)
Answer(p) ==
    /\ Ready(p) /\ Told(p, "read")
    /\ Goto(p, Moved(p, "done"))
    /\ UNCHANGED <<schema, ledger, rows, lost, chosen>>

(* The commands that write the table of sources.                           *)

SourceAdd(p) ==
    /\ Ready(p) /\ Told(p, "add")
    /\ rows' = [rows EXCEPT ![proc[p].cmd.name] = Registered(@, proc[p].cmd.conf)]
    /\ Goto(p, Moved(p, "done"))
    /\ UNCHANGED <<schema, ledger, lost, chosen>>

(* set_source_enabled().  For a name that has no row nothing is updated,   *)
(* and the command says that it was.                                       *)
SourceSwitch(p) ==
    /\ Ready(p) /\ proc[p].cmd.kind \in {"enable", "disable"}
    /\ LET n  == proc[p].cmd.name
           on == Told(p, "enable")
       IN  IF rows[n] = None THEN UNCHANGED <<rows, chosen>>
           ELSE /\ rows' = [rows EXCEPT ![n].enabled = on]
                /\ chosen' = [chosen EXCEPT ![n] = on]
    /\ Goto(p, Moved(p, "done"))
    /\ UNCHANGED <<schema, ledger, lost>>

(* update_source(), or without a name update_all(), which goes on after a  *)
(* failure.  Of the collectors meant, those that fetch something overwrite *)
(* their validators (`left` keeps which); ThreatFox never does without a   *)
(* key.  A source that is neither fetched nor answered 304 has failed.     *)
Update(p) ==
    /\ Ready(p) /\ Told(p, "update")
    /\ LET n     == proc[p].cmd.name
           meant == IF n = None THEN Collectors ELSE {n} \cap Collectors
           able  == IF proc[p].key = None THEN meant \ {ThreatFox} ELSE meant
           unmodified == {s \in able : rows[s].cached}
       IN  \E fetched \in SUBSET able, pc \in {"done", "failed"} :
              /\ IF n = None THEN pc = "done"
                 ELSE pc = "done" => n \in fetched \cup unmodified
              /\ rows' = [m \in Names |->
                            IF m \in fetched
                            THEN [rows[m] EXCEPT !.cached = m \in Conditional]
                            ELSE rows[m]]
              /\ Goto(p, [proc[p] EXCEPT !.pc = pc, !.left = fetched])
    /\ UNCHANGED <<schema, ledger, lost, chosen>>
-----------------------------------------------------------------------------
(* export: File::create() truncates the file before the query is run; the  *)
(* records then pass through a BufWriter, which is dropped in the end.     *)
(* `room` is how many more the disk takes.                                 *)

CreateFile(p) ==
    /\ Ready(p) /\ Told(p, "export")
    /\ \E room \in 0 .. DiskSpace :
          Goto(p, [proc[p] EXCEPT !.pc = "write", !.room = room])
    /\ UNCHANGED <<schema, ledger, rows, lost, chosen>>

(* n of the records in the buffer, which is then empty, reach the disk.    *)
Spilled(r, n) == [r EXCEPT !.file = @ + n, !.room = @ - n, !.held = 0]

(* A record goes into the buffer; a full buffer goes to the disk first.    *)
WriteRecord(p) ==
    /\ At(p, "write")
    /\ proc[p].sent < Records
    /\ LET r == IF proc[p].held < BufferSize THEN proc[p]
                ELSE Spilled(proc[p], proc[p].held)
       IN  Goto(p, IF r.room < 0
                   THEN [Spilled(proc[p], proc[p].room) EXCEPT !.pc = "failed"]
                   ELSE [r EXCEPT !.sent = @ + 1, !.held = @ + 1])
    /\ UNCHANGED <<schema, ledger, rows, lost, chosen>>

(* Does the format's writer flush, and see the error?  write_csv() does.   *)
FlushesNone(format) == FALSE                      \* mutant
Flushes(format)     == format = "csv"

(* What is left in the buffer goes to the disk as far as there is room;    *)
(* drop() says nothing if there is not.                                    *)
FinishExport(p) ==
    /\ At(p, "write")
    /\ proc[p].sent = Records
    /\ LET r    == proc[p]
           fits == IF r.held <= r.room THEN r.held ELSE r.room
       IN  Goto(p, [Spilled(r, fits) EXCEPT
                       !.pc = IF fits < r.held /\ Flushes(r.cmd.format)
                              THEN "failed" ELSE "done"])
    /\ UNCHANGED <<schema, ledger, rows, lost, chosen>>
-----------------------------------------------------------------------------
(* SQLITE_BUSY or I/O anywhere, an invalid regular expression in the query,*)
(* a feed that does not answer; the process is killed.                     *)
Fail(p) ==
    /\ proc[p].pc \in {"open", "migrate", "register", "write"}
    /\ Goto(p, Moved(p, "failed"))
    /\ UNCHANGED <<schema, ledger, rows, lost, chosen>>

Exit(p) ==
    /\ proc[p].pc \in {"done", "failed"}
    /\ Goto(p, Idle)
    /\ UNCHANGED <<schema, ledger, rows, lost, chosen>>

Next ==
    \E p \in Procs :
        \/ \E cmd \in Commands[p] : Launch(p, cmd)
        \/ Open(p) \/ Migrate(p) \/ MigrateConflict(p)
        \/ \E s \in Collectors : Register(p, s)
        \/ Answer(p) \/ SourceAdd(p) \/ SourceSwitch(p) \/ Update(p)
        \/ CreateFile(p) \/ WriteRecord(p) \/ FinishExport(p)
        \/ Fail(p) \/ Exit(p)

Spec == Init /\ [][Next]_vars
-----------------------------------------------------------------------------
(* A source an operator has enabled or disabled stays so, and a source's   *)
(* validators stay, although every start of the program registers every    *)
(* built-in source again (register_source's ON CONFLICT clause).           *)
ChoicesKept ==
    /\ \A n \in Names : chosen[n] # None => rows[n].enabled = chosen[n]
    /\ \A p \in Procs : At(p, "done") /\ Told(p, "update") =>
          \A n \in proc[p].left \cap Conditional : rows[n].cached

(* A command finds a row for every built-in source, whichever process made *)
(* it, so no update or run record has to create one (resolve_source).      *)
SourcesThere ==
    \A p \in Procs : Ready(p) => schema /\ \A s \in Collectors : rows[s] # None

(* Of processes that migrate a new vault at the same time all but one      *)
(* fail, but none fails twice: the next attempt finds the migration done.  *)
LoserRecovers == \A p \in Procs : lost[p] <= 1

Exported(p) == At(p, "done") /\ Told(p, "export")

(* "exported n records" is true of a CSV file.  In the other formats only  *)
(* the last buffer's worth of it can be missing.                           *)
ExportTruthful ==
    \A p \in Procs : Exported(p) =>
        \/ proc[p].file = Records
        \/ /\ proc[p].cmd.format # "csv"
           /\ proc[p].room = 0 /\ Records - proc[p].file <= BufferSize

(* What the doc of export() says: "serialize the matching records in       *)
(* `format` to `w`, and return the number of records written".             *)
ExportedIsWritten == \A p \in Procs : Exported(p) => proc[p].file = Records
=============================================================================
