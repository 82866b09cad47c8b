------------------------- MODULE CommandLineProofs -------------------------
(***************************************************************************)
(* Proofs about CommandLine, for any processes, commands, collectors and   *)
(* sizes.  IInv is the inductive invariant: besides the types it says that *)
(* the tables and the ledger appear together, that a row an operator chose *)
(* to switch is there, and of each process what it knows of the sources    *)
(* and of its file (PInv).                                                 *)
(***************************************************************************)
EXTENDS CommandLine, TLAPS

AllCommands == UNION {Commands[p] : p \in Procs}
Keys == {None} \cup {cmd.env : cmd \in AllCommands}
               \cup {cmd.config : cmd \in AllCommands}
Calls == [pc : {"idle", "open", "migrate", "register", "write", "done", "failed"},
          cmd : {None} \cup AllCommands, left : SUBSET Collectors, key : Keys,
          sent : Nat, held : Nat, file : Int, room : Int]

TypeOK ==
    /\ schema \in BOOLEAN
    /\ ledger = schema
    /\ rows \in [Names -> Rows \cup {None}]
    /\ proc \in [Procs -> Calls]
    /\ lost \in [Procs -> {0, 1}]
    /\ chosen \in [Names -> BOOLEAN \cup {None}]

(* What a process c has done so far, for the rows rs and the schema sch.   *)
Begun(c, sch) ==
    /\ c.pc \in {"open", "migrate", "register"} =>
          c.sent = 0 /\ c.held = 0 /\ c.file = 0
    /\ c.pc \in {"open", "migrate"} => c.left = Collectors
    /\ c.pc = "register" => sch

Known(c, rs) ==
    c.pc = "register" =>
        \A s \in Collectors \ c.left : rs[s] # None

Fetched(c, rs) ==
    c.pc = "done" /\ c.cmd.kind = "update" =>
        \A s \in c.left : /\ rs[s] # None
                          /\ s \in Conditional => rs[s].cached

Written(c) ==
    /\ c.pc = "write" =>
          /\ c.cmd.kind = "export"
          /\ c.file + c.held = c.sent /\ c.sent <= Records
          /\ c.held <= BufferSize /\ c.room >= 0
    /\ c.pc = "done" /\ c.cmd.kind = "export" =>
          \/ c.file = Records
          \/ c.cmd.format # "csv" /\ c.room = 0 /\ Records - c.file <= BufferSize

PInv(p, c, rs, sch) ==
    /\ c.pc # "idle" => c.cmd \in Commands[p]
    /\ Begun(c, sch) /\ Known(c, rs) /\ Fetched(c, rs) /\ Written(c)

IInv ==
    /\ TypeOK
    /\ \A n \in Names : chosen[n] # None =>
          rows[n] # None /\ rows[n].enabled = chosen[n]
    /\ \A p \in Procs : lost[p] = 1 => schema /\ ~At(p, "migrate")
    /\ \A p \in Procs : PInv(p, proc[p], rows, schema)
-----------------------------------------------------------------------------
(* A step may add rows, refetch them and register them again; what the     *)
(* processes know stays true.                                              *)
Kept(rs, rs2) ==
    \A s \in Names : rs[s] # None =>
        /\ rs2[s] # None
        /\ s \in Conditional /\ rs[s].cached => rs2[s].cached

LEMMA PInvKept ==
    ASSUME NEW p \in Procs, NEW c \in Calls, NEW rs, NEW rs2, Kept(rs, rs2),
           NEW sch \in BOOLEAN, NEW sch2 \in BOOLEAN, sch => sch2,
           PInv(p, c, rs, sch)
    PROVE  PInv(p, c, rs2, sch2)
<1>1. c.left \subseteq Names /\ Collectors \subseteq Names
    BY NamesAssumption DEF Calls
<1>2. Begun(c, sch2)
    BY DEF PInv, Begun
<1>3. Known(c, rs2)
    BY <1>1 DEF PInv, Known, Kept
<1>4. Fetched(c, rs2)
    BY <1>1 DEF PInv, Fetched, Kept
<1> QED
    BY <1>2, <1>3, <1>4 DEF PInv

(* A step of one process.                                                  *)
LEMMA ProcessStep ==
    ASSUME IInv, NEW p \in Procs, NEW c \in Calls, Goto(p, c),
           schema' \in BOOLEAN, ledger' = schema', schema => schema',
           rows' \in [Names -> Rows \cup {None}], Kept(rows, rows'),
           lost' \in [Procs -> {0, 1}],
           \A q \in Procs : q # p => lost'[q] = lost[q],
           lost'[p] = 1 => schema' /\ c.pc # "migrate",
           chosen' \in [Names -> BOOLEAN \cup {None}],
           \A n \in Names : chosen'[n] # None =>
              rows'[n] # None /\ rows'[n].enabled = chosen'[n],
           PInv(p, c, rows', schema')
    PROVE  IInv'
<1>1. proc'[p] = c /\ \A q \in Procs : q # p => proc'[q] = proc[q]
    BY DEF Goto, IInv, TypeOK
<1>2. TypeOK'
    BY DEF IInv, TypeOK, Goto
<1>3. ASSUME NEW q \in Procs PROVE PInv(q, proc'[q], rows', schema')
    <2>1. CASE q = p
        BY <1>1, <2>1
    <2>2. CASE q # p
        BY <1>1, <2>2, PInvKept DEF IInv, TypeOK
    <2> QED BY <2>1, <2>2
<1>4. ASSUME NEW q \in Procs, lost'[q] = 1 PROVE schema' /\ proc'[q].pc # "migrate"
    BY <1>1, <1>4 DEF IInv, At
<1> QED
    BY <1>2, <1>3, <1>4 DEF IInv, At

(* The same, of a step that changes nothing but the process.               *)
LEMMA QuietStep ==
    ASSUME IInv, NEW p \in Procs, NEW c \in Calls, Goto(p, c),
           UNCHANGED <<schema, ledger, rows, lost, chosen>>,
           lost[p] = 1 => c.pc # "migrate",
           PInv(p, c, rows, schema)
    PROVE  IInv'
<1>1. Kept(rows, rows)
    BY DEF Kept
<1> QED
    BY <1>1, ProcessStep DEF IInv, TypeOK
-----------------------------------------------------------------------------
LEMMA IdleOK ==
    ASSUME NEW p \in Procs, NEW rs, NEW sch \in BOOLEAN
    PROVE  Idle \in Calls /\ Idle.pc = "idle" /\ PInv(p, Idle, rs, sch)
BY DEF Idle, Calls, Keys, PInv, Begun, Known, Fetched, Written

LEMMA InitInvariant == Init => IInv
<1> SUFFICES ASSUME Init PROVE IInv
    OBVIOUS
<1>1. TypeOK
    BY IdleOK DEF Init, TypeOK
<1>2. \A p \in Procs : proc[p] = Idle /\ lost[p] = 0
    BY DEF Init
<1>3. \A n \in Names : chosen[n] = None
    BY DEF Init
<1> QED
    BY <1>1, <1>2, <1>3, IdleOK DEF IInv, TypeOK

(* What is known of a process that is somewhere.                           *)
LEMMA Here ==
    ASSUME IInv, NEW p \in Procs
    PROVE  /\ proc[p] \in Calls /\ PInv(p, proc[p], rows, schema)
           /\ ~At(p, "idle") => proc[p].cmd \in Commands[p]
           /\ schema \in BOOLEAN /\ ledger = schema
           /\ lost[p] \in {0, 1}
BY DEF IInv, TypeOK, PInv, At

(* Found by a command that is about to begin.                              *)
LEMMA ReadyHas ==
    ASSUME IInv, NEW p \in Procs, Ready(p)
    PROVE  /\ proc[p].pc = "register" /\ proc[p].cmd \in Commands[p] /\ schema
           /\ proc[p].sent = 0 /\ proc[p].held = 0 /\ proc[p].file = 0
           /\ \A s \in Collectors : rows[s] # None
BY Here DEF Ready, At, PInv, Begun, Known

LEMMA LaunchInvariant ==
    ASSUME IInv, NEW p \in Procs, NEW cmd \in Commands[p], Launch(p, cmd)
    PROVE  IInv'
<1> DEFINE c == [Idle EXCEPT !.pc = "open", !.cmd = cmd, !.left = Collectors,
                             !.key = AuthKey(cmd.env, cmd.config)]
<1>1. cmd \in AllCommands
    BY DEF AllCommands
<1>2. AuthKey(cmd.env, cmd.config) \in Keys
    BY <1>1 DEF AuthKey, ConfigKey, Keys
<1>3. c \in Calls
    <2> DEFINE key == AuthKey(cmd.env, cmd.config)
    <2>1. key \in Keys
        BY <1>2
    <2> HIDE DEF key
    <2>2. [Idle EXCEPT !.pc = "open", !.cmd = cmd, !.left = Collectors, !.key = key] \in Calls
        BY <1>1, <2>1, IdleOK DEF Calls
    <2> QED
        BY <2>2 DEF key
<1>4. PInv(p, c, rows, schema)
    BY DEF Idle, PInv, Begun, Known, Fetched, Written
<1>5. c.pc # "migrate" /\ Goto(p, c)
    BY DEF Idle, Launch
<1> HIDE DEF c
<1> QED
    BY <1>3, <1>4, <1>5, QuietStep DEF Launch

(* A process moves on and keeps the rest.                                  *)
LEMMA MovedIs ==
    ASSUME IInv, NEW p \in Procs,
           NEW pc \in {"idle", "open", "migrate", "register", "write", "done", "failed"}
    PROVE  /\ Moved(p, pc) \in Calls
           /\ Moved(p, pc).pc = pc
           /\ Moved(p, pc).cmd = proc[p].cmd /\ Moved(p, pc).key = proc[p].key
           /\ Moved(p, pc).left = proc[p].left
           /\ Moved(p, pc).sent = proc[p].sent /\ Moved(p, pc).held = proc[p].held
           /\ Moved(p, pc).file = proc[p].file /\ Moved(p, pc).room = proc[p].room
BY Here DEF Moved, Calls

LEMMA OpenInvariant ==
    ASSUME IInv, NEW p \in Procs, Open(p)
    PROVE  IInv'
<1> DEFINE pc == IF ledger THEN "register" ELSE "migrate"
           c  == Moved(p, pc)
<1>1. /\ proc[p].pc = "open" /\ Goto(p, c)
      /\ UNCHANGED <<schema, ledger, rows, lost, chosen>>
    BY DEF Open, At
<1>2. /\ c \in Calls /\ c.pc = pc /\ c.cmd = proc[p].cmd
      /\ c.left = proc[p].left
      /\ c.sent = proc[p].sent /\ c.held = proc[p].held /\ c.file = proc[p].file
    BY MovedIs
<1> HIDE DEF c
<1>3. PInv(p, c, rows, schema)
    BY <1>1, <1>2, Here DEF PInv, Begun, Known, Fetched, Written
<1>4. lost[p] = 1 => c.pc # "migrate"
    BY <1>2 DEF IInv, TypeOK
<1> QED
    BY <1>1, <1>2, <1>3, <1>4, QuietStep

LEMMA MigrateInvariant ==
    ASSUME IInv, NEW p \in Procs, Migrate(p)
    PROVE  IInv'
<1> DEFINE c == Moved(p, "register")
<1>1. /\ proc[p].pc = "migrate" /\ Goto(p, c) /\ schema' = TRUE /\ ledger' = TRUE
      /\ UNCHANGED <<rows, lost, chosen>>
    BY DEF Migrate, At
<1>2. /\ c \in Calls /\ c.pc = "register" /\ c.cmd = proc[p].cmd
      /\ c.left = proc[p].left
      /\ c.sent = proc[p].sent /\ c.held = proc[p].held /\ c.file = proc[p].file
    BY MovedIs
<1> HIDE DEF c
<1>3. PInv(p, c, rows', schema')
    BY <1>1, <1>2, Here DEF PInv, Begun, Known, Fetched, Written
<1>4. Kept(rows, rows')
    BY <1>1 DEF Kept
<1> QED
    BY <1>1, <1>2, <1>3, <1>4, ProcessStep DEF IInv, TypeOK

LEMMA MigrateConflictInvariant ==
    ASSUME IInv, NEW p \in Procs, MigrateConflict(p)
    PROVE  IInv'
<1> DEFINE c == Moved(p, "failed")
<1>1. /\ proc[p].pc = "migrate" /\ Goto(p, c) /\ schema
      /\ lost' = [lost EXCEPT ![p] = lost[p] + 1]
      /\ UNCHANGED <<schema, ledger, rows, chosen>>
    BY DEF MigrateConflict, At
<1>2. c \in Calls /\ c.pc = "failed" /\ c.cmd = proc[p].cmd
    BY MovedIs
<1> HIDE DEF c
<1>3. PInv(p, c, rows', schema')
    BY <1>1, <1>2, Here DEF PInv, Begun, Known, Fetched, Written
<1>4. Kept(rows, rows')
    BY <1>1 DEF Kept
<1>5. lost[p] = 0 /\ lost \in [Procs -> {0, 1}]
    BY <1>1 DEF IInv, TypeOK, At
<1>6. lost' \in [Procs -> {0, 1}] /\ \A q \in Procs : q # p => lost'[q] = lost[q]
    BY <1>1, <1>5
<1> QED
    BY <1>1, <1>2, <1>3, <1>4, <1>6, ProcessStep DEF IInv, TypeOK

(* What register_source() leaves of a row.                                 *)
LEMMA RegisteredIs ==
    ASSUME NEW row \in Rows \cup {None}, NEW conf \in Nat
    PROVE  /\ Registered(row, conf) \in Rows /\ Registered(row, conf) # None
           /\ Registered(row, conf).conf = conf
           /\ row # None => /\ Registered(row, conf).enabled = row.enabled
                            /\ Registered(row, conf).cached = row.cached
<1>1. Registered(row, conf) \in Rows
    BY DEF Registered, Rows
<1> QED
    BY <1>1, NoneAssumption DEF Registered, Rows

LEMMA RegisterInvariant ==
    ASSUME IInv, NEW p \in Procs, NEW s \in Collectors, Register(p, s)
    PROVE  IInv'
<1> DEFINE c == [proc[p] EXCEPT !.left = @ \ {s}]
<1>1. /\ proc[p].pc = "register" /\ Goto(p, c)
      /\ rows' = [rows EXCEPT ![s] = Registered(rows[s], DefaultConf[s])]
      /\ UNCHANGED <<schema, ledger, lost, chosen>>
    BY DEF Register, At
<1>2. /\ c \in Calls /\ c.pc = "register" /\ c.cmd = proc[p].cmd
      /\ c.left = proc[p].left \ {s}
      /\ c.sent = proc[p].sent /\ c.held = proc[p].held /\ c.file = proc[p].file
    BY <1>1, Here DEF Calls
<1> HIDE DEF c
<1>3. s \in Names /\ Collectors \subseteq Names /\ DefaultConf[s] \in Nat
    BY NamesAssumption, ConfAssumption
<1>4. /\ rows' \in [Names -> Rows \cup {None}]
      /\ rows'[s] # None /\ rows'[s].conf = DefaultConf[s]
      /\ rows[s] # None => /\ rows'[s].enabled = rows[s].enabled
                           /\ rows'[s].cached = rows[s].cached
      /\ \A n \in Names : n # s => rows'[n] = rows[n]
    BY <1>1, <1>3, RegisteredIs DEF IInv, TypeOK
<1>5. Kept(rows, rows')
    BY <1>3, <1>4 DEF Kept
<1>6. Known(c, rows')
    <2>1. Known(proc[p], rows)
        BY Here DEF PInv
    <2> QED
        BY <1>1, <1>2, <1>3, <1>4, <2>1 DEF Known
<1>7. PInv(p, c, rows', schema')
    BY <1>1, <1>2, <1>6, Here DEF PInv, Begun, Fetched, Written
<1>8. \A n \in Names : chosen'[n] # None =>
          rows'[n] # None /\ rows'[n].enabled = chosen'[n]
    BY <1>1, <1>4 DEF IInv
<1> QED
    BY <1>1, <1>2, <1>4, <1>5, <1>7, <1>8, ProcessStep DEF IInv, TypeOK
-----------------------------------------------------------------------------
(* The commands.                                                           *)

LEMMA AnswerInvariant ==
    ASSUME IInv, NEW p \in Procs, Answer(p)
    PROVE  IInv'
<1> DEFINE c == Moved(p, "done")
<1>1. /\ proc[p].cmd.kind = "read" /\ Goto(p, c) /\ ~At(p, "idle")
      /\ UNCHANGED <<schema, ledger, rows, lost, chosen>>
    BY DEF Answer, Ready, Told, At
<1>2. c \in Calls /\ c.pc = "done" /\ c.cmd = proc[p].cmd
    BY MovedIs
<1> HIDE DEF c
<1>3. PInv(p, c, rows, schema)
    BY <1>1, <1>2, Here DEF PInv, Begun, Known, Fetched, Written
<1> QED
    BY <1>1, <1>2, <1>3, QuietStep

LEMMA SourceAddInvariant ==
    ASSUME IInv, NEW p \in Procs, SourceAdd(p)
    PROVE  IInv'
<1> DEFINE n == proc[p].cmd.name
           conf == proc[p].cmd.conf
           c == Moved(p, "done")
<1>1. /\ proc[p].pc = "register" /\ proc[p].cmd.kind = "add"
      /\ rows' = [rows EXCEPT ![n] = Registered(rows[n], conf)]
      /\ Goto(p, c)
      /\ UNCHANGED <<schema, ledger, lost, chosen>>
    BY DEF SourceAdd, Ready, Told, At
<1>2. n \in Names /\ conf \in Nat
    BY <1>1, Here, CommandsAssumption DEF At
<1>3. c \in Calls /\ c.pc = "done" /\ c.cmd = proc[p].cmd
    BY MovedIs
<1> HIDE DEF c, n, conf
<1>4. /\ rows' \in [Names -> Rows \cup {None}] /\ rows'[n] # None
      /\ rows[n] # None => /\ rows'[n].enabled = rows[n].enabled
                           /\ rows'[n].cached = rows[n].cached
      /\ \A m \in Names : m # n => rows'[m] = rows[m]
    BY <1>1, <1>2, RegisteredIs DEF IInv, TypeOK
<1>5. Kept(rows, rows')
    BY <1>4 DEF Kept
<1>6. \A m \in Names : chosen'[m] # None =>
          rows'[m] # None /\ rows'[m].enabled = chosen'[m]
    BY <1>1, <1>4 DEF IInv
<1>7. PInv(p, c, rows', schema')
    BY <1>1, <1>3, Here DEF PInv, Begun, Known, Fetched, Written
<1> QED
    BY <1>1, <1>3, <1>4, <1>5, <1>6, <1>7, ProcessStep DEF IInv, TypeOK

LEMMA SourceSwitchInvariant ==
    ASSUME IInv, NEW p \in Procs, SourceSwitch(p)
    PROVE  IInv'
<1> DEFINE n == proc[p].cmd.name
           on == Told(p, "enable")
           c == Moved(p, "done")
<1>1. /\ proc[p].pc = "register" /\ proc[p].cmd.kind \in {"enable", "disable"}
      /\ IF rows[n] = None THEN UNCHANGED <<rows, chosen>>
         ELSE /\ rows' = [rows EXCEPT ![n].enabled = on]
              /\ chosen' = [chosen EXCEPT ![n] = on]
      /\ Goto(p, c)
      /\ UNCHANGED <<schema, ledger, lost>>
    BY DEF SourceSwitch, Ready, At
<1>2. n \in Names
    BY <1>1, Here, CommandsAssumption DEF At
<1>3. c \in Calls /\ c.pc = "done" /\ c.cmd = proc[p].cmd
    BY MovedIs
<1>4. on \in BOOLEAN
    BY DEF Told
<1> HIDE DEF c, n, on
<1>5. /\ rows' \in [Names -> Rows \cup {None}]
      /\ \A m \in Names : rows[m] # None =>
            /\ rows'[m] # None
            /\ rows'[m].conf = rows[m].conf /\ rows'[m].cached = rows[m].cached
            /\ rows'[m].enabled = IF m = n THEN on ELSE rows[m].enabled
    <2>1. CASE rows[n] = None
        BY <1>1, <2>1 DEF IInv, TypeOK
    <2>2. CASE rows[n] # None
        <3>1. rows[n] \in Rows
            BY <1>2, <2>2 DEF IInv, TypeOK
        <3> DEFINE r == [rows[n] EXCEPT !.enabled = on]
        <3>2. /\ r \in Rows /\ r.conf = rows[n].conf /\ r.cached = rows[n].cached
              /\ r.enabled = on
            BY <1>4, <3>1 DEF Rows
        <3>3. rows' = [rows EXCEPT ![n] = r]
            BY <1>1, <2>2
        <3> HIDE DEF r
        <3>4. rows' \in [Names -> Rows \cup {None}]
            BY <1>2, <3>2, <3>3 DEF IInv, TypeOK
        <3>5. ASSUME NEW m \in Names, rows[m] # None
              PROVE  /\ rows'[m] # None
                     /\ rows'[m].conf = rows[m].conf /\ rows'[m].cached = rows[m].cached
                     /\ rows'[m].enabled = IF m = n THEN on ELSE rows[m].enabled
            BY <1>2, <3>2, <3>3, <3>5, NoneAssumption DEF IInv, TypeOK
        <3> QED BY <3>4, <3>5
    <2> QED BY <2>1, <2>2
<1>6. Kept(rows, rows')
    BY <1>5 DEF Kept
<1>7. /\ chosen' \in [Names -> BOOLEAN \cup {None}]
      /\ \A m \in Names : chosen'[m] # None =>
            rows'[m] # None /\ rows'[m].enabled = chosen'[m]
    <2>1. CASE rows[n] = None
        BY <1>1, <2>1 DEF IInv, TypeOK
    <2>2. CASE rows[n] # None
        BY <1>1, <1>2, <1>4, <1>5, <2>2 DEF IInv, TypeOK
    <2> QED BY <2>1, <2>2
<1>8. PInv(p, c, rows', schema')
    BY <1>1, <1>3, Here DEF PInv, Begun, Known, Fetched, Written
<1> QED
    BY <1>1, <1>3, <1>5, <1>6, <1>7, <1>8, ProcessStep DEF IInv, TypeOK

LEMMA UpdateInvariant ==
    ASSUME IInv, NEW p \in Procs, Update(p)
    PROVE  IInv'
<1>1. PICK fetched \in SUBSET Collectors, pc \in {"done", "failed"} :
        /\ rows' = [m \in Names |-> IF m \in fetched
                                   THEN [rows[m] EXCEPT !.cached = m \in Conditional]
                                   ELSE rows[m]]
        /\ Goto(p, [proc[p] EXCEPT !.pc = pc, !.left = fetched])
    BY DEF Update
<1> DEFINE c == [proc[p] EXCEPT !.pc = pc, !.left = fetched]
<1>2. /\ proc[p].pc = "register" /\ proc[p].cmd.kind = "update"
      /\ UNCHANGED <<schema, ledger, lost, chosen>>
    BY DEF Update, Ready, Told, At
<1>3. \A s \in Collectors : rows[s] # None
    BY ReadyHas DEF Update
<1>4. /\ c \in Calls /\ c.pc = pc /\ c.cmd = proc[p].cmd
      /\ c.left = fetched
    BY Here DEF Calls
<1> HIDE DEF c
<1>5. ASSUME NEW m \in Names
      PROVE  /\ rows'[m] \in Rows \cup {None}
             /\ rows[m] # None =>
                   /\ rows'[m] # None /\ rows'[m].conf = rows[m].conf
                   /\ rows'[m].enabled = rows[m].enabled
                   /\ m \in Conditional =>
                         rows'[m].cached = (m \in fetched \/ rows[m].cached)
    <2>1. CASE m \in fetched
        <3>1. rows[m] \in Rows
            BY <1>3, <2>1 DEF IInv, TypeOK
        <3>2. rows'[m] = [rows[m] EXCEPT !.cached = m \in Conditional]
            BY <1>1, <2>1
        <3> DEFINE b == m \in Conditional
        <3>3. b \in BOOLEAN /\ rows'[m] = [rows[m] EXCEPT !.cached = b]
            BY <3>2
        <3> HIDE DEF b
        <3>4. rows'[m] \in Rows /\ rows'[m].conf = rows[m].conf
              /\ rows'[m].enabled = rows[m].enabled /\ rows'[m].cached = b
            BY <3>1, <3>3 DEF Rows
        <3>5. rows'[m] # None
            BY <3>4, NoneAssumption
        <3> QED BY <2>1, <3>4, <3>5 DEF b
    <2>2. CASE m \notin fetched
        <3>1. rows'[m] = rows[m] /\ rows[m] \in Rows \cup {None}
            BY <1>1, <2>2 DEF IInv, TypeOK
        <3>2. rows[m] # None => rows[m].cached \in BOOLEAN
            BY <3>1 DEF Rows
        <3> QED BY <2>2, <3>1, <3>2
    <2> QED BY <2>1, <2>2
<1>6. rows' \in [Names -> Rows \cup {None}]
    <2>1. rows' = [m \in Names |-> rows'[m]]
        BY <1>1
    <2> QED BY <1>5, <2>1
<1>7. Kept(rows, rows')
    BY <1>5 DEF Kept
<1>8. \A n \in Names : chosen'[n] # None =>
          rows'[n] # None /\ rows'[n].enabled = chosen'[n]
    BY <1>2, <1>5 DEF IInv
<1>9. Fetched(c, rows')
    BY <1>3, <1>4, <1>5, NamesAssumption DEF Fetched
<1>10. PInv(p, c, rows', schema')
    BY <1>2, <1>4, <1>9, Here DEF PInv, Begun, Known, Written
<1>11. Goto(p, c)
    BY <1>1 DEF c
<1> QED
    BY <1>2, <1>4, <1>6, <1>7, <1>8, <1>10, <1>11, ProcessStep DEF IInv, TypeOK
-----------------------------------------------------------------------------
(* The export.                                                             *)

LEMMA CreateFileInvariant ==
    ASSUME IInv, NEW p \in Procs, CreateFile(p)
    PROVE  IInv'
<1>1. PICK room \in 0 .. DiskSpace :
          Goto(p, [proc[p] EXCEPT !.pc = "write", !.room = room])
    BY DEF CreateFile
<1> DEFINE c == [proc[p] EXCEPT !.pc = "write", !.room = room]
<1>2. /\ proc[p].cmd.kind = "export" /\ ~At(p, "idle")
      /\ UNCHANGED <<schema, ledger, rows, lost, chosen>>
    BY DEF CreateFile, Ready, Told, At
<1>3. proc[p].sent = 0 /\ proc[p].held = 0 /\ proc[p].file = 0
    BY ReadyHas DEF CreateFile
<1>4. room \in Int /\ room >= 0
    BY BoundsAssumption
<1>5. /\ c \in Calls /\ c.pc = "write" /\ c.cmd = proc[p].cmd
      /\ c.sent = proc[p].sent /\ c.held = proc[p].held /\ c.file = proc[p].file
      /\ c.room = room
    BY <1>4, Here DEF Calls
<1>6. Goto(p, c)
    BY <1>1
<1> HIDE DEF c
<1>7. Written(c)
    BY <1>2, <1>3, <1>4, <1>5, BufferAssumption, BoundsAssumption DEF Written
<1>8. PInv(p, c, rows, schema)
    BY <1>2, <1>5, <1>7, Here DEF PInv, Begun, Known, Fetched
<1> QED
    BY <1>2, <1>5, <1>6, <1>8, QuietStep

(* What a process is that has spilled its buffer.                          *)
LEMMA SpilledIs ==
    ASSUME NEW r \in Calls, NEW n \in Int
    PROVE  /\ Spilled(r, n) \in Calls /\ Spilled(r, n).pc = r.pc
           /\ Spilled(r, n).cmd = r.cmd /\ Spilled(r, n).key = r.key
           /\ Spilled(r, n).sent = r.sent /\ Spilled(r, n).held = 0
           /\ Spilled(r, n).file = r.file + n /\ Spilled(r, n).room = r.room - n
<1> DEFINE file == r.file + n
           room == r.room - n
           q    == [r EXCEPT !.file = file, !.room = room, !.held = 0]
<1>1. file \in Int /\ room \in Int
    BY DEF Calls
<1>2. Spilled(r, n) = q
    BY DEF Spilled
<1> HIDE DEF file, room
<1>3. /\ q \in Calls /\ q.pc = r.pc /\ q.cmd = r.cmd
      /\ q.sent = r.sent /\ q.held = 0 /\ q.file = file /\ q.room = room
    BY <1>1 DEF Calls
<1> QED
    BY <1>2, <1>3 DEF file, room

LEMMA WriteRecordInvariant ==
    ASSUME IInv, NEW p \in Procs, WriteRecord(p)
    PROVE  IInv'
<1> DEFINE r == IF proc[p].held < BufferSize THEN proc[p]
                ELSE Spilled(proc[p], proc[p].held)
           bad  == [Spilled(proc[p], proc[p].room) EXCEPT !.pc = "failed"]
           good == [r EXCEPT !.sent = @ + 1, !.held = @ + 1]
<1>1. /\ proc[p].pc = "write" /\ proc[p].sent < Records
      /\ Goto(p, IF r.room < 0 THEN bad ELSE good)
      /\ UNCHANGED <<schema, ledger, rows, lost, chosen>>
    BY DEF WriteRecord, At
<1>2. /\ proc[p] \in Calls /\ Written(proc[p])
      /\ proc[p].cmd \in Commands[p]
    BY <1>1, Here DEF PInv, At
<1>3. CASE r.room < 0
    <2>1. bad \in Calls /\ bad.pc = "failed" /\ bad.cmd = proc[p].cmd
        BY <1>2, SpilledIs DEF Calls
    <2>2. Goto(p, bad)
        BY <1>1, <1>3
    <2> HIDE DEF bad
    <2>3. PInv(p, bad, rows, schema)
        BY <1>2, <2>1 DEF PInv, Begun, Known, Fetched, Written
    <2> QED BY <1>1, <2>1, <2>2, <2>3, QuietStep
<1>4. CASE ~(r.room < 0)
    <2>1. /\ r \in Calls /\ r.pc = "write" /\ r.cmd = proc[p].cmd
          /\ r.sent = proc[p].sent
          /\ r.held < BufferSize /\ r.file + r.held = r.sent /\ r.room \in Int
        <3>1. CASE proc[p].held < BufferSize
            BY <1>1, <1>2, <3>1 DEF Written, Calls
        <3>2. CASE ~(proc[p].held < BufferSize)
            <4>1. proc[p].held \in Int /\ r = Spilled(proc[p], proc[p].held)
                BY <1>2, <3>2 DEF Calls
            <4> HIDE DEF r
            <4>2. /\ r \in Calls /\ r.pc = "write" /\ r.cmd = proc[p].cmd
                  /\ r.sent = proc[p].sent /\ r.held = 0
                  /\ r.file = proc[p].file + proc[p].held
                BY <1>1, <1>2, <4>1, SpilledIs
            <4> QED
                BY <1>1, <1>2, <4>2, BufferAssumption DEF Written, Calls
        <3> QED BY <3>1, <3>2
    <2> HIDE DEF r
    <2>2. /\ good \in Calls /\ good.pc = "write" /\ good.cmd = proc[p].cmd
          /\ good.sent = r.sent + 1 /\ good.held = r.held + 1
          /\ good.file = r.file /\ good.room = r.room
        <3> DEFINE sent == r.sent + 1
                   held == r.held + 1
        <3>1. sent \in Nat /\ held \in Nat /\ good = [r EXCEPT !.sent = sent, !.held = held]
            BY <2>1 DEF Calls
        <3> HIDE DEF sent, held, good
        <3>2. /\ good \in Calls /\ good.pc = "write" /\ good.cmd = proc[p].cmd
              /\ good.sent = sent /\ good.held = held
              /\ good.file = r.file /\ good.room = r.room
            BY <2>1, <3>1 DEF Calls
        <3> QED BY <3>2 DEF sent, held
    <2>3. Goto(p, good)
        BY <1>1, <1>4
    <2> HIDE DEF good
    <2>4. Written(good)
        BY <1>1, <1>2, <1>4, <2>1, <2>2, BufferAssumption, BoundsAssumption DEF Written, Calls
    <2>5. PInv(p, good, rows, schema)
        BY <1>2, <2>2, <2>4 DEF PInv, Begun, Known, Fetched
    <2> QED BY <1>1, <2>2, <2>3, <2>5, QuietStep
<1> QED BY <1>3, <1>4

LEMMA FinishExportInvariant ==
    ASSUME IInv, NEW p \in Procs, FinishExport(p)
    PROVE  IInv'
<1> DEFINE r    == proc[p]
           fits == IF r.held <= r.room THEN r.held ELSE r.room
           pc   == IF fits < r.held /\ Flushes(r.cmd.format) THEN "failed" ELSE "done"
           d    == Spilled(r, fits)
           c    == [d EXCEPT !.pc = pc]
<1>1. /\ r.pc = "write" /\ r.sent = Records /\ Goto(p, c)
      /\ UNCHANGED <<schema, ledger, rows, lost, chosen>>
    BY DEF FinishExport, At
<1>2. r \in Calls /\ Written(r) /\ r.cmd \in Commands[p] /\ fits \in Int
    BY <1>1, Here DEF PInv, At, Calls
<1>3. /\ d \in Calls /\ d.cmd = r.cmd
      /\ d.file = r.file + fits /\ d.room = r.room - fits
    BY <1>2, SpilledIs
<1> HIDE DEF d
<1>4. /\ c \in Calls /\ c.pc = pc /\ c.cmd = r.cmd
      /\ c.file = r.file + fits /\ c.room = r.room - fits
    BY <1>3 DEF Calls
<1> HIDE DEF c
<1>5. Written(c)
    BY <1>1, <1>2, <1>4, BufferAssumption, BoundsAssumption DEF Written, Calls, Flushes
<1>6. PInv(p, c, rows, schema)
    <2>1. ~(pc = "done" /\ r.cmd.kind = "update")
        BY <1>1, <1>2 DEF Written
    <2> QED
        BY <1>2, <1>4, <1>5, <2>1 DEF PInv, Begun, Known, Fetched
<1> QED BY <1>1, <1>4, <1>6, QuietStep

LEMMA FailInvariant ==
    ASSUME IInv, NEW p \in Procs, Fail(p)
    PROVE  IInv'
<1> DEFINE c == Moved(p, "failed")
<1>1. /\ Goto(p, c) /\ ~At(p, "idle")
      /\ UNCHANGED <<schema, ledger, rows, lost, chosen>>
    BY DEF Fail, At
<1>2. c \in Calls /\ c.pc = "failed" /\ c.cmd = proc[p].cmd
    BY MovedIs
<1> HIDE DEF c
<1>3. PInv(p, c, rows, schema)
    BY <1>1, <1>2, Here DEF PInv, Begun, Known, Fetched, Written
<1> QED BY <1>1, <1>2, <1>3, QuietStep

LEMMA ExitInvariant ==
    ASSUME IInv, NEW p \in Procs, Exit(p)
    PROVE  IInv'
BY IdleOK, QuietStep DEF Exit, IInv, TypeOK
-----------------------------------------------------------------------------
LEMMA NextInvariant == IInv /\ [Next]_vars => IInv'
<1> SUFFICES ASSUME IInv, [Next]_vars PROVE IInv'
    OBVIOUS
<1>1. CASE UNCHANGED vars
    BY <1>1 DEF vars, IInv, TypeOK, At
<1>2. CASE Next
    <2>1. PICK p \in Procs :
            \/ \E cmd \in Commands[p] : Launch(p, cmd)
            \/ Open(p) \/ Migrate(p) \/ MigrateConflict(p)
            \/ \E s \in Collectors : Register(p, s)
            \/ Answer(p) \/ SourceAdd(p) \/ SourceSwitch(p) \/ Update(p)
            \/ CreateFile(p) \/ WriteRecord(p) \/ FinishExport(p)
            \/ Fail(p) \/ Exit(p)
        BY <1>2 DEF Next
    <2> QED
        BY <2>1, LaunchInvariant, OpenInvariant, MigrateInvariant,
           MigrateConflictInvariant, RegisterInvariant, AnswerInvariant,
           SourceAddInvariant, SourceSwitchInvariant, UpdateInvariant,
           CreateFileInvariant, WriteRecordInvariant, FinishExportInvariant,
           FailInvariant, ExitInvariant
<1> QED BY <1>1, <1>2

(* What a process knows of the sources and its file stays true,            *)
(* whatever other processes do, fail to do or leave half done (build() and *)
(* the commands of main()).                                                *)
THEOREM Inductive == Spec => []IInv
BY InitInvariant, NextInvariant, PTL DEF Spec

(* What an operator set with `source enable` or `disable`, and the         *)
(* validators of a finished update, outlive every later register_source(). *)
THEOREM ChoicesAlwaysKept == Spec => []ChoicesKept
<1>1. IInv => ChoicesKept
    BY DEF IInv, ChoicesKept, PInv, Fetched, At, Told
<1> QED BY Inductive, <1>1, PTL

(* When build() is done every built-in source has a row, so that           *)
(* resolve_source() need not create one.                                   *)
THEOREM SourcesAlwaysThere == Spec => []SourcesThere
<1>1. IInv => SourcesThere
    BY ReadyHas DEF SourcesThere
<1> QED BY Inductive, <1>1, PTL

(* No process loses the race of migrate() a second time.                   *)
THEOREM LosersRecover == Spec => []LoserRecovers
<1>1. ASSUME IInv, NEW p \in Procs PROVE lost[p] <= 1
    <2>1. lost[p] \in {0, 1}
        BY <1>1, Here
    <2> QED BY <2>1
<1>2. IInv => LoserRecovers
    BY <1>1 DEF LoserRecovers
<1> QED BY Inductive, <1>2, PTL

(* An export of CSV that reports success is complete, and one of another   *)
(* format lacks at most what one BufWriter holds, however much of it there *)
(* is and however little room on the disk.                                 *)
THEOREM ExportsTruthful == Spec => []ExportTruthful
<1>1. IInv => ExportTruthful
    BY DEF IInv, ExportTruthful, Exported, PInv, Written, At, Told
<1> QED BY Inductive, <1>1, PTL
=============================================================================
