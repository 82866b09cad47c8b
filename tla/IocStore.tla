------------------------------ MODULE IocStore ------------------------------
(***************************************************************************)
(* ioc-vault-store as several clients use it at once: tasks that share a   *)
(* pool of connections, or processes that opened the same file.  A client  *)
(* runs one bulk_upsert() or apply_decay() at a time, statement by         *)
(* statement where another client can get in between; the calls that are   *)
(* one statement, or one transaction that starts with a write, are single  *)
(* steps.                                                                  *)
(*                                                                         *)
(* What SQLite in WAL mode does is modelled from how the code uses it:     *)
(*  - `begin` is deferred: the first SELECT of a transaction pins a        *)
(*    snapshot, the first write takes the only write lock;                 *)
(*  - a transaction that has read and then writes is refused at once, with *)
(*    SQLITE_BUSY, if another holds the lock or has committed since;       *)
(*  - a transaction or statement that starts with a write waits for the    *)
(*    lock, and is refused when the busy timeout runs out;                 *)
(*  - a transaction that is dropped before its commit changes nothing.     *)
(***************************************************************************)
EXTENDS IocTables, FiniteSets

CONSTANTS
    Clients,     \* tasks or processes with a connection of their own
    Batches,     \* the batches of indicators callers may upsert
    Defaults,    \* the confidence_defaults sources may be registered with
    MaxTime      \* bound on the clock

ASSUME BatchAssumption == Batches \subseteq Seq(RawIocs)
ASSUME DefaultAssumption == Defaults \subseteq Nat
ASSUME ClientAssumption == None \notin Clients
ASSUME PlanAssumption   == None \notin [Keys -> OrNone(Times)]
ASSUME TimeAssumption  == MaxTime \in Nat

VARIABLES
    sources,     \* table sources: the confidence_default of each, or None
    db,          \* the committed tables
    clock,       \* Utc::now()
    call,        \* what each client is in the middle of
    view,        \* each client's transaction: its snapshot and its writes
    stale,       \* has another client committed since the snapshot?
    writer       \* the holder of the write lock, or None

vars == <<sources, db, clock, call, view, stale, writer>>

AutoCreatedConf == 50   \* confidence_default of an auto-created source

(* `todo` is what bulk_upsert() has left of its batch, added and updated   *)
(* its UpsertStats; `plan` is the rows apply_decay() read, `at` the time   *)
(* the handler last asked for.                                             *)
Idle == [pc |-> "idle", src |-> None, dflt |-> 0, todo |-> <<>>,
         added |-> 0, updated |-> 0, plan |-> None, at |-> 0]

PCs == {"idle",
        "resolve", "create",            \* in resolve_source()
        "begin", "reading", "writing",  \* in the transaction
        "rows", "stamped"}              \* in apply_decay(), before it

Calls == [pc : PCs, src : OrNone(Sources), dflt : Pct, todo : Seq(RawIocs),
          added : Nat, updated : Nat,
          plan : OrNone([Keys -> OrNone(Times)]), at : Times]

TypeOK ==
    /\ sources \in [Sources -> OrNone(Nat)]
    /\ db \in Tables
    /\ clock \in Times
    /\ call \in [Clients -> Calls]
    /\ view \in [Clients -> Tables]
    /\ stale \in [Clients -> BOOLEAN]
    /\ writer \in OrNone(Clients)

Init ==
    /\ sources = [s \in Sources |-> None]
    /\ db = EmptyTables
    /\ clock = 0
    /\ call = [c \in Clients |-> Idle]
    /\ view = [c \in Clients |-> EmptyTables]
    /\ stale = [c \in Clients |-> FALSE]
    /\ writer = None
-----------------------------------------------------------------------------
At(c, pc) == call[c].pc = pc

(* The call of c returns or fails; its transaction, if any, is closed.     *)
Return(c) == /\ call' = [call EXCEPT ![c] = Idle]
             /\ view' = [view EXCEPT ![c] = EmptyTables]

(* A commit, of c's transaction or of a single statement of whoever, makes *)
(* the snapshots of the open read transactions out of date.                *)
Outdate == stale' = [d \in Clients |-> At(d, "reading")]

Head1(c) == Head(call[c].todo)
HasNext(c) == call[c].todo # <<>>

(* bulk_upsert(), and upsert() with a batch of one.                        *)
StartUpsert(c, s, b) ==
    /\ At(c, "idle")
    /\ call' = [call EXCEPT ![c] = [Idle EXCEPT !.pc = "resolve",
                                                !.src = s, !.todo = b]]
    /\ UNCHANGED <<sources, db, clock, view, stale, writer>>

(* Mutant: no clamp.                                                       *)
ResolveSourceRaw(c) ==
    /\ At(c, "resolve")
    /\ LET default == sources[call[c].src] IN
       call' = [call EXCEPT ![c] =
                  IF default = None
                  THEN [@ EXCEPT !.pc = "create"]
                  ELSE [@ EXCEPT !.pc = "begin", !.dflt = default]]
    /\ UNCHANGED <<sources, db, clock, view, stale, writer>>

(* resolve_source(): the SELECT.  Nothing keeps confidence_default within  *)
(* a percentage but the clamp here.                                        *)
ResolveSource(c) ==
    /\ At(c, "resolve")
    /\ LET default == sources[call[c].src] IN
       call' = [call EXCEPT ![c] =
                  IF default = None
                  THEN [@ EXCEPT !.pc = "create"]
                  ELSE [@ EXCEPT !.pc = "begin", !.dflt = Earlier(default, 100)]]
    /\ UNCHANGED <<sources, db, clock, view, stale, writer>>

(* resolve_source(): the INSERT of a source that was absent.               *)
CreateSource(c) ==
    /\ At(c, "create")
    /\ writer = None
    /\ sources[call[c].src] = None
    /\ sources' = [sources EXCEPT ![call[c].src] = AutoCreatedConf]
    /\ call' = [call EXCEPT ![c] = [@ EXCEPT !.pc = "begin",
                                             !.dflt = AutoCreatedConf]]
    /\ Outdate
    /\ UNCHANGED <<db, clock, view, writer>>

(* ... which another client has created meanwhile: the UNIQUE constraint   *)
(* on the name fails, and with it the whole call.                          *)
CreateConflict(c) ==
    /\ At(c, "create")
    /\ writer = None
    /\ sources[call[c].src] # None
    /\ Return(c)
    /\ UNCHANGED <<sources, db, clock, stale, writer>>

(* upsert_in_tx() on the first indicator, up to the SELECT of the existing *)
(* row, which pins the snapshot.                                           *)
SelectFirst(c) ==
    /\ At(c, "begin")
    /\ HasNext(c)
    /\ ~Malformed(Head1(c))
    /\ call' = [call EXCEPT ![c] = [@ EXCEPT !.pc = "reading", !.at = clock]]
    /\ view' = [view EXCEPT ![c] = db]
    /\ stale' = [stale EXCEPT ![c] = FALSE]
    /\ UNCHANGED <<sources, db, clock, writer>>

(* Mutant: the upgrade does not look at what was committed meanwhile, as   *)
(* if `existing` had been read before the transaction.                     *)
CanWriteStale(c) ==
    \/ At(c, "writing")
    \/ At(c, "reading") /\ writer = None

(* May c write?  With the lock, or by upgrading an up-to-date snapshot.    *)
CanWrite(c) ==
    \/ At(c, "writing")
    \/ At(c, "reading") /\ writer = None /\ ~stale[c]

(* upsert_in_tx() on an indicator, from its INSERT on if it is the first.  *)
UpsertItem(c) ==
    /\ CanWrite(c)
    /\ HasNext(c)
    /\ ~Rejected(Head1(c), call[c].dflt)
    /\ LET raw == Head1(c)
           now == IF At(c, "reading") THEN call[c].at ELSE clock
           add == view[c].ioc[Canon[raw.value]] = None
       IN  /\ view' = [view EXCEPT ![c] = UpsertInTx(@, raw, call[c].src,
                                                     call[c].dflt, now)]
           /\ call' = [call EXCEPT ![c] =
                         [call[c] EXCEPT !.pc = "writing",
                                         !.todo = Tail(@),
                                         !.added = @ + IF add THEN 1 ELSE 0,
                                         !.updated = @ + IF add THEN 0 ELSE 1]]
    /\ writer' = c
    /\ UNCHANGED <<sources, db, clock, stale>>

(* Mutant: an indicator that is refused ends the batch, which commits.     *)
RejectItemCommits(c) ==
    /\ HasNext(c)
    /\ \/ call[c].pc \in {"begin", "writing"} /\ Malformed(Head1(c))
       \/ CanWrite(c) /\ Rejected(Head1(c), call[c].dflt)
    /\ Return(c)
    /\ Outdate
    /\ db' = IF writer = c THEN view[c] ELSE db
    /\ writer' = IF writer = c THEN None ELSE writer
    /\ UNCHANGED <<sources, clock>>

(* An error inside the transaction: the value does not normalize, or its   *)
(* confidence breaks the CHECK.  `?` leaves the function and drops the     *)
(* transaction, with what it wrote for the indicators before.              *)
RejectItem(c) ==
    /\ HasNext(c)
    /\ \/ call[c].pc \in {"begin", "writing"} /\ Malformed(Head1(c))
       \/ CanWrite(c) /\ Rejected(Head1(c), call[c].dflt)
    /\ Return(c)
    /\ writer' = IF writer = c THEN None ELSE writer
    /\ UNCHANGED <<sources, db, clock, stale>>

(* Mutant: an outdated snapshot waits instead of being refused.            *)
UpgradeBusyWaits(c) ==
    /\ At(c, "reading")
    /\ writer # None
    /\ Return(c)
    /\ UNCHANGED <<sources, db, clock, stale, writer>>

(* SQLITE_BUSY on the first write after a read: not retried.               *)
UpgradeBusy(c) ==
    /\ At(c, "reading")
    /\ writer # None \/ stale[c]
    /\ Return(c)
    /\ UNCHANGED <<sources, db, clock, stale, writer>>

(* commit() after the last indicator, or after apply_decay()'s updates.    *)
Commit(c) ==
    /\ At(c, "writing")
    /\ ~HasNext(c)
    /\ db' = view[c]
    /\ writer' = None
    /\ Return(c)
    /\ Outdate
    /\ UNCHANGED <<sources, clock>>

(* An empty batch: begin and commit with nothing in between.               *)
CommitEmpty(c) ==
    /\ At(c, "begin")
    /\ ~HasNext(c)
    /\ Return(c)
    /\ UNCHANGED <<sources, db, clock, stale, writer>>

(* apply_decay(): the SELECT of all rows, on its own connection, before    *)
(* the transaction.                                                        *)
StartDecay(c) ==
    /\ At(c, "idle")
    /\ call' = [call EXCEPT ![c] = [Idle EXCEPT !.pc = "rows",
                                                !.plan = LastSeen(db)]]
    /\ UNCHANGED <<sources, db, clock, view, stale, writer>>

(* `now`, to which every age is taken.                                     *)
StampDecay(c) ==
    /\ At(c, "rows")
    /\ call' = [call EXCEPT ![c] = [@ EXCEPT !.pc = "stamped", !.at = clock]]
    /\ UNCHANGED <<sources, db, clock, view, stale, writer>>

(* The UPDATEs, of which the first takes the lock and a snapshot at once.  *)
DecayUpdate(c) ==
    /\ At(c, "stamped")
    /\ writer = None
    /\ \E k \in Keys : call[c].plan[k] # None
    /\ view' = [view EXCEPT ![c] = Rescored(db, call[c].plan, call[c].at)]
    /\ call' = [call EXCEPT ![c] = [@ EXCEPT !.pc = "writing"]]
    /\ writer' = c
    /\ UNCHANGED <<sources, db, clock, stale>>

(* There was no row.                                                       *)
DecayEmpty(c) ==
    /\ At(c, "stamped")
    /\ \A k \in Keys : call[c].plan[k] = None
    /\ Return(c)
    /\ UNCHANGED <<sources, db, clock, stale, writer>>

(* The busy timeout of a statement that waits for the lock.                *)
BusyTimeout(c) ==
    /\ call[c].pc \in {"create", "stamped"}
    /\ writer # None
    /\ Return(c)
    /\ UNCHANGED <<sources, db, clock, stale, writer>>

(* The future is dropped, the process dies, or a statement fails for a     *)
(* reason outside the model: whatever the transaction wrote is gone.       *)
Abort(c) ==
    /\ ~At(c, "idle")
    /\ Return(c)
    /\ writer' = IF writer = c THEN None ELSE writer
    /\ UNCHANGED <<sources, db, clock, stale>>
-----------------------------------------------------------------------------
(* Calls that are one write statement, or a transaction that starts with a *)
(* write: with the lock free they happen at once, else they wait.          *)

RegisterSource(s, conf) ==
    /\ writer = None
    /\ sources' = [sources EXCEPT ![s] = conf]
    /\ Outdate
    /\ UNCHANGED <<db, clock, call, view, writer>>

(* The foreign key refuses a row id that does not exist.                   *)
LinkCve(k, v, rel) ==
    /\ writer = None
    /\ db.ioc[k] # None
    /\ db' = LinkCveIn(db, k, v, rel)
    /\ Outdate
    /\ UNCHANGED <<sources, clock, call, view, writer>>

UpsertCve(v, date, kev) ==
    /\ writer = None
    /\ db' = UpsertCveIn(db, v, date, kev)
    /\ Outdate
    /\ UNCHANGED <<sources, clock, call, view, writer>>

Tick == /\ clock < MaxTime
        /\ clock' = clock + 1
        /\ UNCHANGED <<sources, db, call, view, stale, writer>>
-----------------------------------------------------------------------------
(* What a client that has started a call does next.                        *)
Continue(c) ==
    \/ ResolveSource(c) \/ CreateSource(c) \/ CreateConflict(c)
    \/ SelectFirst(c) \/ UpsertItem(c) \/ RejectItem(c) \/ UpgradeBusy(c)
    \/ Commit(c) \/ CommitEmpty(c)
    \/ StampDecay(c) \/ DecayUpdate(c) \/ DecayEmpty(c) \/ BusyTimeout(c)

Next ==
    \/ \E c \in Clients :
          \/ \E s \in Sources, b \in Batches : StartUpsert(c, s, b)
          \/ StartDecay(c)
          \/ Continue(c)
          \/ Abort(c)
    \/ \E s \in Sources, conf \in Defaults : RegisterSource(s, conf)
    \/ \E k \in Keys, v \in Cves, rel \in Rels : LinkCve(k, v, rel)
    \/ \E v \in Cves, d \in OrNone(Dates), kev \in BOOLEAN : UpsertCve(v, d, kev)
    \/ Tick

Spec == Init /\ [][Next]_vars

(* An executor polls every task that is ready, and SQLite answers every    *)
(* statement, if only with SQLITE_BUSY: a call once started is driven on.  *)
(* Nothing says that a call starts, that one aborts or that time passes.   *)
FairSpec == Spec /\ \A c \in Clients : WF_vars(Continue(c))
-----------------------------------------------------------------------------
(* first_seen, last_seen and confidence of every row are those of its      *)
(* sightings, however batches of several sources, in any order, in parallel*)
(* or cut short, wrote them (upsert_in_tx, recompute_confidence).          *)
AggregatesMatch == Aggregated(db)

(* Full-text search sees the current text of every row and no former one:  *)
(* the triggers on iocs keep the external-content index in step.           *)
FtsInSync == Indexed(db)

(* A tag or CVE link belongs to a stored indicator and a link's CVE has a  *)
(* row, whichever of upsert, link_cve and upsert_cve got there first.      *)
LinksResolved == Linked(db)

(* The UpsertStats a bulk_upsert is about to return count exactly the rows *)
(* its commit adds to the database, although `existing` was read earlier.  *)
StatsExact ==
    \A c \in Clients :
        At(c, "writing") =>
            call[c].added = Cardinality({k \in Keys : /\ db.ioc[k] = None
                                                      /\ view[c].ioc[k] # None})

Decaying(c) == At(c, "writing") /\ call[c].src = None

(* apply_decay reads its rows outside the transaction that updates them,   *)
(* yet puts back nothing it read: it changes decay_score and nothing else, *)
(* and a row refreshed meanwhile scores too low, never too high.           *)
DecayHarmless ==
    \A c \in Clients : Decaying(c) =>
        /\ \A k \in Keys :
              /\ db.ioc[k] = None <=> view[c].ioc[k] = None
              /\ db.ioc[k] # None =>
                    view[c].ioc[k] = [db.ioc[k] EXCEPT !.age = view[c].ioc[k].age]
              /\ call[c].plan[k] # None =>
                    view[c].ioc[k].age >= call[c].at - db.ioc[k].last
        /\ view[c] = [db EXCEPT !.ioc = view[c].ioc]

(* No step of any client loses what was observed: windows only widen and   *)
(* sightings, tags, links, threat labels and KEV dates, once stored, stay. *)
(* In particular no commit overwrites a concurrent one.                    *)
NoLostObservation == [][Extends(db, db')]_vars

(* However clients interleave, time out, fail and retry, the tables change *)
(* as if whole calls ran one after the other (module SerialStore): a batch *)
(* is all or nothing and applies to the latest committed tables.           *)
Serial == INSTANCE SerialStore WITH db <- db, clock <- clock
ImplementsSerial == Serial!Spec

(* Every call returns: two clients that both read and both want to write   *)
(* never wait for each other, nor does one wait for a snapshot that can no *)
(* longer be upgraded.                                                     *)
CallsReturn == \A c \in Clients : ~At(c, "idle") ~> At(c, "idle")
-----------------------------------------------------------------------------
(* The inductive strengthening of the invariants above.                    *)

(* A call has what the steps ahead of it need.                             *)
CallsOK ==
    \A c \in Clients :
        /\ call[c].pc \in {"resolve", "create", "begin", "reading"}
              => call[c].src \in Sources
        /\ At(c, "writing") /\ HasNext(c) => call[c].src \in Sources
        /\ call[c].pc \in {"rows", "stamped"}
              => call[c].plan # None /\ call[c].todo = <<>>

(* The write lock is held by the one client that has written.              *)
LockOK == \A c \in Clients : writer = c <=> At(c, "writing")

(* What a transaction sees is coherent, is the latest commit as long as it *)
(* only read and is not out of date, and extends it once it has written.   *)
ViewsOK ==
    \A c \in Clients :
        /\ At(c, "reading") \/ At(c, "writing") => Coherent(view[c])
        /\ At(c, "reading") /\ ~stale[c] => view[c] = db
        /\ At(c, "writing") => Extends(db, view[c])

IInv == TypeOK /\ Coherent(db) /\ CallsOK /\ LockOK /\ ViewsOK
-----------------------------------------------------------------------------
(* What the doc of resolve_source promises, "auto-creating a minimal row   *)
(* if absent": a call does not fail because its source was absent.         *)
AutoCreates == [][\A c \in Clients : ~CreateConflict(c)]_vars
=============================================================================
