------------------------------ MODULE UpdateRun ------------------------------
(***************************************************************************)
(* The collection pipeline of the facade: IocVault::update_source() and    *)
(* update_all(), run by one or more processes on one database, against     *)
(* feeds that change and servers and disks that fail.                      *)
(*                                                                         *)
(* A feed publishes versions.  What a version holds is abstracted to a set *)
(* of parts, of which an ordinary source stores all in one bulk_upsert()   *)
(* (IocStore shows that call to be atomic) and the KEV catalog stores one  *)
(* CVE after the other.  An HTTP validator (ETag, Last-Modified) names the *)
(* version it came with.                                                   *)
(***************************************************************************)
EXTENDS Integers, Sequences

CONSTANTS
    Procs,         \* processes, or concurrent callers of one vault
    Sources,       \* registered collectors
    Conditional,   \* those whose feed sends validators (urlhaus)
    Kev,           \* those ingested by update_kev() (cisa-kev)
    Plans,         \* what a call may update: all names sorted, or a single one
    Switchable,    \* those an operator may disable
    Parts,         \* for each source, what a version of its feed consists of
    Refused,       \* versions with an entry bulk_upsert() will not take
    MaxVersion,    \* bound on the versions a feed publishes
    MaxCrashes,    \* bound on process crashes and power losses together
    None

Versions == 1 .. MaxVersion
OrNone(S) == S \cup {None}
Content(s, v) == {v} \X Parts[s]
Pieces == Versions \X UNION {Parts[s] : s \in Sources}

ASSUME SourcesAssumption == Conditional \subseteq Sources /\ Kev \subseteq Sources
                            /\ Conditional \cap Kev = {}
ASSUME PlansAssumption   == Plans \subseteq Seq(Sources)
ASSUME PartsAssumption   == /\ DOMAIN Parts = Sources
                            /\ \A s \in Sources : Parts[s] # {}
ASSUME RefusedAssumption == Refused \subseteq (Sources \ Kev) \X Versions
ASSUME BoundsAssumption  == MaxVersion \in Nat /\ MaxCrashes \in Nat
ASSUME NoneAssumption    == None \notin Nat

VARIABLES
    feed,      \* the version each server serves, 0 before the first
    enabled,   \* column sources.enabled
    disk,      \* the committed database: validators, data, collection_runs
    safe,      \* the commits that would survive a power loss
    proc,      \* what each process is doing
    crashes

vars == <<feed, enabled, disk, safe, proc, crashes>>

(* A row of collection_runs, of which the model keeps the newest for each  *)
(* source: rows are only ever inserted.  `version` is history: what the    *)
(* run fetched, or was told it has already.                                *)
Runs == [status : {"success", "failed", "skipped"},
         version : OrNone(Versions)]

Disks == [etag   : [Sources -> OrNone(Versions)],
          stored : [Sources -> SUBSET Pieces],
          run    : [Sources -> OrNone(Runs)]]

Idle == [pc |-> "idle", todo |-> <<>>, cond |-> None, got |-> None,
         left |-> {}, report |-> <<>>]

Calls == [pc : {"idle", "next", "cache", "fetch", "ingest",
                "success", "skipped", "failed"},
           todo : Seq(Sources), cond : OrNone(Versions),
           got : OrNone(Versions), left : SUBSET Pieces,
           report : Seq(Sources)]

TypeOK ==
    /\ feed \in [Sources -> 0 .. MaxVersion]
    /\ enabled \in [Sources -> BOOLEAN]
    /\ disk \in Disks
    /\ safe \in Disks
    /\ proc \in [Procs -> Calls]
    /\ crashes \in 0 .. MaxCrashes

Init ==
    /\ feed = [s \in Sources |-> 0]
    /\ enabled = [s \in Sources |-> TRUE]
    /\ disk = [etag |-> [s \in Sources |-> None],
               stored |-> [s \in Sources |-> {}],
               run |-> [s \in Sources |-> None]]
    /\ safe = disk
    /\ proc = [p \in Procs |-> Idle]
    /\ crashes = 0
-----------------------------------------------------------------------------
At(p, pc) == proc[p].pc = pc
Src(p)    == Head(proc[p].todo)      \* the source p is at

(* The process goes on at pc; the record r holds what else changes in it.  *)
Goto(p, r) == proc' = [proc EXCEPT ![p] = r]

(* update_all() is called, or update_source().                             *)
Start(p, plan) ==
    /\ At(p, "idle")
    /\ Goto(p, [Idle EXCEPT !.pc = "next", !.todo = plan])
    /\ UNCHANGED <<feed, enabled, disk, safe, crashes>>

(* The loop of update_all(): the next source, whatever became of the last  *)
(* one, and whether or not it is enabled.                                  *)
NextSource(p) ==
    /\ At(p, "next")
    /\ proc[p].todo # <<>>
    /\ Goto(p, [proc[p] EXCEPT !.pc = IF Src(p) \in Kev THEN "fetch" ELSE "cache",
                               !.cond = None, !.got = None, !.left = {}])
    /\ UNCHANGED <<feed, enabled, disk, safe, crashes>>

Finish(p) ==
    /\ At(p, "next")
    /\ proc[p].todo = <<>>
    /\ Goto(p, Idle)
    /\ UNCHANGED <<feed, enabled, disk, safe, crashes>>

(* run_collect(): get_source_cache().                                      *)
ReadCache(p) ==
    /\ At(p, "cache")
    /\ Goto(p, [proc[p] EXCEPT !.pc = "fetch", !.cond = disk.etag[Src(p)]])
    /\ UNCHANGED <<feed, enabled, disk, safe, crashes>>

(* Mutant: no error_for_status(), so that an error page is a version.      *)
FetchUnchecked(p) ==
    /\ At(p, "fetch")
    /\ proc[p].cond # feed[Src(p)]
    /\ Goto(p, [proc[p] EXCEPT !.pc = "ingest", !.got = feed[Src(p)],
                               !.left = Content(Src(p), feed[Src(p)])])
    /\ UNCHANGED <<feed, enabled, disk, safe, crashes>>

(* Collector::collect() of whichever collector it is (URLhaus with the     *)
(* validator, ThreatFox without one) and the stream it returns, which is   *)
(* drained before anything is stored; or the request for the KEV catalog.  *)
Fetch(p) ==
    /\ At(p, "fetch")
    /\ feed[Src(p)] # 0
    /\ proc[p].cond # feed[Src(p)]
    /\ Goto(p, [proc[p] EXCEPT !.pc = "ingest", !.got = feed[Src(p)],
                               !.left = Content(Src(p), feed[Src(p)])])
    /\ UNCHANGED <<feed, enabled, disk, safe, crashes>>

(* The server answers 304 to the validator that was sent.                  *)
NotModified(p) ==
    /\ At(p, "fetch")
    /\ proc[p].cond = feed[Src(p)]
    /\ Goto(p, [proc[p] EXCEPT !.pc = "skipped"])
    /\ UNCHANGED <<feed, enabled, disk, safe, crashes>>

(* No network, an error status, no Auth-Key, a body that does not parse.   *)
FetchError(p) ==
    /\ At(p, "fetch")
    /\ Goto(p, [proc[p] EXCEPT !.pc = "failed"])
    /\ UNCHANGED <<feed, enabled, disk, safe, crashes>>

(* bulk_upsert() of all there is, unless an entry of it does not normalize *)
(* or states an impossible confidence; or upsert_cve() of one CVE after    *)
(* the other, which takes anything.                                        *)
Ingest(p, batch) ==
    /\ At(p, "ingest")
    /\ batch # {}
    /\ <<Src(p), proc[p].got>> \notin Refused
    /\ IF Src(p) \in Kev THEN \E x \in proc[p].left : batch = {x}
                         ELSE batch = proc[p].left
    /\ disk' = [disk EXCEPT !.stored[Src(p)] = @ \cup batch]
    /\ Goto(p, [proc[p] EXCEPT !.left = @ \ batch])
    /\ UNCHANGED <<feed, enabled, safe, crashes>>

(* Mutants: the validators are stored whether or not the data is; those of *)
(* a later response are.                                                   *)
StoreValidatorsFirst(p) ==
    /\ At(p, "ingest")
    /\ disk' = [disk EXCEPT !.etag[Src(p)] =
                   IF Src(p) \in Conditional THEN proc[p].got ELSE None]
    /\ Goto(p, [proc[p] EXCEPT !.pc = "success"])
    /\ UNCHANGED <<feed, enabled, safe, crashes>>
StoreValidatorsLater(p) ==
    /\ At(p, "ingest")
    /\ proc[p].left = {}
    /\ disk' = [disk EXCEPT !.etag[Src(p)] = feed[Src(p)]]
    /\ Goto(p, [proc[p] EXCEPT !.pc = "success"])
    /\ UNCHANGED <<feed, enabled, safe, crashes>>

(* update_source_cache(): only validators the response carried are kept.   *)
StoreValidators(p) ==
    /\ At(p, "ingest")
    /\ proc[p].left = {}
    /\ disk' = [disk EXCEPT !.etag[Src(p)] =
                   IF Src(p) \in Conditional THEN proc[p].got ELSE None]
    /\ Goto(p, [proc[p] EXCEPT !.pc = "success"])
    /\ UNCHANGED <<feed, enabled, safe, crashes>>

(* Mutant: only what succeeded is reported.                                *)
ReportedOk(p) ==
    [Idle EXCEPT !.pc = "next",
                 !.todo = Tail(proc[p].todo),
                 !.report = IF At(p, "success")
                            THEN Append(proc[p].report, Src(p))
                            ELSE proc[p].report]

(* The source is done with and reported, a failed one too.                 *)
Reported(p) ==
    [Idle EXCEPT !.pc = "next",
                 !.todo = Tail(proc[p].todo),
                 !.report = Append(proc[p].report, Src(p))]

(* Mutant: the run is recorded before its data is stored.                  *)
RecordRunFirst(p) ==
    /\ proc[p].pc \in {"ingest", "skipped", "failed"}
    /\ disk' = [disk EXCEPT !.run[Src(p)] =
                   [status |-> IF At(p, "ingest") THEN "success" ELSE proc[p].pc,
                    version |-> IF At(p, "skipped") THEN proc[p].cond
                                                    ELSE proc[p].got]]
    /\ Goto(p, Reported(p))
    /\ UNCHANGED <<feed, enabled, safe, crashes>>

(* record_run(): the status is where the process is.                       *)
RecordRun(p) ==
    /\ proc[p].pc \in {"success", "skipped", "failed"}
    /\ disk' = [disk EXCEPT !.run[Src(p)] =
                   [status |-> proc[p].pc,
                    version |-> IF At(p, "skipped") THEN proc[p].cond
                                                    ELSE proc[p].got]]
    /\ Goto(p, Reported(p))
    /\ UNCHANGED <<feed, enabled, safe, crashes>>

(* Mutant: a failed ingestion is passed over.                              *)
StoreErrorIgnored(p) ==
    /\ proc[p].pc \in {"cache", "ingest"}
    /\ Goto(p, [proc[p] EXCEPT !.pc = "success"])
    /\ UNCHANGED <<feed, enabled, disk, safe, crashes>>

(* A database call fails (SQLITE_BUSY, an indicator that is refused, I/O): *)
(* `?` leaves run_collect(), and update_source() records a failed run.     *)
(* update_kev() does the same while it ingests, but not afterwards; nor is *)
(* there a second attempt if recording the failure fails.                  *)
StoreError(p) ==
    /\ proc[p].pc \in {"cache", "ingest", "success", "skipped", "failed"}
    /\ Goto(p, IF \/ At(p, "failed")
                  \/ Src(p) \in Kev /\ (At(p, "success") \/ proc[p].left = {})
               THEN Reported(p)
               ELSE [proc[p] EXCEPT !.pc = "failed"])
    /\ UNCHANGED <<feed, enabled, disk, safe, crashes>>
-----------------------------------------------------------------------------
(* The surroundings.                                                       *)

Publish(s) ==
    /\ feed[s] < MaxVersion
    /\ feed' = [feed EXCEPT ![s] = @ + 1]
    /\ UNCHANGED <<enabled, disk, safe, proc, crashes>>

(* set_source_enabled(name, false)                                         *)
Disable(s) ==
    /\ s \in Switchable
    /\ enabled[s]
    /\ enabled' = [enabled EXCEPT ![s] = FALSE]
    /\ UNCHANGED <<feed, disk, safe, proc, crashes>>

(* With synchronous = NORMAL a commit reaches the disk at some later time, *)
(* in the order of the commits.                                            *)
Sync == /\ safe # disk
        /\ safe' = disk
        /\ UNCHANGED <<feed, enabled, disk, proc, crashes>>

Crash(p) ==
    /\ crashes < MaxCrashes
    /\ ~At(p, "idle")
    /\ Goto(p, Idle)
    /\ crashes' = crashes + 1
    /\ UNCHANGED <<feed, enabled, disk, safe>>

PowerLoss ==
    /\ crashes < MaxCrashes
    /\ disk' = safe
    /\ proc' = [p \in Procs |-> Idle]
    /\ crashes' = crashes + 1
    /\ UNCHANGED <<feed, enabled, safe>>
-----------------------------------------------------------------------------
Work(p) ==
    \/ NextSource(p) \/ Finish(p) \/ ReadCache(p)
    \/ Fetch(p) \/ NotModified(p) \/ FetchError(p)
    \/ \E batch \in SUBSET proc[p].left : Ingest(p, batch)
    \/ StoreValidators(p) \/ RecordRun(p) \/ StoreError(p)

Next ==
    \/ \E p \in Procs : \/ \E plan \in Plans : Start(p, plan)
                        \/ Work(p)
                        \/ Crash(p)
    \/ \E s \in Sources : Publish(s) \/ Disable(s)
    \/ Sync \/ PowerLoss

Spec == Init /\ [][Next]_vars

(* Somebody calls update_all() again and again, a process that runs is     *)
(* driven on, and a request, a read or a write that is made again and      *)
(* again for the same source does not fail for ever.                       *)
Doing(p, s) == proc[p].todo # <<>> /\ Src(p) = s

FairSpec ==
    /\ Spec
    /\ \A p \in Procs :
          /\ WF_vars(\E plan \in Plans : Start(p, plan))
          /\ WF_vars(Work(p))
          /\ \A s \in Sources :
                /\ SF_vars(Doing(p, s) /\ ReadCache(p))
                /\ SF_vars(Doing(p, s) /\ Fetch(p))
                /\ \A v \in Versions : \A batch \in SUBSET Content(s, v) \ {{}} :
                      SF_vars(Doing(p, s) /\ Ingest(p, batch))
-----------------------------------------------------------------------------
(* A stored validator vouches for its version: all of it is in the         *)
(* database, now and after a power loss.  Otherwise every later fetch is   *)
(* answered 304 and the rest of that version is never ingested.            *)
ValidatorsSound ==
    \A d \in {disk, safe} : \A s \in Sources :
        d.etag[s] # None => Content(s, d.etag[s]) \subseteq d.stored[s]

(* A run is recorded as a success only after all it fetched was stored,    *)
(* and as skipped only when what the server left unchanged is stored,      *)
(* whatever other processes, crashes and failures came in between.         *)
RunsTruthful ==
    \A s \in Sources :
        /\ disk.run[s] # None
        /\ disk.run[s].status \in {"success", "skipped"}
        => Content(s, disk.run[s].version) \subseteq disk.stored[s]

(* One source's failure costs no other source its turn: what a call has    *)
(* reported and what it has still to do are together what it was to do.    *)
EverySourceHandled ==
    \A p \in Procs :
        ~At(p, "idle") => proc[p].report \o proc[p].todo \in Plans

(* What a feed published last is ingested in the end, although runs fail,  *)
(* processes crash, the machine loses power and earlier versions were      *)
(* refused whole: no failure leaves behind a state that later runs take    *)
(* for done.  Only a last version that is itself refused stays out.        *)
CatchesUp ==
    \A s \in Sources :
        <>[](\/ feed[s] = 0
             \/ <<s, feed[s]>> \in Refused
             \/ Content(s, feed[s]) \subseteq disk.stored[s])

(* The pipeline implements FeedMirror: whole versions, vouched for and     *)
(* claimed only once they are there, for readers as after a power loss,    *)
(* and none that the feed had not published.                               *)
Mirrored(d) ==
    [s \in Sources |->
        [have    |-> {v \in Versions : Content(s, v) \subseteq d.stored[s]},
         vouched |-> d.etag[s],
         claimed |-> IF d.run[s] # None /\ d.run[s].status # "failed"
                     THEN d.run[s].version ELSE None]]

Mirror == INSTANCE FeedMirror WITH
             feed <- feed, db <- Mirrored(disk), durable <- Mirrored(safe)

ImplementsMirror == Mirror!Spec
-----------------------------------------------------------------------------
(* What `source disable` ("Disable a source.") promises: update_all()      *)
(* leaves a disabled source alone.                                         *)
DisabledLeftAlone ==
    [][\A p \in Procs : NextSource(p) => enabled[Src(p)]]_vars
=============================================================================
