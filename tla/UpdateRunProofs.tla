-------------------------- MODULE UpdateRunProofs --------------------------
(***************************************************************************)
(* Proofs about UpdateRun, for any processes, collectors, plans, feeds and *)
(* bounds.  IInv is the inductive invariant: besides the types it says of  *)
(* the committed database, and of the part of it that survives a power     *)
(* loss, that nothing is vouched for that is not stored (DInv), and of a   *)
(* process how what it has in hand relates to the database (PInv).         *)
(***************************************************************************)
EXTENDS UpdateRun, TLAPS

Has(st, s, v) == Content(s, v) \subseteq st[s]

(* What a database d says of the feeds f is true of it.                    *)
DInv(d, f) ==
    \A s \in Sources :
        /\ d.etag[s] # None => Has(d.stored, s, d.etag[s])
        /\ (d.run[s] # None /\ d.run[s].status \in {"success", "skipped"})
              => d.run[s].version # None /\ Has(d.stored, s, d.run[s].version)
        /\ \A v \in Versions : \A x \in Parts[s] :
              <<v, x>> \in d.stored[s] => v <= f[s]

(* A process at a source holds a validator only of what is stored; of what *)
(* it fetched, all that is not stored yet is still before it.              *)
PInv(c, st, f) ==
    /\ c.pc \notin {"idle", "next"} =>
          /\ c.todo # <<>>
          /\ c.cond # None => Has(st, Head(c.todo), c.cond)
          /\ c.pc \in {"ingest", "success"} =>
                /\ c.got # None
                /\ c.got <= f[Head(c.todo)]
                /\ c.left \subseteq Content(Head(c.todo), c.got)
                /\ Content(Head(c.todo), c.got) \ c.left \subseteq st[Head(c.todo)]
          /\ c.pc = "success" => c.left = {}
          /\ c.pc = "skipped" => c.cond # None
    /\ c.pc # "idle" => c.report \o c.todo \in Plans

IInv ==
    /\ TypeOK
    /\ DInv(disk, feed)
    /\ DInv(safe, feed)
    /\ \A p \in Procs : PInv(proc[p], disk.stored, feed)
-----------------------------------------------------------------------------
(* What holds of a process, or of a database, is not disturbed by others   *)
(* that store more or by feeds that publish more.                          *)
LEMMA PInvMonotone ==
    ASSUME NEW c \in Calls,
           NEW st \in [Sources -> SUBSET Pieces], NEW st2 \in [Sources -> SUBSET Pieces],
           NEW f \in [Sources -> Nat], NEW f2 \in [Sources -> Nat],
           \A s \in Sources : st[s] \subseteq st2[s] /\ f[s] <= f2[s],
           PInv(c, st, f)
    PROVE  PInv(c, st2, f2)
<1>1. c.todo \in Seq(Sources) /\ c.got \in OrNone(Versions)
    BY DEF Calls
<1>2. c.todo # <<>> => Head(c.todo) \in Sources
    BY <1>1
<1>3. c.got # None => c.got \in Nat
    BY <1>1, BoundsAssumption DEF OrNone, Versions
<1> QED
    BY <1>1, <1>2, <1>3 DEF PInv, Has

LEMMA DInvMonotone ==
    ASSUME NEW d, NEW f \in [Sources -> Nat], NEW f2 \in [Sources -> Nat],
           \A s \in Sources : f[s] <= f2[s],
           DInv(d, f)
    PROVE  DInv(d, f2)
<1> SUFFICES ASSUME NEW s \in Sources, NEW v \in Versions, v <= f[s]
             PROVE  v <= f2[s]
    BY DEF DInv
<1> QED
    BY BoundsAssumption DEF Versions

(* The head of what is to do moves to the end of what is reported.         *)
LEMMA HeadMoves ==
    ASSUME NEW S, NEW r \in Seq(S), NEW t \in Seq(S), t # <<>>
    PROVE  /\ Append(r, Head(t)) \o Tail(t) = r \o t
           /\ Tail(t) \in Seq(S)
           /\ Append(r, Head(t)) \in Seq(S)
           /\ Head(t) \in S
OBVIOUS

LEMMA IdleOK ==
    /\ Idle \in Calls
    /\ Idle.pc = "idle" /\ Idle.cond = None /\ Idle.got = None
    /\ Idle.left = {} /\ Idle.report = <<>> /\ Idle.todo = <<>>
BY DEF Idle, Calls, OrNone

(* A process that is done with a source leaves nothing behind but its      *)
(* report.                                                                 *)
LEMMA ReportedOK ==
    ASSUME TypeOK, NEW p \in Procs, proc[p].todo # <<>>,
           proc[p].report \o proc[p].todo \in Plans,
           NEW st, NEW f
    PROVE  Reported(p) \in Calls /\ PInv(Reported(p), st, f)
<1>1. proc[p].todo \in Seq(Sources) /\ proc[p].report \in Seq(Sources)
    BY DEF TypeOK, Calls
<1>2. /\ Tail(proc[p].todo) \in Seq(Sources)
      /\ Append(proc[p].report, Src(p)) \in Seq(Sources)
      /\ Append(proc[p].report, Src(p)) \o Tail(proc[p].todo)
            = proc[p].report \o proc[p].todo
    BY <1>1, HeadMoves DEF Src
<1>3. /\ Reported(p) \in Calls
      /\ Reported(p).pc = "next"
      /\ Reported(p).todo = Tail(proc[p].todo)
      /\ Reported(p).report = Append(proc[p].report, Src(p))
    BY <1>2, IdleOK DEF Reported, Calls
<1> QED
    BY <1>2, <1>3 DEF PInv

(* A step of one process that stores no less and says nothing untrue.      *)
LEMMA ProcessStep ==
    ASSUME IInv, NEW p \in Procs, NEW c \in Calls,
           proc' = [proc EXCEPT ![p] = c],
           feed' = feed, enabled' = enabled, safe' = safe,
           crashes' \in 0 .. MaxCrashes,
           disk' \in Disks,
           \A s \in Sources : disk.stored[s] \subseteq disk'.stored[s],
           DInv(disk', feed),
           PInv(c, disk'.stored, feed)
    PROVE  IInv'
<1>1. TypeOK'
    BY DEF IInv, TypeOK
<1>2. DInv(disk, feed)' /\ DInv(safe, feed)'
    BY DEF IInv
<1>3. ASSUME NEW q \in Procs PROVE PInv(proc[q], disk.stored, feed)'
    <2>1. CASE q = p
        <3>1. proc'[q] = c
            BY <2>1 DEF IInv, TypeOK
        <3> QED BY <3>1
    <2>2. CASE q # p
        <3>1. proc'[q] = proc[q] /\ proc[q] \in Calls
            BY <2>2 DEF IInv, TypeOK
        <3>2. /\ feed \in [Sources -> Nat]
              /\ disk.stored \in [Sources -> SUBSET Pieces]
              /\ disk'.stored \in [Sources -> SUBSET Pieces]
            BY BoundsAssumption DEF IInv, TypeOK, Disks
        <3>3. \A s \in Sources : feed[s] <= feed[s]
            BY <3>2
        <3>4. PInv(proc[q], disk.stored, feed)
            BY DEF IInv
        <3>5. PInv(proc[q], disk'.stored, feed)
            BY <3>1, <3>2, <3>3, <3>4, PInvMonotone
        <3> QED BY <3>1, <3>5
    <2> QED BY <2>1, <2>2
<1> QED
    BY <1>1, <1>2, <1>3 DEF IInv

(* The same, of a step that leaves the database alone.                     *)
LEMMA QuietStep ==
    ASSUME IInv, NEW p \in Procs, NEW c \in Calls, Goto(p, c),
           UNCHANGED <<feed, enabled, disk, safe>>,
           crashes' \in 0 .. MaxCrashes,
           PInv(c, disk.stored, feed)
    PROVE  IInv'
<1>1. disk' \in Disks /\ DInv(disk', feed)
    BY DEF IInv, TypeOK
<1> QED
    BY <1>1, ProcessStep DEF Goto

(* What is known of a process at a source.                                 *)
LEMMA AtSource ==
    ASSUME IInv, NEW p \in Procs, proc[p].pc \notin {"idle", "next"}
    PROVE  /\ proc[p] \in Calls
           /\ proc[p].todo \in Seq(Sources) /\ proc[p].todo # <<>>
           /\ Src(p) \in Sources /\ Src(p) = Head(proc[p].todo)
           /\ proc[p].report \o proc[p].todo \in Plans
           /\ PInv(proc[p], disk.stored, feed)
           /\ feed[Src(p)] \in 0 .. MaxVersion
           /\ disk.etag[Src(p)] \in OrNone(Versions)
           /\ disk.stored[Src(p)] \in SUBSET Pieces
           /\ crashes \in 0 .. MaxCrashes
<1>1. proc[p] \in Calls /\ PInv(proc[p], disk.stored, feed)
    BY DEF IInv, TypeOK
<1>2. proc[p].todo \in Seq(Sources) /\ proc[p].todo # <<>>
    BY <1>1 DEF Calls, PInv
<1>3. Src(p) \in Sources /\ Src(p) = Head(proc[p].todo)
    BY <1>2 DEF Src
<1> QED
    BY <1>1, <1>2, <1>3 DEF IInv, TypeOK, Disks, PInv

LEMMA InitInvariant == Init => IInv
<1> SUFFICES ASSUME Init PROVE IInv
    OBVIOUS
<1>1. /\ feed \in [Sources -> 0 .. MaxVersion]
      /\ enabled \in [Sources -> BOOLEAN]
      /\ crashes \in 0 .. MaxCrashes
    BY BoundsAssumption DEF Init
<1>2. disk \in Disks /\ safe \in Disks
    BY DEF Init, Disks, OrNone
<1>3. proc \in [Procs -> Calls]
    BY IdleOK DEF Init
<1>4. DInv(disk, feed) /\ DInv(safe, feed)
    BY DEF Init, DInv
<1>5. \A p \in Procs : PInv(proc[p], disk.stored, feed)
    BY IdleOK DEF Init, PInv
<1> QED
    BY <1>1, <1>2, <1>3, <1>4, <1>5 DEF IInv, TypeOK
-----------------------------------------------------------------------------
(* The actions of a process.                                               *)

LEMMA StartInvariant ==
    ASSUME IInv, NEW p \in Procs, NEW plan \in Plans, Start(p, plan)
    PROVE  IInv'
<1> DEFINE c == [Idle EXCEPT !.pc = "next", !.todo = plan]
<1>1. plan \in Seq(Sources)
    BY PlansAssumption
<1>2. c \in Calls /\ c.pc = "next" /\ c.todo = plan /\ c.report = <<>>
    BY <1>1, IdleOK DEF Calls
<1>3. <<>> \o plan = plan
    BY <1>1
<1>4. PInv(c, disk.stored, feed)
    BY <1>2, <1>3 DEF PInv
<1>5. crashes' \in 0 .. MaxCrashes
    BY DEF IInv, TypeOK, Start
<1>6. c \in Calls
    BY <1>2
<1> HIDE DEF c
<1>7. Goto(p, c) /\ UNCHANGED <<feed, enabled, disk, safe>>
    BY DEF Start, c
<1> QED
    BY <1>4, <1>5, <1>6, <1>7, QuietStep

LEMMA NextSourceInvariant ==
    ASSUME IInv, NEW p \in Procs, NextSource(p)
    PROVE  IInv'
<1> DEFINE c == [proc[p] EXCEPT !.pc = IF Src(p) \in Kev THEN "fetch" ELSE "cache",
                               !.cond = None, !.got = None, !.left = {}]
<1>1. proc[p] \in Calls /\ PInv(proc[p], disk.stored, feed)
    BY DEF IInv, TypeOK
<1>2. /\ c \in Calls
      /\ c.pc \in {"fetch", "cache"} /\ c.cond = None
      /\ c.todo = proc[p].todo /\ c.report = proc[p].report
    BY <1>1 DEF Calls, OrNone
<1>3. c.todo # <<>> /\ c.report \o c.todo \in Plans
    BY <1>1, <1>2 DEF NextSource, At, PInv
<1>4. PInv(c, disk.stored, feed)
    BY <1>2, <1>3 DEF PInv
<1>5. crashes' \in 0 .. MaxCrashes
    BY DEF IInv, TypeOK, NextSource
<1>6. c \in Calls
    BY <1>2
<1> HIDE DEF c
<1>7. Goto(p, c) /\ UNCHANGED <<feed, enabled, disk, safe>>
    BY DEF NextSource, c
<1> QED
    BY <1>4, <1>5, <1>6, <1>7, QuietStep

LEMMA IdleAgain ==
    ASSUME IInv, NEW p \in Procs, Goto(p, Idle),
           UNCHANGED <<feed, enabled, disk, safe>>, crashes' \in 0 .. MaxCrashes
    PROVE  IInv'
<1>1. PInv(Idle, disk.stored, feed)
    BY IdleOK DEF PInv
<1> QED
    BY <1>1, IdleOK, QuietStep

LEMMA ReadCacheInvariant ==
    ASSUME IInv, NEW p \in Procs, ReadCache(p)
    PROVE  IInv'
<1> DEFINE c == [proc[p] EXCEPT !.pc = "fetch", !.cond = disk.etag[Src(p)]]
<1>1. proc[p].pc \notin {"idle", "next"}
    BY DEF ReadCache, At
<1>2. /\ c \in Calls
      /\ c.pc = "fetch" /\ c.cond = disk.etag[Src(p)]
      /\ c.todo = proc[p].todo /\ c.report = proc[p].report
    BY <1>1, AtSource DEF Calls
<1>3. disk.etag[Src(p)] # None => Has(disk.stored, Src(p), disk.etag[Src(p)])
    BY <1>1, AtSource DEF IInv, DInv
<1>4. PInv(c, disk.stored, feed)
    BY <1>1, <1>2, <1>3, AtSource DEF PInv
<1>5. crashes' \in 0 .. MaxCrashes
    BY DEF IInv, TypeOK, ReadCache
<1>6. c \in Calls
    BY <1>2
<1> HIDE DEF c
<1>7. Goto(p, c) /\ UNCHANGED <<feed, enabled, disk, safe>>
    BY DEF ReadCache, c
<1> QED
    BY <1>4, <1>5, <1>6, <1>7, QuietStep

LEMMA FetchInvariant ==
    ASSUME IInv, NEW p \in Procs, Fetch(p)
    PROVE  IInv'
<1> DEFINE v == feed[Src(p)]
           c == [proc[p] EXCEPT !.pc = "ingest", !.got = v,
                                !.left = Content(Src(p), v)]
<1>1. proc[p].pc \notin {"idle", "next"} /\ v # 0
    BY DEF Fetch, At
<1>2. v \in Versions /\ v # None /\ v <= feed[Src(p)]
    BY <1>1, AtSource, NoneAssumption, BoundsAssumption DEF Versions
<1>3. Content(Src(p), v) \subseteq Pieces
    BY <1>1, <1>2, AtSource DEF Content, Pieces
<1>4. /\ c \in Calls
      /\ c.pc = "ingest" /\ c.got = v /\ c.left = Content(Src(p), v)
      /\ c.cond = proc[p].cond
      /\ c.todo = proc[p].todo /\ c.report = proc[p].report
    BY <1>1, <1>2, <1>3, AtSource DEF Calls, OrNone
<1>5. PInv(c, disk.stored, feed)
    BY <1>1, <1>2, <1>4, AtSource DEF PInv
<1>6. crashes' \in 0 .. MaxCrashes
    BY DEF IInv, TypeOK, Fetch
<1>7. c \in Calls
    BY <1>4
<1> HIDE DEF c
<1>8. Goto(p, c) /\ UNCHANGED <<feed, enabled, disk, safe>>
    BY DEF Fetch, c
<1> QED
    BY <1>5, <1>6, <1>7, <1>8, QuietStep

LEMMA NotModifiedInvariant ==
    ASSUME IInv, NEW p \in Procs, NotModified(p)
    PROVE  IInv'
<1> DEFINE c == [proc[p] EXCEPT !.pc = "skipped"]
<1>1. proc[p].pc \notin {"idle", "next"} /\ proc[p].cond = feed[Src(p)]
    BY DEF NotModified, At
<1>2. proc[p].cond # None
    BY <1>1, AtSource, NoneAssumption, BoundsAssumption
<1>3. /\ c \in Calls
      /\ c.pc = "skipped" /\ c.cond = proc[p].cond
      /\ c.todo = proc[p].todo /\ c.report = proc[p].report
    BY <1>1, AtSource DEF Calls
<1>4. PInv(c, disk.stored, feed)
    BY <1>1, <1>2, <1>3, AtSource DEF PInv
<1>5. crashes' \in 0 .. MaxCrashes
    BY DEF IInv, TypeOK, NotModified
<1>6. c \in Calls
    BY <1>3
<1> HIDE DEF c
<1>7. Goto(p, c) /\ UNCHANGED <<feed, enabled, disk, safe>>
    BY DEF NotModified, c
<1> QED
    BY <1>4, <1>5, <1>6, <1>7, QuietStep

(* Nothing is asked of a process that goes on to record a failure.         *)
LEMMA FailedInvariant ==
    ASSUME IInv, NEW p \in Procs, proc[p].pc \notin {"idle", "next"},
           Goto(p, [proc[p] EXCEPT !.pc = "failed"]),
           UNCHANGED <<feed, enabled, disk, safe, crashes>>
    PROVE  IInv'
<1> DEFINE c == [proc[p] EXCEPT !.pc = "failed"]
<1>1. /\ c \in Calls
      /\ c.pc = "failed" /\ c.cond = proc[p].cond
      /\ c.todo = proc[p].todo /\ c.report = proc[p].report
    BY AtSource DEF Calls
<1>2. PInv(c, disk.stored, feed)
    BY <1>1, AtSource DEF PInv
<1>3. crashes' \in 0 .. MaxCrashes
    BY DEF IInv, TypeOK
<1>4. c \in Calls
    BY <1>1
<1> HIDE DEF c
<1>5. Goto(p, c) /\ UNCHANGED <<feed, enabled, disk, safe>>
    BY DEF c
<1> QED
    BY <1>2, <1>3, <1>4, <1>5, QuietStep

(* What a process still has to store are entries of the version it got, of *)
(* its source, which the feed has published.                               *)
LEMMA IngestWhat ==
    ASSUME IInv, NEW p \in Procs, NEW batch, Ingest(p, batch)
    PROVE  /\ proc[p].got \in Versions /\ proc[p].got <= feed[Src(p)]
           /\ batch \subseteq proc[p].left
           /\ batch \subseteq Content(Src(p), proc[p].got)
           /\ batch \subseteq Pieces
<1>1. proc[p].pc = "ingest" /\ proc[p].pc \notin {"idle", "next"}
    BY DEF Ingest, At
<1>2. proc[p].got \in Versions
    BY <1>1, AtSource DEF PInv, Calls, OrNone
<1>3. proc[p].got <= feed[Src(p)] /\ proc[p].left \subseteq Content(Src(p), proc[p].got)
    BY <1>1, AtSource DEF PInv
<1>4. batch \subseteq proc[p].left
    BY DEF Ingest
<1>5. Content(Src(p), proc[p].got) \subseteq Pieces
    BY <1>1, <1>2, AtSource DEF Content, Pieces
<1> QED
    BY <1>2, <1>3, <1>4, <1>5

LEMMA IngestInvariant ==
    ASSUME IInv, NEW p \in Procs, NEW batch, Ingest(p, batch)
    PROVE  IInv'
<1> DEFINE c == [proc[p] EXCEPT !.left = @ \ batch]
           s == Src(p)
<1>1. proc[p].pc = "ingest" /\ proc[p].pc \notin {"idle", "next"}
    BY DEF Ingest, At
<1>2. /\ c \in Calls
      /\ c.pc = "ingest" /\ c.cond = proc[p].cond /\ c.got = proc[p].got
      /\ c.left = proc[p].left \ batch
      /\ c.todo = proc[p].todo /\ c.report = proc[p].report
    BY <1>1, AtSource DEF Calls
<1>3. /\ disk' \in Disks
      /\ disk'.etag = disk.etag /\ disk'.run = disk.run
      /\ \A t \in Sources : disk'.stored[t] =
             IF t = s THEN disk.stored[t] \cup batch ELSE disk.stored[t]
    BY <1>1, AtSource, IngestWhat DEF IInv, TypeOK, Disks, Ingest
<1>4. \A t \in Sources : disk.stored[t] \subseteq disk'.stored[t]
    BY <1>3
<1>5. DInv(disk', feed)
    <2>1. DInv(disk, feed)
        BY DEF IInv
    <2>2. ASSUME NEW t \in Sources, NEW v \in Versions, NEW x \in Parts[t],
                 <<v, x>> \in disk'.stored[t]
          PROVE  v <= feed[t]
        <3>1. CASE t = s /\ <<v, x>> \in batch
            <4>1. v = proc[p].got
                BY <3>1, IngestWhat DEF Content
            <4> QED BY <3>1, <4>1, IngestWhat
        <3>2. CASE <<v, x>> \in disk.stored[t]
            BY <2>1, <3>2 DEF DInv
        <3> QED BY <1>3, <2>2, <3>1, <3>2
    <2> QED
        BY <1>3, <1>4, <2>1, <2>2 DEF DInv, Has
<1>6. PInv(c, disk'.stored, feed)
    <2>1. PInv(proc[p], disk.stored, feed)
        BY DEF IInv
    <2>2. Head(c.todo) = s /\ Head(proc[p].todo) = s /\ s \in Sources
        BY <1>1, <1>2, AtSource
    <2>3. c.cond # None => Has(disk'.stored, s, c.cond)
        BY <1>1, <1>2, <1>4, <2>1, <2>2 DEF PInv, Has
    <2>4. /\ c.got # None /\ c.got <= feed[s]
          /\ c.left \subseteq Content(s, c.got)
          /\ Content(s, c.got) \ c.left \subseteq disk'.stored[s]
        BY <1>1, <1>2, <1>3, <2>1, <2>2 DEF PInv
    <2> QED
        BY <1>1, <1>2, <2>1, <2>2, <2>3, <2>4 DEF PInv
<1>7. crashes' \in 0 .. MaxCrashes
    BY DEF IInv, TypeOK, Ingest
<1>8. c \in Calls
    BY <1>2
<1> HIDE DEF c
<1>9. /\ proc' = [proc EXCEPT ![p] = c]
      /\ feed' = feed /\ enabled' = enabled /\ safe' = safe
    BY DEF Ingest, Goto, c
<1> QED
    BY <1>3, <1>4, <1>5, <1>6, <1>7, <1>8, <1>9, ProcessStep

LEMMA StoreValidatorsInvariant ==
    ASSUME IInv, NEW p \in Procs, StoreValidators(p)
    PROVE  IInv'
<1> DEFINE c == [proc[p] EXCEPT !.pc = "success"]
           s == Src(p)
           e == IF s \in Conditional THEN proc[p].got ELSE None
<1>1. proc[p].pc = "ingest" /\ proc[p].pc \notin {"idle", "next"} /\ proc[p].left = {}
    BY DEF StoreValidators, At
<1>2. /\ c \in Calls
      /\ c.pc = "success" /\ c.cond = proc[p].cond /\ c.got = proc[p].got
      /\ c.left = {}
      /\ c.todo = proc[p].todo /\ c.report = proc[p].report
    BY <1>1, AtSource DEF Calls
<1>3. e \in OrNone(Versions)
    BY <1>1, AtSource DEF Calls, OrNone
<1>4. /\ disk' \in Disks
      /\ disk'.stored = disk.stored /\ disk'.run = disk.run
      /\ \A t \in Sources : disk'.etag[t] = IF t = s THEN e ELSE disk.etag[t]
    BY <1>1, <1>3, AtSource DEF IInv, TypeOK, Disks, StoreValidators
<1>5. e # None => Has(disk.stored, s, e)
    BY <1>1, AtSource DEF PInv, Has
<1>6. DInv(disk', feed)
    BY <1>4, <1>5 DEF IInv, DInv, Has
<1>7. PInv(c, disk'.stored, feed)
    BY <1>1, <1>2, <1>4, AtSource DEF PInv
<1>8. crashes' \in 0 .. MaxCrashes
    BY DEF IInv, TypeOK, StoreValidators
<1>9. c \in Calls
    BY <1>2
<1> HIDE DEF c
<1>10. /\ proc' = [proc EXCEPT ![p] = c]
       /\ feed' = feed /\ enabled' = enabled /\ safe' = safe
    BY DEF StoreValidators, Goto, c
<1> QED
    BY <1>4, <1>6, <1>7, <1>8, <1>9, <1>10, ProcessStep

LEMMA RecordRunInvariant ==
    ASSUME IInv, NEW p \in Procs, RecordRun(p)
    PROVE  IInv'
<1> DEFINE s == Src(p)
           r == [status |-> proc[p].pc,
                 version |-> IF At(p, "skipped") THEN proc[p].cond
                                                 ELSE proc[p].got]
<1>1. /\ proc[p].pc \in {"success", "skipped", "failed"}
      /\ proc[p].pc \notin {"idle", "next"}
    BY DEF RecordRun
<1>2. r \in Runs
    BY <1>1, AtSource DEF Runs, Calls, OrNone, At
<1>3. r.status \in {"success", "skipped"}
         => r.version # None /\ Has(disk.stored, s, r.version)
    BY <1>1, AtSource DEF PInv, Has, At
<1>4. disk' = [disk EXCEPT !.run[s] = r]
    BY DEF RecordRun
<1> HIDE DEF r
<1>5. /\ disk' \in Disks
      /\ disk'.stored = disk.stored /\ disk'.etag = disk.etag
      /\ \A t \in Sources : disk'.run[t] = IF t = s THEN r ELSE disk.run[t]
    BY <1>1, <1>2, <1>4, AtSource DEF IInv, TypeOK, Disks, OrNone
<1>6. DInv(disk', feed)
    BY <1>3, <1>5 DEF IInv, DInv, Has
<1>7. Reported(p) \in Calls /\ PInv(Reported(p), disk'.stored, feed)
    BY <1>1, AtSource, ReportedOK DEF IInv
<1>8. crashes' \in 0 .. MaxCrashes
    BY DEF IInv, TypeOK, RecordRun
<1>9. /\ proc' = [proc EXCEPT ![p] = Reported(p)]
      /\ feed' = feed /\ enabled' = enabled /\ safe' = safe
    BY DEF RecordRun, Goto
<1> QED
    BY <1>5, <1>6, <1>7, <1>8, <1>9, ProcessStep

LEMMA StoreErrorInvariant ==
    ASSUME IInv, NEW p \in Procs, StoreError(p)
    PROVE  IInv'
<1>1. /\ proc[p].pc \notin {"idle", "next"}
      /\ UNCHANGED <<feed, enabled, disk, safe, crashes>>
    BY DEF StoreError
<1>2. CASE Goto(p, Reported(p))
    <2>1. Reported(p) \in Calls /\ PInv(Reported(p), disk.stored, feed)
        BY <1>1, AtSource, ReportedOK DEF IInv
    <2>2. crashes' \in 0 .. MaxCrashes
        BY <1>1 DEF IInv, TypeOK
    <2> QED
        BY <1>1, <1>2, <2>1, <2>2, QuietStep
<1>3. CASE Goto(p, [proc[p] EXCEPT !.pc = "failed"])
    BY <1>1, <1>3, FailedInvariant
<1> QED
    BY <1>2, <1>3 DEF StoreError

LEMMA WorkInvariant ==
    ASSUME IInv, NEW p \in Procs, Work(p)
    PROVE  IInv'
<1>1. CASE Finish(p)
    <2>1. /\ Goto(p, Idle) /\ UNCHANGED <<feed, enabled, disk, safe>>
          /\ crashes' \in 0 .. MaxCrashes
        BY <1>1 DEF Finish, IInv, TypeOK
    <2> QED BY <2>1, IdleAgain
<1>2. CASE FetchError(p)
    BY <1>2, FailedInvariant DEF FetchError, At
<1> QED
    BY <1>1, <1>2, NextSourceInvariant, ReadCacheInvariant, FetchInvariant,
       NotModifiedInvariant, IngestInvariant, StoreValidatorsInvariant,
       RecordRunInvariant, StoreErrorInvariant
    DEF Work
-----------------------------------------------------------------------------
(* The surroundings.                                                       *)

LEMMA PublishInvariant ==
    ASSUME IInv, NEW s \in Sources, Publish(s)
    PROVE  IInv'
<1>1. TypeOK'
    BY BoundsAssumption DEF IInv, TypeOK, Publish
<1>2. /\ feed \in [Sources -> Nat] /\ feed' \in [Sources -> Nat]
      /\ \A t \in Sources : feed[t] <= feed'[t]
    BY BoundsAssumption DEF IInv, TypeOK, Publish
<1>3. DInv(disk, feed') /\ DInv(safe, feed')
    BY <1>2, DInvMonotone DEF IInv
<1>4. ASSUME NEW p \in Procs PROVE PInv(proc[p], disk.stored, feed')
    <2>1. proc[p] \in Calls /\ disk.stored \in [Sources -> SUBSET Pieces]
        BY DEF IInv, TypeOK, Disks
    <2>2. PInv(proc[p], disk.stored, feed)
        BY DEF IInv
    <2> QED
        BY <1>2, <2>1, <2>2, PInvMonotone
<1> QED
    BY <1>1, <1>3, <1>4 DEF IInv, Publish

LEMMA CrashInvariant ==
    ASSUME IInv, NEW p \in Procs, Crash(p)
    PROVE  IInv'
<1>1. crashes' \in 0 .. MaxCrashes
    BY BoundsAssumption DEF IInv, TypeOK, Crash
<1> QED
    BY <1>1, IdleAgain DEF Crash

(* What survives a power loss is as sound as what is lost, and nobody is   *)
(* left who would rely on more.                                            *)
LEMMA PowerLossInvariant ==
    ASSUME IInv, PowerLoss
    PROVE  IInv'
<1>1. TypeOK'
    BY BoundsAssumption, IdleOK DEF IInv, TypeOK, PowerLoss
<1>2. DInv(disk, feed)' /\ DInv(safe, feed)'
    BY DEF IInv, PowerLoss
<1>3. \A p \in Procs : PInv(proc[p], disk.stored, feed)'
    BY IdleOK DEF PowerLoss, PInv
<1> QED
    BY <1>1, <1>2, <1>3 DEF IInv

LEMMA NextInvariant == IInv /\ [Next]_vars => IInv'
<1> SUFFICES ASSUME IInv, [Next]_vars PROVE IInv'
    OBVIOUS
<1>1. CASE \E s \in Sources : Disable(s)
    BY <1>1 DEF IInv, TypeOK, Disable, DInv, PInv, Has
<1>2. CASE Sync
    BY <1>2 DEF IInv, TypeOK, Sync, DInv, PInv, Has
<1>3. CASE UNCHANGED vars
    BY <1>3 DEF IInv, TypeOK, vars, DInv, PInv, Has
<1> QED
    BY <1>1, <1>2, <1>3, StartInvariant, WorkInvariant, CrashInvariant,
       PublishInvariant, PowerLossInvariant
    DEF Next

(* IInv holds in every state any behaviour of the pipeline reaches.        *)
THEOREM Inductive == Spec => []IInv
<1> QED
    BY InitInvariant, NextInvariant, PTL DEF Spec

(* Type correctness.                                                       *)
THEOREM Typed == Spec => []TypeOK
<1>1. IInv => TypeOK
    BY DEF IInv
<1> QED
    BY <1>1, Inductive, PTL

(* No stored validator names a version that is not wholly in the database, *)
(* whatever crashed, failed or raced before.                               *)
THEOREM ValidatorsAlwaysSound == Spec => []ValidatorsSound
<1>1. IInv => ValidatorsSound
    BY DEF IInv, DInv, Has, ValidatorsSound
<1> QED
    BY <1>1, Inductive, PTL

(* The run log calls no version ingested that is not.                      *)
THEOREM RunsAlwaysTruthful == Spec => []RunsTruthful
<1>1. IInv => RunsTruthful
    BY DEF IInv, DInv, Has, RunsTruthful
<1> QED
    BY <1>1, Inductive, PTL

(* Whatever fails, each source of a call is still to come or reported.     *)
THEOREM EverySourceAlwaysHandled == Spec => []EverySourceHandled
<1>1. IInv => EverySourceHandled
    BY DEF IInv, PInv, EverySourceHandled, At
<1> QED
    BY <1>1, Inductive, PTL
-----------------------------------------------------------------------------
(* UpdateRun implements FeedMirror.                                        *)

LEMMA MirrorInit == Init => Mirror!Init
<1> SUFFICES ASSUME Init PROVE Mirror!Init
    OBVIOUS
<1>1. ASSUME NEW s \in Sources
      PROVE  {v \in Versions : Content(s, v) \subseteq disk.stored[s]} = {}
    <2>1. disk.stored[s] = {}
        BY DEF Init
    <2>2. PICK x : x \in Parts[s]
        BY PartsAssumption
    <2>3. \A v \in Versions : <<v, x>> \in Content(s, v)
        BY <2>2 DEF Content
    <2> QED BY <2>1, <2>3
<1>2. Mirrored(disk) = [s \in Sources |-> [have |-> {}, vouched |-> None, claimed |-> None]]
    BY <1>1 DEF Init, Mirrored
<1> QED
    BY <1>2 DEF Init, Mirror!Init, Mirror!Empty

(* Storing a part of what was fetched completes that version or none.      *)
LEMMA MirrorIngest ==
    ASSUME IInv, NEW p \in Procs, NEW batch, Ingest(p, batch)
    PROVE  [Mirror!Next]_(Mirror!vars)
<1> DEFINE s == Src(p)
           v == proc[p].got
           Have(st, t) == {w \in Versions : Content(t, w) \subseteq st[t]}
<1>1. s \in Sources /\ v \in Versions /\ v <= feed[s] /\ batch \subseteq Content(s, v)
    BY AtSource, IngestWhat DEF Ingest, At
<1>2. /\ disk'.etag = disk.etag /\ disk'.run = disk.run
      /\ \A t \in Sources : disk'.stored[t] =
             IF t = s THEN disk.stored[t] \cup batch ELSE disk.stored[t]
    BY <1>1 DEF IInv, TypeOK, Disks, Ingest
<1>3. \A t \in Sources \ {s} : Have(disk'.stored, t) = Have(disk.stored, t)
    BY <1>2
<1>4. ASSUME NEW w \in Versions, w # v
      PROVE  Content(s, w) \subseteq disk'.stored[s]
                <=> Content(s, w) \subseteq disk.stored[s]
    <2>1. Content(s, w) \cap batch = {}
        BY <1>1, <1>4 DEF Content
    <2> QED BY <1>1, <1>2, <2>1
<1>5. feed' = feed /\ safe' = safe
    BY DEF Ingest
<1>6. CASE Content(s, v) \subseteq disk'.stored[s]
    <2>1. Have(disk'.stored, s) = Have(disk.stored, s) \cup {v}
        <3>1. \A w \in Versions : w # v => (w \in Have(disk'.stored, s)
                                               <=> w \in Have(disk.stored, s))
            BY <1>4
        <3>2. v \in Have(disk'.stored, s)
            BY <1>1, <1>6
        <3> QED BY <1>1, <3>1, <3>2
    <2>2. Mirrored(disk)' = [Mirrored(disk) EXCEPT
                               ![s].have = Mirrored(disk)[s].have \cup {v}]
        BY <1>1, <1>2, <1>3, <2>1 DEF Mirrored
    <2>3. Mirror!Mirror(s, v)
        BY <1>1, <1>5, <2>2 DEF Mirror!Mirror, Mirrored
    <2> QED
        BY <1>1, <2>3 DEF Mirror!Next
<1>7. CASE ~(Content(s, v) \subseteq disk'.stored[s])
    <2>1. ~(Content(s, v) \subseteq disk.stored[s])
        BY <1>1, <1>2, <1>7
    <2>2. Have(disk'.stored, s) = Have(disk.stored, s)
        BY <1>4, <1>7, <2>1
    <2>3. Mirrored(disk)' = Mirrored(disk)
        BY <1>2, <1>3, <2>2 DEF Mirrored
    <2> QED
        BY <1>5, <2>3 DEF Mirror!vars, Mirrored
<1> QED
    BY <1>6, <1>7

LEMMA MirrorVouch ==
    ASSUME IInv, NEW p \in Procs, StoreValidators(p)
    PROVE  Mirror!Next
<1> DEFINE s == Src(p)
           e == IF s \in Conditional THEN proc[p].got ELSE None
<1>1. proc[p].pc = "ingest" /\ proc[p].pc \notin {"idle", "next"} /\ proc[p].left = {}
    BY DEF StoreValidators, At
<1>2. s \in Sources /\ e \in OrNone(Versions)
    BY <1>1, AtSource DEF Calls, OrNone
<1>3. e # None => Content(s, e) \subseteq disk.stored[s]
    BY <1>1, AtSource DEF PInv
<1>4. /\ disk'.stored = disk.stored /\ disk'.run = disk.run
      /\ \A t \in Sources : disk'.etag[t] = IF t = s THEN e ELSE disk.etag[t]
    BY <1>2 DEF IInv, TypeOK, Disks, StoreValidators
<1> HIDE DEF e
<1>5. Mirrored(disk)' = [Mirrored(disk) EXCEPT ![s].vouched = e]
    BY <1>2, <1>4 DEF Mirrored
<1>6. e \in Mirror!OrNone(Mirrored(disk)[s].have)
    BY <1>2, <1>3 DEF Mirrored, OrNone, Mirror!OrNone
<1>7. feed' = feed /\ safe' = safe
    BY DEF StoreValidators
<1>8. Mirror!Vouch(s, e)
    BY <1>5, <1>6, <1>7 DEF Mirror!Vouch, Mirrored
<1> QED
    BY <1>2, <1>8 DEF Mirror!Next, OrNone, Mirror!OrNone

LEMMA MirrorClaim ==
    ASSUME IInv, NEW p \in Procs, RecordRun(p)
    PROVE  Mirror!Next
<1> DEFINE s == Src(p)
           r == [status |-> proc[p].pc,
                 version |-> IF At(p, "skipped") THEN proc[p].cond
                                                 ELSE proc[p].got]
           c == IF r # None /\ r.status # "failed" THEN r.version ELSE None
<1>1. /\ proc[p].pc \in {"success", "skipped", "failed"}
      /\ proc[p].pc \notin {"idle", "next"}
    BY DEF RecordRun
<1>2. s \in Sources /\ c \in OrNone(Versions)
    BY <1>1, AtSource DEF Calls, OrNone, At
<1>3. c # None => Content(s, c) \subseteq disk.stored[s]
    BY <1>1, AtSource DEF PInv, Has, At
<1>4. disk' = [disk EXCEPT !.run[s] = r]
    BY DEF RecordRun
<1>5. c = IF r # None /\ r.status # "failed" THEN r.version ELSE None
    OBVIOUS
<1> HIDE DEF r, c
<1>6. /\ disk'.stored = disk.stored /\ disk'.etag = disk.etag
      /\ \A t \in Sources : disk'.run[t] = IF t = s THEN r ELSE disk.run[t]
    BY <1>2, <1>4 DEF IInv, TypeOK, Disks
<1>7. Mirrored(disk)' = [Mirrored(disk) EXCEPT ![s].claimed = c]
    BY <1>2, <1>5, <1>6 DEF Mirrored
<1>8. c \in Mirror!OrNone(Mirrored(disk)[s].have)
    BY <1>2, <1>3 DEF Mirrored, OrNone, Mirror!OrNone
<1>9. feed' = feed /\ safe' = safe
    BY DEF RecordRun
<1>10. Mirror!Claim(s, c)
    BY <1>7, <1>8, <1>9 DEF Mirror!Claim, Mirrored
<1> QED
    BY <1>2, <1>10 DEF Mirror!Next, OrNone, Mirror!OrNone

LEMMA MirrorPublish ==
    ASSUME IInv, NEW s \in Sources, Publish(s)
    PROVE  Mirror!Next
<1>1. feed[s] + 1 \in Versions
    BY BoundsAssumption DEF Publish, Versions, IInv, TypeOK
<1>2. feed' = [feed EXCEPT ![s] = feed[s] + 1] /\ disk' = disk /\ safe' = safe
    BY DEF Publish
<1>3. Mirror!Publish(s)
    BY <1>1, <1>2 DEF Mirror!Publish, Mirrored
<1> QED
    BY <1>3 DEF Mirror!Next

LEMMA MirrorNext == IInv /\ [Next]_vars => [Mirror!Next]_(Mirror!vars)
<1> SUFFICES ASSUME IInv, [Next]_vars PROVE [Mirror!Next]_(Mirror!vars)
    OBVIOUS
<1>1. CASE UNCHANGED <<feed, disk, safe>>
    BY <1>1 DEF Mirror!vars, Mirrored
<1>2. CASE Sync
    <2>1. safe' = disk /\ disk' = disk /\ feed' = feed
        BY <1>2 DEF Sync
    <2>2. Mirror!Sync
        BY <2>1 DEF Mirror!Sync, Mirrored
    <2> QED BY <2>2 DEF Mirror!Next
<1>3. CASE PowerLoss
    <2>1. disk' = safe /\ safe' = safe /\ feed' = feed
        BY <1>3 DEF PowerLoss
    <2>2. Mirror!Lose
        BY <2>1 DEF Mirror!Lose, Mirrored
    <2> QED BY <2>2 DEF Mirror!Next
<1>4. ASSUME NEW p \in Procs, Work(p) PROVE [Mirror!Next]_(Mirror!vars)
    <2>1. CASE \/ NextSource(p) \/ Finish(p) \/ ReadCache(p) \/ Fetch(p)
               \/ NotModified(p) \/ FetchError(p) \/ StoreError(p)
        BY <1>1, <2>1 DEF NextSource, Finish, ReadCache, Fetch, NotModified,
                          FetchError, StoreError
    <2> QED
        BY <1>4, <2>1, MirrorIngest, MirrorVouch, MirrorClaim DEF Work
<1>5. CASE UNCHANGED vars
    BY <1>1, <1>5 DEF vars
<1>6. ASSUME NEW p \in Procs, (\E plan \in Plans : Start(p, plan)) \/ Crash(p)
      PROVE  [Mirror!Next]_(Mirror!vars)
    BY <1>1, <1>6 DEF Start, Crash
<1>7. ASSUME NEW s \in Sources, Publish(s) \/ Disable(s)
      PROVE  [Mirror!Next]_(Mirror!vars)
    BY <1>1, <1>7, MirrorPublish DEF Disable
<1> QED
    BY <1>2, <1>3, <1>4, <1>5, <1>6, <1>7 DEF Next

(* The pipeline is a mirror of its feeds: it vouches for and claims only   *)
(* whole versions, before and after a power loss.                          *)
THEOREM ImplementsItsMirror == Spec => ImplementsMirror
<1>1. Spec => Mirror!Init /\ [][Mirror!Next]_(Mirror!vars)
    BY MirrorInit, MirrorNext, Inductive, PTL DEF Spec
<1> QED
    BY <1>1 DEF ImplementsMirror, Mirror!Spec
=============================================================================
