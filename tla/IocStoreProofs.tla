--------------------------- MODULE IocStoreProofs ---------------------------
(***************************************************************************)
(* For every set of clients, sources, keys and batches: the store's types, *)
(* the coherence of its tables, that no step loses an observation, what    *)
(* its calls tell and change, and that they are as if one came after the   *)
(* other (SerialStore).                                                    *)
(***************************************************************************)
EXTENDS IocStore, IocTablesProofs

LEMMA IdleType == Idle \in Calls
BY DEF Idle, Calls, PCs, OrNone, Pct, Times

(* A batch hands upsert_in_tx() indicators, and Tail a shorter batch.      *)
LEMMA NextRaw ==
    ASSUME NEW todo \in Seq(RawIocs), todo # <<>>
    PROVE  Head(todo) \in RawIoc /\ Tail(todo) \in Seq(RawIocs)
BY RawAssumption

LEMMA InitInv == Init => IInv
<1> SUFFICES ASSUME Init PROVE IInv
  OBVIOUS
<1>1. TypeOK
  BY EmptyType, IdleType DEF Init, TypeOK, OrNone, Times
<1>2. Coherent(db)
  BY EmptyOK DEF Init
<1>3. CallsOK /\ LockOK /\ ViewsOK
  BY ClientAssumption DEF Init, CallsOK, LockOK, ViewsOK, At, HasNext, Idle
<1> QED BY <1>1, <1>2, <1>3 DEF IInv
-----------------------------------------------------------------------------
(* A call that ends without a commit.                                      *)
LEMMA ReturnInv ==
    ASSUME IInv, NEW c \in Clients, Return(c),
           UNCHANGED <<sources, db, clock, stale>>,
           writer' = IF writer = c THEN None ELSE writer
    PROVE  IInv'
<1>1. call' = [call EXCEPT ![c] = Idle] /\ view' = [view EXCEPT ![c] = EmptyTables]
  BY DEF Return
<1>2. TypeOK'
  BY <1>1, IdleType, EmptyType DEF IInv, TypeOK, OrNone
<1>3. Coherent(db)'
  BY DEF IInv
<1>4. /\ call'[c].pc = "idle"
      /\ \A d \in Clients : d # c => call'[d] = call[d] /\ view'[d] = view[d]
  BY <1>1 DEF IInv, TypeOK, Idle
<1>5. CallsOK'
  BY <1>4 DEF IInv, CallsOK, At, HasNext
<1>6. LockOK'
  BY <1>4, ClientAssumption DEF IInv, LockOK, At
<1>7. ViewsOK'
  BY <1>4 DEF IInv, ViewsOK, At
<1> QED BY <1>2, <1>3, <1>5, <1>6, <1>7 DEF IInv

(* A call that proceeds to another point where it has not written: only    *)
(* its own record changes, and its snapshot if it takes one.               *)
LEMMA ProceedInv ==
    ASSUME IInv, NEW c \in Clients, ~At(c, "writing"),
           NEW new \in Calls, new.pc # "writing", new.pc # "reading",
           call' = [call EXCEPT ![c] = new],
           new.pc \in {"resolve", "create", "begin"} => new.src \in Sources,
           new.pc \in {"rows", "stamped"}
             => new.plan # None /\ new.todo = <<>>,
           UNCHANGED <<sources, db, clock, view, stale, writer>>
    PROVE  IInv'
<1>1. TypeOK'
  BY DEF IInv, TypeOK
<1>2. Coherent(db)'
  BY DEF IInv
<1>3. /\ call'[c] = new
      /\ \A d \in Clients : d # c => call'[d] = call[d]
  BY DEF IInv, TypeOK
<1>4. CallsOK'
  BY <1>3 DEF IInv, CallsOK, At, HasNext
<1>5. LockOK'
  BY <1>3 DEF IInv, LockOK, At
<1>6. ViewsOK'
  BY <1>3 DEF IInv, ViewsOK, At
<1> QED BY <1>1, <1>2, <1>4, <1>5, <1>6 DEF IInv

(* A write to the tables by a statement of its own.                        *)
LEMMA AutocommitInv ==
    ASSUME IInv, writer = None, Outdate,
           db' \in Tables, Coherent(db'),
           UNCHANGED <<sources, clock, call, view, writer>>
    PROVE  IInv'
<1>1. stale' = [d \in Clients |-> At(d, "reading")]
  BY DEF Outdate
<1>2. TypeOK'
  BY <1>1 DEF IInv, TypeOK, At
<1>3. CallsOK' /\ LockOK'
  BY DEF IInv, CallsOK, LockOK, At, HasNext
<1>4. ViewsOK'
  BY <1>1, ClientAssumption DEF IInv, LockOK, ViewsOK, At
<1> QED BY <1>2, <1>3, <1>4 DEF IInv
-----------------------------------------------------------------------------
(* The steps that touch more than that.                                    *)

(* resolve_source()'s INSERT.                                              *)
LEMMA CreateSourceInv ==
    ASSUME IInv, NEW c \in Clients, CreateSource(c)
    PROVE  IInv'
<1> DEFINE new == [call[c] EXCEPT !.pc = "begin", !.dflt = AutoCreatedConf]
<1>1. call[c] \in Calls /\ call[c].src \in Sources
  BY DEF IInv, TypeOK, CallsOK, CreateSource, At
<1>2. new \in Calls /\ new.pc = "begin" /\ new.src \in Sources
  <2>1. AutoCreatedConf \in Pct
    BY DEF AutoCreatedConf, Pct
  <2> HIDE DEF AutoCreatedConf
  <2> QED BY <1>1, <2>1 DEF Calls, PCs
<1> HIDE DEF new
<1>3. /\ call' = [call EXCEPT ![c] = new]
      /\ stale' = [d \in Clients |-> At(d, "reading")]
      /\ At(c, "create") /\ writer = None
      /\ UNCHANGED <<db, clock, view, writer>>
  BY DEF CreateSource, Outdate, new
<1>4. /\ call'[c] = new
      /\ \A d \in Clients : d # c => call'[d] = call[d]
  BY <1>3 DEF IInv, TypeOK
<1>5. sources' \in [Sources -> OrNone(Nat)]
  <2>1. sources' = [sources EXCEPT ![call[c].src] = AutoCreatedConf]
    BY DEF CreateSource
  <2> QED BY <1>1, <2>1 DEF IInv, TypeOK, OrNone, AutoCreatedConf
<1>6. TypeOK'
  BY <1>2, <1>3, <1>5 DEF IInv, TypeOK, At
<1>7. CallsOK' /\ LockOK'
  BY <1>2, <1>3, <1>4 DEF IInv, CallsOK, LockOK, At, HasNext
<1>8. ViewsOK'
  BY <1>2, <1>3, <1>4 DEF IInv, ViewsOK, At
<1> QED BY <1>3, <1>6, <1>7, <1>8 DEF IInv

(* The first SELECT of a batch.                                            *)
LEMMA SelectFirstInv ==
    ASSUME IInv, NEW c \in Clients, SelectFirst(c)
    PROVE  IInv'
<1> DEFINE new == [call[c] EXCEPT !.pc = "reading", !.at = clock]
<1>1. call[c] \in Calls /\ call[c].src \in Sources /\ clock \in Times
  BY DEF IInv, TypeOK, CallsOK, SelectFirst, At
<1>2. new \in Calls /\ new.pc = "reading" /\ new.src \in Sources
  BY <1>1 DEF Calls, PCs
<1> HIDE DEF new
<1>3. /\ call' = [call EXCEPT ![c] = new]
      /\ view' = [view EXCEPT ![c] = db]
      /\ stale' = [stale EXCEPT ![c] = FALSE]
      /\ At(c, "begin")
      /\ UNCHANGED <<sources, db, clock, writer>>
  BY DEF SelectFirst, new
<1>4. /\ call'[c] = new /\ view'[c] = db
      /\ \A d \in Clients : d # c => /\ call'[d] = call[d]
                                     /\ view'[d] = view[d]
                                     /\ stale'[d] = stale[d]
  BY <1>3 DEF IInv, TypeOK
<1>5. TypeOK'
  BY <1>2, <1>3 DEF IInv, TypeOK
<1>6. CallsOK' /\ LockOK'
  BY <1>2, <1>3, <1>4 DEF IInv, CallsOK, LockOK, At, HasNext
<1>7. ViewsOK'
  BY <1>2, <1>3, <1>4 DEF IInv, ViewsOK, At
<1> QED BY <1>3, <1>5, <1>6, <1>7 DEF IInv

(* A transaction that reads up to date, or has the lock, writes.           *)
LEMMA WriteInv ==
    ASSUME IInv, NEW c \in Clients, writer = None \/ At(c, "writing"),
           NEW new \in Calls, new.pc = "writing",
           new.todo # <<>> => new.src \in Sources,
           NEW t \in Tables, Coherent(t), Extends(db, t),
           call' = [call EXCEPT ![c] = new],
           view' = [view EXCEPT ![c] = t],
           writer' = c,
           UNCHANGED <<sources, db, clock, stale>>
    PROVE  IInv'
<1>1. /\ call'[c] = new /\ view'[c] = t
      /\ \A d \in Clients : d # c => call'[d] = call[d] /\ view'[d] = view[d]
  BY DEF IInv, TypeOK
<1>2. TypeOK'
  BY DEF IInv, TypeOK, OrNone
<1>3. CallsOK'
  BY <1>1 DEF IInv, CallsOK, At, HasNext
<1>4. LockOK'
  BY <1>1, ClientAssumption DEF IInv, LockOK, At
<1>5. ViewsOK'
  BY <1>1 DEF IInv, ViewsOK, At
<1> QED BY <1>2, <1>3, <1>4, <1>5 DEF IInv

LEMMA UpsertItemInv ==
    ASSUME IInv, NEW c \in Clients, UpsertItem(c)
    PROVE  IInv'
<1> DEFINE raw == Head(call[c].todo)
           now == IF At(c, "reading") THEN call[c].at ELSE clock
           add == view[c].ioc[Canon[raw.value]] = None
           new == [call[c] EXCEPT !.pc = "writing",
                                  !.todo = Tail(@),
                                  !.added = @ + IF add THEN 1 ELSE 0,
                                  !.updated = @ + IF add THEN 0 ELSE 1]
           t   == UpsertInTx(view[c], raw, call[c].src, call[c].dflt, now)
<1>1. /\ call[c] \in Calls /\ call[c].src \in Sources /\ call[c].dflt \in Pct
      /\ now \in Nat /\ view[c] \in Tables /\ db \in Tables
      /\ call[c].todo \in Seq(RawIocs) /\ call[c].todo # <<>>
  BY DEF IInv, TypeOK, CallsOK, UpsertItem, CanWrite, At, HasNext, Calls, Times
<1>2. raw \in RawIoc /\ Tail(call[c].todo) \in Seq(RawIocs)
  BY <1>1, NextRaw
<1>3. new \in Calls /\ new.pc = "writing" /\ new.src \in Sources
  <2> DEFINE added == call[c].added + IF add THEN 1 ELSE 0
             updated == call[c].updated + IF add THEN 0 ELSE 1
  <2>1. added \in Nat /\ updated \in Nat
    BY <1>1 DEF Calls
  <2>2. new = [call[c] EXCEPT !.pc = "writing", !.todo = Tail(call[c].todo),
                              !.added = added, !.updated = updated]
    BY <1>1 DEF Calls
  <2> HIDE DEF added, updated, new
  <2>3. /\ new.pc = "writing" /\ new.src = call[c].src
        /\ new.dflt = call[c].dflt /\ new.plan = call[c].plan
        /\ new.at = call[c].at /\ new.todo = Tail(call[c].todo)
        /\ new.added = added /\ new.updated = updated
    BY <1>1, <2>2 DEF Calls
  <2>4. new \in Calls
    BY <1>1, <1>2, <2>1, <2>2 DEF Calls, PCs
  <2> QED BY <1>1, <2>3, <2>4
<1>4. Coherent(view[c]) /\ Extends(db, view[c])
  <2>1. CASE At(c, "writing")
    BY <2>1 DEF IInv, ViewsOK
  <2>2. CASE At(c, "reading") /\ ~stale[c]
    BY <1>1, <2>2, ExtendsReflexive DEF IInv, ViewsOK
  <2> QED BY <2>1, <2>2 DEF UpsertItem, CanWrite
<1>5. /\ call' = [call EXCEPT ![c] = new]
      /\ view' = [view EXCEPT ![c] = t]
      /\ writer' = c
      /\ UNCHANGED <<sources, db, clock, stale>>
      /\ ~Rejected(raw, call[c].dflt)
      /\ writer = None \/ At(c, "writing")
  <2>1. UNCHANGED <<sources, db, clock, stale>> /\ writer' = c
    BY DEF UpsertItem
  <2>2. ~Rejected(raw, call[c].dflt)
    BY DEF UpsertItem, Head1
  <2>3. writer = None \/ At(c, "writing")
    BY DEF UpsertItem, CanWrite
  <2>4. view' = [view EXCEPT ![c] = t]
    BY DEF UpsertItem, Head1
  <2>5. call' = [call EXCEPT ![c] = new]
    BY DEF UpsertItem, Head1
  <2> QED BY <2>1, <2>2, <2>3, <2>4, <2>5
<1> HIDE DEF raw, now, new
<1>6. t \in Tables /\ Extends(view[c], t) /\ Coherent(t)
  BY <1>1, <1>2, <1>4, <1>5, UpsertKeeps
<1> HIDE DEF t
<1>7. Extends(db, t)
  BY <1>1, <1>4, <1>6, ExtendsTransitive
<1> QED BY <1>3, <1>5, <1>6, <1>7, WriteInv

LEMMA DecayUpdateInv ==
    ASSUME IInv, NEW c \in Clients, DecayUpdate(c)
    PROVE  IInv'
<1> DEFINE new == [call[c] EXCEPT !.pc = "writing"]
           t   == Rescored(db, call[c].plan, call[c].at)
<1>1. /\ call[c] \in Calls /\ call[c].at \in Nat /\ db \in Tables
      /\ call[c].plan \in [Keys -> OrNone(Times)]
      /\ Coherent(db)
  BY DEF IInv, TypeOK, CallsOK, DecayUpdate, At, Calls, OrNone, Times
<1>2. t \in Tables /\ Extends(db, t) /\ Coherent(t)
  BY <1>1, RescoredKeeps
<1>3. /\ call' = [call EXCEPT ![c] = new]
      /\ view' = [view EXCEPT ![c] = t]
      /\ writer' = c /\ writer = None
      /\ UNCHANGED <<sources, db, clock, stale>>
  BY DEF DecayUpdate
<1>4. new \in Calls /\ new.pc = "writing" /\ new.todo = <<>>
  <2>1. call[c].todo = <<>>
    BY DEF IInv, CallsOK, DecayUpdate, At
  <2> QED BY <1>1, <2>1 DEF Calls, PCs
<1> HIDE DEF new, t
<1> QED BY <1>2, <1>3, <1>4, WriteInv

LEMMA CommitInv ==
    ASSUME IInv, NEW c \in Clients, Commit(c)
    PROVE  IInv' /\ Extends(db, db')
<1>1. /\ At(c, "writing") /\ db' = view[c] /\ writer' = None
      /\ call' = [call EXCEPT ![c] = Idle]
      /\ view' = [view EXCEPT ![c] = EmptyTables]
      /\ stale' = [d \in Clients |-> At(d, "reading")]
      /\ UNCHANGED <<sources, clock>>
  BY DEF Commit, Return, Outdate
<1>2. /\ call'[c].pc = "idle"
      /\ \A d \in Clients : d # c => call'[d] = call[d] /\ view'[d] = view[d]
  BY <1>1 DEF IInv, TypeOK, Idle
<1>3. writer = c /\ \A d \in Clients : d # c => ~At(d, "writing")
  BY <1>1 DEF IInv, LockOK
<1>4. TypeOK'
  BY <1>1, IdleType, EmptyType DEF IInv, TypeOK, OrNone, At
<1>5. Coherent(db)' /\ Extends(db, db')
  BY <1>1 DEF IInv, ViewsOK
<1>6. CallsOK'
  BY <1>2 DEF IInv, CallsOK, At, HasNext
<1>7. LockOK'
  BY <1>1, <1>2, <1>3, ClientAssumption DEF LockOK, At
<1>8. ViewsOK'
  BY <1>1, <1>2, <1>3 DEF IInv, ViewsOK, At
<1> QED BY <1>4, <1>5, <1>6, <1>7, <1>8 DEF IInv

(* The calls that only read, or that change nothing but their own progress.*)
LEMMA ProgressInv ==
    ASSUME IInv, NEW c \in Clients,
           \/ \E s \in Sources, b \in Batches : StartUpsert(c, s, b)
           \/ StartDecay(c) \/ ResolveSource(c) \/ StampDecay(c)
    PROVE  IInv' /\ db' = db
<1>1. call[c] \in Calls /\ Idle \in Calls
  BY IdleType DEF IInv, TypeOK
<1>2. ASSUME NEW s \in Sources, NEW b \in Batches, StartUpsert(c, s, b)
      PROVE  IInv' /\ db' = db
  <2> DEFINE new == [Idle EXCEPT !.pc = "resolve", !.src = s, !.todo = b]
  <2>1. b \in Seq(RawIocs)
    BY BatchAssumption
  <2>2. new \in Calls /\ new.pc = "resolve" /\ new.src \in Sources
    BY <1>1, <2>1 DEF Calls, PCs, OrNone
  <2>3. /\ call' = [call EXCEPT ![c] = new] /\ ~At(c, "writing")
        /\ UNCHANGED <<sources, db, clock, view, stale, writer>>
    BY <1>2 DEF StartUpsert, At
  <2> HIDE DEF new
  <2> QED BY <2>2, <2>3, ProceedInv
<1>3. ASSUME StartDecay(c)
      PROVE  IInv' /\ db' = db
  <2> DEFINE new == [Idle EXCEPT !.pc = "rows", !.plan = LastSeen(db)]
  <2>1. LastSeen(db) \in [Keys -> OrNone(Times)]
    BY DEF IInv, TypeOK, LastSeen, Tables, OrNone, IocRow
  <2>2. LastSeen(db) # None
    BY <2>1, PlanAssumption
  <2>3. new \in Calls /\ new.pc = "rows" /\ new.plan # None /\ new.todo = <<>>
    BY <1>1, <2>1, <2>2 DEF Calls, PCs, OrNone, Idle
  <2>4. /\ call' = [call EXCEPT ![c] = new] /\ ~At(c, "writing")
        /\ UNCHANGED <<sources, db, clock, view, stale, writer>>
    BY <1>3 DEF StartDecay, At
  <2> HIDE DEF new
  <2> QED BY <2>3, <2>4, ProceedInv
<1>4. ASSUME ResolveSource(c)
      PROVE  IInv' /\ db' = db
  <2> DEFINE default == sources[call[c].src]
             create  == [call[c] EXCEPT !.pc = "create"]
             begin   == [call[c] EXCEPT !.pc = "begin",
                                        !.dflt = Earlier(default, 100)]
  <2>1. /\ call[c].src \in Sources /\ ~At(c, "writing")
        /\ UNCHANGED <<sources, db, clock, view, stale, writer>>
    BY <1>4 DEF ResolveSource, IInv, CallsOK, At
  <2>2. CASE default = None
    <3>1. call' = [call EXCEPT ![c] = create]
      BY <1>4, <2>2 DEF ResolveSource
    <3>2. create \in Calls /\ create.pc = "create" /\ create.src \in Sources
      BY <1>1, <2>1 DEF Calls, PCs
    <3> HIDE DEF create
    <3> QED BY <2>1, <3>1, <3>2, ProceedInv
  <2>3. CASE default # None
    <3>1. call' = [call EXCEPT ![c] = begin]
      BY <1>4, <2>3 DEF ResolveSource
    <3>2. Earlier(default, 100) \in Pct
      BY <2>1, <2>3 DEF IInv, TypeOK, OrNone, Earlier, Pct
    <3>3. begin \in Calls /\ begin.pc = "begin" /\ begin.src \in Sources
      <4> HIDE DEF default
      <4> QED BY <1>1, <2>1, <3>2 DEF Calls, PCs
    <3> HIDE DEF begin
    <3> QED BY <2>1, <3>1, <3>3, ProceedInv
  <2> QED BY <2>2, <2>3
<1>5. ASSUME StampDecay(c)
      PROVE  IInv' /\ db' = db
  <2> DEFINE new == [call[c] EXCEPT !.pc = "stamped", !.at = clock]
  <2>1. /\ call[c].plan # None /\ call[c].todo = <<>> /\ clock \in Times
        /\ ~At(c, "writing")
        /\ call' = [call EXCEPT ![c] = new]
        /\ UNCHANGED <<sources, db, clock, view, stale, writer>>
    BY <1>5 DEF StampDecay, IInv, TypeOK, CallsOK, At
  <2>2. /\ new \in Calls /\ new.pc = "stamped" /\ new.plan # None
        /\ new.todo = <<>>
    BY <1>1, <2>1 DEF Calls, PCs
  <2> HIDE DEF new
  <2> QED BY <2>1, <2>2, ProceedInv
<1> QED BY <1>2, <1>3, <1>4, <1>5

(* The ways a call ends without a commit.                                  *)
LEMMA EndInv ==
    ASSUME IInv, NEW c \in Clients,
           \/ CreateConflict(c) \/ RejectItem(c) \/ UpgradeBusy(c)
           \/ CommitEmpty(c) \/ DecayEmpty(c) \/ BusyTimeout(c) \/ Abort(c)
    PROVE  IInv' /\ db' = db
<1>1. Return(c) /\ UNCHANGED <<sources, db, clock, stale>>
  BY DEF CreateConflict, RejectItem, UpgradeBusy, CommitEmpty, DecayEmpty,
         BusyTimeout, Abort
<1>2. writer' = IF writer = c THEN None ELSE writer
  <2>1. CASE RejectItem(c) \/ Abort(c)
    BY <2>1 DEF RejectItem, Abort
  <2>2. CASE \/ CreateConflict(c) \/ UpgradeBusy(c) \/ CommitEmpty(c)
             \/ DecayEmpty(c) \/ BusyTimeout(c)
    <3>1. ~At(c, "writing") /\ writer' = writer
      BY <2>2 DEF CreateConflict, UpgradeBusy, CommitEmpty, DecayEmpty,
                  BusyTimeout, At
    <3>2. writer # c
      BY <3>1 DEF IInv, LockOK
    <3> QED BY <3>1, <3>2
  <2> QED BY <2>1, <2>2
<1> QED BY <1>1, <1>2, ReturnInv

(* The statements and transactions of no client in particular.             *)
LEMMA OtherInv ==
    ASSUME IInv,
           \/ \E s \in Sources, conf \in Defaults : RegisterSource(s, conf)
           \/ \E k \in Keys, v \in Cves, rel \in Rels : LinkCve(k, v, rel)
           \/ \E v \in Cves, d \in OrNone(Dates), kev \in BOOLEAN :
                 UpsertCve(v, d, kev)
           \/ Tick
    PROVE  IInv' /\ Extends(db, db')
<1>1. db \in Tables /\ Coherent(db) /\ Extends(db, db)
  BY ExtendsReflexive DEF IInv, TypeOK
<1>2. ASSUME NEW s \in Sources, NEW conf \in Defaults, RegisterSource(s, conf)
      PROVE  IInv' /\ Extends(db, db')
  <2>1. /\ sources' = [sources EXCEPT ![s] = conf] /\ conf \in Nat
        /\ writer = None
        /\ stale' = [d \in Clients |-> At(d, "reading")]
        /\ UNCHANGED <<db, clock, call, view, writer>>
    BY <1>2, DefaultAssumption DEF RegisterSource, Outdate
  <2>2. TypeOK'
    BY <2>1 DEF IInv, TypeOK, OrNone, At
  <2>3. CallsOK' /\ LockOK'
    BY <2>1 DEF IInv, CallsOK, LockOK, At, HasNext
  <2>4. ViewsOK'
    BY <2>1 DEF IInv, ViewsOK, At
  <2> QED BY <1>1, <2>1, <2>2, <2>3, <2>4 DEF IInv
<1>3. ASSUME NEW k \in Keys, NEW v \in Cves, NEW rel \in Rels, LinkCve(k, v, rel)
      PROVE  IInv' /\ Extends(db, db')
  <2>1. /\ writer = None /\ Outdate /\ db.ioc[k] # None
        /\ db' = LinkCveIn(db, k, v, rel)
        /\ UNCHANGED <<sources, clock, call, view, writer>>
    BY <1>3 DEF LinkCve
  <2>2. db' \in Tables /\ Coherent(db') /\ Extends(db, db')
    BY <1>1, <2>1, LinkCveKeeps
  <2> QED BY <2>1, <2>2, AutocommitInv
<1>4. ASSUME NEW v \in Cves, NEW d \in OrNone(Dates), NEW kev \in BOOLEAN,
             UpsertCve(v, d, kev)
      PROVE  IInv' /\ Extends(db, db')
  <2>1. /\ writer = None /\ Outdate
        /\ db' = UpsertCveIn(db, v, d, kev)
        /\ UNCHANGED <<sources, clock, call, view, writer>>
    BY <1>4 DEF UpsertCve
  <2>2. db' \in Tables /\ Coherent(db') /\ Extends(db, db')
    BY <1>1, <2>1, UpsertCveKeeps
  <2> QED BY <2>1, <2>2, AutocommitInv
<1>5. ASSUME Tick
      PROVE  IInv' /\ Extends(db, db')
  <2>1. /\ clock' = clock + 1
        /\ UNCHANGED <<sources, db, call, view, stale, writer>>
    BY <1>5 DEF Tick
  <2>2. TypeOK'
    BY <2>1 DEF IInv, TypeOK, Times
  <2> QED BY <1>1, <2>1, <2>2 DEF IInv, CallsOK, LockOK, ViewsOK, At, HasNext
<1> QED BY <1>2, <1>3, <1>4, <1>5
-----------------------------------------------------------------------------
(* Every step keeps the invariant, and the tables it starts from.          *)
LEMMA StepInv ==
    ASSUME IInv, [Next]_vars
    PROVE  IInv' /\ Extends(db, db')
<1>1. Extends(db, db)
  BY ExtendsReflexive DEF IInv, TypeOK
<1>2. ASSUME NEW c \in Clients,
             \/ \E s \in Sources, b \in Batches : StartUpsert(c, s, b)
             \/ StartDecay(c) \/ Continue(c) \/ Abort(c)
      PROVE  IInv' /\ Extends(db, db')
  <2>1. CASE \/ \E s \in Sources, b \in Batches : StartUpsert(c, s, b)
             \/ StartDecay(c) \/ ResolveSource(c) \/ StampDecay(c)
    BY <1>1, <2>1, ProgressInv
  <2>2. CASE CreateSource(c)
    BY <1>1, <2>2, CreateSourceInv DEF CreateSource
  <2>3. CASE SelectFirst(c)
    BY <1>1, <2>3, SelectFirstInv DEF SelectFirst
  <2>4. CASE UpsertItem(c)
    BY <1>1, <2>4, UpsertItemInv DEF UpsertItem
  <2>5. CASE DecayUpdate(c)
    BY <1>1, <2>5, DecayUpdateInv DEF DecayUpdate
  <2>6. CASE Commit(c)
    BY <2>6, CommitInv
  <2>7. CASE \/ CreateConflict(c) \/ RejectItem(c) \/ UpgradeBusy(c)
             \/ CommitEmpty(c) \/ DecayEmpty(c) \/ BusyTimeout(c) \/ Abort(c)
    BY <1>1, <2>7, EndInv
  <2> QED BY <1>2, <2>1, <2>2, <2>3, <2>4, <2>5, <2>6, <2>7 DEF Continue
<1>3. CASE UNCHANGED vars
  BY <1>1, <1>3 DEF vars, IInv, TypeOK, CallsOK, LockOK, ViewsOK, At, HasNext
<1>4. CASE Next
  BY <1>2, <1>4, OtherInv DEF Next
<1> QED BY <1>3, <1>4

(* The inductive invariant: types, coherent tables, and transactions that  *)
(* see the latest commit or are out of date and know it.                   *)
THEOREM Inductive == Spec => []IInv
<1>1. IInv /\ [Next]_vars => IInv'
  BY StepInv
<1> QED BY InitInv, <1>1, PTL DEF Spec

(* Every variable keeps its type, whatever the interleaving.               *)
THEOREM Typed == Spec => []TypeOK
<1>1. IInv => TypeOK
  BY DEF IInv
<1> QED BY Inductive, <1>1, PTL

(* first_seen, last_seen and confidence of every row are always those its  *)
(* sightings imply.                                                        *)
THEOREM AggregatesAlwaysMatch == Spec => []AggregatesMatch
<1>1. IInv => AggregatesMatch
  BY DEF IInv, Coherent, AggregatesMatch
<1> QED BY Inductive, <1>1, PTL

(* The full-text index always holds exactly the current text of the rows.  *)
THEOREM FtsAlwaysInSync == Spec => []FtsInSync
<1>1. IInv => FtsInSync
  BY DEF IInv, Coherent, FtsInSync
<1> QED BY Inductive, <1>1, PTL

(* Tags and links never dangle.                                            *)
THEOREM LinksAlwaysResolved == Spec => []LinksResolved
<1>1. IInv => LinksResolved
  BY DEF IInv, Coherent, LinksResolved
<1> QED BY Inductive, <1>1, PTL

(* What a transaction sees is coherent; it is the latest commit or known   *)
(* to be out of date while it only reads, and extends it once it writes    *)
(* (SQLite's snapshots, as upsert_in_tx and apply_decay use them).         *)
THEOREM ViewsAlwaysOK == Spec => []ViewsOK
<1>1. IInv => ViewsOK
  BY DEF IInv
<1> QED BY Inductive, <1>1, PTL

(* No step loses an observation: no commit undoes a concurrent one.        *)
THEOREM NothingLost == Spec => NoLostObservation
<1>1. IInv /\ [Next]_vars => [Extends(db, db')]_vars
  BY StepInv
<1> QED BY Inductive, <1>1, PTL DEF Spec, NoLostObservation
-----------------------------------------------------------------------------
(* What the calls tell and change: the statistics bulk_upsert() returns    *)
(* are those of its commit, although they are counted before it, and       *)
(* apply_decay() changes nothing but scores, although it reads its rows    *)
(* outside its transaction.                                                *)

(* The rows a commit of u over t adds.                                     *)
New(t, u) == {k \in Keys : t.ioc[k] = None /\ u.ioc[k] # None}

(* `added` counts the new rows, which are finitely many as each upsert     *)
(* adds at most one; no row apply_decay() read has gone or become older,   *)
(* and what it wrote is the latest tables rescored.                        *)
ClientOK(c) ==
    /\ call[c].plan # None =>
          \A k \in Keys : call[c].plan[k] # None =>
             db.ioc[k] # None /\ call[c].plan[k] <= db.ioc[k].last
    /\ Decaying(c) => /\ call[c].plan # None
                      /\ view[c] = Rescored(db, call[c].plan, call[c].at)
    /\ At(c, "writing") => /\ IsFiniteSet(New(db, view[c]))
                           /\ call[c].added = Cardinality(New(db, view[c]))
    /\ ~At(c, "writing") => call[c].added = 0

CallsInv == IInv /\ \A c \in Clients : ClientOK(c)
-----------------------------------------------------------------------------
(* A step that leaves the call alone.  While it writes it has the lock, so *)
(* nobody else changes the tables; before, they may be extended.           *)
LEMMA Bystander ==
    ASSUME IInv, IInv', NEW c \in Clients, ClientOK(c), Extends(db, db'),
           call'[c] = call[c], view'[c] = view[c],
           db' = db \/ ~At(c, "writing")
    PROVE  ClientOK(c)'
<1>1. CASE db' = db
  BY <1>1 DEF ClientOK, Decaying, At
<1>2. CASE ~At(c, "writing")
  <2>1. ASSUME call[c].plan # None, NEW k \in Keys, call[c].plan[k] # None
        PROVE  db'.ioc[k] # None /\ call[c].plan[k] <= db'.ioc[k].last
    <3>1. /\ db.ioc[k] # None /\ call[c].plan[k] <= db.ioc[k].last
          /\ db'.ioc[k] # None /\ db.ioc[k].last <= db'.ioc[k].last
      BY <2>1 DEF ClientOK, Extends
    <3>2. call[c].plan[k] \in Nat
      BY <2>1 DEF IInv, TypeOK, Calls, OrNone, Times
    <3>3. db.ioc[k].last \in Nat /\ db'.ioc[k].last \in Nat
      BY <3>1 DEF IInv, TypeOK, Tables, IocRow, OrNone, Times
    <3> QED BY <3>1, <3>2, <3>3
  <2> QED BY <1>2, <2>1 DEF ClientOK, Decaying, At
<1> QED BY <1>1, <1>2

(* The call itself proceeds, and neither has written nor does it now.      *)
LEMMA Proceeds ==
    ASSUME NEW c \in Clients, ClientOK(c), db' = db,
           ~At(c, "writing"), call'[c].pc # "writing",
           call'[c].plan = call[c].plan, call'[c].added = call[c].added
    PROVE  ClientOK(c)'
BY DEF ClientOK, Decaying, At

(* It has returned.                                                        *)
LEMMA Returned ==
    ASSUME NEW c \in Clients, call'[c] = Idle
    PROVE  ClientOK(c)'
BY DEF ClientOK, Decaying, At, Idle
-----------------------------------------------------------------------------
LEMMA UpsertItemClient ==
    ASSUME IInv, NEW c \in Clients, ClientOK(c), UpsertItem(c)
    PROVE  ClientOK(c)'
<1> DEFINE raw == Head(call[c].todo)
           key == Canon[raw.value]
           now == IF At(c, "reading") THEN call[c].at ELSE clock
           add == view[c].ioc[key] = None
           t   == UpsertInTx(view[c], raw, call[c].src, call[c].dflt, now)
<1>1. /\ call[c] \in Calls /\ call[c].src \in Sources /\ call[c].dflt \in Pct
      /\ now \in Nat /\ view[c] \in Tables
      /\ call[c].todo \in Seq(RawIocs) /\ call[c].todo # <<>>
      /\ raw \in RawIoc /\ call[c].added \in Nat
  <2>1. /\ call[c] \in Calls /\ call[c].src \in Sources /\ call[c].dflt \in Pct
        /\ now \in Nat /\ view[c] \in Tables
        /\ call[c].todo \in Seq(RawIocs) /\ call[c].todo # <<>>
    BY DEF IInv, TypeOK, CallsOK, UpsertItem, CanWrite, At, HasNext, Calls, Times
  <2> QED BY <2>1, NextRaw DEF Calls
<1>2. ~Rejected(raw, call[c].dflt) /\ db' = db
  BY DEF UpsertItem, Head1
<1>3. view' = [view EXCEPT ![c] = t]
  BY DEF UpsertItem, Head1
<1>4. call' = [call EXCEPT ![c] =
                 [call[c] EXCEPT !.pc = "writing",
                                 !.todo = Tail(@),
                                 !.added = @ + IF add THEN 1 ELSE 0,
                                 !.updated = @ + IF add THEN 0 ELSE 1]]
  BY DEF UpsertItem, Head1
<1>5. /\ call'[c].pc = "writing" /\ call'[c].src = call[c].src
      /\ call'[c].plan = call[c].plan
      /\ call'[c].added = call[c].added + IF add THEN 1 ELSE 0
  <2> HIDE DEF add
  <2> QED BY <1>1, <1>4 DEF IInv, TypeOK, Calls
<1>6. view'[c] = t
  <2> HIDE DEF t
  <2> QED BY <1>3 DEF IInv, TypeOK
<1> HIDE DEF raw, now
<1>7. /\ key \in Keys /\ t.ioc[key] # None
      /\ \A k \in Keys : k # key => t.ioc[k] = view[c].ioc[k]
  BY <1>1, <1>2, UpsertAdds
<1> HIDE DEF key, t
<1>8. /\ \A k \in Keys : db.ioc[k] # None => view[c].ioc[k] # None
      /\ IsFiniteSet(New(db, view[c]))
      /\ call[c].added = Cardinality(New(db, view[c]))
  <2>1. CASE At(c, "writing")
    BY <2>1 DEF ClientOK, IInv, ViewsOK, Extends
  <2>2. CASE At(c, "reading") /\ ~stale[c]
    <3>1. view[c] = db /\ call[c].added = 0
      BY <2>2 DEF ClientOK, IInv, ViewsOK, At
    <3>2. New(db, view[c]) = {}
      BY <3>1 DEF New
    <3> QED BY <3>1, <3>2, FS_EmptySet
  <2> QED BY <2>1, <2>2 DEF UpsertItem, CanWrite
<1>9. /\ IsFiniteSet(New(db, t))
      /\ Cardinality(New(db, t))
            = Cardinality(New(db, view[c])) + IF add THEN 1 ELSE 0
  <2>1. CASE add
    <3>1. New(db, t) = New(db, view[c]) \cup {key} /\ key \notin New(db, view[c])
      BY <1>7, <1>8, <2>1 DEF New
    <3> QED BY <1>8, <2>1, <3>1, FS_AddElement
  <2>2. CASE ~add
    <3>1. New(db, t) = New(db, view[c])
      BY <1>7, <2>2 DEF New
    <3>2. Cardinality(New(db, view[c])) \in Nat
      BY <1>8, FS_CardinalityType
    <3> QED BY <1>8, <2>2, <3>1, <3>2
  <2> QED BY <2>1, <2>2
<1>10. ~Decaying(c)'
  BY <1>1, <1>5, NoneAssumption DEF Decaying
<1>11. call'[c].added = Cardinality(New(db, t))
  BY <1>5, <1>8, <1>9
<1> QED BY <1>2, <1>5, <1>6, <1>9, <1>10, <1>11 DEF ClientOK, At
-----------------------------------------------------------------------------
LEMMA DecayUpdateClient ==
    ASSUME IInv, NEW c \in Clients, ClientOK(c), DecayUpdate(c)
    PROVE  ClientOK(c)'
<1> DEFINE t == Rescored(db, call[c].plan, call[c].at)
<1>1. /\ call[c] \in Calls /\ call[c].plan # None /\ call[c].added = 0
      /\ db \in Tables /\ At(c, "stamped")
  BY DEF IInv, TypeOK, CallsOK, ClientOK, DecayUpdate, At
<1>2. db' = db /\ view'[c] = t
  <2>1. view' = [view EXCEPT ![c] = t] /\ db' = db
    BY DEF DecayUpdate
  <2> HIDE DEF t
  <2> QED BY <2>1 DEF IInv, TypeOK
<1>3. /\ call'[c].pc = "writing" /\ call'[c].plan = call[c].plan
      /\ call'[c].added = 0 /\ call'[c].at = call[c].at
  BY <1>1 DEF DecayUpdate, IInv, TypeOK, Calls
<1>4. New(db, t) = {}
  BY <1>1 DEF New, Rescored, Tables
<1>5. IsFiniteSet(New(db, t)) /\ Cardinality(New(db, t)) = 0
  BY <1>4, FS_EmptySet
<1> HIDE DEF t
<1>6. Decaying(c)' => call'[c].plan # None /\ view'[c] = Rescored(db', call'[c].plan, call'[c].at)
  BY <1>1, <1>2, <1>3 DEF t
<1>7. \A k \in Keys : call'[c].plan[k] # None =>
          db'.ioc[k] # None /\ call'[c].plan[k] <= db'.ioc[k].last
  BY <1>1, <1>2, <1>3 DEF ClientOK
<1> QED BY <1>2, <1>3, <1>5, <1>6, <1>7 DEF ClientOK, At

LEMMA StartDecayClient ==
    ASSUME IInv, NEW c \in Clients, StartDecay(c)
    PROVE  ClientOK(c)'
<1>1. /\ call'[c].pc = "rows" /\ call'[c].plan = LastSeen(db)
      /\ call'[c].added = 0 /\ db' = db
  BY DEF StartDecay, IInv, TypeOK, Idle
<1>2. ASSUME NEW k \in Keys, LastSeen(db)[k] # None
      PROVE  db.ioc[k] # None /\ LastSeen(db)[k] <= db.ioc[k].last
  <2>1. db.ioc[k] # None /\ LastSeen(db)[k] = db.ioc[k].last
    BY <1>2 DEF LastSeen
  <2>2. db.ioc[k].last \in Nat
    BY <2>1 DEF IInv, TypeOK, Tables, IocRow, OrNone, Times
  <2> QED BY <2>1, <2>2
<1> QED BY <1>1, <1>2 DEF ClientOK, Decaying, At
-----------------------------------------------------------------------------
(* The steps of a client, for itself and for the others.                   *)
LEMMA ClientStep ==
    ASSUME CallsInv, IInv', Extends(db, db'), NEW c \in Clients,
           \/ \E s \in Sources, b \in Batches : StartUpsert(c, s, b)
           \/ StartDecay(c) \/ Continue(c) \/ Abort(c)
    PROVE  \A d \in Clients : ClientOK(d)'
<1>1. IInv /\ \A d \in Clients : ClientOK(d)
  BY DEF CallsInv
<1>2. ASSUME NEW d \in Clients, d # c
      PROVE  ClientOK(d)'
  <2>1. call'[d] = call[d] /\ view'[d] = view[d]
    BY <1>1, <1>2
    DEF IInv, TypeOK, StartUpsert, StartDecay, Continue, Abort, Return,
        ResolveSource, CreateSource, CreateConflict, SelectFirst, UpsertItem,
        RejectItem, UpgradeBusy, Commit, CommitEmpty, StampDecay, DecayUpdate,
        DecayEmpty, BusyTimeout
  <2>2. db' = db \/ ~At(d, "writing")
    <3>1. CASE Commit(c)
      BY <1>1, <1>2, <3>1 DEF Commit, IInv, LockOK
    <3>2. CASE ~Commit(c)
      BY <3>2
      DEF StartUpsert, StartDecay, Continue, Abort, ResolveSource,
          CreateSource, CreateConflict, SelectFirst, UpsertItem, RejectItem,
          UpgradeBusy, CommitEmpty, StampDecay, DecayUpdate, DecayEmpty,
          BusyTimeout
    <3> QED BY <3>1, <3>2
  <2> QED BY <1>1, <2>1, <2>2, Bystander
<1>3. ClientOK(c)'
  <2>1. call[c] \in Calls /\ call \in [Clients -> Calls]
    BY <1>1 DEF IInv, TypeOK
  <2>2. ASSUME NEW s \in Sources, NEW b \in Batches, StartUpsert(c, s, b)
        PROVE  ClientOK(c)'
    <3>1. /\ call'[c].pc = "resolve" /\ call'[c].plan = None
          /\ call'[c].added = 0
      BY <2>1, <2>2 DEF StartUpsert, Idle
    <3> QED BY <3>1 DEF ClientOK, Decaying, At
  <2>3. CASE StartDecay(c)
    BY <1>1, <2>3, StartDecayClient
  <2>4. CASE \/ ResolveSource(c) \/ CreateSource(c) \/ SelectFirst(c)
             \/ StampDecay(c)
    <3>1. /\ ~At(c, "writing") /\ db' = db
          /\ call'[c].pc # "writing"
          /\ call'[c].plan = call[c].plan /\ call'[c].added = call[c].added
      <4>1. CASE ResolveSource(c)
        BY <2>1, <4>1 DEF ResolveSource, At, Calls
      <4>2. CASE CreateSource(c)
        BY <2>1, <4>2 DEF CreateSource, At, Calls
      <4>3. CASE SelectFirst(c)
        BY <2>1, <4>3 DEF SelectFirst, At, Calls
      <4>4. CASE StampDecay(c)
        BY <2>1, <4>4 DEF StampDecay, At, Calls
      <4> QED BY <2>4, <4>1, <4>2, <4>3, <4>4
    <3> QED BY <1>1, <3>1, Proceeds
  <2>5. CASE UpsertItem(c)
    BY <1>1, <2>5, UpsertItemClient
  <2>6. CASE DecayUpdate(c)
    BY <1>1, <2>6, DecayUpdateClient
  <2>7. CASE \/ CreateConflict(c) \/ RejectItem(c) \/ UpgradeBusy(c)
             \/ Commit(c) \/ CommitEmpty(c) \/ DecayEmpty(c)
             \/ BusyTimeout(c) \/ Abort(c)
    <3>1. Return(c)
      BY <2>7 DEF CreateConflict, RejectItem, UpgradeBusy, Commit,
                  CommitEmpty, DecayEmpty, BusyTimeout, Abort
    <3> QED BY <2>1, <3>1, Returned DEF Return
  <2> QED BY <2>2, <2>3, <2>4, <2>5, <2>6, <2>7 DEF Continue
<1> QED BY <1>2, <1>3

LEMMA CallsStep ==
    ASSUME CallsInv, [Next]_vars
    PROVE  CallsInv'
<1>1. IInv /\ \A d \in Clients : ClientOK(d)
  BY DEF CallsInv
<1>2. IInv' /\ Extends(db, db')
  BY <1>1, StepInv
<1>3. ASSUME NEW c \in Clients,
             \/ \E s \in Sources, b \in Batches : StartUpsert(c, s, b)
             \/ StartDecay(c) \/ Continue(c) \/ Abort(c)
      PROVE  \A d \in Clients : ClientOK(d)'
  BY <1>2, <1>3, ClientStep
<1>4. ASSUME \/ \E s \in Sources, conf \in Defaults : RegisterSource(s, conf)
             \/ \E k \in Keys, v \in Cves, rel \in Rels : LinkCve(k, v, rel)
             \/ \E v \in Cves, d \in OrNone(Dates), kev \in BOOLEAN :
                   UpsertCve(v, d, kev)
             \/ Tick
             \/ UNCHANGED vars
      PROVE  \A d \in Clients : ClientOK(d)'
  <2>1. call' = call /\ view' = view /\ (db' = db \/ writer = None)
    BY <1>4 DEF RegisterSource, LinkCve, UpsertCve, Tick, vars
  <2>2. db' = db \/ \A d \in Clients : ~At(d, "writing")
    BY <1>1, <2>1, ClientAssumption DEF IInv, LockOK
  <2> QED BY <1>1, <1>2, <2>1, <2>2, Bystander
<1>5. \A d \in Clients : ClientOK(d)'
  BY <1>3, <1>4 DEF Next
<1> QED BY <1>2, <1>5 DEF CallsInv

(* CallsInv is inductive: what a call knows of the tables stays true of    *)
(* them while the other clients commit.                                    *)
THEOREM CallsInductive == Spec => []CallsInv
<1>1. Init => CallsInv
  BY InitInv DEF Init, CallsInv, ClientOK, Decaying, At, Idle
<1>2. CallsInv /\ [Next]_vars => CallsInv'
  BY CallsStep
<1> QED BY <1>1, <1>2, PTL DEF Spec
-----------------------------------------------------------------------------
(* bulk_upsert() returns the number of rows its commit adds, although it   *)
(* looks each one up, with `existing`, before it has the write lock.       *)
THEOREM StatsAlwaysExact == Spec => []StatsExact
<1>1. CallsInv => StatsExact
  BY DEF CallsInv, ClientOK, StatsExact, New
<1> QED BY CallsInductive, <1>1, PTL

(* apply_decay() puts back nothing it read outside its transaction, and a  *)
(* row refreshed meanwhile scores too low, never too high.                 *)
THEOREM DecayAlwaysHarmless == Spec => []DecayHarmless
<1>1. ASSUME CallsInv, NEW c \in Clients, Decaying(c)
      PROVE  /\ \A k \in Keys :
                   /\ db.ioc[k] = None <=> view[c].ioc[k] = None
                   /\ db.ioc[k] # None =>
                         view[c].ioc[k] = [db.ioc[k] EXCEPT !.age = view[c].ioc[k].age]
                   /\ call[c].plan[k] # None =>
                         view[c].ioc[k].age >= call[c].at - db.ioc[k].last
             /\ view[c] = [db EXCEPT !.ioc = view[c].ioc]
  <2> DEFINE plan == call[c].plan
             at   == call[c].at
             row(k) == IF plan[k] = None \/ db.ioc[k] = None
                       THEN db.ioc[k]
                       ELSE [db.ioc[k] EXCEPT !.age = ScoredAge(plan[k], at)]
  <2>1. /\ plan # None /\ view[c] = Rescored(db, plan, at)
        /\ \A k \in Keys : plan[k] # None =>
              db.ioc[k] # None /\ plan[k] <= db.ioc[k].last
    BY <1>1 DEF CallsInv, ClientOK
  <2>2. plan \in [Keys -> OrNone(Times)] /\ at \in Nat /\ db \in Tables
    BY <1>1, <2>1 DEF CallsInv, IInv, TypeOK, Calls, OrNone, Times
  <2>3. view[c] = [db EXCEPT !.ioc = [k \in Keys |-> row(k)]]
    BY <2>1 DEF Rescored
  <2> HIDE DEF plan, at, row
  <2>4. /\ view[c].ioc = [k \in Keys |-> row(k)]
        /\ view[c] = [db EXCEPT !.ioc = view[c].ioc]
    BY <2>2, <2>3 DEF Tables
  <2>5. ASSUME NEW k \in Keys
        PROVE  /\ db.ioc[k] = None <=> row(k) = None
               /\ db.ioc[k] # None =>
                     row(k) = [db.ioc[k] EXCEPT !.age = row(k).age]
               /\ plan[k] # None => row(k).age >= at - db.ioc[k].last
    <3>1. CASE plan[k] = None \/ db.ioc[k] = None
      <4>1. row(k) = db.ioc[k] /\ plan[k] = None
        BY <2>1, <3>1 DEF row
      <4>2. db.ioc[k] # None => db.ioc[k] \in IocRow
        BY <2>2 DEF Tables, OrNone
      <4> QED BY <4>1, <4>2 DEF IocRow
    <3>2. CASE plan[k] # None /\ db.ioc[k] # None
      <4> DEFINE age == ScoredAge(plan[k], at)
      <4>1. row(k) = [db.ioc[k] EXCEPT !.age = age]
        BY <3>2 DEF row
      <4>2. /\ db.ioc[k] \in IocRow /\ plan[k] \in Nat /\ db.ioc[k].last \in Nat
            /\ plan[k] <= db.ioc[k].last
        BY <2>1, <2>2, <3>2 DEF Tables, OrNone, Times, IocRow
      <4>3. age \in Nat /\ age >= at - db.ioc[k].last
        BY <2>2, <4>2 DEF ScoredAge, Later
      <4> HIDE DEF age
      <4>4. row(k) \in IocRow /\ row(k).age = age
        BY <4>1, <4>2, <4>3 DEF IocRow
      <4>5. row(k) # None
        BY <4>4, NoneAssumption
      <4> QED BY <3>2, <4>1, <4>3, <4>4, <4>5
    <3> QED BY <3>1, <3>2
  <2> QED BY <2>4, <2>5 DEF plan, at
<1>2. CallsInv => DecayHarmless
  BY <1>1 DEF DecayHarmless
<1> QED BY CallsInductive, <1>2, PTL
-----------------------------------------------------------------------------
(* IocStore implements SerialStore, for every set of clients, sources and  *)
(* batches: a commit of bulk_upsert() is the whole batch applied, at past  *)
(* times, to the tables committed last, and a commit of apply_decay()      *)
(* rescores those; no other step of a call changes the tables.             *)

(* The confidence a call may put in for a missing one.                     *)
CallDefaults == {AutoCreatedConf} \cup {Earlier(d, 100) : d \in Defaults}

SourcesOK ==
    \A s \in Sources : sources[s] \in OrNone({AutoCreatedConf} \cup Defaults)

(* c has written the first n indicators of b, stamped nows, over the       *)
(* tables as they are, and has the rest of b ahead of it.                  *)
Midway(c, b, n, nows) ==
    /\ call[c].todo = SubSeq(b, n + 1, Len(b))
    /\ \A i, j \in 1 .. n : i <= j => nows[i] <= nows[j]
    /\ \A i \in 1 .. n : ~Rejected(b[i], call[c].dflt)
    /\ view[c] = Applied(db, SubSeq(b, 1, n), call[c].src, call[c].dflt, nows)

(* How far a call is in applying a batch of a caller, none of which is     *)
(* gone before the first write.                                            *)
ProgressOK(c) ==
    /\ call[c].at <= clock
    /\ call[c].pc \in {"resolve", "create", "begin", "reading"}
          => call[c].todo \in Batches
    /\ call[c].pc \in {"begin", "reading"} => call[c].dflt \in CallDefaults
    /\ call[c].pc \in {"rows", "stamped"} => call[c].src = None
    /\ At(c, "writing") => HasLatest(view[c])
    /\ At(c, "writing") /\ call[c].src # None =>
          /\ call[c].dflt \in CallDefaults
          /\ \E b \in Batches : \E n \in 1 .. Len(b) :
             \E nows \in [1 .. n -> 0 .. clock] : Midway(c, b, n, nows)

SerialInv == /\ CallsInv
             /\ HasLatest(db)
             /\ SourcesOK
             /\ \A c \in Clients : ProgressOK(c)
-----------------------------------------------------------------------------
LEMMA BatchType ==
    ASSUME NEW b \in Batches
    PROVE  /\ b \in Seq(RawIocs) /\ Len(b) \in Nat
           /\ \A i \in 1 .. Len(b) : b[i] \in RawIocs /\ b[i] \in RawIoc
<1>1. b \in Seq(RawIocs)
  BY BatchAssumption
<1>2. Len(b) \in Nat /\ \A i \in 1 .. Len(b) : b[i] \in RawIocs
  BY <1>1, LenProperties, ElementOfSeq
<1> QED BY <1>1, <1>2, RawAssumption

(* A step that leaves the call alone, and the tables if it writes.         *)
LEMMA BystanderProgress ==
    ASSUME IInv, IInv', NEW c \in Clients, ProgressOK(c), clock <= clock',
           call'[c] = call[c], view'[c] = view[c],
           db' = db \/ ~At(c, "writing")
    PROVE  ProgressOK(c)'
<1>1. clock \in Nat /\ clock' \in Nat /\ call[c].at \in Nat
  BY DEF IInv, TypeOK, Times, Calls
<1>2. call'[c].at <= clock'
  BY <1>1 DEF ProgressOK
<1>3. CASE At(c, "writing") /\ call[c].src # None
  <2>1. db' = db
    BY <1>3
  <2>2. PICK b \in Batches :
            \E n \in 1 .. Len(b) :
               \E nows \in [1 .. n -> 0 .. clock] : Midway(c, b, n, nows)
    BY <1>3 DEF ProgressOK
  <2>3. PICK n \in 1 .. Len(b) :
            \E nows \in [1 .. n -> 0 .. clock] : Midway(c, b, n, nows)
    BY <2>2
  <2>4. PICK nows \in [1 .. n -> 0 .. clock] : Midway(c, b, n, nows)
    BY <2>3
  <2>5. Midway(c, b, n, nows)'
    BY <2>1, <2>4 DEF Midway
  <2>6. nows \in [1 .. n -> 0 .. clock']
    BY <1>1
  <2> QED BY <1>2, <1>3, <2>3, <2>5, <2>6 DEF ProgressOK, At
<1>4. CASE ~(At(c, "writing") /\ call[c].src # None)
  BY <1>2, <1>4 DEF ProgressOK, At
<1> QED BY <1>3, <1>4

(* The first indicator written, over the tables as they are, or one more.  *)
LEMMA UpsertItemProgress ==
    ASSUME IInv, HasLatest(db), NEW c \in Clients, ProgressOK(c), UpsertItem(c)
    PROVE  ProgressOK(c)'
<1> DEFINE raw == Head(call[c].todo)
           src == call[c].src
           dflt == call[c].dflt
           new == [call[c] EXCEPT
                     !.pc = "writing", !.todo = Tail(@),
                     !.added = @ + IF view[c].ioc[Canon[raw.value]] = None THEN 1 ELSE 0,
                     !.updated = @ + IF view[c].ioc[Canon[raw.value]] = None THEN 0 ELSE 1]
<1>1. /\ call[c] \in Calls /\ src \in Sources /\ dflt \in Pct
      /\ clock \in Nat /\ call[c].at \in 0 .. clock /\ view[c] \in Tables
      /\ call[c].todo \in Seq(RawIocs) /\ call[c].todo # <<>>
  <2>1. /\ call[c] \in Calls /\ clock \in Nat /\ view[c] \in Tables
        /\ call[c].at <= clock
    BY DEF IInv, TypeOK, ProgressOK, Times
  <2>2. src \in Sources /\ call[c].todo # <<>>
    BY DEF IInv, CallsOK, UpsertItem, CanWrite, At, HasNext
  <2> QED BY <2>1, <2>2 DEF Calls, Times
<1>2. PICK now \in 0 .. clock :
          now = IF At(c, "reading") THEN call[c].at ELSE clock
  BY <1>1
<1> DEFINE t == UpsertInTx(view[c], raw, src, dflt, now)
<1>3. raw \in RawIoc /\ ~Rejected(raw, dflt) /\ db' = db /\ clock' = clock
  BY <1>1, NextRaw DEF UpsertItem, Head1
<1>4. view' = [view EXCEPT ![c] = t] /\ call' = [call EXCEPT ![c] = new]
  BY <1>2 DEF UpsertItem, Head1
<1>5. /\ call'[c].pc = "writing" /\ call'[c].src = src /\ call'[c].dflt = dflt
      /\ call'[c].todo = Tail(call[c].todo) /\ call'[c].at = call[c].at
  BY <1>1, <1>4 DEF IInv, TypeOK, Calls
<1>6. view'[c] = t
  <2> HIDE DEF t
  <2> QED BY <1>4 DEF IInv, TypeOK
<1> HIDE DEF t, new
<1>7. dflt \in CallDefaults /\ HasLatest(view[c])
  BY <1>1, NoneAssumption DEF UpsertItem, CanWrite, ProgressOK, At, IInv, ViewsOK
<1>8. HasLatest(t)
  <2> HIDE DEF raw, src, dflt
  <2> QED BY <1>1, <1>3, <1>7, UpsertLatest DEF t
<1>9. \E b \in Batches : \E n \in 1 .. Len(b) :
      \E nows \in [1 .. n -> 0 .. clock'] : Midway(c, b, n, nows)'
  <2>1. CASE At(c, "reading")
    <3>1. PICK b \in Batches : b = call[c].todo
      BY <2>1 DEF ProgressOK, At
    <3> DEFINE nows == [i \in 1 .. 1 |-> now]
    <3>2. /\ view[c] = db
          /\ b \in Seq(RawIocs) /\ Len(b) \in Nat /\ 1 \in 1 .. Len(b)
      <4>1. view[c] = db
        BY <2>1 DEF UpsertItem, CanWrite, At, IInv, ViewsOK
      <4> QED BY <1>1, <3>1, <4>1, BatchType
    <3>3. Tail(b) = SubSeq(b, 1 + 1, Len(b)) /\ raw = b[1] /\ b # <<>>
      BY <1>1, <3>1, TailIsSubSeq, HeadTailProperties
    <3> HIDE DEF nows, raw, src, dflt
    <3>4. t = Applied(db, SubSeq(b, 1, 1), src, dflt, nows)
      <4>1. Applied(db, SubSeq(b, 1, 1), src, dflt, nows)
               = UpsertInTx(db, b[1], src, dflt, nows[1])
        BY <3>2, <3>3, AppliedFirst
      <4> QED BY <3>2, <3>3, <4>1 DEF t, nows
    <3>5. /\ nows \in [1 .. 1 -> 0 .. clock']
          /\ \A i, j \in 1 .. 1 : i <= j => nows[i] <= nows[j]
      BY <1>1, <1>3 DEF nows
    <3>6. Midway(c, b, 1, nows)'
      <4>1. call'[c].todo = SubSeq(b, 1 + 1, Len(b))
        BY <1>5, <3>1, <3>3
      <4>2. \A i \in 1 .. 1 : ~Rejected(b[i], dflt)
        BY <1>3, <3>3
      <4> QED BY <1>3, <1>5, <1>6, <3>4, <3>5, <4>1, <4>2 DEF Midway, src, dflt
    <3> QED BY <3>2, <3>5, <3>6
  <2>2. CASE At(c, "writing")
    <3>1. PICK b \in Batches :
              \E n \in 1 .. Len(b) :
                 \E nows \in [1 .. n -> 0 .. clock] : Midway(c, b, n, nows)
      BY <1>1, <2>2, NoneAssumption DEF ProgressOK
    <3>2. PICK n \in 1 .. Len(b) :
              \E nows \in [1 .. n -> 0 .. clock] : Midway(c, b, n, nows)
      BY <3>1
    <3>3. PICK nows \in [1 .. n -> 0 .. clock] : Midway(c, b, n, nows)
      BY <3>2
    <3> DEFINE ows == [i \in 1 .. n + 1 |-> IF i = n + 1 THEN now ELSE nows[i]]
    <3>4. /\ b \in Seq(RawIocs) /\ Len(b) \in Nat
          /\ call[c].todo = SubSeq(b, n + 1, Len(b))
      BY <3>3, BatchType DEF Midway
    <3>5. n + 1 \in 1 .. Len(b)
      <4>1. CASE n = Len(b)
        <5>1. SubSeq(b, n + 1, Len(b)) = <<>>
          BY <3>4, <4>1, SubSeqEmpty
        <5> QED BY <1>1, <3>4, <5>1
      <4> QED BY <3>4, <4>1
    <3>6. raw = b[n + 1] /\ Tail(call[c].todo) = SubSeq(b, (n + 1) + 1, Len(b))
      BY <3>4, <3>5, HeadTailOfSubSeq
    <3>7. now = clock
      BY <1>2, <2>2 DEF At
    <3>8. /\ ows \in [1 .. n + 1 -> 0 .. clock']
          /\ \A i, j \in 1 .. n + 1 : i <= j => ows[i] <= ows[j]
      BY <1>1, <1>3, <3>3, <3>7 DEF Midway
    <3>9. t = Applied(db, SubSeq(b, 1, n + 1), src, dflt, ows)
      <4>1. /\ view[c] = Applied(db, SubSeq(b, 1, n), src, dflt, nows)
            /\ \A i \in 1 .. n : ows[i] = nows[i]
            /\ ows[n + 1] = now
        BY <3>3, <3>5 DEF Midway
      <4> HIDE DEF ows, raw, src, dflt
      <4>2. n \in Nat /\ n < Len(b)
        BY <3>4, <3>5
      <4>3. Applied(db, SubSeq(b, 1, n + 1), src, dflt, ows)
               = UpsertInTx(Applied(db, SubSeq(b, 1, n), src, dflt, nows),
                            b[n + 1], src, dflt, ows[n + 1])
        <5>1. b \in Seq(RawIocs) /\ \A i \in 1 .. n : nows[i] = ows[i]
          BY <3>4, <4>1
        <5> QED BY <4>2, <5>1, AppliedNext
      <4> QED BY <3>6, <4>1, <4>3 DEF t
    <3>10. \A i \in 1 .. n + 1 : ~Rejected(b[i], dflt)
      <4>1. \A i \in 1 .. n : ~Rejected(b[i], dflt)
        BY <3>3 DEF Midway
      <4>2. ~Rejected(b[n + 1], dflt)
        BY <1>3, <3>6
      <4> QED BY <4>1, <4>2
    <3> HIDE DEF ows, raw
    <3>11. Midway(c, b, n + 1, ows)'
      BY <1>3, <1>5, <1>6, <3>6, <3>8, <3>9, <3>10 DEF Midway
    <3> QED BY <3>5, <3>8, <3>11
  <2> QED BY <2>1, <2>2 DEF UpsertItem, CanWrite
<1> QED
  <2>1. call'[c].at <= clock'
    BY <1>3, <1>5 DEF ProgressOK
  <2> QED BY <1>5, <1>6, <1>7, <1>8, <1>9, <2>1 DEF ProgressOK, At

LEMMA ReturnedProgress ==
    ASSUME NEW c \in Clients, call'[c] = Idle, clock' \in Nat
    PROVE  ProgressOK(c)'
BY DEF ProgressOK, At, Idle

(* The steps of a call before it writes.                                   *)
LEMMA EarlyProgress ==
    ASSUME IInv, IInv', SourcesOK, HasLatest(db), NEW c \in Clients, ProgressOK(c),
           \/ \E s \in Sources, b \in Batches : StartUpsert(c, s, b)
           \/ StartDecay(c) \/ ResolveSource(c) \/ CreateSource(c)
           \/ SelectFirst(c) \/ StampDecay(c) \/ DecayUpdate(c)
    PROVE  ProgressOK(c)'
<1>1. /\ call \in [Clients -> Calls] /\ call[c] \in Calls
      /\ clock \in Nat /\ call[c].at \in Nat /\ call[c].at <= clock
  BY DEF IInv, TypeOK, Times, Calls, ProgressOK
<1>2. AutoCreatedConf \in CallDefaults
  BY DEF CallDefaults
<1>3. ASSUME NEW s \in Sources, NEW b \in Batches, StartUpsert(c, s, b)
      PROVE  ProgressOK(c)'
  <2>1. /\ call'[c].pc = "resolve" /\ call'[c].todo = b /\ call'[c].at = 0
        /\ clock' = clock
    BY <1>1, <1>3 DEF StartUpsert, Idle
  <2> QED BY <1>1, <2>1 DEF ProgressOK, At
<1>4. CASE StartDecay(c)
  <2>1. /\ call'[c].pc = "rows" /\ call'[c].src = None /\ call'[c].at = 0
        /\ clock' = clock
    BY <1>1, <1>4 DEF StartDecay, Idle
  <2> QED BY <1>1, <2>1 DEF ProgressOK, At
<1>5. CASE ResolveSource(c)
  <2> DEFINE default == sources[call[c].src]
  <2>1. At(c, "resolve") /\ clock' = clock
    BY <1>5 DEF ResolveSource
  <2>2. default \in OrNone({AutoCreatedConf} \cup Defaults)
    BY <2>1 DEF SourcesOK, IInv, CallsOK, At
  <2>3. CASE default = None
    <3>1. /\ call'[c].pc = "create" /\ call'[c].todo = call[c].todo
          /\ call'[c].at = call[c].at
      BY <1>1, <1>5, <2>3 DEF ResolveSource, Calls
    <3> QED BY <1>1, <2>1, <3>1 DEF ProgressOK, At
  <2>4. CASE default # None
    <3>1. /\ call'[c].pc = "begin" /\ call'[c].todo = call[c].todo
          /\ call'[c].at = call[c].at
          /\ call'[c].dflt = Earlier(default, 100)
      BY <1>1, <1>5, <2>4 DEF ResolveSource, Calls
    <3>2. Earlier(default, 100) \in CallDefaults
      BY <2>2, <2>4 DEF CallDefaults, OrNone, Earlier, AutoCreatedConf
    <3> QED BY <1>1, <2>1, <3>1, <3>2 DEF ProgressOK, At
  <2> QED BY <2>3, <2>4
<1>6. CASE CreateSource(c)
  <2>1. /\ At(c, "create") /\ clock' = clock
        /\ call'[c].pc = "begin" /\ call'[c].todo = call[c].todo
        /\ call'[c].at = call[c].at /\ call'[c].dflt = AutoCreatedConf
    BY <1>1, <1>6 DEF CreateSource, Calls
  <2> QED BY <1>1, <1>2, <2>1 DEF ProgressOK, At
<1>7. CASE SelectFirst(c)
  <2>1. /\ At(c, "begin") /\ clock' = clock
        /\ call'[c].pc = "reading" /\ call'[c].todo = call[c].todo
        /\ call'[c].at = clock /\ call'[c].dflt = call[c].dflt
    BY <1>1, <1>7 DEF SelectFirst, Calls
  <2> QED BY <1>1, <2>1 DEF ProgressOK, At
<1>8. CASE StampDecay(c)
  <2>1. /\ At(c, "rows") /\ clock' = clock
        /\ call'[c].pc = "stamped" /\ call'[c].at = clock
        /\ call'[c].src = call[c].src
    BY <1>1, <1>8 DEF StampDecay, Calls
  <2> QED BY <1>1, <2>1 DEF ProgressOK, At
<1>9. CASE DecayUpdate(c)
  <2> DEFINE t == Rescored(db, call[c].plan, call[c].at)
  <2>1. /\ At(c, "stamped") /\ clock' = clock
        /\ call'[c].pc = "writing" /\ call'[c].at = call[c].at
        /\ call'[c].src = call[c].src
        /\ view' = [view EXCEPT ![c] = t]
    BY <1>1, <1>9 DEF DecayUpdate, Calls
  <2>2. view'[c] = t
    <3> HIDE DEF t
    <3> QED BY <2>1 DEF IInv, TypeOK
  <2>3. HasLatest(t)
    <3>1. call[c].plan \in [Keys -> OrNone(Times)] /\ db \in Tables
      BY <2>1 DEF IInv, TypeOK, CallsOK, At, Calls, OrNone
    <3>2. LastSeen(t) = LastSeen(db)
      BY <1>1, <3>1, RescoredLatest
    <3> HIDE DEF t
    <3> QED BY <3>2, SameLatest
  <2> HIDE DEF t
  <2> QED BY <1>1, <2>1, <2>2, <2>3 DEF ProgressOK, At
<1> QED BY <1>3, <1>4, <1>5, <1>6, <1>7, <1>8, <1>9

(* The steps of a client, for itself and for the others.                   *)
LEMMA ClientProgress ==
    ASSUME SerialInv, CallsInv', NEW c \in Clients,
           \/ \E s \in Sources, b \in Batches : StartUpsert(c, s, b)
           \/ StartDecay(c) \/ Continue(c) \/ Abort(c)
    PROVE  SerialInv'
<1>1. /\ IInv /\ IInv' /\ HasLatest(db) /\ SourcesOK
      /\ \A d \in Clients : ProgressOK(d)
  BY DEF SerialInv, CallsInv
<1>2. clock' = clock /\ clock \in Nat
  BY <1>1
  DEF IInv, TypeOK, Times, StartUpsert, StartDecay, Continue, Abort,
      ResolveSource, CreateSource, CreateConflict, SelectFirst, UpsertItem,
      RejectItem, UpgradeBusy, Commit, CommitEmpty, StampDecay, DecayUpdate,
      DecayEmpty, BusyTimeout
<1>3. ASSUME NEW d \in Clients, d # c
      PROVE  ProgressOK(d)'
  <2>1. call'[d] = call[d] /\ view'[d] = view[d]
    BY <1>1, <1>3
    DEF IInv, TypeOK, StartUpsert, StartDecay, Continue, Abort, Return,
        ResolveSource, CreateSource, CreateConflict, SelectFirst, UpsertItem,
        RejectItem, UpgradeBusy, Commit, CommitEmpty, StampDecay, DecayUpdate,
        DecayEmpty, BusyTimeout
  <2>2. db' = db \/ ~At(d, "writing")
    <3>1. CASE Commit(c)
      BY <1>1, <1>3, <3>1 DEF Commit, IInv, LockOK
    <3>2. CASE ~Commit(c)
      BY <3>2
      DEF StartUpsert, StartDecay, Continue, Abort, ResolveSource,
          CreateSource, CreateConflict, SelectFirst, UpsertItem, RejectItem,
          UpgradeBusy, CommitEmpty, StampDecay, DecayUpdate, DecayEmpty,
          BusyTimeout
    <3> QED BY <3>1, <3>2
  <2> QED BY <1>1, <1>2, <2>1, <2>2, BystanderProgress
<1>4. ProgressOK(c)'
  <2>1. CASE \/ \E s \in Sources, b \in Batches : StartUpsert(c, s, b)
             \/ StartDecay(c) \/ ResolveSource(c) \/ CreateSource(c)
             \/ SelectFirst(c) \/ StampDecay(c) \/ DecayUpdate(c)
    BY <1>1, <2>1, EarlyProgress
  <2>2. CASE UpsertItem(c)
    BY <1>1, <2>2, UpsertItemProgress
  <2>3. CASE \/ CreateConflict(c) \/ RejectItem(c) \/ UpgradeBusy(c)
             \/ Commit(c) \/ CommitEmpty(c) \/ DecayEmpty(c)
             \/ BusyTimeout(c) \/ Abort(c)
    <3>1. Return(c)
      BY <2>3 DEF CreateConflict, RejectItem, UpgradeBusy, Commit,
                  CommitEmpty, DecayEmpty, BusyTimeout, Abort
    <3> QED BY <1>1, <1>2, <3>1, ReturnedProgress DEF Return, IInv, TypeOK
  <2> QED BY <2>1, <2>2, <2>3 DEF Continue
<1>5. HasLatest(db)'
  <2>1. CASE Commit(c)
    BY <1>1, <2>1 DEF Commit, ProgressOK
  <2>2. CASE ~Commit(c)
    <3>1. db' = db
      BY <2>2
      DEF StartUpsert, StartDecay, Continue, Abort, ResolveSource,
          CreateSource, CreateConflict, SelectFirst, UpsertItem, RejectItem,
          UpgradeBusy, CommitEmpty, StampDecay, DecayUpdate, DecayEmpty,
          BusyTimeout
    <3> QED BY <1>1, <3>1
  <2> QED BY <2>1, <2>2
<1>6. SourcesOK'
  <2>1. CASE CreateSource(c)
    BY <1>1, <2>1 DEF SourcesOK, CreateSource, OrNone, IInv, TypeOK
  <2>2. CASE ~CreateSource(c)
    <3>1. sources' = sources
      BY <2>2
      DEF StartUpsert, StartDecay, Continue, Abort, ResolveSource, Commit,
          CreateConflict, SelectFirst, UpsertItem, RejectItem,
          UpgradeBusy, CommitEmpty, StampDecay, DecayUpdate, DecayEmpty,
          BusyTimeout
    <3> QED BY <1>1, <3>1 DEF SourcesOK
  <2> QED BY <2>1, <2>2
<1> QED BY <1>3, <1>4, <1>5, <1>6 DEF SerialInv

LEMMA SerialStep ==
    ASSUME SerialInv, [Next]_vars
    PROVE  SerialInv'
<1>1. /\ CallsInv /\ IInv /\ HasLatest(db) /\ SourcesOK
      /\ \A d \in Clients : ProgressOK(d)
  BY DEF SerialInv, CallsInv
<1>2. CallsInv' /\ IInv'
  BY <1>1, CallsStep DEF CallsInv
<1>3. ASSUME NEW c \in Clients,
             \/ \E s \in Sources, b \in Batches : StartUpsert(c, s, b)
             \/ StartDecay(c) \/ Continue(c) \/ Abort(c)
      PROVE  SerialInv'
  BY <1>2, <1>3, ClientProgress
<1>4. ASSUME \/ \E s \in Sources, conf \in Defaults : RegisterSource(s, conf)
             \/ \E k \in Keys, v \in Cves, rel \in Rels : LinkCve(k, v, rel)
             \/ \E v \in Cves, d \in OrNone(Dates), kev \in BOOLEAN :
                   UpsertCve(v, d, kev)
             \/ Tick
             \/ UNCHANGED vars
      PROVE  SerialInv'
  <2>1. call' = call /\ view' = view /\ (db' = db \/ writer = None)
    BY <1>4 DEF RegisterSource, LinkCve, UpsertCve, Tick, vars
  <2>2. db' = db \/ \A d \in Clients : ~At(d, "writing")
    BY <1>1, <2>1, ClientAssumption DEF IInv, LockOK
  <2>3. clock <= clock'
    BY <1>1, <1>4
    DEF IInv, TypeOK, Times, RegisterSource, LinkCve, UpsertCve, Tick, vars
  <2>4. \A d \in Clients : ProgressOK(d)'
    BY <1>1, <1>2, <2>1, <2>2, <2>3, BystanderProgress
  <2>5. HasLatest(db)'
    <3>1. db \in Tables
      BY <1>1 DEF IInv, TypeOK
    <3>2. LastSeen(db') = LastSeen(db)
      BY <1>4, <3>1, LinkCveLatest, UpsertCveLatest
      DEF RegisterSource, LinkCve, UpsertCve, Tick, vars
    <3> QED BY <1>1, <3>2, SameLatest
  <2>6. SourcesOK'
    <3>1. CASE \E s \in Sources, conf \in Defaults : RegisterSource(s, conf)
      BY <1>1, <3>1 DEF SourcesOK, RegisterSource, OrNone, IInv, TypeOK
    <3>2. CASE sources' = sources
      BY <1>1, <3>2 DEF SourcesOK
    <3> QED BY <1>4, <3>1, <3>2 DEF LinkCve, UpsertCve, Tick, vars
  <2> QED BY <1>2, <2>4, <2>5, <2>6 DEF SerialInv
<1> QED BY <1>3, <1>4 DEF Next

(* SerialInv is inductive: a transaction holds a prefix of its batch,      *)
(* applied to the tables as they are.                                      *)
THEOREM SerialInductive == Spec => []SerialInv
<1>1. Init => CallsInv
  BY InitInv DEF Init, CallsInv, ClientOK, Decaying, At, Idle
<1>2. Init => SerialInv
  BY <1>1, EmptyLatest
  DEF Init, SerialInv, SourcesOK, OrNone, ProgressOK, At, Idle
<1>3. SerialInv /\ [Next]_vars => SerialInv'
  BY SerialStep
<1> QED BY <1>2, <1>3, PTL DEF Spec
-----------------------------------------------------------------------------
(* SerialStore's operators, on its variables, are those of IocTables.      *)
LEMMA SameUpsert ==
    ASSUME NEW t, NEW b, NEW s, NEW dflt, NEW nows, NEW raw
    PROVE  /\ Serial!Applied(t, b, s, dflt, nows) = Applied(t, b, s, dflt, nows)
           /\ Serial!Rejected(raw, dflt) <=> Rejected(raw, dflt)
           /\ Serial!Earlier(t, 100) = Earlier(t, 100)
BY DEF Serial!Applied, Applied, Serial!UpsertInTx, UpsertInTx,
       Serial!MergedRow, MergedRow, Serial!MergedSighting, MergedSighting,
       Serial!WithStubs, WithStubs, Serial!Reindexed, Reindexed,
       Serial!ConfsOf, ConfsOf, Serial!Or, Or, Serial!Earlier, Earlier,
       Serial!Later, Later, Serial!Rejected, Rejected,
       Serial!Malformed, Malformed

LEMMA SameRescored ==
    ASSUME NEW t, NEW plan, NEW now
    PROVE  /\ Serial!Rescored(t, plan, now) = Rescored(t, plan, now)
           /\ Serial!LastSeen(t) = LastSeen(t)
BY DEF Serial!Rescored, Rescored, Serial!ScoredAge, ScoredAge,
       Serial!Later, Later, Serial!LastSeen, LastSeen

LEMMA SameLinkCve ==
    ASSUME NEW t, NEW k, NEW v, NEW rel
    PROVE  Serial!LinkCveIn(t, k, v, rel) = LinkCveIn(t, k, v, rel)
BY DEF Serial!LinkCveIn, LinkCveIn, Serial!WithStubs, WithStubs, Serial!Or, Or

LEMMA SameUpsertCve ==
    ASSUME NEW t, NEW v, NEW date, NEW kev
    PROVE  Serial!UpsertCveIn(t, v, date, kev) = UpsertCveIn(t, v, date, kev)
BY DEF Serial!UpsertCveIn, UpsertCveIn, Serial!Or, Or

(* No row is later than SerialStore's Latest.                              *)
LEMMA LatestBound ==
    ASSUME NEW t \in Tables, HasLatest(t), NEW k \in Keys, t.ioc[k] # None
    PROVE  Serial!Latest(t) \in Nat /\ t.ioc[k].last <= Serial!Latest(t)
<1> DEFINE lasts == {0} \cup ({LastSeen(t)[j] : j \in Keys} \ {None})
           bound(n) == \A j \in Keys : LastSeen(t)[j] # None => LastSeen(t)[j] <= n
<1>1. Serial!Latest(t) = CHOOSE n \in lasts : bound(n)
  BY SameRescored DEF Serial!Latest
<1>2. \E n \in lasts : bound(n)
  BY DEF HasLatest
<1> DEFINE n == Serial!Latest(t)
<1>3. n \in lasts /\ bound(n)
  <2> HIDE DEF lasts, bound
  <2> QED BY <1>1, <1>2
<1>4. \A j \in Keys : t.ioc[j] # None => t.ioc[j].last \in Nat
  BY DEF Tables, OrNone, IocRow, Times
<1>5. \A j \in Keys :
         LastSeen(t)[j] = IF t.ioc[j] = None THEN None ELSE t.ioc[j].last
  BY DEF LastSeen
<1> HIDE DEF n
<1>6. n \in Nat /\ t.ioc[k].last <= n
  BY <1>3, <1>4, <1>5, NoneAssumption
<1> QED BY <1>6 DEF n
-----------------------------------------------------------------------------
(* A commit is a whole batch applied, or a rescoring.                      *)
LEMMA CommitRefines ==
    ASSUME SerialInv, NEW c \in Clients, Commit(c)
    PROVE  Serial!Next
<1> DEFINE src  == call[c].src
           dflt == call[c].dflt
<1>1. /\ At(c, "writing") /\ call[c].todo = <<>>
      /\ db' = view[c] /\ clock' = clock
  BY DEF Commit, HasNext
<1>2. /\ IInv /\ ClientOK(c) /\ ProgressOK(c) /\ HasLatest(db)
      /\ call[c] \in Calls /\ db \in Tables /\ clock \in Nat
  BY DEF SerialInv, CallsInv, IInv, TypeOK, Times
<1>3. CASE src # None
  <2>1. PICK b \in Batches :
            \E n \in 1 .. Len(b) :
               \E nows \in [1 .. n -> 0 .. clock] : Midway(c, b, n, nows)
    BY <1>1, <1>2, <1>3 DEF ProgressOK
  <2>2. PICK n \in 1 .. Len(b) :
            \E nows \in [1 .. n -> 0 .. clock] : Midway(c, b, n, nows)
    BY <2>1
  <2>3. PICK nows \in [1 .. n -> 0 .. clock] : Midway(c, b, n, nows)
    BY <2>2
  <2>4. n = Len(b) /\ SubSeq(b, 1, n) = b
    <3>1. /\ b \in Seq(RawIocs) /\ Len(b) \in Nat
          /\ \A i \in 1 .. Len(b) : b[i] \in RawIocs
      BY BatchType
    <3> DEFINE rest == SubSeq(b, n + 1, Len(b))
    <3>2. rest = <<>>
      BY <1>1, <2>3 DEF Midway
    <3>3. Len(rest) = IF n + 1 <= Len(b) THEN Len(b) - (n + 1) + 1 ELSE 0
      BY <3>1, SubSeqProperties
    <3> HIDE DEF rest
    <3>4. n = Len(b)
      BY <3>1, <3>2, <3>3, EmptySeq
    <3> QED BY <3>1, <3>4, SubSeqFull
  <2>5. /\ src \in Sources /\ dflt \in CallDefaults
        /\ nows \in [1 .. Len(b) -> 0 .. clock]
        /\ \A i, j \in 1 .. Len(b) : i <= j => nows[i] <= nows[j]
        /\ \A i \in 1 .. Len(b) : ~Rejected(b[i], dflt)
        /\ db' = Applied(db, b, src, dflt, nows)
    BY <1>1, <1>2, <1>3, <2>3, <2>4 DEF Midway, ProgressOK, Calls, OrNone
  <2> HIDE DEF src, dflt
  <2>6. Serial!Upsert(b, src, dflt)
    BY <1>1, <2>5, SameUpsert DEF Serial!Upsert
  <2>7. dflt \in {50} \cup {Serial!Earlier(d, 100) : d \in Defaults}
    BY <2>5, SameUpsert DEF CallDefaults, AutoCreatedConf
  <2> QED BY <2>5, <2>6, <2>7 DEF Serial!Next
<1>4. CASE src = None
  <2> DEFINE plan == call[c].plan
             at   == call[c].at
  <2>1. /\ plan \in [Keys -> OrNone(Times)] /\ at \in 0 .. clock
        /\ \A k \in Keys : plan[k] # None =>
              db.ioc[k] # None /\ plan[k] <= db.ioc[k].last
        /\ db' = Rescored(db, plan, at)
    <3>1. Decaying(c)
      BY <1>1, <1>4 DEF Decaying
    <3>2. /\ plan # None /\ view[c] = Rescored(db, plan, at)
          /\ \A k \in Keys : plan[k] # None =>
                db.ioc[k] # None /\ plan[k] <= db.ioc[k].last
      BY <1>2, <3>1 DEF ClientOK
    <3>3. plan \in [Keys -> OrNone(Times)] /\ at \in 0 .. clock
      BY <1>2, <3>2 DEF Calls, OrNone, Times, ProgressOK
    <3> QED BY <1>1, <3>2, <3>3
  <2>2. ASSUME NEW k \in Keys
        PROVE  plan[k] \in Serial!OrNone(0 .. Serial!Latest(db))
    <3>1. CASE plan[k] = None
      BY <3>1 DEF Serial!OrNone
    <3>2. CASE plan[k] # None
      <4> HIDE DEF plan
      <4>1. db.ioc[k] # None /\ plan[k] <= db.ioc[k].last /\ plan[k] \in Nat
        BY <2>1, <3>2 DEF OrNone, Times
      <4>2. db.ioc[k].last \in Nat
        BY <1>2, <4>1 DEF OrNone, Times, Tables, IocRow
      <4>3. Serial!Latest(db) \in Nat /\ db.ioc[k].last <= Serial!Latest(db)
        BY <1>2, <4>1, LatestBound
      <4> QED BY <4>1, <4>2, <4>3 DEF Serial!OrNone
    <3> QED BY <3>1, <3>2
  <2> HIDE DEF plan, at
  <2>3. plan \in [Keys -> Serial!OrNone(0 .. Serial!Latest(db))]
    BY <2>1, <2>2
  <2>4. db' = Serial!Rescored(db, plan, at)
    BY <2>1, SameRescored
  <2>5. Serial!Rescore
    BY <1>1, <2>1, <2>3, <2>4 DEF Serial!Rescore
  <2> QED BY <2>5 DEF Serial!Next
<1> QED BY <1>3, <1>4

(* Every step is one of SerialStore, or changes none of its variables.     *)
LEMMA StepRefines ==
    ASSUME SerialInv, [Next]_vars
    PROVE  [Serial!Next]_(Serial!vars)
<1>1. ASSUME NEW c \in Clients,
             \/ \E s \in Sources, b \in Batches : StartUpsert(c, s, b)
             \/ StartDecay(c) \/ Continue(c) \/ Abort(c)
      PROVE  [Serial!Next]_(Serial!vars)
  <2>1. CASE Commit(c)
    BY <2>1, CommitRefines
  <2>2. CASE ~Commit(c)
    <3>1. UNCHANGED <<db, clock>>
      BY <1>1, <2>2
      DEF StartUpsert, StartDecay, Continue, Abort, ResolveSource,
          CreateSource, CreateConflict, SelectFirst, UpsertItem, RejectItem,
          UpgradeBusy, CommitEmpty, StampDecay, DecayUpdate, DecayEmpty,
          BusyTimeout
    <3> QED BY <3>1 DEF Serial!vars
  <2> QED BY <2>1, <2>2
<1>2. CASE \E s \in Sources, conf \in Defaults : RegisterSource(s, conf)
  BY <1>2 DEF RegisterSource, Serial!vars
<1>3. ASSUME NEW k \in Keys, NEW v \in Cves, NEW rel \in Rels, LinkCve(k, v, rel)
      PROVE  Serial!Next
  <2>1. db.ioc[k] # None /\ db' = Serial!LinkCveIn(db, k, v, rel) /\ clock' = clock
    BY <1>3, SameLinkCve DEF LinkCve
  <2>2. Serial!LinkCve
    BY <2>1 DEF Serial!LinkCve
  <2> QED BY <2>2 DEF Serial!Next
<1>4. ASSUME NEW v \in Cves, NEW d \in OrNone(Dates), NEW kev \in BOOLEAN,
             UpsertCve(v, d, kev)
      PROVE  Serial!Next
  <2>1. db' = Serial!UpsertCveIn(db, v, d, kev) /\ clock' = clock
    BY <1>4, SameUpsertCve DEF UpsertCve
  <2>2. d \in Serial!OrNone(Dates)
    BY DEF OrNone, Serial!OrNone
  <2>3. Serial!UpsertCve
    BY <2>1, <2>2 DEF Serial!UpsertCve
  <2> QED BY <2>3 DEF Serial!Next
<1>5. CASE Tick
  BY <1>5 DEF Tick, Serial!Tick, Serial!Next
<1>6. CASE UNCHANGED vars
  BY <1>6 DEF vars, Serial!vars
<1> QED BY <1>1, <1>2, <1>3, <1>4, <1>5, <1>6 DEF Next

(* However clients interleave, time out, fail and retry, the tables change *)
(* as if whole calls ran one after the other.                              *)
THEOREM AlwaysSerial == Spec => ImplementsSerial
<1>1. Init => Serial!Init
  BY DEF Init, Serial!Init, EmptyTables, Serial!EmptyTables
<1>2. SerialInv /\ [Next]_vars => [Serial!Next]_(Serial!vars)
  BY StepRefines
<1> QED BY <1>1, <1>2, SerialInductive, PTL DEF Spec, Serial!Spec, ImplementsSerial
=============================================================================
