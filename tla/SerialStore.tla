----------------------------- MODULE SerialStore -----------------------------
(***************************************************************************)
(* What ioc-vault-store promises its callers, without connections, locks   *)
(* or snapshots: the tables change as if the calls that succeed ran one    *)
(* after the other, each all at once on what the one before it left.       *)
(***************************************************************************)
EXTENDS IocTables

CONSTANTS Batches, Defaults

VARIABLES db, clock

vars == <<db, clock>>

Init == /\ db = EmptyTables
        /\ clock = 0

(* A batch is stored as a whole, and only if every indicator in it is      *)
(* acceptable; the times put in for missing ones are past ones.            *)
Upsert(b, s, dflt) ==
    /\ \A i \in 1 .. Len(b) : ~Rejected(b[i], dflt)
    /\ \E nows \in [1 .. Len(b) -> 0 .. clock] :
          /\ \A i, j \in 1 .. Len(b) : i <= j => nows[i] <= nows[j]
          /\ db' = Applied(db, b, s, dflt, nows)
    /\ UNCHANGED clock

(* The latest last_seen there is.                                          *)
Latest(t) == CHOOSE n \in {0} \cup ({LastSeen(t)[k] : k \in Keys} \ {None}) :
                 \A k \in Keys : LastSeen(t)[k] # None => LastSeen(t)[k] <= n

(* A rescoring sees some rows, none of them later than they are, and a     *)
(* past time.  That it need not see the rows as they are is the price of   *)
(* reading them outside the transaction.                                   *)
Rescore ==
    /\ \E now \in 0 .. clock, plan \in [Keys -> OrNone(0 .. Latest(db))] :
          /\ \A k \in Keys : plan[k] # None => /\ db.ioc[k] # None
                                               /\ plan[k] <= db.ioc[k].last
          /\ db' = Rescored(db, plan, now)
    /\ UNCHANGED clock

LinkCve == /\ \E k \in Keys, v \in Cves, rel \in Rels :
                 /\ db.ioc[k] # None
                 /\ db' = LinkCveIn(db, k, v, rel)
           /\ UNCHANGED clock

UpsertCve == /\ \E v \in Cves, d \in OrNone(Dates), kev \in BOOLEAN :
                   db' = UpsertCveIn(db, v, d, kev)
             /\ UNCHANGED clock

Tick == clock' = clock + 1 /\ UNCHANGED db

Next == \/ \E b \in Batches, s \in Sources,
              dflt \in {50} \cup {Earlier(d, 100) : d \in Defaults} :
              Upsert(b, s, dflt)
        \/ Rescore \/ LinkCve \/ UpsertCve \/ Tick

Spec == Init /\ [][Next]_vars
=============================================================================
