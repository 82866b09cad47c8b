----------------------------- MODULE FeedMirror -----------------------------
(***************************************************************************)
(* What a caller may rely on of the collection pipeline that UpdateRun     *)
(* describes in detail: the database mirrors whole versions of each feed,  *)
(* and what it says of a version (a validator, a recorded run) is never    *)
(* said before the whole version is there, not even across a power loss.   *)
(* How a version comes in, through which process and after how many        *)
(* failures, is no longer to be seen.                                      *)
(***************************************************************************)
EXTENDS Integers

CONSTANTS Sources, Versions, None

VARIABLES
    feed,      \* the version each server serves
    db,        \* for each source, what readers of the database find
    durable    \* the same after a power loss

vars == <<feed, db, durable>>

OrNone(S) == S \cup {None}

(* The versions that are stored whole, the one the stored validators name, *)
(* and the one the newest run vouches for.                                 *)
Empty == [have |-> {}, vouched |-> None, claimed |-> None]

Init ==
    /\ feed = [s \in Sources |-> 0]
    /\ db = [s \in Sources |-> Empty]
    /\ durable = db

Publish(s) ==
    /\ feed[s] + 1 \in Versions
    /\ feed' = [feed EXCEPT ![s] = feed[s] + 1]
    /\ UNCHANGED <<db, durable>>

(* The rest of a version that was once served is stored.                   *)
Mirror(s, v) ==
    /\ v <= feed[s]
    /\ db' = [db EXCEPT ![s].have = db[s].have \cup {v}]
    /\ UNCHANGED <<feed, durable>>

Vouch(s, c) ==
    /\ c \in OrNone(db[s].have)
    /\ db' = [db EXCEPT ![s].vouched = c]
    /\ UNCHANGED <<feed, durable>>

Claim(s, c) ==
    /\ c \in OrNone(db[s].have)
    /\ db' = [db EXCEPT ![s].claimed = c]
    /\ UNCHANGED <<feed, durable>>

Sync == durable' = db /\ UNCHANGED <<feed, db>>
Lose == db' = durable /\ UNCHANGED <<feed, durable>>

Next ==
    \/ \E s \in Sources :
          \/ Publish(s)
          \/ \E v \in Versions : Mirror(s, v)
          \/ \E c \in OrNone(Versions) : Vouch(s, c) \/ Claim(s, c)
    \/ Sync \/ Lose

Spec == Init /\ [][Next]_vars
=============================================================================
