---------------------------- MODULE MCUpdateRun ----------------------------
(***************************************************************************)
(* UpdateRun on two of the three collectors: one with validators, and the  *)
(* KEV catalog.                                                            *)
(***************************************************************************)
EXTENDS UpdateRun, TLC

CONSTANTS p1, p2, kev, urlhaus

MCKevPlans  == {<<kev, urlhaus>>}
MCSinglePlans == {<<urlhaus>>}

(* bulk_upsert() is atomic: one part will do.  The KEV catalog has two.    *)
MCParts     == [s \in Sources |-> IF s \in Kev THEN {1, 2} ELSE {1}]

(* The second version of the URLhaus feed has an entry the store refuses.   *)
MCRefused   == {<<urlhaus, 2>>}

MCSymmetry  == Permutations(Procs)
=============================================================================
