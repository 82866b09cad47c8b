----------------------------- MODULE Confidence -----------------------------
(***************************************************************************)
(* recompute_confidence() of ioc-vault-store: how the confidences of one   *)
(* indicator's sightings are combined,                                     *)
(*     round(100 * (1 - PROD (1 - c / 100))),                              *)
(* in exact rational arithmetic.  The code computes in f64, whose error is *)
(* far below the distance of any exact value from a rounding tie except at *)
(* the tie itself: there it may land on either side, so the result is one  *)
(* of a set of outcomes.                                                   *)
(***************************************************************************)
EXTENDS Integers, FiniteSets, Functions

CONSTANT None        \* the source has no sighting of the indicator

ASSUME AbsentAssumption == None \notin Int

Stated(confs) == {s \in DOMAIN confs : confs[s] # None}

Product(f, S) == FoldFunctionOnSet(LAMBDA c, p : c * p, 1, f, S)

(* the loop's `complement`, PROD (1 - c / 100), scaled by 100^n            *)
Complement(confs) ==
    Product([s \in Stated(confs) |-> 100 - confs[s]], Stated(confs))

(* 100^n                                                                   *)
Scale(confs) == Product([s \in Stated(confs) |-> 100], Stated(confs))

(* 100 * (1 - complement) is Numerator / Denominator                       *)
Numerator(confs)   == Scale(confs) - Complement(confs)
Denominator(confs) == Scale(confs) \div 100

(* f64::round: to nearest, and at a tie whichever side the float fell.     *)
Rounded(num, den) ==
    LET down == num \div den
        frac == num % den
    IN  CASE 2 * frac < den -> {down}
          [] 2 * frac = den -> IF den = 1 THEN {down} ELSE {down, down + 1}
          [] 2 * frac > den -> {down + 1}

(* Mutants: the mean of the confidences, their sum, the best of them.      *)
AggregatesMean(confs) ==
    {SumFunctionOnSet(confs, Stated(confs)) \div Cardinality(Stated(confs))}
AggregatesSum(confs) == {SumFunctionOnSet(confs, Stated(confs))}
AggregatesBest(confs) ==
    {c \in Range(confs) \ {None} : \A d \in Range(confs) \ {None} : d <= c}

(* Without sightings the code returns early and the row keeps what it has; *)
(* upsert_in_tx() never calls it so, since it has just written one.        *)
Aggregates(confs) ==
    IF Stated(confs) = {} THEN {0}
    ELSE Rounded(Numerator(confs), Denominator(confs))

(* One of them, as a function of the sightings: the store's Agg.           *)
Aggregate(confs) == CHOOSE a \in Aggregates(confs) :
                        \A b \in Aggregates(confs) : a >= b
=============================================================================
