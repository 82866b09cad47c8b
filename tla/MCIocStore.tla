----------------------------- MODULE MCIocStore -----------------------------
(***************************************************************************)
(* IocStore on two spellings of one indicator and one spelling of another. *)
(***************************************************************************)
EXTENDS IocStore, TLC

CONSTANTS c1, c2, urlhaus, threatfox, ka, kb, botnet, t1, cve1

C == INSTANCE Confidence
MCAgg(confs) == C!Aggregate(confs)

MCCanon == [x \in {"a", "A.", "b", "bad"} |->
               CASE x \in {"a", "A."} -> ka [] x = "b" -> kb [] x = "bad" -> Invalid]

Raw(value, first, last, conf, threat, tags, cves) ==
    [value |-> value, first |-> first, last |-> last, conf |-> conf,
     threat |-> threat, tags |-> tags, cves |-> cves]

(* Nothing stated; a window in the past; one of two instants stated;       *)
(* refused by normalize(); refused by the CHECK.                           *)
Bare    == Raw("a",  None, None, None, None,   {},   {})
Dated   == Raw("A.", 0,    1,    90,   botnet, {t1}, {})
Closing == Raw("b",  None, 0,    40,   None,   {},   {})
Broken  == Raw("bad", None, None, None, None,  {},   {})
Over    == Raw("a",  None, None, 101,  None,   {},   {})

(* With CVE references.                                                    *)
Cited   == Raw("a",  None, None, None, None, {t1}, {cve1})

MCMergeRaw == {Bare, Dated, Closing, Over, Cited}
MCMergeBatches == {<<Dated, Closing>>, <<Cited>>, <<Bare, Over>>, <<>>}

MCSerialRaw == {Bare, Dated, Closing, Broken}
MCSerialBatches == {<<Bare>>, <<Dated, Bare>>, <<Closing, Broken>>}

(* The sources are interchangeable: all may be registered with the same    *)
(* defaults.                                                               *)
MCSymmetry == Permutations(Sources)
=============================================================================
