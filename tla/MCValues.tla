------------------------------ MODULE MCValues ------------------------------
(***************************************************************************)
(* The pure functions of the vault over bounded inputs that grow step by   *)
(* step: the sightings of one indicator, where each step is an upsert that *)
(* states a confidence, or the text of one indicator of some type, where   *)
(* each step adds a token.                                                 *)
(***************************************************************************)
EXTENDS Confidence, Normal

CONSTANTS Feeds, Levels,
          MaxLonger    \* how far the texts grow beyond MinLength

ASSUME FeedsAssumption  == IsFiniteSet(Feeds)
ASSUME LevelsAssumption == Levels \subseteq 0 .. 100

VARIABLES kind,      \* "sightings", or the type of the indicator
          confs,     \* ioc_sources.confidence per source
          agg,       \* iocs.confidence
          text       \* the value as a feed states it

IsText == kind # "sightings"

vars == <<kind, confs, agg, text>>

(* The tokens of each type's texts.  URLs, IPv6 addresses and networks are *)
(* not normalized here: theirs are canonical ones.  "time" is the RFC 3339 *)
(* text of an instant in a record, with a fraction if it has one.          *)
Alphabet ==
    [domain |-> {"a", "A", ".", " ", "@", "://"},
     email  |-> {"a", ".", "@", " ", "://"},
     ipv4   |-> {"0", "7", "."},
     hash   |-> {"a", "A", "0", "."},
     asn    |-> {"A", "S", "7", "0", "+"},
     other  |-> {"a", "http", ".", "@", "://", " ", "'", "\\"},
     url    |-> {"a", ".", "@", "://", "/", "'"},
     ipv6   |-> {}, cidr |-> {}, time |-> {}]

MinLength == [t \in DOMAIN Alphabet |->
                 CASE t = "ipv4" -> 4 [] t = "url" -> 2 [] t = "other" -> 0
                   [] t = "hash" -> -1 [] OTHER -> 1]

Mapped == <<":", ":", "a", ":", "7", ".", "7", ".", "7", ".", "7">>
Instant == <<"7", "-", "7", "-", "7", "T", "7", ":", "7", ":", "7">>
Starts ==
    [t \in DOMAIN Alphabet |->
        CASE t = "url"  -> {<<"http", "://", "a">>, <<"HTTP", "://", "a">>}
          [] t = "ipv6" -> {<<"a", ":", "a", ":", ":", "7">>, Mapped}
          [] t = "cidr" -> {<<"7", ".", "0", ".", "0", ".", "0", "/", "7">>,
                            Mapped \o <<"/", "7">>}
          [] t = "time" -> {Instant \o <<"Z">>, Instant \o <<".", "7", "Z">>}
          [] OTHER      -> {<<>>}]

Init ==
    \/ /\ kind = "sightings"
       /\ \E s \in Feeds, c \in Levels :
             confs = [x \in Feeds |-> IF x = s THEN c ELSE None]
       /\ agg \in Aggregates(confs)
       /\ text = <<>>
    \/ /\ kind \in DOMAIN Alphabet
       /\ text \in Starts[kind]
       /\ confs = [x \in Feeds |-> None]
       /\ agg = 0

(* A factor 1 - 0/100 is exactly 1.0: it leaves the float as it was.       *)
Sight(s, c) == /\ kind = "sightings"
               /\ confs' = [confs EXCEPT ![s] = c]
               /\ agg' \in IF {confs[s], c} \subseteq {None, 0}
                          THEN {agg}
                          ELSE Aggregates(confs')
               /\ UNCHANGED <<kind, text>>

Grow(t) == /\ IsText
           /\ Len(text) < MinLength[kind] + MaxLonger
           /\ t \in Alphabet[kind]
           /\ text' = Append(text, t)
           /\ UNCHANGED <<kind, confs, agg>>

Next == \/ \E s \in Feeds, c \in Levels : Sight(s, c)
        \/ \E t \in UNION {Alphabet[k] : k \in DOMAIN Alphabet} : Grow(t)

Spec == Init /\ [][Next]_vars
-----------------------------------------------------------------------------
(* The reference: the probability that at least one of the independent     *)
(* sources S is right, by inclusion and exclusion over sets of sources, of *)
(* which all are right (times 100 for each other one).                     *)
AllOf(T, S) == Product(confs, T) * Product([s \in S |-> 100], S \ T)

AtLeastOne(S) ==
    SumFunction([T \in (SUBSET S) \ {{}} |->
        IF Cardinality(T) % 2 = 1 THEN AllOf(T, S) ELSE -AllOf(T, S)])

(* The stored confidence is, to the nearest percent, the probability that  *)
(* at least one of the sources that saw the indicator is right: the        *)
(* product over complements in recompute_confidence() is that probability. *)
CombinesEvidence ==
    kind = "sightings" =>
        LET scale == 2 * Denominator(confs)
            exact == 2 * AtLeastOne(Stated(confs))
        IN  agg * scale - exact \in -(scale \div 2) .. scale \div 2

(* An aggregate is a percentage, and never below the best single source:   *)
(* rounding cannot undo the evidence of a source, and the CHECK on         *)
(* iocs.confidence cannot fail on the UPDATE recompute_confidence() runs.  *)
WithinBounds ==
    /\ agg \in 0 .. 100
    /\ \A s \in Stated(confs) : confs[s] <= agg

(* More evidence never lowers the aggregate: a further source, or the same *)
(* source with a higher confidence, leaves it equal or higher, even when   *)
(* f64 rounding falls on different sides before and after.                 *)
Monotone ==
    [][(\A s \in Stated(confs) : confs'[s] >= confs[s] /\ confs' # confs)
           => agg' >= agg]_vars
-----------------------------------------------------------------------------
(* What is stored, or Invalid if the feed's text is refused.               *)
Stored == IF kind \in Normalizable THEN Normalize(kind, text) ELSE text

(* Whatever text is shown, known to be an indicator or not, defang_auto()  *)
(* leaves nothing in it that is_defanged() takes for a live link; so does  *)
(* defang_json(), which runs it on every string.                           *)
AutoDefanged == IsText => IsDefanged(DefangAuto(text))

(* It stays legible: reversing the substitutions gives a text that holds   *)
(* no placeholder of its own back, and one with nothing live in it, as     *)
(* most prose, is shown as it is.                                          *)
AutoLegible ==
    IsText =>
        /\ Refanged(DefangAuto(text)) = text
        /\ IsDefanged(text) /\ ~Contains(text, "://") => DefangAuto(text) = text

(* defang() chooses its placeholders by the type alone.  A value with no   *)
(* more links in it than its type is one: no "@" or "://" but where the    *)
(* type has it, and no IPv4 address inside an IPv6 one.                    *)
OneLink(s) ==
    CASE kind = "url"   -> \A i, j \in DOMAIN s : s[i] = "://" /\ s[j] = "://" => i = j
      [] kind = "ipv6"  -> ~Contains(s, ".")
      [] kind = "email" -> ~Contains(s, "://")
      [] OTHER          -> ~Contains(s, "://") /\ ~Contains(s, "@")

(* Of such a stored value defang() leaves nothing live, and whatever is    *)
(* stored, reversing the substitutions gives it back but for the case of a *)
(* scheme: "The transformation removes clickability only".                 *)
DefangedAsTyped ==
    IsText /\ kind \in Actionable /\ Stored # Invalid =>
        /\ OneLink(Stored) => IsDefanged(DefangTyped(kind, Stored))
        /\ Lowered(Refanged(DefangTyped(kind, Stored))) = Lowered(Stored)

(* A search for the exact value that the vault printed and its one type    *)
(* finds the row: normalize() is idempotent.  Not so for a domain written  *)
(* "a. .", which is stored as "a." and never found again.                  *)
SearchFindsStored ==
    IsText /\ kind \in Normalizable /\ Stored # Invalid =>
        \/ Needle(kind, Stored) = Stored
        \/ kind \in {"domain", "email"}
           /\ \E i \in DOMAIN text : IsPrefix(<<".", " ">>, SubSeq(text, i, Len(text)))

(* The value can be read back from the STIX pattern it was exported in,    *)
(* quotes and all, exactly if it holds no backslash.                       *)
StixReadsBack ==
    IsText /\ Stored # Invalid =>
        LET read == StixLiteral(StixPattern(kind, Stored))
        IN  read.whole /\ read.value = Stored <=> ~Contains(Stored, "\\")
-----------------------------------------------------------------------------
(* What the doc of defang() says: "The output for every actionable type is *)
(* guaranteed to satisfy [`is_defanged`] (enforced by a `debug_assert!`    *)
(* and the test suite)."                                                   *)
DefangGuaranteed ==
    IsText /\ kind \in Actionable /\ Stored # Invalid =>
        IsDefanged(DefangTyped(kind, Stored))
=============================================================================
