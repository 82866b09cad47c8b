------------------------------- MODULE Defang -------------------------------
(***************************************************************************)
(* ioc-vault-core's defang.rs: rewriting a value so that no surface it is  *)
(* shown on makes a link of it, and the string literals of a STIX pattern. *)
(*                                                                         *)
(* A text is a sequence of tokens: runs of alphanumerics, which the code   *)
(* only ever tells apart as schemes, and the punctuation it looks for.     *)
(* "://" is one token, so a lone ":" is never followed by "//".  `http`    *)
(* stands for the four schemes of SCHEME_MAP.                              *)
(***************************************************************************)
EXTENDS SequencesExt

Words == {"a", "A", "0", "7", "T", "Z", "at", "http", "HTTP", "hxxp"}

IsWord(s, i) == i \in DOMAIN s /\ s[i] \in Words

(* str::replace() of one token.                                            *)
Replaced(s, old, new) ==
    FlattenSeq([i \in DOMAIN s |-> IF s[i] = old THEN new ELSE <<s[i]>>])

DOT        == <<"[", ".", "]">>
AT         == <<"[", "at", "]">>
SCHEME_SEP == <<"[", "://", "]">>
COLON      == <<"[", ":", "]">>

(* neutralize() and neutralize_inner_dots()                                *)
Neutralized(s) == Replaced(Replaced(s, "@", AT), ".", DOT)

Flanked(s, i) == IsWord(s, i - 1) /\ IsWord(s, i + 1)

(* Mutant: matches of <word>.<word> that do not overlap.                   *)
InnerDotsOnce(s) ==
    FlattenSeq([i \in DOMAIN s |->
        IF s[i] = "." /\ Flanked(s, i) /\ ~(i > 2 /\ s[i - 2] = "." /\ Flanked(s, i - 2))
        THEN DOT ELSE <<s[i]>>])

(* Mutant: every dot.                                                     *)
InnerDotsAll(s) == Replaced(s, ".", DOT)

InnerDots(s) ==
    FlattenSeq([i \in DOMAIN s |->
        IF s[i] = "." /\ Flanked(s, i) THEN DOT ELSE <<s[i]>>])

(* A known scheme in front of its separator, which is broken already.      *)
SchemesRenamed(s) ==
    [i \in DOMAIN s |->
        IF s[i] = "http" /\ SubSeq(s, i + 1, IF i + 3 <= Len(s) THEN i + 3 ELSE Len(s)) = SCHEME_SEP
        THEN "hxxp" ELSE s[i]]

(* defang_auto(), for text of no known type and every string of a JSON     *)
(* document.                                                               *)
DefangAuto(s) ==
    InnerDots(Replaced(SchemesRenamed(Replaced(s, "://", SCHEME_SEP)), "@", AT))

(* defang_scheme() lowers the case first.                                  *)
DefangScheme(scheme) ==
    IF scheme \in {<<"http">>, <<"HTTP">>} THEN <<"hxxp">> ELSE scheme

(* Mutant: what follows the separator is shown as it is.                   *)
DefangUrlHead(s) ==
    LET i == SelectInSeq(s, LAMBDA t : t = "://")
    IN  IF i = 0 THEN Neutralized(s)
        ELSE DefangScheme(SubSeq(s, 1, i - 1)) \o SCHEME_SEP
                \o SubSeq(s, i + 1, Len(s))

(* defang_url() breaks the first separator, and no other.                  *)
DefangUrl(s) ==
    LET i == SelectInSeq(s, LAMBDA t : t = "://")
    IN  Neutralized(IF i = 0 THEN s
                    ELSE DefangScheme(SubSeq(s, 1, i - 1)) \o SCHEME_SEP
                            \o SubSeq(s, i + 1, Len(s)))

Actionable == {"url", "domain", "ipv4", "cidr", "ipv6", "email"}

(* defang(): the placeholders are chosen by the type alone.                *)
DefangTyped(type, s) ==
    CASE type = "url"                        -> DefangUrl(s)
      [] type \in {"domain", "ipv4", "cidr"} -> Replaced(s, ".", DOT)
      [] type = "ipv6"                       -> Replaced(s, ":", COLON)
      [] type = "email"                      -> Neutralized(s)
      [] OTHER                               -> s

(* is_defanged(), the checker.                                             *)
IsDefanged(s) ==
    \A i \in DOMAIN s :
        /\ s[i] # "@"
        /\ s[i] = "://" => ~IsWord(s, i - 1)
        /\ s[i] = "."   => ~Flanked(s, i)
-----------------------------------------------------------------------------
(* Reversing the substitutions, for text without brackets of its own.      *)
Bracketed(s, i) == /\ i - 1 \in DOMAIN s /\ s[i - 1] = "["
                   /\ i + 1 \in DOMAIN s /\ s[i + 1] = "]"

Refanged(s) ==
    LET live(i) == CASE s[i] \in {"[", "]"}              -> <<>>
                     [] s[i] = "at" /\ Bracketed(s, i)   -> <<"@">>
                     [] s[i] = "hxxp" /\ Bracketed(s, i + 2)
                                      /\ s[i + 2] = "://" -> <<"http">>
                     [] OTHER                            -> <<s[i]>>
    IN  FlattenSeq([i \in DOMAIN s |-> live(i)])
-----------------------------------------------------------------------------
(* ioc-vault-export: the comparison of a STIX pattern is a path and a      *)
(* string literal, of which only the quotes are escaped.                   *)
StixEscapedNot(v) == v                             \* mutant
StixEscaped(v) == Replaced(v, "'", <<"\\", "'">>)

StixPath(type) ==
    CASE type \in {"ipv4", "cidr"} -> "ipv4-addr:value"
      [] type = "ipv6"             -> "ipv6-addr:value"
      [] type = "domain"           -> "domain-name:value"
      [] type = "url"              -> "url:value"
      [] type = "email"            -> "email-addr:value"
      [] type = "hash"             -> "file:hashes"
      [] OTHER                     -> "x-ioc:value"

StixPattern(type, v) == <<"[", StixPath(type), "=", "'">> \o StixEscaped(v) \o <<"'", "]">>

(* How a reader of STIX patterns takes the literal that starts behind the  *)
(* fourth token: a backslash makes the next character literal, a bare      *)
(* quote ends it.  None if it does not end where the pattern does.         *)
StixLiteral(p) ==
    LET body == SubSeq(p, 5, Len(p))
        \* is the i-th token escaped by the one before it?
        escaped[i \in 0 .. Len(body)] ==
            i > 1 /\ body[i - 1] = "\\" /\ ~escaped[i - 1]
        bare(i) == body[i] = "'" /\ ~escaped[i]
        end  == CHOOSE i \in 1 .. Len(body) + 1 :
                    /\ i = Len(body) + 1 \/ bare(i)
                    /\ \A j \in 1 .. i - 1 : ~bare(j)
        kept(i) == IF body[i] = "\\" /\ ~escaped[i] THEN <<>> ELSE <<body[i]>>
    IN  [whole |-> end = Len(body) - 1,
         value |-> FlattenSeq([i \in 1 .. end - 1 |-> kept(i)])]
=============================================================================
