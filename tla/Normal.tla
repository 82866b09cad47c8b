------------------------------- MODULE Normal -------------------------------
(***************************************************************************)
(* ioc-vault-core's normalize.rs on texts of tokens (see Defang): the      *)
(* canonical value that is stored, searched for and, with the type, hashed *)
(* into the key that deduplicates across feeds.  IPv6 addresses, networks  *)
(* and URLs are parsed and printed by libraries and are left out.          *)
(***************************************************************************)
EXTENDS Integers, Defang

CONSTANTS Invalid,   \* what does not normalize
          HexLen,    \* the length of a digest: 32, 40, 64 or 128
          MaxNumber  \* the largest u32

Digits == {"0", "7"}
Lower(t) == CASE t = "A" -> "a" [] t = "HTTP" -> "http" [] OTHER -> t
Lowered(s) == [i \in DOMAIN s |-> Lower(s[i])]

(* str::trim(), trim_start_matches() and trim_end_matches() of tokens.     *)
TrimStart(s, T) ==
    LET i == SelectInSeq(s, LAMBDA t : t \notin T)
    IN  IF i = 0 THEN <<>> ELSE SubSeq(s, i, Len(s))
TrimEnd(s, T) == SubSeq(s, 1, SelectLastInSeq(s, LAMBDA t : t \notin T))
Trim(s) == TrimEnd(TrimStart(s, {" "}), {" "})

(* idna::domain_to_ascii(), as far as ASCII names go.                      *)
DomainToAscii(host) == Lowered(host)

(* Mutant: one trailing dot, as the comment in the source says.            *)
NormalizeDomainOnce(s) ==
    LET host == Trim(IF s # <<>> /\ Last(s) = "." THEN Front(s) ELSE s)
    IN  IF host = <<>> THEN Invalid ELSE DomainToAscii(host)

(* normalize_domain(): all trailing dots, then spaces.                     *)
NormalizeDomain(s) ==
    LET host == Trim(TrimEnd(s, {"."}))
    IN  IF host = <<>> THEN Invalid ELSE DomainToAscii(host)

(* Split at the last '@'.                                                  *)
NormalizeEmail(s) ==
    LET at     == SelectLastInSeq(s, LAMBDA t : t = "@")
        domain == NormalizeDomain(SubSeq(s, at + 1, Len(s)))
    IN  IF at <= 1 \/ domain = Invalid THEN Invalid
        ELSE SubSeq(s, 1, at) \o domain

(* A decimal number, printed without leading zeros.                        *)
Number(s) ==
    FoldLeft(LAMBDA n, d : 10 * n + IF d = "0" THEN 0 ELSE 7, 0, s)
Printed(s) == LET t == TrimStart(s, {"0"}) IN IF t = <<>> THEN <<"0">> ELSE t
IsNumber(s, max) == s # <<>> /\ ToSet(s) \subseteq Digits /\ Number(s) <= max

(* Four octets, each a u8 in decimal with any number of leading zeros.     *)
NormalizeIpv4(s) ==
    LET \* the first dot behind position i, or the end
        dot(i) == Min({Len(s) + 1} \cup {j \in i + 1 .. Len(s) : s[j] = "."})
        d1 == dot(0)
        d2 == dot(d1)
        d3 == dot(d2)
        octet == <<SubSeq(s, 1, d1 - 1), SubSeq(s, d1 + 1, d2 - 1),
                   SubSeq(s, d2 + 1, d3 - 1), SubSeq(s, d3 + 1, Len(s))>>
    IN  IF \A n \in 1 .. 4 : IsNumber(octet[n], 255)
        THEN Printed(octet[1]) \o <<".">> \o Printed(octet[2]) \o <<".">>
                \o Printed(octet[3]) \o <<".">> \o Printed(octet[4])
        ELSE Invalid

(* normalize_hex()                                                         *)
NormalizeHex(s) ==
    IF Len(s) = HexLen /\ ToSet(s) \subseteq Digits \cup {"a", "A"}
    THEN Lowered(s) ELSE Invalid

(* Every leading A and S goes, in any case and number; u32::from_str()     *)
(* takes a '+'.                                                            *)
NormalizeAsn(s) ==
    LET t      == TrimStart(s, {"A", "S", "a", "s"})
        digits == IF t # <<>> /\ Head(t) = "+" THEN Tail(t) ELSE t
    IN  IF IsNumber(digits, MaxNumber) THEN Printed(digits) ELSE Invalid

Normalizable == {"domain", "email", "ipv4", "hash", "asn", "other"}

Normalize(type, raw) ==
    LET s == Trim(raw)
    IN  CASE type = "domain" -> NormalizeDomain(s)
          [] type = "email"  -> NormalizeEmail(s)
          [] type = "ipv4"   -> NormalizeIpv4(s)
          [] type = "hash"   -> NormalizeHex(s)
          [] type = "asn"    -> NormalizeAsn(s)
          [] type = "other"  -> IF s = <<>> THEN Invalid ELSE s

(* search(): the needle of an exact match, with its one type.              *)
Needle(type, v) == LET n == Normalize(type, v) IN IF n = Invalid THEN v ELSE n
=============================================================================
