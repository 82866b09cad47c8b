---------------------------- MODULE MCCommandLine ----------------------------
(***************************************************************************)
(* CommandLine with an operator's shell, which manages the sources, and a  *)
(* scheduled job, which updates and exports.                               *)
(***************************************************************************)
EXTENDS CommandLine

CONSTANTS shell, job, urlhaus, threatfox, demo

Bare == [kind |-> None, name |-> None, conf |-> 0, format |-> None,
         env |-> None, config |-> None]

Managing ==
    {[Bare EXCEPT !.kind = "read"]}
    \cup {[Bare EXCEPT !.kind = "add", !.name = n, !.conf = 90] : n \in {urlhaus, demo}}
    \cup {[Bare EXCEPT !.kind = "disable", !.name = n] : n \in {urlhaus, demo}}
    \cup {[Bare EXCEPT !.kind = "enable", !.name = urlhaus]}

Scheduled ==
    {[Bare EXCEPT !.kind = "export", !.format = f] : f \in {"csv", "jsonl"}}
    \cup {[Bare EXCEPT !.kind = "update", !.name = n] : n \in {None, urlhaus, demo}}
    \cup {[Bare EXCEPT !.kind = "update", !.name = threatfox, !.env = e, !.config = c] :
             e \in {None, "blank", "env"}, c \in {None, "blank", "config"}}

MCCommands == [p \in Procs |-> IF p = shell THEN Managing ELSE Scheduled]

MCDefaultConf == [s \in Collectors |-> IF s = urlhaus THEN 80 ELSE 75]
=============================================================================
