--------------------------- MODULE MCInstallation ---------------------------
(***************************************************************************)
(* Installation for two domains, of configurations with up to three server *)
(* blocks: of one domain each, of both, or of others; with names that      *)
(* match exactly, as wildcards or as regular expressions; with http, https *)
(* or both, with default servers and without any listen directive.         *)
(***************************************************************************)
EXTENDS Installation

CONSTANTS a, b

MCDomain == {a, b}
MCDomains == <<a, b>>
MCPort == {80, 443, 8080}

Wildcard(kind, length) == [kind |-> kind, matches |-> {a, b}, length |-> length]
Other == [kind |-> "exact", matches |-> {}, length |-> 1]
Regex(d) == [kind |-> "regex", matches |-> {d}, length |-> 1]

Http == Bare({}, {Listen(80, FALSE)})
Implicit == Bare({}, {})
HttpDefault == Bare({}, {[port |-> 80, ssl |-> FALSE, default |-> TRUE]})
Https == [Bare({}, {Listen(443, TRUE)}) EXCEPT !.cert = "old"]
Both == [Bare({}, {Listen(80, FALSE), Listen(443, TRUE)}) EXCEPT !.cert = "old"]
BothDefault ==
    [Bare({}, {[port |-> 80, ssl |-> FALSE, default |-> TRUE],
               [port |-> 443, ssl |-> TRUE, default |-> TRUE]}) EXCEPT !.cert = "old"]
Elsewhere == Bare({}, {Listen(8080, FALSE)})
Inherits == [Bare({}, {Listen(80, FALSE), Listen(443, FALSE)}) EXCEPT !.cert = "old"]

Of(form, names) == [form EXCEPT !.names = names]

Pairs ==
    {<<Of(f, {n}), Of(g, {m})>> :
        f \in {Http, Https, Both}, n \in {Exact(a), Wildcard("start", 3)},
        g \in {Http, Https, Both, HttpDefault},
        m \in {Exact(a), Exact(b), Wildcard("start", 5), Wildcard("end", 4), Regex(b), Other}}

Triples ==
    {<<Of(f, {Exact(a)}), Of(g, {Other}), Of(h, {Regex(b)})>> :
        f \in {Http, Both}, g \in {HttpDefault, BothDefault}, h \in {Http, Https}}

Singles ==
    {<<Of(f, names)>> :
        f \in {Http, Implicit, HttpDefault, Both, BothDefault, Elsewhere},
        names \in {{Exact(a), Exact(b)}, {Other}}}

MCConfigurations ==
    {config \in Singles \cup Pairs \cup Triples : Orderly(config) /\ Clear(config)}

(* A block that has ssl because another block asks for it on its port.     *)
MCInherits == {<<Of(Https, {Exact(a)}), Of(Inherits, {Exact(b)})>>}

MCRequests == {{}, {"redirect"}, {"hsts", "redirect"}}
=============================================================================
