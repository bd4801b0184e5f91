------------------------------ MODULE NginxConf ------------------------------
(***************************************************************************)
(* What the nginx plugin does to a configuration: configurator.py,         *)
(* http_01.py and parser.py of certbot_nginx/_internal.  A configuration   *)
(* is the sequence of its server blocks, as get_vhosts lists them; a block *)
(* is known by its index, as vhost.path is.  A block keeps what decides    *)
(* which requests it gets (server_name and listen) and what is done with   *)
(* them.  All blocks are in one file and listen on the same addresses.     *)
(***************************************************************************)
EXTENDS Sequences, FiniteSetsExt

CONSTANTS
    Domain,
    Port,
    HttpPort, HttpsPort     \* http01_port, also DEFAULT_LISTEN_PORT, and https_port

ASSUME PortAssumption == HttpPort \in Port /\ HttpsPort \in Port /\ HttpPort # HttpsPort

(* A server name, with the domains it matches.  Only the names of          *)
(* wildcards are told apart by their length.                               *)
Name == [kind : {"exact", "start", "end", "regex"}, matches : SUBSET Domain, length : Nat]
Exact(d) == [kind |-> "exact", matches |-> {d}, length |-> 1]

(* A listen directive, with the words ssl and default_server.              *)
Addr == [port : Port, ssl : BOOLEAN, default : BOOLEAN]
Listen(port, ssl) == [port |-> port, ssl |-> ssl, default |-> FALSE]

Extra == {"hsts", "uir", "staple"}

(* Answers are locations for a challenge, with the rewrite on top that     *)
(* keeps redirects off it; redirects are the blocks "if ($host = ...)".    *)
Block ==
    [names : SUBSET Name, listen : SUBSET Addr, cert : {"none", "old", "snakeoil", "new"},
     answers : SUBSET Domain, redirects : SUBSET Domain, extras : SUBSET Extra]

Bare(names, listen) ==
    [names |-> names, listen |-> listen, cert |-> "none", answers |-> {}, redirects |-> {},
     extras |-> {}]

-----------------------------------------------------------------------------
(* nginx: it listens for ssl on a port as soon as one directive says so,   *)
(* and without a directive on the default port.                            *)
Ports(b) == IF b.listen = {} THEN {HttpPort} ELSE {l.port : l \in b.listen}

SslPorts(config) ==
    {l.port : l \in {l \in UNION {config[i].listen : i \in DOMAIN config} : l.ssl}}

Defaults(config, port) ==
    {i \in DOMAIN config : \E l \in config[i].listen : l.port = port /\ l.default}

DefaultServer(config, port) ==
    Min(IF Defaults(config, port) # {} THEN Defaults(config, port)
        ELSE {i \in DOMAIN config : port \in Ports(config[i])})

Named(config, d) ==
    {i \in DOMAIN config : \E n \in config[i].names : d \in n.matches}

(* An exact name goes before a wildcard at the start, this before one at   *)
(* the end, and a regular expression is last; a longer wildcard goes       *)
(* before a shorter one, and otherwise the first block.                    *)
Precedence == [exact |-> 0, start |-> 1, end |-> 2, regex |-> 3]

Precedes(n, i, m, j) ==
    \/ Precedence[n.kind] < Precedence[m.kind]
    \/ /\ n.kind = m.kind /\ n.kind \in {"start", "end"} /\ n.length > m.length
    \/ /\ n.kind = m.kind /\ (n.kind \in {"start", "end"} => n.length = m.length)
       /\ i < j

(* The block that gets a request, 0 when nobody listens.                   *)
Serving(config, port, d) ==
    LET on == {i \in DOMAIN config : port \in Ports(config[i])}
        named(i) == {n \in config[i].names : d \in n.matches}
        best(i) ==
            \E n \in named(i) : \A j \in on \ {i} : \A m \in named(j) : Precedes(n, i, m, j)
    IN  CASE on = {} -> 0
          [] on \cap Named(config, d) # {} -> CHOOSE i \in on : best(i)
          [] on # {} /\ on \cap Named(config, d) = {} -> DefaultServer(config, port)

(* nginx -t: a port is given once in a block, has one default server, and  *)
(* this has a certificate.                                                 *)
Accepted(config) ==
    /\ \A i \in DOMAIN config : \A l, m \in config[i].listen : l.port = m.port => l = m
    /\ \A port \in Port : Cardinality(Defaults(config, port)) <= 1
    /\ \A port \in SslPorts(config) : config[DefaultServer(config, port)].cert # "none"

-----------------------------------------------------------------------------
(* vhost.ssl and _vhost_listening, after _update_vhosts_addrs_ssl.         *)
IsSsl(config, i) == \E l \in config[i].listen : l.port \in SslPorts(config)

VhostListening(config, i, port, ssl) ==
    IF config[i].listen = {}
    THEN port = HttpPort /\ ~ ssl
    ELSE port \in Ports(config[i]) /\ ssl = (port \in SslPorts(config))

(* get_best_match: the kind of name that matches, and of its names the     *)
(* longest.                                                                *)
NameRank(config, i, d) ==
    Min({Precedence[n.kind] : n \in {n \in config[i].names : d \in n.matches}})
NameLength(config, i, d) ==
    Max({n.length : n \in {n \in config[i].names :
                             d \in n.matches /\ Precedence[n.kind] = NameRank(config, i, d)}})

NoSslModifier == 4

(* _select_best_name_match, of blocks with a rank each; 0 if there is none.*)
SelectBestNameMatch(config, d, rank) ==
    LET top == {i \in DOMAIN rank : \A j \in DOMAIN rank : rank[i] <= rank[j]}
        wildcard == \E i \in top : rank[i] \in {1, 2, 1 + NoSslModifier, 2 + NoSslModifier}
        longest == {i \in top : \A j \in top : NameLength(config, i, d) >= NameLength(config, j, d)}
    IN  CASE top = {} -> 0
          [] top # {} -> Min(IF wildcard THEN longest ELSE top)

(* _choose_vhost_single prefers a block with ssl to a better name.         *)
ChooseVhost(config, d) ==
    SelectBestNameMatch(config, d,
        [i \in Named(config, d) |->
            NameRank(config, i, d) + (IF IsSsl(config, i) THEN 0 ELSE NoSslModifier)])

ChooseRedirectVhost(config, d) ==
    SelectBestNameMatch(config, d,
        [i \in {i \in Named(config, d) : VhostListening(config, i, HttpPort, FALSE)} |->
            NameRank(config, i, d)])

(* _get_default_vhost, with 0 for its error.  Of each block it looks at    *)
(* the first default address only, and the order of addresses is open.     *)
Single(S) == \E i \in S : S = {i}

GetDefaultVhost(config, mismatch, port) ==
    LET all == UNION {Defaults(config, p) : p \in Port}
        surely == {i \in all : \A l \in config[i].listen : l.default => l.port = port}
    IN  {i \in all \cup {0} :
           \E S \in SUBSET Defaults(config, port) :
             /\ surely \subseteq S
             /\ CASE Single(S) -> S = {i}
                  [] ~ Single(S) /\ Single(all) /\ mismatch -> all = {i}
                  [] ~ Single(S) /\ ~ (Single(all) /\ mismatch) -> i = 0}

(* duplicate_vhost with remove_singleton_listen_params; mutated: without.  *)
DuplicateAll(b) == b
Duplicate(b) == [b EXCEPT !.listen = {[l EXCEPT !.default = FALSE] : l \in @}]

(* _vhost_from_duplicated_default: the configurations it may leave, each   *)
(* with the new vhost, 0 if there is none.                                 *)
VhostFromDuplicatedDefault(config, new_vhost, d, mismatch, port) ==
    IF new_vhost # 0
    THEN {[config |-> [config EXCEPT ![new_vhost].names = @ \cup {Exact(d)}],
           vhost |-> new_vhost]}
    ELSE {IF i = 0
          THEN [config |-> config, vhost |-> 0]
          ELSE [config |-> Append(config, [Duplicate(config[i]) EXCEPT !.names = {Exact(d)}]),
                vhost |-> Len(config) + 1] : i \in GetDefaultVhost(config, mismatch, port)}

(* _make_server_ssl; it fails when the block has a certificate.            *)
CanMakeServerSsl(config, i) == config[i].cert = "none"
MakeServerSsl(config, i) ==
    [config EXCEPT
        ![i].listen = @ \cup {Listen(HttpsPort, TRUE)}
                        \cup (IF @ = {} THEN {Listen(HttpPort, FALSE)} ELSE {}),
        ![i].cert = "snakeoil"]

(* The end of choose_vhosts, for one vhost.                                *)
CanSecure(config, i) == IsSsl(config, i) \/ CanMakeServerSsl(config, i)
Secured(config, i) == IF IsSsl(config, i) THEN config ELSE MakeServerSsl(config, i)

(* _deploy_cert.                                                           *)
DeployTo(config, i) == [Secured(config, i) EXCEPT ![i].cert = "new"]

(* _split_block, with what the new block takes from the old one: the       *)
(* directives are moved by the word ssl.  Mutated: the old block keeps all.*)
SplitOff(config, i, http) ==
    Append(config,
           [http EXCEPT !.listen = {l \in config[i].listen : ~ l.ssl}, !.cert = "none"])
SplitBlock(config, i, http) ==
    Append([config EXCEPT ![i].listen = {l \in @ : l.ssl}],
           [http EXCEPT !.listen = {l \in config[i].listen : ~ l.ssl}, !.cert = "none"])

(* _set_http_header, in the block chosen, and _enable_ocsp_stapling.       *)
SetHttpHeader(config, i, header) ==
    LET secured == Secured(config, i)
        plain == \E l \in secured[i].listen : l.port \notin SslPorts(secured)
        split == IF plain THEN SplitBlock(secured, i, secured[i]) ELSE secured
    IN  IF header \in config[i].extras THEN secured
        ELSE [split EXCEPT ![i].extras = @ \cup {header}]

EnableOcspStapling(config, i) == [Secured(config, i) EXCEPT ![i].extras = @ \cup {"staple"}]

(* _enable_redirect_single.                                                *)
EnableRedirect(config, i, d) ==
    IF IsSsl(config, i)
    THEN [SplitBlock(config, i, Bare(config[i].names, {})) EXCEPT
             ![Len(config) + 1].redirects = {d}]
    ELSE [config EXCEPT ![i].redirects = @ \cup {d}]

(* choose_auth_vhosts and _make_or_mod_server_block: the configurations a  *)
(* challenge may lead to, with the new vhost, and whether a block of its   *)
(* own is made for it.  Mutated: only in the block a certificate goes to.  *)
ChallengeBlock(d) ==
    [Bare({Exact(d)}, {Listen(HttpPort, FALSE)}) EXCEPT !.answers = {d}]

Answer(config, S, d) ==
    [i \in DOMAIN config |->
        IF i \in S THEN [config[i] EXCEPT !.answers = @ \cup {d}] ELSE config[i]]

ChallengedBest(config, new_vhost, d) ==
    {[config |-> Answer(config, {ChooseVhost(config, d)}, d), vhost |-> new_vhost,
      own |-> ChooseVhost(config, d) = 0]}
Challenged(config, new_vhost, d) ==
    LET matching == Named(config, d)
        http == {i \in matching : VhostListening(config, i, HttpPort, FALSE)}
        https == {i \in matching : VhostListening(config, i, HttpsPort, TRUE)}
    IN  IF http # {}
        THEN {[config |-> Answer(config, http \cup https, d), vhost |-> new_vhost, own |-> FALSE]}
        ELSE {[config |-> Answer(o.config, {o.vhost} \cup https, d),
               vhost |-> IF o.vhost = 0 THEN new_vhost ELSE o.vhost,
               own |-> o.vhost = 0] :
                 o \in VhostFromDuplicatedDefault(config, new_vhost, d, FALSE, HttpPort)}
-----------------------------------------------------------------------------
(* Configurations of which the properties of Installation are stated: nginx *)
(* accepts them, and the word ssl goes with the port, on https_port with   *)
(* all directives and on http01_port with none.                            *)
SslByPort(config) ==
    \A i \in DOMAIN config : \A l \in config[i].listen :
        /\ l.ssl <=> l.port \in SslPorts(config)
        /\ l.port = HttpPort => ~ l.ssl
        /\ l.port = HttpsPort => l.ssl

Orderly(config) ==
    /\ Accepted(config) /\ SslByPort(config)
    /\ \A i \in DOMAIN config : IsFiniteSet(config[i].names)

(* https is on one port, and for http nginx need not fall back on the      *)
(* order of the blocks, which it warns of when the names are the same.     *)
Unambiguous(config) ==
    \A i, j \in {i \in DOMAIN config : HttpPort \in Ports(config[i])} :
        i # j => \A n \in config[i].names, m \in config[j].names :
            n.matches \cap m.matches # {} =>
                \/ n.kind # m.kind
                \/ n.kind \in {"start", "end"} /\ n.length # m.length

Clear(config) == SslPorts(config) \subseteq {HttpsPort} /\ Unambiguous(config)
=============================================================================
