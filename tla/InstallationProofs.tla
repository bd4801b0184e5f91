------------------------- MODULE InstallationProofs -------------------------
(***************************************************************************)
(* Theorems about Installation, for any server names, ports, configuration *)
(* and domains.                                                            *)
(*   - The operations of the nginx plugin lead from configurations to      *)
(*     configurations, and the Reverter leads back to the last complete    *)
(*     one at any point: Types, RestoredAlways.                            *)
(*   - What is written is what nginx accepts, also while a challenge is    *)
(*     served: SoundAlways, NginxAcceptsAlways. Here the configurations    *)
(*     are Orderly, which is what nginx itself demands of them.            *)
(*   - nginx answers a challenge once it was told to:                      *)
(*     ChallengeServedAlways, where a server is Unambiguous as well.       *)
(*   - After run and install https serves the domains, and redirects lead  *)
(*     there: HttpsServedAlways, where configurations are Clear and        *)
(*     redirect nothing at first.                                          *)
(* The last two need to know which block nginx picks for a domain, which   *)
(* is what SelectBestNameMatch computes (ServingIs), and what becomes of   *)
(* it when a block changes or is added (ServingSame, ServingMore,          *)
(* ServingMoved).                                                          *)
(***************************************************************************)
EXTENDS Installation, SequenceTheorems, FiniteSetTheorems, WellFoundedInduction, TLAPS

Config == Seq(Block)

-----------------------------------------------------------------------------
(* The operators of NginxConf.                                             *)
LEMMA ListenType ==
    ASSUME NEW port \in Port, NEW ssl \in BOOLEAN
    PROVE  Listen(port, ssl) \in Addr
BY DEF Listen, Addr

LEMMA ExactType == ASSUME NEW d \in Domain PROVE Exact(d) \in Name
BY DEF Exact, Name

LEMMA BareType ==
    ASSUME NEW names \in SUBSET Name, NEW listen \in SUBSET Addr
    PROVE  Bare(names, listen) \in Block
BY DEF Bare, Block

(* A configuration with one block changed, if there is such a block.       *)
LEMMA ReplaceType ==
    ASSUME NEW config \in Config, NEW i, NEW b, i \in DOMAIN config => b \in Block
    PROVE  /\ [config EXCEPT ![i] = b] \in Config
           /\ Len([config EXCEPT ![i] = b]) = Len(config)
<1>1. CASE i \in DOMAIN config
  BY <1>1, ExceptSeq DEF Config
<1>2. CASE i \notin DOMAIN config
  <2> DEFINE n == Len(config)
  <2>1. n \in Nat /\ config \in [1..n -> Block] /\ i \notin 1..n
    BY <1>2 DEF Config
  <2> HIDE DEF n
  <2>2. [config EXCEPT ![i] = b] \in [1..n -> Block]
    BY <2>1
  <2>3. [config EXCEPT ![i] = b] \in Seq(Block) /\ Len([config EXCEPT ![i] = b]) = n
    BY <2>1, <2>2
  <2> QED
    BY <2>3 DEF Config, n
<1> QED
  BY <1>1, <1>2

LEMMA AppendType ==
    ASSUME NEW config \in Config, NEW b \in Block
    PROVE  /\ Append(config, b) \in Config
           /\ Len(Append(config, b)) = Len(config) + 1
BY DEF Config

LEMMA DuplicateType == ASSUME NEW b \in Block PROVE Duplicate(b) \in Block
<1>1. \A l \in b.listen : [l EXCEPT !.default = FALSE] \in Addr
  BY DEF Block, Addr
<1>2. {[l EXCEPT !.default = FALSE] : l \in b.listen} \in SUBSET Addr
  BY <1>1
<1> QED
  BY <1>2 DEF Duplicate, Block

LEMMA DefaultType ==
    ASSUME NEW config \in Config, NEW mismatch, NEW port
    PROVE  GetDefaultVhost(config, mismatch, port) \subseteq DOMAIN config \cup {0}
BY DEF GetDefaultVhost, Defaults

LEMMA FromDefaultType ==
    ASSUME NEW config \in Config, NEW new_v \in 0..Len(config), NEW d \in Domain,
           NEW mismatch, NEW port,
           NEW o \in VhostFromDuplicatedDefault(config, new_v, d, mismatch, port)
    PROVE  /\ o.config \in Config /\ o.vhost \in 0..Len(o.config)
           /\ o.vhost = 0 => new_v = 0
<1>1. CASE new_v # 0
  <2>1. /\ o.config = [config EXCEPT ![new_v].names = @ \cup {Exact(d)}]
        /\ o.vhost = new_v
    BY <1>1 DEF VhostFromDuplicatedDefault
  <2>2. config[new_v] \in Block
    BY <1>1 DEF Config
  <2> DEFINE named == [config[new_v] EXCEPT !.names = @ \cup {Exact(d)}]
  <2>3. named \in Block
    BY <2>2, ExactType DEF Block
  <2>4. o.config = [config EXCEPT ![new_v] = named]
    BY <2>1
  <2> HIDE DEF named
  <2>5. o.config \in Config /\ Len(o.config) = Len(config)
    BY <2>3, <2>4, ReplaceType
  <2> QED
    BY <1>1, <2>1, <2>5
<1>2. CASE new_v = 0
  <2>1. PICK i \in GetDefaultVhost(config, mismatch, port) :
            o = IF i = 0
                THEN [config |-> config, vhost |-> 0]
                ELSE [config |-> Append(config, [Duplicate(config[i]) EXCEPT !.names = {Exact(d)}]),
                      vhost |-> Len(config) + 1]
    BY <1>2 DEF VhostFromDuplicatedDefault
  <2>2. CASE i = 0
    BY <1>2, <2>1, <2>2
  <2>3. CASE i # 0
    <3>1. config[i] \in Block
      BY <2>3, DefaultType DEF Config
    <3>2. [Duplicate(config[i]) EXCEPT !.names = {Exact(d)}] \in Block
      BY <3>1, DuplicateType, ExactType DEF Block
    <3>3. /\ o.config = Append(config, [Duplicate(config[i]) EXCEPT !.names = {Exact(d)}])
          /\ o.vhost = Len(config) + 1
      BY <2>1, <2>3
    <3>4. o.config \in Config /\ Len(o.config) = Len(config) + 1
      BY <3>2, <3>3, AppendType
    <3> QED
      BY <3>3, <3>4, <1>2 DEF Config
  <2> QED
    BY <2>2, <2>3
<1> QED
  BY <1>1, <1>2

LEMMA SecuredType ==
    ASSUME NEW config \in Config, NEW i
    PROVE  Secured(config, i) \in Config /\ Len(Secured(config, i)) = Len(config)
<1> DEFINE secure == [config[i] EXCEPT
                         !.listen = @ \cup {Listen(HttpsPort, TRUE)}
                                      \cup (IF @ = {} THEN {Listen(HttpPort, FALSE)} ELSE {}),
                         !.cert = "snakeoil"]
<1>1. ASSUME i \in DOMAIN config PROVE secure \in Block
  <2>1. config[i] \in Block
    BY <1>1 DEF Config
  <2>2. Listen(HttpsPort, TRUE) \in Addr /\ Listen(HttpPort, FALSE) \in Addr
    BY ListenType, PortAssumption
  <2> QED
    BY <2>1, <2>2 DEF Block
<1>2. MakeServerSsl(config, i) = [config EXCEPT ![i] = secure]
  BY DEF MakeServerSsl
<1> HIDE DEF secure
<1>3. [config EXCEPT ![i] = secure] \in Config /\ Len([config EXCEPT ![i] = secure]) = Len(config)
  BY <1>1, ReplaceType, Zenon
<1>4. MakeServerSsl(config, i) \in Config /\ Len(MakeServerSsl(config, i)) = Len(config)
  BY <1>2, <1>3, Zenon
<1> QED
  BY <1>4 DEF Secured

LEMMA DeployType ==
    ASSUME NEW config \in Config, NEW i
    PROVE  DeployTo(config, i) \in Config /\ Len(DeployTo(config, i)) = Len(config)
<1> DEFINE s == Secured(config, i)
           certified == [s[i] EXCEPT !.cert = "new"]
<1>1. s \in Config /\ Len(s) = Len(config)
  BY SecuredType
<1>2. DeployTo(config, i) = [s EXCEPT ![i] = certified]
  BY DEF DeployTo
<1> HIDE DEF s
<1>3. ASSUME i \in DOMAIN s PROVE certified \in Block
  <2>1. s[i] \in Block
    BY <1>1, <1>3 DEF Config
  <2> QED
    BY <2>1 DEF Block
<1> HIDE DEF certified
<1>4. [s EXCEPT ![i] = certified] \in Config /\ Len([s EXCEPT ![i] = certified]) = Len(s)
  BY <1>1, <1>3, ReplaceType, Zenon
<1> QED
  BY <1>1, <1>2, <1>4, Zenon

LEMMA SplitType ==
    ASSUME NEW config \in Config, NEW i \in DOMAIN config, NEW http \in Block
    PROVE  /\ SplitBlock(config, i, http) \in Config
           /\ Len(SplitBlock(config, i, http)) = Len(config) + 1
<1> DEFINE plain == {l \in config[i].listen : ~ l.ssl}
           kept == [config EXCEPT ![i].listen = {l \in @ : l.ssl}]
<1>1. config[i] \in Block
  BY DEF Config
<1>2. [config[i] EXCEPT !.listen = {l \in @ : l.ssl}] \in Block
  BY <1>1 DEF Block
<1>3. [http EXCEPT !.listen = plain, !.cert = "none"] \in Block
  BY <1>1 DEF Block
<1>4. kept = [config EXCEPT ![i] = [config[i] EXCEPT !.listen = {l \in @ : l.ssl}]]
  OBVIOUS
<1>5. kept \in Config /\ Len(kept) = Len(config)
  BY <1>2, <1>4, ReplaceType
<1>6. SplitBlock(config, i, http) = Append(kept, [http EXCEPT !.listen = plain, !.cert = "none"])
  BY DEF SplitBlock
<1> QED
  BY <1>3, <1>5, <1>6, AppendType

LEMMA ExtrasType ==
    ASSUME NEW config \in Config, NEW i \in DOMAIN config, NEW e \in Extra
    PROVE  /\ [config EXCEPT ![i].extras = @ \cup {e}] \in Config
           /\ Len([config EXCEPT ![i].extras = @ \cup {e}]) = Len(config)
<1> DEFINE new == [config[i] EXCEPT !.extras = @ \cup {e}]
<1>1. config[i] \in Block
  BY DEF Config
<1>2. new \in Block
  BY <1>1 DEF Block
<1>3. [config EXCEPT ![i].extras = @ \cup {e}] = [config EXCEPT ![i] = new]
  OBVIOUS
<1> HIDE DEF new
<1>4. [config EXCEPT ![i] = new] \in Config /\ Len([config EXCEPT ![i] = new]) = Len(config)
  BY <1>2, ReplaceType, Zenon
<1> QED
  BY <1>3, <1>4, Zenon

LEMMA RedirectsType ==
    ASSUME NEW config \in Config, NEW i \in DOMAIN config, NEW S \in SUBSET Domain
    PROVE  /\ [config EXCEPT ![i].redirects = S] \in Config
           /\ Len([config EXCEPT ![i].redirects = S]) = Len(config)
<1> DEFINE new == [config[i] EXCEPT !.redirects = S]
<1>1. config[i] \in Block
  BY DEF Config
<1>2. new \in Block
  BY <1>1 DEF Block
<1>3. [config EXCEPT ![i].redirects = S] = [config EXCEPT ![i] = new]
  OBVIOUS
<1> HIDE DEF new
<1>4. [config EXCEPT ![i] = new] \in Config /\ Len([config EXCEPT ![i] = new]) = Len(config)
  BY <1>2, ReplaceType, Zenon
<1> QED
  BY <1>3, <1>4, Zenon

LEMMA HeaderType ==
    ASSUME NEW config \in Config, NEW i \in DOMAIN config, NEW e \in Extra
    PROVE  /\ SetHttpHeader(config, i, e) \in Config
           /\ Len(SetHttpHeader(config, i, e)) >= Len(config)
<1> DEFINE secured == Secured(config, i)
           plain == \E l \in secured[i].listen : l.port \notin SslPorts(secured)
           split == IF plain THEN SplitBlock(secured, i, secured[i]) ELSE secured
           extended == [split EXCEPT ![i].extras = @ \cup {e}]
<1>1. secured \in Config /\ Len(secured) = Len(config)
  BY SecuredType
<1>2. i \in DOMAIN secured /\ Len(config) \in Nat
  BY <1>1 DEF Config
<1>3. SetHttpHeader(config, i, e) \in {secured, extended}
  BY DEF SetHttpHeader
<1> HIDE DEF secured, plain
<1>4. secured[i] \in Block
  BY <1>1, <1>2 DEF Config
<1>5. split \in Config /\ Len(split) \in {Len(config), Len(config) + 1}
  BY <1>1, <1>2, <1>4, SplitType
<1>6. i \in DOMAIN split
  BY <1>2, <1>5 DEF Config
<1> HIDE DEF split
<1>7. extended \in Config /\ Len(extended) = Len(split)
  BY <1>5, <1>6, ExtrasType, Zenon
<1> HIDE DEF extended
<1> QED
  BY <1>1, <1>2, <1>3, <1>5, <1>7

LEMMA StaplingType ==
    ASSUME NEW config \in Config, NEW i \in DOMAIN config
    PROVE  /\ EnableOcspStapling(config, i) \in Config
           /\ Len(EnableOcspStapling(config, i)) = Len(config)
<1> DEFINE secured == Secured(config, i)
<1>1. secured \in Config /\ Len(secured) = Len(config) /\ "staple" \in Extra
  BY SecuredType DEF Extra
<1>2. i \in DOMAIN secured
  BY <1>1 DEF Config
<1>3. EnableOcspStapling(config, i) = [secured EXCEPT ![i].extras = @ \cup {"staple"}]
  BY DEF EnableOcspStapling
<1> HIDE DEF secured
<1>4. /\ [secured EXCEPT ![i].extras = @ \cup {"staple"}] \in Config
      /\ Len([secured EXCEPT ![i].extras = @ \cup {"staple"}]) = Len(secured)
  BY <1>1, <1>2, ExtrasType, Zenon
<1> QED
  BY <1>1, <1>3, <1>4, Zenon

LEMMA RedirectType ==
    ASSUME NEW config \in Config, NEW i \in DOMAIN config, NEW d \in Domain
    PROVE  /\ EnableRedirect(config, i, d) \in Config
           /\ Len(EnableRedirect(config, i, d)) >= Len(config)
<1>1. config[i] \in Block /\ Len(config) \in Nat
  BY DEF Config
<1>2. CASE IsSsl(config, i)
  <2> DEFINE http == Bare(config[i].names, {})
             split == SplitBlock(config, i, http)
  <2>1. http \in Block
    BY <1>1, BareType DEF Block
  <2>2. EnableRedirect(config, i, d) = [split EXCEPT ![Len(config) + 1].redirects = {d}]
    BY <1>2 DEF EnableRedirect
  <2> HIDE DEF http
  <2>3. split \in Config /\ Len(split) = Len(config) + 1
    BY <2>1, SplitType
  <2> HIDE DEF split
  <2>4. Len(config) + 1 \in DOMAIN split
    BY <1>1, <2>3 DEF Config
  <2>5. /\ [split EXCEPT ![Len(config) + 1].redirects = {d}] \in Config
        /\ Len([split EXCEPT ![Len(config) + 1].redirects = {d}]) = Len(split)
    <3>1. {d} \in SUBSET Domain
      OBVIOUS
    <3> QED
      BY <2>3, <2>4, <3>1, RedirectsType, Zenon
  <2> QED
    BY <1>1, <2>2, <2>3, <2>5
<1>3. CASE ~ IsSsl(config, i)
  <2> DEFINE S == config[i].redirects \cup {d}
  <2>1. S \in SUBSET Domain
    BY <1>1 DEF Block
  <2>2. EnableRedirect(config, i, d) = [config EXCEPT ![i].redirects = S]
    BY <1>3 DEF EnableRedirect
  <2> HIDE DEF S
  <2>3. /\ [config EXCEPT ![i].redirects = S] \in Config
        /\ Len([config EXCEPT ![i].redirects = S]) = Len(config)
    BY <2>1, RedirectsType, Zenon
  <2> QED
    BY <1>1, <2>2, <2>3
<1> QED
  BY <1>2, <1>3

LEMMA AnswerType ==
    ASSUME NEW config \in Config, NEW S, NEW d \in Domain
    PROVE  Answer(config, S, d) \in Config /\ Len(Answer(config, S, d)) = Len(config)
<1>1. \A i \in DOMAIN config :
        config[i] \in Block /\ [config[i] EXCEPT !.answers = @ \cup {d}] \in Block
  <2> TAKE i \in DOMAIN config
  <2>1. config[i] \in Block
    BY DEF Config
  <2> QED
    BY <2>1 DEF Block
<1>2. Len(config) \in Nat /\ DOMAIN config = 1..Len(config)
  BY DEF Config
<1> DEFINE block(i) ==
        IF i \in S THEN [config[i] EXCEPT !.answers = @ \cup {d}] ELSE config[i]
<1>3. \A i \in 1..Len(config) : block(i) \in Block
  BY <1>1, <1>2
<1>4. Answer(config, S, d) = [i \in 1..Len(config) |-> block(i)]
  BY <1>2 DEF Answer
<1> HIDE DEF block
<1>5. Answer(config, S, d) \in [1..Len(config) -> Block]
  BY <1>3, <1>4
<1> QED
  BY <1>2, <1>5 DEF Config

LEMMA ChallengedType ==
    ASSUME NEW config \in Config, NEW new_v \in 0..Len(config), NEW d \in Domain,
           NEW o \in Challenged(config, new_v, d)
    PROVE  o.config \in Config /\ o.vhost \in 0..Len(o.config)
<1> DEFINE http == {i \in Named(config, d) : VhostListening(config, i, HttpPort, FALSE)}
           https == {i \in Named(config, d) : VhostListening(config, i, HttpsPort, TRUE)}
           given == VhostFromDuplicatedDefault(config, new_v, d, FALSE, HttpPort)
<1>1. CASE http # {}
  <2>1. o.config = Answer(config, http \cup https, d) /\ o.vhost = new_v
    BY <1>1 DEF Challenged
  <2> HIDE DEF http, https
  <2> QED
    BY <2>1, AnswerType
<1>2. CASE http = {}
  <2> DEFINE answered(g) == [config |-> Answer(g.config, {g.vhost} \cup https, d),
                             vhost |-> IF g.vhost = 0 THEN new_v ELSE g.vhost,
                             own |-> g.vhost = 0]
  <2>1. Challenged(config, new_v, d) = {answered(g) : g \in given}
    BY <1>2, Zenon DEF Challenged
  <2> HIDE DEF answered, given
  <2>2. PICK g \in given : o = answered(g)
    BY <2>1
  <2>3. /\ o.config = Answer(g.config, {g.vhost} \cup https, d)
        /\ o.vhost = IF g.vhost = 0 THEN new_v ELSE g.vhost
    BY <2>2 DEF answered
  <2> HIDE DEF https
  <2>4. g.config \in Config /\ g.vhost \in 0..Len(g.config) /\ (g.vhost = 0 => new_v = 0)
    BY FromDefaultType DEF given
  <2>5. o.config \in Config /\ Len(o.config) = Len(g.config)
    BY <2>3, <2>4, AnswerType
  <2> QED
    BY <2>3, <2>4, <2>5
<1> QED
  BY <1>1, <1>2

-----------------------------------------------------------------------------
LEMMA ChallengeBlockType == ASSUME NEW d \in Domain PROVE ChallengeBlock(d) \in Block
<1> DEFINE bare == Bare({Exact(d)}, {Listen(HttpPort, FALSE)})
<1>1. bare \in Block
  BY ExactType, ListenType, BareType, PortAssumption
<1>2. ChallengeBlock(d) = [bare EXCEPT !.answers = {d}]
  BY DEF ChallengeBlock
<1> HIDE DEF bare
<1> QED
  BY <1>1, <1>2 DEF Block

(* Types.                                                                  *)
LEMMA RecoveredType ==
    ASSUME TypeOK PROVE Recovered \in Config
<1>1. disk \in Config /\ temp \in Seq(Config) /\ in_progress \in Seq(Config)
  BY DEF TypeOK, Config
<1>2. \A s \in Seq(Config) : s # <<>> => s[1] \in Config
  OBVIOUS
<1> QED
  BY <1>1, <1>2 DEF Recovered

LEMMA FirstType ==
    ASSUME TypeOK PROVE First(enhancements) \in Extra \cup {"redirect"}
BY DEF First, Extra

LEMMA InitType == Init => TypeOK
BY ConfigurationsAssumption DEF Init, TypeOK

LEMMA NextType == TypeOK /\ [Next]_vars => TypeOK'
<1> SUFFICES ASSUME TypeOK, [Next]_vars PROVE TypeOK'
  OBVIOUS
<1> USE DEF files, history, memory, process, Go
<1>1. /\ {disk, challenge_conf, running, parsed, blocks, saved, prior} \subseteq Config
      /\ {temp, in_progress, checkpoints} \subseteq Seq(Config)
      /\ new_vhost \in 0..Len(parsed) /\ Len(parsed) \in Nat
      /\ todo \in Seq(Domain) /\ requests \in Requests \cup {{}} /\ enhancements \subseteq requests
      /\ raised \in {"no"} \cup DOMAIN Handler
  BY DEF TypeOK, Config
<1> DEFINE Filed == /\ {disk', challenge_conf', saved'} \subseteq Config
                    /\ {temp', in_progress', checkpoints'} \subseteq Seq(Config)
           Known == /\ {parsed', blocks'} \subseteq Config /\ new_vhost' \in 0..Len(parsed')
           Rest == /\ {running', prior'} \subseteq Config
                   /\ todo' \in Seq(Domain) /\ requests' \in Requests \cup {{}}
                   /\ enhancements' \subseteq requests'
                   /\ raised' \in {"no"} \cup DOMAIN Handler
<1>2. SUFFICES Filed /\ Known /\ Rest
  BY DEF TypeOK, Config
<1>3. UNCHANGED files => Filed
  BY <1>1
<1>4. UNCHANGED memory => Known
  BY <1>1
<1>5. RecoveryRoutine => Filed
  <2>1. <<>> \in Config /\ <<>> \in Seq(Config)
    BY DEF Config
  <2> QED
    BY <1>1, <2>1, RecoveredType DEF RecoveryRoutine
<1>6. disk' \in Config /\ Load(disk') /\ (blocks' = <<>> \/ UNCHANGED blocks) => Known
  <2>1. <<>> \in Config /\ (disk' \in Config => 0 \in 0..Len(disk'))
    BY DEF Config
  <2> QED
    BY <1>1, <2>1 DEF Load
<1>7. Save \/ FinalizeCheckpoint => Filed
  <2>1. Save => Filed
    BY <1>1 DEF Save
  <2>2. in_progress \o checkpoints \in Seq(Config) /\ <<>> \in Seq(Config)
    BY <1>1
  <2>3. FinalizeCheckpoint => Filed
    BY <1>1, <2>2 DEF FinalizeCheckpoint
  <2> QED
    BY <2>1, <2>3
<1>8. Loaded => running' \in Config
  BY <1>1 DEF Loaded, Config
<1>9. Forget => Known /\ prior' \in Config /\ todo' \in Seq(Domain)
                                   /\ requests' = {} /\ enhancements' = {} /\ raised' = "no"
  <2>1. <<>> \in Config /\ 0 \in 0..Len(<<>>) /\ <<>> \in Seq(Domain)
    BY DEF Config
  <2>2. Forget => parsed' = <<>> /\ blocks' = <<>> /\ new_vhost' = 0
    BY DEF Forget
  <2>3. Forget => Known
    BY <2>1, <2>2
  <2>4. Forget => /\ prior' = disk /\ todo' = <<>> /\ requests' = {} /\ enhancements' = {}
                  /\ raised' = "no"
    BY DEF Forget
  <2> QED
    BY <1>1, <2>1, <2>3, <2>4
<1>10. Domains \in Seq(Domain)
  BY DomainsAssumption
<1> HIDE DEF Filed, Known
<1>11. ASSUME NEW c \in {"run", "install", "enhance", "rollback"}, NEW S \in Requests \cup {{}},
           Start(c, S)
      PROVE  Filed /\ Known /\ Rest
  <2>1. Filed /\ disk' \in Config
    BY <1>11, <1>5 DEF Start, Filed
  <2>2. Known
    BY <1>6, <1>11, <2>1 DEF Start
  <2>3. Rest
    BY <1>1, <1>10, <1>11, <2>1 DEF Start
  <2> QED
    BY <2>1, <2>2, <2>3
<1>12. CASE Kill
  BY <1>1, <1>12, <1>3, <1>9 DEF Kill
<1>13. CASE End
  BY <1>1, <1>13, <1>3, <1>9 DEF End
<1>14. CASE Fail
  BY <1>1, <1>14, <1>3, <1>4 DEF Fail, Handler
<1>15. CASE Perform
  <2>1. PICK o \in Challenged(parsed, new_vhost, Head(todo)) :
            /\ parsed' = o.config /\ new_vhost' = o.vhost
            /\ blocks' = IF o.own THEN Append(blocks, ChallengeBlock(Head(todo))) ELSE blocks
    BY <1>15 DEF Perform
  <2>2. Head(todo) \in Domain /\ Tail(todo) \in Seq(Domain)
    BY <1>1, <1>15 DEF Perform
  <2>3. parsed' \in Config /\ new_vhost' \in 0..Len(parsed')
    BY <1>1, <2>1, <2>2, ChallengedType
  <2>4. blocks' \in Config
    BY <1>1, <2>1, <2>2, AppendType, ChallengeBlockType
  <2>5. Known
    BY <2>3, <2>4 DEF Known
  <2> QED
    BY <1>1, <1>3, <1>15, <2>2, <2>5 DEF Perform
<1>16. CASE Performed
  BY <1>1, <1>16, <1>3, <1>4 DEF Performed
<1>17. CASE SaveChallenge
  <2>1. Filed
    BY <1>1, <1>17 DEF SaveChallenge, Filed
  <2> QED
    BY <1>1, <1>4, <1>17, <2>1 DEF SaveChallenge
<1>18. CASE RestartForChallenge
  BY <1>1, <1>18, <1>3, <1>4, <1>8 DEF RestartForChallenge
<1>19. CASE Validate
  BY <1>1, <1>19, <1>3, <1>4 DEF Validate
<1>20. CASE Cleanup
  <2>1. CASE UNCHANGED <<files, memory>>
    BY <1>1, <1>3, <1>4, <1>20, <2>1 DEF Cleanup
  <2>2. CASE ~ UNCHANGED <<files, memory>>
    <3>1. /\ disk' = (IF temp = <<>> THEN disk ELSE temp[1]) /\ challenge_conf' = <<>>
          /\ temp' = <<>> /\ Load(disk') /\ blocks' = <<>>
          /\ UNCHANGED <<in_progress, checkpoints, saved>>
      BY <1>20, <2>2 DEF Cleanup
    <3>2. disk' \in Config
      BY <1>1, <3>1
    <3>3. Filed
      BY <1>1, <3>1, <3>2 DEF Filed, Config
    <3> QED
      BY <1>1, <1>6, <1>20, <3>1, <3>2, <3>3 DEF Cleanup
  <2> QED
    BY <2>1, <2>2
<1>21. CASE RestartClean
  BY <1>1, <1>21, <1>3, <1>4, <1>8 DEF RestartClean
<1>22. CASE Obtained
  BY <1>1, <1>22, <1>3, <1>4, <1>10 DEF Obtained
<1>23. CASE DeployCert
  <2> DEFINE d == Head(todo)
  <2>1. d \in Domain /\ Tail(todo) \in Seq(Domain)
    BY <1>1, <1>23 DEF DeployCert
  <2>2. parsed' \in Config /\ new_vhost' \in 0..Len(parsed')
    <3>1. CASE /\ parsed' = DeployTo(parsed, ChooseVhost(parsed, d)) /\ UNCHANGED new_vhost
      BY <1>1, <3>1, DeployType
    <3>2. CASE \E o \in VhostFromDuplicatedDefault(parsed, new_vhost, d, TRUE, HttpsPort) :
                  parsed' = DeployTo(o.config, o.vhost) /\ new_vhost' = o.vhost
      <4>1. PICK o \in VhostFromDuplicatedDefault(parsed, new_vhost, d, TRUE, HttpsPort) :
                parsed' = DeployTo(o.config, o.vhost) /\ new_vhost' = o.vhost
        BY <3>2
      <4>2. o.config \in Config /\ o.vhost \in 0..Len(o.config)
        BY <1>1, <2>1, FromDefaultType
      <4> QED
        BY <4>1, <4>2, DeployType
    <3> QED
      BY <1>23, <3>1, <3>2 DEF DeployCert
  <2>3. Known
    BY <1>1, <1>23, <2>2 DEF DeployCert, Known
  <2> QED
    BY <1>1, <1>3, <1>23, <2>1, <2>3 DEF DeployCert
<1>24. CASE SaveDeployed
  BY <1>1, <1>24, <1>4, <1>7 DEF SaveDeployed
<1>25. CASE FinalizeDeployed
  BY <1>1, <1>25, <1>4, <1>7 DEF FinalizeDeployed
<1>26. CASE Restart
  BY <1>1, <1>26, <1>3, <1>4, <1>8 DEF Restart
<1>27. CASE EnhanceConfig
  BY <1>1, <1>27, <1>3, <1>4, <1>10 DEF EnhanceConfig
<1>28. CASE Enhance
  <2> DEFINE d == Head(todo)
             e == First(enhancements)
             i == IF e = "redirect" THEN ChooseRedirectVhost(parsed, d) ELSE ChooseVhost(parsed, d)
  <2>1. d \in Domain /\ Tail(todo) \in Seq(Domain)
    BY <1>1, <1>28 DEF Enhance
  <2>2. e \in Extra \cup {"redirect"}
    BY FirstType
  <2>3. \/ parsed' = parsed
        \/ /\ i \in DOMAIN parsed
           /\ \/ parsed' = EnableRedirect(parsed, i, d)
              \/ parsed' = EnableOcspStapling(parsed, i)
              \/ e \in Extra /\ parsed' = SetHttpHeader(parsed, i, e)
    BY <1>28, <2>2 DEF Enhance
  <2> HIDE DEF i, e, d
  <2>4. parsed' \in Config /\ Len(parsed') >= Len(parsed)
    BY <1>1, <2>1, <2>3, RedirectType, StaplingType, HeaderType
  <2>5. Known
    BY <1>1, <1>28, <2>4 DEF Enhance, Known, Config
  <2> QED
    BY <1>1, <1>3, <1>28, <2>1, <2>5 DEF Enhance, d
<1>29. CASE SaveEnhancement
  BY <1>1, <1>29, <1>4, <1>7 DEF SaveEnhancement
<1>30. CASE FinalizeEnhancement
  BY <1>1, <1>30, <1>4, <1>7, <1>10 DEF FinalizeEnhancement
<1>31. CASE RestartEnhanced
  BY <1>1, <1>31, <1>3, <1>4, <1>8 DEF RestartEnhanced
<1>32. CASE Recover
  <2>1. Filed /\ Known
    <3>1. CASE RecoveryRoutine /\ Load(disk')
      <4>1. Filed /\ disk' \in Config
        BY <1>5, <3>1 DEF Filed
      <4>2. UNCHANGED blocks
        BY <1>32 DEF Recover
      <4> QED
        BY <1>6, <3>1, <4>1, <4>2
    <3>2. CASE UNCHANGED <<files, parsed, new_vhost>>
      BY <1>3, <1>4, <1>32, <3>2 DEF Recover
    <3> QED
      BY <1>32, <3>1, <3>2 DEF Recover
  <2> QED
    BY <1>1, <1>32, <2>1 DEF Recover
<1>33. CASE RollbackCheckpoints
  <2>1. disk' \in Config /\ checkpoints' \in Seq(Config) /\ saved' \in Config
    <3>1. CASE checkpoints = <<>>
      BY <1>1, <1>33, <3>1 DEF RollbackCheckpoints
    <3>2. CASE checkpoints # <<>>
      <4>1. Head(checkpoints) \in Config /\ Tail(checkpoints) \in Seq(Config)
        <5>1. checkpoints \in Seq(Config)
          BY <1>1
        <5> QED
          BY <3>2, <5>1
      <4>2. /\ disk' = Head(checkpoints) /\ checkpoints' = Tail(checkpoints)
            /\ saved' = disk'
        BY <1>33, <3>2 DEF RollbackCheckpoints
      <4> QED
        BY <4>1, <4>2
    <3> QED
      BY <3>1, <3>2
  <2>2. Filed
    BY <1>1, <1>33, <2>1 DEF RollbackCheckpoints, Filed
  <2> QED
    BY <1>1, <1>6, <1>33, <2>1, <2>2 DEF RollbackCheckpoints
<1>34. CASE RestartRolledBack
  BY <1>1, <1>34, <1>3, <1>4, <1>8 DEF RestartRolledBack
<1>35. CASE UNCHANGED vars
  BY <1>1, <1>3, <1>4, <1>35 DEF vars
<1> QED
  BY <1>2, <1>11, <1>12, <1>13, <1>14, <1>15, <1>16, <1>17, <1>18, <1>19, <1>20, <1>21, <1>22,
     <1>23, <1>24, <1>25, <1>26, <1>27, <1>28, <1>29, <1>30, <1>31, <1>32, <1>33, <1>34, <1>35
     DEF Next

(* For each point of a command, what the checkpoints hold and where the    *)
(* last complete configuration is; and which exceptions can be under way.  *)
Challenging ==
    {"perform", "save_challenge", "restart_challenge", "validate", "cleanup", "restart_clean",
     "obtain"}
Deploying == {"deploy", "save", "finalize"}
Enhancing == {"enhance_config", "enhance", "finalize_enhancement", "restart_enhanced"}
Settled == {"restart", "restart_enhanced", "rollback", "restart_rolled_back"}

CheckpointsInv ==
    /\ Recovered = saved
    /\ temp = <<>> => challenge_conf = <<>>
    /\ pc \in Challenging \cup Settled => in_progress = <<>>
    /\ pc \in {"finalize", "finalize_enhancement"} \cup Settled => temp = <<>>
    /\ pc = "finalize" => in_progress # <<>>

RaisedInv ==
    /\ pc \in Deploying \cup Enhancing \cup {"restart"} => raised = "no"
    /\ pc \in Challenging => raised \in {"no"} \cup BeforeDeployed
    /\ pc = "recovery" => raised # "restart"
    /\ pc \in {"rollback", "restart_rolled_back"} => raised \notin BeforeDeployed

PriorInv ==
    /\ pc \in Challenging \cup Deploying => saved = prior
    /\ pc \in {"recovery", "end"} /\ raised \in BeforeDeployed => saved = prior
    /\ pc = "restart" \/ (pc = "rollback" /\ raised = "restart") =>
           checkpoints # <<>> /\ Head(checkpoints) = prior
    /\ pc = "restart_rolled_back" /\ raised = "restart" => disk = prior
    /\ pc = "end" /\ raised = "restart" => disk = prior /\ running = prior

IInv == CheckpointsInv /\ RaisedInv /\ PriorInv

LEMMA InitInv == Init => IInv
BY DEF Init, IInv, CheckpointsInv, RaisedInv, PriorInv, Recovered, Challenging, Deploying,
       Enhancing, Settled

LEMMA NextInv == TypeOK /\ IInv /\ [Next]_vars => IInv'
<1> SUFFICES ASSUME TypeOK, IInv, [Next]_vars PROVE IInv'
  OBVIOUS
<1> USE DEF files, history, memory, process, Go, Challenging, Deploying, Enhancing, Settled,
            BeforeDeployed
<1>1. /\ disk \in Config
      /\ temp \in Seq(Config) /\ in_progress \in Seq(Config) /\ checkpoints \in Seq(Config)
  BY DEF TypeOK, Config
<1>2. UNCHANGED files => UNCHANGED Recovered
  BY DEF Recovered
<1>3. RecoveryRoutine => Recovered' = Recovered /\ disk' = Recovered
  BY DEF RecoveryRoutine, Recovered
<1>4. ASSUME NEW c \in {"run", "install", "enhance", "rollback"}, NEW S, Start(c, S)
      PROVE  IInv'
  <2>1. /\ RecoveryRoutine /\ saved' = saved /\ prior' = disk' /\ raised' = "no"
        /\ pc' \in {"perform", "deploy", "enhance_config", "rollback"}
    BY <1>4 DEF Start, RecoveryRoutine
  <2> QED
    BY <1>3, <2>1 DEF IInv, CheckpointsInv, RaisedInv, PriorInv, RecoveryRoutine
<1>5. CASE Kill
  <2>1. CheckpointsInv'
    BY <1>2, <1>5 DEF Kill, Forget, IInv, CheckpointsInv
  <2>2. RaisedInv'
    BY <1>5 DEF Kill, Forget, IInv, RaisedInv
  <2>3. PriorInv'
    BY <1>5 DEF Kill, Forget, IInv, RaisedInv, PriorInv
  <2> QED
    BY <2>1, <2>2, <2>3 DEF IInv
<1>6. CASE End
  <2>1. CheckpointsInv'
    BY <1>2, <1>6 DEF End, Forget, IInv, CheckpointsInv
  <2>2. RaisedInv'
    BY <1>6 DEF End, Forget, IInv, RaisedInv
  <2>3. PriorInv'
    BY <1>6 DEF End, Forget, IInv, RaisedInv, PriorInv
  <2> QED
    BY <2>1, <2>2, <2>3 DEF IInv
<1>7. CASE Fail
  <2>1. CheckpointsInv'
    BY <1>2, <1>7 DEF Fail, Handler, IInv, CheckpointsInv
  <2>2. RaisedInv'
    BY <1>7 DEF Fail, Handler, IInv, RaisedInv
  <2>3. PriorInv'
    BY <1>7 DEF Fail, Handler, IInv, RaisedInv, PriorInv
  <2> QED
    BY <2>1, <2>2, <2>3 DEF IInv
<1>8. CASE Perform
  <2>1. CheckpointsInv'
    BY <1>2, <1>8 DEF Perform, IInv, CheckpointsInv
  <2>2. RaisedInv'
    BY <1>8 DEF Perform, IInv, RaisedInv
  <2>3. PriorInv'
    BY <1>8 DEF Perform, IInv, RaisedInv, PriorInv
  <2> QED
    BY <2>1, <2>2, <2>3 DEF IInv
<1>9. CASE Performed
  <2>1. CheckpointsInv'
    BY <1>2, <1>9 DEF Performed, IInv, CheckpointsInv
  <2>2. RaisedInv'
    BY <1>9 DEF Performed, IInv, RaisedInv
  <2>3. PriorInv'
    BY <1>9 DEF Performed, IInv, RaisedInv, PriorInv
  <2> QED
    BY <2>1, <2>2, <2>3 DEF IInv
<1>10. CASE SaveChallenge
  <2>1. CheckpointsInv'
    BY <1>10 DEF SaveChallenge, Recovered, IInv, CheckpointsInv
  <2>2. RaisedInv'
    BY <1>10 DEF SaveChallenge, IInv, RaisedInv
  <2>3. PriorInv'
    BY <1>10 DEF SaveChallenge, IInv, RaisedInv, PriorInv
  <2> QED
    BY <2>1, <2>2, <2>3 DEF IInv
<1>11. CASE RestartForChallenge
  <2>1. CheckpointsInv'
    BY <1>2, <1>11 DEF RestartForChallenge, IInv, CheckpointsInv
  <2>2. RaisedInv'
    BY <1>11 DEF RestartForChallenge, IInv, RaisedInv
  <2>3. PriorInv'
    BY <1>11 DEF RestartForChallenge, IInv, RaisedInv, PriorInv
  <2> QED
    BY <2>1, <2>2, <2>3 DEF IInv
<1>12. CASE Validate
  <2>1. CheckpointsInv'
    BY <1>2, <1>12 DEF Validate, IInv, CheckpointsInv
  <2>2. RaisedInv'
    BY <1>12 DEF Validate, IInv, RaisedInv
  <2>3. PriorInv'
    BY <1>12 DEF Validate, IInv, RaisedInv, PriorInv
  <2> QED
    BY <2>1, <2>2, <2>3 DEF IInv
<1>13. CASE Cleanup
  <2>1. CheckpointsInv'
    BY <1>13 DEF Cleanup, Recovered, IInv, CheckpointsInv
  <2>2. RaisedInv'
    BY <1>13 DEF Cleanup, IInv, RaisedInv
  <2>3. PriorInv'
    BY <1>13 DEF Cleanup, IInv, RaisedInv, PriorInv
  <2> QED
    BY <2>1, <2>2, <2>3 DEF IInv
<1>14. CASE RestartClean
  <2>1. CheckpointsInv'
    BY <1>2, <1>14 DEF RestartClean, IInv, CheckpointsInv
  <2>2. RaisedInv'
    BY <1>14 DEF RestartClean, IInv, RaisedInv
  <2>3. PriorInv'
    BY <1>14 DEF RestartClean, IInv, RaisedInv, PriorInv
  <2> QED
    BY <2>1, <2>2, <2>3 DEF IInv
<1>15. CASE Obtained
  <2>1. CheckpointsInv'
    BY <1>2, <1>15 DEF Obtained, IInv, CheckpointsInv
  <2>2. RaisedInv'
    BY <1>15 DEF Obtained, IInv, RaisedInv
  <2>3. PriorInv'
    BY <1>15 DEF Obtained, IInv, RaisedInv, PriorInv
  <2> QED
    BY <2>1, <2>2, <2>3 DEF IInv
<1>16. CASE DeployCert
  <2>1. CheckpointsInv'
    BY <1>2, <1>16 DEF DeployCert, IInv, CheckpointsInv
  <2>2. RaisedInv'
    BY <1>16 DEF DeployCert, IInv, RaisedInv
  <2>3. PriorInv'
    BY <1>16 DEF DeployCert, IInv, RaisedInv, PriorInv
  <2> QED
    BY <2>1, <2>2, <2>3 DEF IInv
<1>17. CASE SaveDeployed
  <2>1. CheckpointsInv'
    BY <1>17 DEF SaveDeployed, Save, Recovered, IInv, CheckpointsInv
  <2>2. RaisedInv'
    BY <1>17 DEF SaveDeployed, IInv, RaisedInv
  <2>3. PriorInv'
    BY <1>17 DEF SaveDeployed, Save, IInv, RaisedInv, PriorInv
  <2> QED
    BY <2>1, <2>2, <2>3 DEF IInv
<1>18. CASE FinalizeDeployed
  <2>1. CheckpointsInv'
    BY <1>18 DEF FinalizeDeployed, FinalizeCheckpoint, Recovered, IInv, CheckpointsInv
  <2>2. RaisedInv'
    BY <1>18 DEF FinalizeDeployed, IInv, RaisedInv
  <2>3. in_progress[1] = prior /\ in_progress # <<>>
    BY <1>18 DEF FinalizeDeployed, Recovered, IInv, CheckpointsInv, PriorInv
  <2>4. checkpoints' # <<>> /\ Head(checkpoints') = prior
    <3>1. checkpoints' = in_progress \o checkpoints
      BY <1>18 DEF FinalizeDeployed, FinalizeCheckpoint
    <3> QED
      BY <1>1, <2>3, <3>1, ConcatProperties
  <2>5. PriorInv'
    BY <1>18, <2>4 DEF FinalizeDeployed, PriorInv
  <2> QED
    BY <2>1, <2>2, <2>5 DEF IInv
<1>19. CASE Restart
  <2>1. CheckpointsInv'
    BY <1>2, <1>19 DEF Restart, IInv, CheckpointsInv
  <2>2. RaisedInv'
    BY <1>19 DEF Restart, IInv, RaisedInv
  <2>3. PriorInv'
    BY <1>19 DEF Restart, IInv, RaisedInv, PriorInv
  <2> QED
    BY <2>1, <2>2, <2>3 DEF IInv
<1>20. CASE EnhanceConfig
  <2>1. CheckpointsInv'
    BY <1>2, <1>20 DEF EnhanceConfig, IInv, CheckpointsInv
  <2>2. RaisedInv'
    BY <1>20 DEF EnhanceConfig, IInv, RaisedInv
  <2>3. PriorInv'
    BY <1>20 DEF EnhanceConfig, IInv, RaisedInv, PriorInv
  <2> QED
    BY <2>1, <2>2, <2>3 DEF IInv
<1>21. CASE Enhance
  <2>1. CheckpointsInv'
    BY <1>2, <1>21 DEF Enhance, IInv, CheckpointsInv
  <2>2. RaisedInv'
    BY <1>21 DEF Enhance, IInv, RaisedInv
  <2>3. PriorInv'
    BY <1>21 DEF Enhance, IInv, RaisedInv, PriorInv
  <2> QED
    BY <2>1, <2>2, <2>3 DEF IInv
<1>22. CASE SaveEnhancement
  <2>1. CheckpointsInv'
    BY <1>22 DEF SaveEnhancement, Save, Recovered, IInv, CheckpointsInv
  <2>2. RaisedInv'
    BY <1>22 DEF SaveEnhancement, IInv, RaisedInv
  <2>3. PriorInv'
    BY <1>22 DEF SaveEnhancement, Save, IInv, RaisedInv, PriorInv
  <2> QED
    BY <2>1, <2>2, <2>3 DEF IInv
<1>23. CASE FinalizeEnhancement
  <2>1. CheckpointsInv'
    BY <1>23 DEF FinalizeEnhancement, FinalizeCheckpoint, Recovered, IInv, CheckpointsInv
  <2>2. RaisedInv'
    BY <1>23 DEF FinalizeEnhancement, IInv, RaisedInv
  <2>3. PriorInv'
    BY <1>23 DEF FinalizeEnhancement, FinalizeCheckpoint, IInv, RaisedInv, PriorInv
  <2> QED
    BY <2>1, <2>2, <2>3 DEF IInv
<1>24. CASE RestartEnhanced
  <2>1. CheckpointsInv'
    BY <1>2, <1>24 DEF RestartEnhanced, IInv, CheckpointsInv
  <2>2. RaisedInv'
    BY <1>24 DEF RestartEnhanced, IInv, RaisedInv
  <2>3. PriorInv'
    BY <1>24 DEF RestartEnhanced, IInv, RaisedInv, PriorInv
  <2> QED
    BY <2>1, <2>2, <2>3 DEF IInv
<1>25. CASE Recover
  <2>1. CheckpointsInv'
    BY <1>2, <1>25, <1>3 DEF Recover, RecoveryRoutine, IInv, CheckpointsInv
  <2>2. RaisedInv'
    BY <1>25 DEF Recover, IInv, RaisedInv
  <2>3. PriorInv'
    BY <1>25 DEF Recover, RecoveryRoutine, IInv, RaisedInv, PriorInv
  <2> QED
    BY <2>1, <2>2, <2>3 DEF IInv
<1>26. CASE RollbackCheckpoints
  <2>1. CheckpointsInv'
    BY <1>26 DEF RollbackCheckpoints, Recovered, IInv, CheckpointsInv
  <2>2. RaisedInv'
    BY <1>26 DEF RollbackCheckpoints, IInv, RaisedInv
  <2>3. PriorInv'
    BY <1>26 DEF RollbackCheckpoints, IInv, RaisedInv, PriorInv
  <2> QED
    BY <2>1, <2>2, <2>3 DEF IInv
<1>27. CASE RestartRolledBack
  <2>1. CheckpointsInv'
    BY <1>2, <1>27 DEF RestartRolledBack, Loaded, IInv, CheckpointsInv
  <2>2. RaisedInv'
    BY <1>27 DEF RestartRolledBack, IInv, RaisedInv
  <2>3. running' = disk
    <3>1. challenge_conf = <<>> /\ running' = challenge_conf \o disk
      BY <1>27 DEF RestartRolledBack, Loaded, IInv, CheckpointsInv
    <3>2. \A s \in Config : <<>> \o s = s
      BY ConcatEmptySeq DEF Config
    <3> QED
      BY <1>1, <3>1, <3>2
  <2>4. PriorInv'
    BY <1>27, <2>3 DEF RestartRolledBack, IInv, RaisedInv, PriorInv
  <2> QED
    BY <2>1, <2>2, <2>4 DEF IInv
<1>28. CASE UNCHANGED vars
  BY <1>2, <1>28 DEF vars, IInv, CheckpointsInv, RaisedInv, PriorInv
<1> QED
  BY <1>4, <1>5, <1>6, <1>7, <1>8, <1>9, <1>10, <1>11, <1>12, <1>13, <1>14, <1>15, <1>16, <1>17,
     <1>18, <1>19, <1>20, <1>21, <1>22, <1>23, <1>24, <1>25, <1>26, <1>27, <1>28 DEF Next

-----------------------------------------------------------------------------
(* The variables of Installation have their types: in particular a vhost   *)
(* kept in new_vhost is one of the parsed configuration, whatever was      *)
(* reverted since.                                                         *)
THEOREM Types == Spec => []TypeOK
<1> QED
  BY InitType, NextType, PTL DEF Spec

(* The Reverter leads back to the last complete configuration at any       *)
(* point; which is the prior one when deploying the certificate failed,    *)
(* and runs again when the restart with the new one failed.                *)
THEOREM RestoredAlways == Spec => []Restored
<1>1. TypeOK /\ IInv => Restored
  BY DEF IInv, CheckpointsInv, PriorInv, Restored
<1> QED
  BY <1>1, InitType, NextType, InitInv, NextInv, PTL DEF Spec

-----------------------------------------------------------------------------
(* The least and the greatest of numbers.                                  *)
LEMMA LeastOf ==
    ASSUME NEW S \in SUBSET Nat, S # {}
    PROVE  \E m \in S : \A k \in S : m <= k
<1> DEFINE R == {x \in Nat \X Nat : x[1] < x[2]}
<1>1. IsWellFoundedOn(R, Nat)
  BY NatLessThanWellFounded DEF OpToRel
<1>2. \E m \in S : \A k \in S : ~ (<<k, m>> \in R)
  BY <1>1, WFMin
<1>3. \A k, m \in Nat : <<k, m>> \in R \/ m <= k
  OBVIOUS
<1>4. \A k \in S : k \in Nat
  OBVIOUS
<1> HIDE DEF R
<1> QED
  BY <1>2, <1>3, <1>4

(* Min, for numbers.                                                       *)
LEMMA MinIs ==
    ASSUME NEW S \in SUBSET Nat, S # {}
    PROVE  Min(S) \in S /\ \A k \in S : Min(S) <= k
BY LeastOf DEF Min

(* Of the elements of a finite set one has the greatest value.             *)
LEMMA GreatestOf ==
    ASSUME NEW S, IsFiniteSet(S), S # {}, NEW f \in [S -> Nat]
    PROVE  \E m \in S : \A k \in S : f[k] <= f[m]
<1> DEFINE above == [x \in S |-> {y \in S : f[y] > f[x]}]
           C == {Cardinality(above[x]) : x \in S}
<1>1. \A x \in S : IsFiniteSet(above[x]) /\ Cardinality(above[x]) \in Nat
  BY FS_Subset, FS_CardinalityType
<1>2. C \in SUBSET Nat /\ C # {}
  BY <1>1
<1>3. PICK n \in C : \A k \in C : n <= k
  <2> HIDE DEF C
  <2> QED
    BY <1>2, LeastOf
<1>4. PICK x \in S : \A y \in S : Cardinality(above[x]) <= Cardinality(above[y])
  BY <1>3
<1>5. ASSUME NEW y \in S, f[y] > f[x] PROVE FALSE
  <2>1. above[y] \in SUBSET above[x] /\ y \in above[x] /\ y \notin above[y]
    BY <1>5
  <2>2. Cardinality(above[y]) <= Cardinality(above[x])
        /\ (Cardinality(above[y]) = Cardinality(above[x]) => above[y] = above[x])
    BY <1>1, <2>1, FS_Subset, Zenon
  <2> HIDE DEF above
  <2> QED
    BY <1>1, <1>4, <2>1, <2>2
<1> HIDE DEF above, C
<1>6. \A y \in S : f[y] \in Nat
  OBVIOUS
<1> QED
  BY <1>5, <1>6

-----------------------------------------------------------------------------
(* Orderly, directive by directive: the first of a port is its default     *)
(* server, and has a certificate.                                          *)
Once(config) ==
    \A i \in DOMAIN config : \A l, m \in config[i].listen : l.port = m.port => l = m
OneDefault(config) ==
    \A i, j \in DOMAIN config : \A l \in config[i].listen, m \in config[j].listen :
        l.default /\ m.default /\ l.port = m.port => i = j
Words(config) ==
    /\ \A i, j \in DOMAIN config : \A l \in config[i].listen, m \in config[j].listen :
           l.port = m.port => (l.ssl <=> m.ssl)
    /\ \A i \in DOMAIN config : \A l \in config[i].listen :
           (l.port = HttpPort => ~ l.ssl) /\ (l.port = HttpsPort => l.ssl)
Leads(config, i, l) ==
    \/ l.default
    \/ \A j \in DOMAIN config : \A m \in config[j].listen :
           m.port = l.port => ~ m.default /\ i <= j
Certified(config) ==
    \A i \in DOMAIN config : \A l \in config[i].listen :
        l.ssl /\ Leads(config, i, l) => config[i].cert # "none"
FiniteNames(config) == \A i \in DOMAIN config : IsFiniteSet(config[i].names)

Sound(config) ==
    /\ Once(config) /\ OneDefault(config) /\ Words(config) /\ Certified(config)
    /\ FiniteNames(config)

LEMMA IndexFinite ==
    ASSUME NEW config \in Config
    PROVE  /\ DOMAIN config = 1..Len(config) /\ Len(config) \in Nat
           /\ \A S \in SUBSET DOMAIN config : IsFiniteSet(S) /\ S \in SUBSET Nat
<1>1. DOMAIN config = 1..Len(config) /\ Len(config) \in Nat
  BY DEF Config
<1>2. IsFiniteSet(1..Len(config))
  BY <1>1, FS_Interval
<1> QED
  BY <1>1, <1>2, FS_Subset

LEMMA BlockFields ==
    ASSUME NEW config \in Config, NEW i \in DOMAIN config
    PROVE  /\ config[i] \in Block /\ config[i].listen \subseteq Addr
           /\ \A l \in config[i].listen :
                  l \in Addr /\ l.port \in Port /\ l.ssl \in BOOLEAN /\ l.default \in BOOLEAN
<1>1. config[i] \in Block
  BY DEF Config
<1> QED
  BY <1>1 DEF Block, Addr

(* That a port has ssl everywhere or nowhere, said of two listens.         *)
LEMMA WordsAre ==
    ASSUME NEW config \in Config
    PROVE  SslByPort(config) <=> Words(config)
<1>1. \A port : port \in SslPorts(config) <=>
                  \E i \in DOMAIN config : \E l \in config[i].listen : l.ssl /\ l.port = port
  BY DEF SslPorts
<1>2. \A i \in DOMAIN config : \A l \in config[i].listen : l.ssl \in BOOLEAN
  BY BlockFields
<1> QED
  BY <1>1, <1>2 DEF SslByPort, Words

(* That a port has at most one default server, said of two blocks.         *)
LEMMA OneDefaultIs ==
    ASSUME NEW config \in Config
    PROVE  (\A port \in Port : Cardinality(Defaults(config, port)) <= 1) <=> OneDefault(config)
<1>1. \A port : Defaults(config, port) \in SUBSET DOMAIN config
  BY DEF Defaults
<1>2. ASSUME NEW port \in Port
      PROVE  Cardinality(Defaults(config, port)) <= 1 <=>
               \A i, j \in Defaults(config, port) : i = j
  <2> DEFINE D == Defaults(config, port)
  <2>1. IsFiniteSet(D) /\ Cardinality(D) \in Nat
    BY <1>1, IndexFinite, FS_CardinalityType
  <2>2. Cardinality(D) = 0 <=> D = {}
    BY <2>1, FS_EmptySet
  <2>3. Cardinality(D) = 1 <=> \E x : D = {x}
    BY <2>1, FS_Singleton
  <2>4. Cardinality(D) <= 1 <=> Cardinality(D) = 0 \/ Cardinality(D) = 1
    BY <2>1
  <2>5. (\A i, j \in D : i = j) <=> D = {} \/ \E x : D = {x}
    OBVIOUS
  <2> QED
    BY <2>2, <2>3, <2>4, <2>5
<1>3. \A i \in DOMAIN config : \A l \in config[i].listen : l.port \in Port
  BY BlockFields
<1>4. OneDefault(config) <=>
        \A port \in Port : \A i, j \in Defaults(config, port) : i = j
  BY <1>3 DEF OneDefault, Defaults
<1> QED
  BY <1>2, <1>4

(* The default server of a port is the block that leads there.             *)
LEMMA DefaultServerIs ==
    ASSUME NEW config \in Config, OneDefault(config), NEW i \in DOMAIN config,
           NEW l \in config[i].listen, l.port # HttpPort
    PROVE  /\ Leads(config, i, l) => DefaultServer(config, l.port) = i
           /\ DefaultServer(config, l.port) \in DOMAIN config
           /\ \E m \in config[DefaultServer(config, l.port)].listen :
                m.port = l.port /\ Leads(config, DefaultServer(config, l.port), m)
<1> DEFINE D == Defaults(config, l.port)
           on == {j \in DOMAIN config : l.port \in Ports(config[j])}
           s == DefaultServer(config, l.port)
<1>1. /\ D \in SUBSET Nat /\ on \in SUBSET Nat
      /\ D \subseteq DOMAIN config /\ on \subseteq DOMAIN config
  BY IndexFinite DEF Defaults
<1>2. \A j \in DOMAIN config : j \in on <=> \E m \in config[j].listen : m.port = l.port
  BY DEF Ports
<1>3. \A j \in DOMAIN config : j \in D <=> \E m \in config[j].listen : m.port = l.port /\ m.default
  BY DEF Defaults
<1>4. i \in on
  BY <1>2
<1>5. s = Min(IF D # {} THEN D ELSE on)
  BY DEF DefaultServer
<1> HIDE DEF D, on, s
<1>6. CASE D # {}
  <2>1. s \in D
    BY <1>1, <1>5, <1>6, MinIs
  <2>2. PICK m \in config[s].listen : m.port = l.port /\ m.default
    BY <1>1, <1>3, <2>1
  <2>3. Leads(config, i, l) => s = i
    <3>1. CASE l.default
      BY <1>1, <2>1, <2>2, <3>1 DEF OneDefault
    <3>2. CASE \A j \in DOMAIN config : \A k \in config[j].listen :
                  k.port = l.port => ~ k.default /\ i <= j
      BY <1>1, <2>1, <2>2, <3>2
    <3> QED
      BY <3>1, <3>2 DEF Leads
  <2> QED
    BY <1>1, <2>1, <2>2, <2>3 DEF Leads, s
<1>7. CASE D = {}
  <2>1. s \in on /\ \A j \in on : s <= j
    BY <1>1, <1>4, <1>5, <1>7, MinIs
  <2>2. PICK m \in config[s].listen : m.port = l.port
    BY <1>1, <1>2, <2>1
  <2>3. \A j \in DOMAIN config : \A k \in config[j].listen :
            k.port = m.port => ~ k.default /\ s <= j
    BY <1>2, <1>3, <1>7, <2>1, <2>2
  <2>4. Leads(config, i, l) => s = i
    <3>1. ~ l.default
      BY <1>3, <1>7
    <3>2. Leads(config, i, l) => i <= s
      BY <1>1, <2>1, <2>2, <3>1 DEF Leads
    <3>3. s \in Nat /\ i \in Nat /\ s <= i
      BY <1>1, <1>4, <2>1
    <3> QED
      BY <3>2, <3>3
  <2> QED
    BY <1>1, <2>1, <2>2, <2>3, <2>4 DEF Leads, s
<1> QED
  BY <1>6, <1>7

(* Sound is Orderly, said of blocks and listens instead of sets and their  *)
(* sizes.                                                                  *)
LEMMA OrderlyIs ==
    ASSUME NEW config \in Config
    PROVE  Orderly(config) <=> Sound(config)
<1> DEFINE certified == \A port \in SslPorts(config) :
                            config[DefaultServer(config, port)].cert # "none"
<1>1. Orderly(config) <=>
        /\ Once(config) /\ OneDefault(config) /\ certified /\ Words(config)
        /\ FiniteNames(config)
  BY WordsAre, OneDefaultIs DEF Orderly, Accepted, Once, FiniteNames
<1>2. ASSUME OneDefault(config), Words(config)
      PROVE  certified <=> Certified(config)
  <2>1. \A port : port \in SslPorts(config) <=>
                  \E i \in DOMAIN config : \E l \in config[i].listen : l.ssl /\ l.port = port
    BY DEF SslPorts
  <2>2. \A i \in DOMAIN config : \A l \in config[i].listen : l.ssl => l.port # HttpPort
    BY <1>2 DEF Words
  <2>3. ASSUME Certified(config), NEW port \in SslPorts(config)
        PROVE  config[DefaultServer(config, port)].cert # "none"
    <3>1. PICK i \in DOMAIN config : \E l \in config[i].listen : l.ssl /\ l.port = port
      BY <2>1
    <3>2. PICK l \in config[i].listen : l.ssl /\ l.port = port
      BY <3>1
    <3>3. DefaultServer(config, port) \in DOMAIN config
      BY <1>2, <2>2, <3>2, DefaultServerIs
    <3>4. PICK m \in config[DefaultServer(config, port)].listen :
                  m.port = port /\ Leads(config, DefaultServer(config, port), m)
      BY <1>2, <2>2, <3>2, DefaultServerIs
    <3>5. m.ssl
      BY <1>2, <3>2, <3>3, <3>4 DEF Words
    <3> QED
      BY <2>3, <3>3, <3>4, <3>5 DEF Certified
  <2>4. ASSUME certified, NEW i \in DOMAIN config, NEW l \in config[i].listen,
               l.ssl, Leads(config, i, l)
        PROVE  config[i].cert # "none"
    <3>1. DefaultServer(config, l.port) = i
      BY <1>2, <2>2, <2>4, DefaultServerIs
    <3> QED
      BY <2>1, <2>4, <3>1
  <2> QED
    BY <2>3, <2>4 DEF Certified
<1> QED
  BY <1>1, <1>2 DEF Sound

(* What the operations do, block by block.                                 *)
Changes(config, e, i, b) ==
    /\ e \in Config /\ Len(e) = Len(config) /\ DOMAIN e = DOMAIN config
    /\ i \in DOMAIN config /\ e[i] = b
    /\ \A j \in DOMAIN config : j # i => e[j] = config[j]

Extends(config, e, b) ==
    /\ e \in Config /\ Len(e) = Len(config) + 1
    /\ DOMAIN e = DOMAIN config \cup {Len(config) + 1} /\ Len(config) + 1 \notin DOMAIN config
    /\ e[Len(config) + 1] = b /\ b \in Block
    /\ \A j \in DOMAIN config : e[j] = config[j] /\ ~ (Len(config) + 1 <= j) /\ j < Len(config) + 1

LEMMA ReplaceIs ==
    ASSUME NEW config \in Config, NEW i \in DOMAIN config, NEW b \in Block
    PROVE  Changes(config, [config EXCEPT ![i] = b], i, b)
<1> DEFINE e == [config EXCEPT ![i] = b]
<1>1. e \in Config /\ Len(e) = Len(config)
  BY ReplaceType
<1>2. e[i] = b /\ \A j \in DOMAIN config : j # i => e[j] = config[j]
  OBVIOUS
<1> HIDE DEF e
<1> QED
  BY <1>1, <1>2, IndexFinite DEF Changes, e

LEMMA AppendIs ==
    ASSUME NEW config \in Config, NEW b \in Block
    PROVE  Extends(config, Append(config, b), b)
<1> DEFINE e == Append(config, b)
<1>1. e \in Config /\ Len(e) = Len(config) + 1
  BY AppendType
<1>2. e[Len(config) + 1] = b /\ \A j \in DOMAIN config : e[j] = config[j]
  BY DEF Config
<1> HIDE DEF e
<1> QED
  BY <1>1, <1>2, IndexFinite DEF Extends, e

Secure(b) ==
    [b EXCEPT !.listen = @ \cup {Listen(HttpsPort, TRUE)}
                           \cup (IF @ = {} THEN {Listen(HttpPort, FALSE)} ELSE {}),
              !.cert = "snakeoil"]
OldHalf(b) == [b EXCEPT !.listen = {l \in @ : l.ssl}]
NewHalf(b, http) == [http EXCEPT !.listen = {l \in b.listen : ~ l.ssl}, !.cert = "none"]

(* _make_server_ssl, for a block.                                          *)
LEMMA SecureFields ==
    ASSUME NEW b \in Block
    PROVE  /\ Secure(b) \in Block
           /\ Secure(b).listen = b.listen \cup {Listen(HttpsPort, TRUE)}
                                   \cup (IF b.listen = {} THEN {Listen(HttpPort, FALSE)} ELSE {})
           /\ Secure(b).cert = "snakeoil" /\ Secure(b).names = b.names
           /\ Secure(b).redirects = b.redirects
<1>1. Listen(HttpsPort, TRUE) \in Addr /\ Listen(HttpPort, FALSE) \in Addr
  BY ListenType, PortAssumption
<1> QED
  BY <1>1 DEF Secure, Block

(* _split_block, for the two halves.                                       *)
LEMMA HalfFields ==
    ASSUME NEW b \in Block, NEW http \in Block
    PROVE  /\ OldHalf(b) \in Block /\ OldHalf(b).listen = {l \in b.listen : l.ssl}
           /\ OldHalf(b).names = b.names /\ OldHalf(b).cert = b.cert
           /\ OldHalf(b).redirects = b.redirects
           /\ NewHalf(b, http) \in Block
           /\ NewHalf(b, http).listen = {l \in b.listen : ~ l.ssl}
           /\ NewHalf(b, http).names = http.names /\ NewHalf(b, http).cert = "none"
           /\ NewHalf(b, http).redirects = http.redirects
BY DEF OldHalf, NewHalf, Block

LEMMA SecureIs ==
    ASSUME NEW config \in Config, NEW i \in DOMAIN config
    PROVE  Changes(config, MakeServerSsl(config, i), i, Secure(config[i]))
<1>1. config[i] \in Block
  BY DEF Config
<1>2. MakeServerSsl(config, i) = [config EXCEPT ![i] = Secure(config[i])]
  BY DEF MakeServerSsl, Secure
<1>3. Secure(config[i]) \in Block
  BY <1>1, SecureFields
<1>4. Changes(config, [config EXCEPT ![i] = Secure(config[i])], i, Secure(config[i]))
  BY <1>3, ReplaceIs, Zenon
<1> QED
  BY <1>2, <1>4

(* The old block keeps the directives with ssl, the new one has the others.*)
Splits(config, e, i, old, new) ==
    /\ e \in Config /\ Len(e) = Len(config) + 1
    /\ DOMAIN e = DOMAIN config \cup {Len(config) + 1} /\ Len(config) + 1 \notin DOMAIN config
    /\ i \in DOMAIN config /\ e[i] = old /\ old \in Block
    /\ e[Len(config) + 1] = new /\ new \in Block
    /\ \A j \in DOMAIN config : j # i => e[j] = config[j]
    /\ \A j \in DOMAIN config : j < Len(config) + 1

LEMMA SplitIs ==
    ASSUME NEW config \in Config, NEW i \in DOMAIN config, NEW http \in Block
    PROVE  Splits(config, SplitBlock(config, i, http), i, OldHalf(config[i]),
                  NewHalf(config[i], http))
<1> DEFINE old == OldHalf(config[i])
           new == NewHalf(config[i], http)
           kept == [config EXCEPT ![i] = old]
<1>1. config[i] \in Block
  BY DEF Config
<1>2. old \in Block /\ new \in Block
  BY <1>1, HalfFields
<1>3. SplitBlock(config, i, http) = Append(kept, new)
  BY DEF SplitBlock, OldHalf, NewHalf
<1> HIDE DEF old, new
<1>4. Changes(config, kept, i, old)
  BY <1>2, ReplaceIs
<1> HIDE DEF kept
<1>5. Extends(kept, Append(kept, new), new)
  BY <1>2, <1>4, AppendIs DEF Changes
<1>6. Splits(config, Append(kept, new), i, old, new)
  BY <1>2, <1>4, <1>5 DEF Changes, Extends, Splits
<1> QED
  BY <1>3, <1>6 DEF old, new

(* A block that listens as before and keeps its certificate.               *)
LEMMA SoundChange ==
    ASSUME NEW config \in Config, Sound(config), NEW e, NEW i, NEW b,
           Changes(config, e, i, b),
           b.listen = config[i].listen, b.cert = "none" => config[i].cert = "none",
           IsFiniteSet(b.names)
    PROVE  Sound(e)
<1>1. /\ DOMAIN e = DOMAIN config
      /\ \A j \in DOMAIN config :
            /\ e[j].listen = config[j].listen
            /\ e[j].cert = "none" => config[j].cert = "none"
            /\ IsFiniteSet(e[j].names)
  BY DEF Changes, Sound, FiniteNames
<1>2. Once(e) /\ OneDefault(e) /\ Words(e) /\ FiniteNames(e)
  BY <1>1 DEF Sound, Once, OneDefault, Words, FiniteNames
<1>3. \A k \in DOMAIN e : \A l \in e[k].listen : Leads(e, k, l) => Leads(config, k, l)
  BY <1>1 DEF Leads
<1>4. Certified(e)
  BY <1>1, <1>3 DEF Sound, Certified
<1> QED
  BY <1>2, <1>4 DEF Sound

(* A block at the end, that listens where another one does.                *)
Copies(b, c) ==
    /\ \A l \in b.listen : ~ l.default /\ \E m \in c.listen : l.port = m.port /\ l.ssl = m.ssl
    /\ \A m \in c.listen : \E l \in b.listen : l.port = m.port
    /\ \A l, m \in b.listen : l.port = m.port => l = m

(* A copy of a block at the end keeps the configuration sound.             *)
LEMMA SoundAppend ==
    ASSUME NEW config \in Config, Sound(config), NEW e, NEW b, Extends(config, e, b),
           NEW i \in DOMAIN config,
           Copies(b, config[i]),
           IsFiniteSet(b.names)
    PROVE  Sound(e)
<1> DEFINE n == Len(config) + 1
<1>1. /\ e \in Config /\ DOMAIN e = DOMAIN config \cup {n} /\ n \notin DOMAIN config
      /\ e[n] = b /\ \A j \in DOMAIN config : e[j] = config[j]
  BY DEF Extends
<1>2. \A j \in DOMAIN config : ~ (n <= j)
  BY DEF Extends
<1> HIDE DEF n
<1>3. Once(e) /\ OneDefault(e) /\ FiniteNames(e)
  BY <1>1 DEF Copies, Sound, Once, OneDefault, FiniteNames
<1>4. Words(e)
  <2>1. \A l \in b.listen : \E m \in config[i].listen : l.port = m.port /\ l.ssl = m.ssl
    BY DEF Copies
  <2>2. \A j \in DOMAIN e : \A l \in e[j].listen :
            \E k \in DOMAIN config : \E m \in config[k].listen : l.port = m.port /\ l.ssl = m.ssl
    BY <1>1, <2>1
  <2> QED
    BY <2>2 DEF Sound, Words
<1>5. Certified(e)
  <2>1. \A l \in e[n].listen : ~ Leads(e, n, l)
    <3>1. SUFFICES ASSUME NEW l \in b.listen PROVE ~ Leads(e, n, l)
      BY <1>1
    <3>2. PICK m \in config[i].listen : l.port = m.port
      BY DEF Copies
    <3>3. ~ l.default /\ i \in DOMAIN e /\ m \in e[i].listen /\ ~ (n <= i)
      BY <1>1, <1>2 DEF Copies
    <3> QED
      BY <3>2, <3>3 DEF Leads
  <2>2. \A j \in DOMAIN config : \A l \in e[j].listen : Leads(e, j, l) => Leads(config, j, l)
    BY <1>1 DEF Leads
  <2> QED
    BY <1>1, <2>1, <2>2 DEF Sound, Certified
<1> QED
  BY <1>3, <1>4, <1>5 DEF Sound

(* https for a block that has none, with the certificate of the plugin.    *)
LEMMA SoundSecure ==
    ASSUME NEW config \in Config, Sound(config), NEW i \in DOMAIN config, ~ IsSsl(config, i),
           NEW e, Changes(config, e, i, Secure(config[i]))
    PROVE  Sound(e)
<1> DEFINE extra == {Listen(HttpsPort, TRUE)}
                    \cup (IF config[i].listen = {} THEN {Listen(HttpPort, FALSE)} ELSE {})
<1>1. /\ DOMAIN e = DOMAIN config
      /\ \A j \in DOMAIN config : j # i => e[j] = config[j]
      /\ e[i].listen = config[i].listen \cup extra /\ e[i].cert = "snakeoil"
      /\ e[i].names = config[i].names
  <2>1. config[i] \in Block
    BY DEF Config
  <2> QED
    BY <2>1, SecureFields DEF Changes
<1>2. \A l \in config[i].listen : l.port \notin SslPorts(config) /\ ~ l.ssl /\ l.port # HttpsPort
  <2>1. \A l \in config[i].listen : l.port \notin SslPorts(config)
    BY DEF IsSsl
  <2>2. \A l \in config[i].listen : ~ l.ssl
    BY <2>1 DEF SslPorts
  <2> QED
    BY <2>1, <2>2 DEF Sound, Words
<1>3. /\ \A l \in extra : l \in {Listen(HttpsPort, TRUE), Listen(HttpPort, FALSE)}
      /\ Listen(HttpsPort, TRUE) \in extra
      /\ config[i].listen = {} \/ extra = {Listen(HttpsPort, TRUE)}
  OBVIOUS
<1>4. /\ Listen(HttpsPort, TRUE).port = HttpsPort /\ Listen(HttpsPort, TRUE).ssl
      /\ ~ Listen(HttpsPort, TRUE).default
      /\ Listen(HttpPort, FALSE).port = HttpPort /\ ~ Listen(HttpPort, FALSE).ssl
      /\ ~ Listen(HttpPort, FALSE).default /\ HttpPort # HttpsPort
  BY PortAssumption DEF Listen
<1> HIDE DEF extra
<1>5. Once(e)
  <2>1. \A l, m \in extra : l.port = m.port => l = m
    BY <1>3, <1>4
  <2>2. \A l \in config[i].listen, m \in extra : l.port # m.port
    BY <1>2, <1>3, <1>4
  <2>3. \A l, m \in e[i].listen : l.port = m.port => l = m
    BY <1>1, <2>1, <2>2 DEF Sound, Once
  <2> QED
    BY <1>1, <2>3 DEF Sound, Once
<1>6. OneDefault(e)
  BY <1>1, <1>3, <1>4 DEF Sound, OneDefault
<1>7. Words(e)
  <2>1. \A j \in DOMAIN e : \A l \in e[j].listen : l \in config[j].listen \/ l \in extra
    BY <1>1
  <2>2. \A l \in extra : l.ssl <=> l.port = HttpsPort
    BY <1>3, <1>4
  <2>3. \A j \in DOMAIN e : \A l \in e[j].listen :
            (l.port = HttpPort => ~ l.ssl) /\ (l.port = HttpsPort => l.ssl)
    BY <1>1, <1>3, <1>4, <2>1 DEF Sound, Words
  <2>4. \A l \in extra : l.port \in {HttpPort, HttpsPort}
    BY <1>3, <1>4
  <2> QED
    BY <1>1, <2>1, <2>3, <2>4 DEF Sound, Words
<1>8. FiniteNames(e)
  BY <1>1 DEF Sound, FiniteNames
<1>9. Certified(e)
  <2>1. \A j \in DOMAIN config : \A l \in config[j].listen : l \in e[j].listen
    BY <1>1
  <2>2. \A j \in DOMAIN config : \A l \in config[j].listen : Leads(e, j, l) => Leads(config, j, l)
    BY <1>1, <2>1 DEF Leads
  <2> QED
    BY <1>1, <2>2 DEF Sound, Certified
<1> QED
  BY <1>5, <1>6, <1>7, <1>8, <1>9 DEF Sound

(* The plain directives of a block go to a new one.                        *)
LEMMA SoundSplit ==
    ASSUME NEW config \in Config, Sound(config), NEW i \in DOMAIN config,
           NEW http \in Block, IsFiniteSet(http.names),
           NEW e, Splits(config, e, i, OldHalf(config[i]), NewHalf(config[i], http))
    PROVE  Sound(e)
<1> DEFINE n == Len(config) + 1
<1>1. /\ DOMAIN e = DOMAIN config \cup {n} /\ n \notin DOMAIN config
      /\ \A j \in DOMAIN config : j # i => e[j] = config[j]
      /\ e[i].listen = {l \in config[i].listen : l.ssl}
      /\ e[n].listen = {l \in config[i].listen : ~ l.ssl}
      /\ e[i].cert = config[i].cert /\ e[i].names = config[i].names /\ e[n].names = http.names
  <2>1. config[i] \in Block
    BY DEF Config
  <2> QED
    BY <2>1, HalfFields DEF Splits
<1> HIDE DEF n
<1>2. Once(e)
  BY <1>1 DEF Sound, Once
<1>3. OneDefault(e)
  <2>1. \A l, m \in config[i].listen : l.port = m.port => (l.ssl <=> m.ssl)
    BY DEF Sound, Words
  <2> QED
    BY <1>1, <2>1 DEF Sound, OneDefault
<1>4. Words(e) /\ FiniteNames(e)
  BY <1>1 DEF Sound, Words, FiniteNames
<1>5. Certified(e)
  <2>1. ASSUME NEW j \in DOMAIN e, NEW l \in e[j].listen, l.ssl, Leads(e, j, l)
        PROVE  j \in DOMAIN config /\ l \in config[j].listen /\ Leads(config, j, l)
    <3>1. j \in DOMAIN config /\ l \in config[j].listen
      BY <1>1, <2>1
    <3>2. ASSUME NEW k \in DOMAIN config, NEW m \in config[k].listen, m.port = l.port
          PROVE  k \in DOMAIN e /\ m \in e[k].listen
      BY <1>1, <2>1, <3>1, <3>2 DEF Sound, Words
    <3> QED
      BY <2>1, <3>1, <3>2 DEF Leads
  <2>2. \A j \in DOMAIN config : e[j].cert = config[j].cert
    BY <1>1
  <2> QED
    BY <2>1, <2>2 DEF Sound, Certified
<1> QED
  BY <1>2, <1>3, <1>4, <1>5 DEF Sound

-----------------------------------------------------------------------------
(* https on https_port only, and redirects where http is or was.           *)
HttpsOnly(config) ==
    \A i \in DOMAIN config : \A l \in config[i].listen : l.ssl => l.port = HttpsPort
RedirectsOnHttp(config) ==
    \A i \in DOMAIN config :
        \/ config[i].redirects = {}
        \/ HttpPort \in Ports(config[i])
        \/ \A l \in config[i].listen : l.ssl

Regular(config) ==
    /\ Sound(config) /\ HttpsOnly(config) /\ Unambiguous(config) /\ RedirectsOnHttp(config)

LEMMA HttpsOnlyIs ==
    ASSUME NEW config \in Config
    PROVE  SslPorts(config) \subseteq {HttpsPort} <=> HttpsOnly(config)
BY DEF SslPorts, HttpsOnly

(* Which blocks are for http and for https.                                *)
LEMMA ListeningIs ==
    ASSUME NEW config \in Config, Sound(config), NEW i \in DOMAIN config
    PROVE  /\ VhostListening(config, i, HttpPort, FALSE) <=> HttpPort \in Ports(config[i])
           /\ IsSsl(config, i) <=> \E l \in config[i].listen : l.ssl
           /\ HttpsOnly(config) => (IsSsl(config, i) <=> HttpsPort \in Ports(config[i]))
           /\ HttpPort \in Ports(config[i]) <=>
                config[i].listen = {} \/ \E l \in config[i].listen : l.port = HttpPort
<1>1. HttpPort \notin SslPorts(config)
  BY DEF Sound, Words, SslPorts
<1>2. \A l \in config[i].listen : l.port \in SslPorts(config) <=> l.ssl
  BY DEF Sound, Words, SslPorts
<1>3. \A l \in config[i].listen : l.port = HttpsPort => l.ssl
  BY DEF Sound, Words
<1>4. HttpPort # HttpsPort
  BY PortAssumption
<1> QED
  BY <1>1, <1>2, <1>3, <1>4 DEF VhostListening, IsSsl, Ports, HttpsOnly

HttpNamed(config, d) == {i \in Named(config, d) : HttpPort \in Ports(config[i])}

(* No two names of blocks b and c match the same domain equally well.      *)
Apart(b, c) ==
    \A n \in b.names, m \in c.names :
        n.matches \cap m.matches # {} =>
            \/ n.kind # m.kind
            \/ n.kind \in {"start", "end"} /\ n.length # m.length

LEMMA UnambiguousIs ==
    ASSUME NEW config
    PROVE  Unambiguous(config) <=>
             \A i, j \in DOMAIN config :
                 i # j /\ HttpPort \in Ports(config[i]) /\ HttpPort \in Ports(config[j]) =>
                     Apart(config[i], config[j])
BY DEF Unambiguous, Apart

LEMMA ApartFromNew ==
    ASSUME NEW config \in Config, NEW d \in Domain,
           NEW i \in DOMAIN config, i \notin Named(config, d),
           NEW b, b.names = {Exact(d)}
    PROVE  Apart(b, config[i]) /\ Apart(config[i], b)
BY DEF Apart, Named, Exact

(* A block that listens as before, and gets at most a name that no http    *)
(* block has.                                                              *)
LEMMA RegularChange ==
    ASSUME NEW config \in Config, Regular(config), NEW e, NEW i, NEW b,
           Changes(config, e, i, b),
           b.listen = config[i].listen, b.cert = "none" => config[i].cert = "none",
           \/ b.names = config[i].names
           \/ \E d \in Domain : /\ b.names = config[i].names \cup {Exact(d)}
                                /\ HttpNamed(config, d) = {},
           b.redirects = config[i].redirects \/ HttpPort \in Ports(config[i])
    PROVE  Regular(e)
<1>1. IsFiniteSet(b.names)
  <2>1. IsFiniteSet(config[i].names)
    BY DEF Changes, Regular, Sound, FiniteNames
  <2> QED
    BY <2>1, FS_AddElement
<1>2. Sound(e)
  BY <1>1, SoundChange DEF Regular
<1>3. /\ DOMAIN e = DOMAIN config
      /\ \A j \in DOMAIN config :
            e[j].listen = config[j].listen /\ Ports(e[j]) = Ports(config[j])
  BY DEF Changes, Ports
<1>4. HttpsOnly(e)
  BY <1>3 DEF Regular, HttpsOnly
<1>5. RedirectsOnHttp(e)
  BY <1>3 DEF Changes, Regular, RedirectsOnHttp
<1>6. ASSUME NEW j \in DOMAIN config, j # i, HttpPort \in Ports(config[i]),
             HttpPort \in Ports(config[j])
      PROVE  Apart(b, config[j]) /\ Apart(config[j], b)
  <2>1. Apart(config[i], config[j]) /\ Apart(config[j], config[i])
    BY <1>6, UnambiguousIs DEF Regular, Changes
  <2>2. CASE b.names = config[i].names
    BY <2>1, <2>2 DEF Apart
  <2>3. ASSUME NEW d \in Domain, b.names = config[i].names \cup {Exact(d)},
               HttpNamed(config, d) = {}
        PROVE  Apart(b, config[j]) /\ Apart(config[j], b)
    <3>1. \A n \in config[j].names : d \notin n.matches
      BY <1>6, <2>3 DEF HttpNamed, Named
    <3>2. Exact(d).matches = {d}
      BY DEF Exact
    <3> QED
      BY <2>1, <2>3, <3>1, <3>2 DEF Apart
  <2> QED
    BY <2>2, <2>3
<1>7. Unambiguous(e)
  BY <1>3, <1>6, UnambiguousIs DEF Changes, Regular
<1> QED
  BY <1>2, <1>4, <1>5, <1>7 DEF Regular

(* A copy of a block at the end, for a domain that no http block names.    *)
LEMMA RegularAppend ==
    ASSUME NEW config \in Config, Regular(config), NEW e, NEW b, Extends(config, e, b),
           NEW i \in DOMAIN config,
           Copies(b, config[i]),
           NEW d \in Domain, b.names = {Exact(d)}, HttpNamed(config, d) = {},
           b.redirects = config[i].redirects
    PROVE  Regular(e)
<1> DEFINE n == Len(config) + 1
<1>1. /\ e \in Config /\ DOMAIN e = DOMAIN config \cup {n} /\ n \notin DOMAIN config
      /\ e[n] = b /\ \A j \in DOMAIN config : e[j] = config[j]
  BY DEF Extends
<1> HIDE DEF n
<1>2. Sound(e)
  <2>1. IsFiniteSet({Exact(d)})
    BY FS_Singleton
  <2> QED
    BY <2>1, SoundAppend DEF Regular
<1>3. HttpsOnly(e)
  <2>1. \A l \in b.listen : l.ssl => l.port = HttpsPort
    BY DEF Copies, Regular, HttpsOnly
  <2> QED
    BY <1>1, <2>1 DEF Regular, HttpsOnly
<1>4. HttpPort \in Ports(b) <=> HttpPort \in Ports(config[i])
  <2>1. b.listen = {} <=> config[i].listen = {}
    BY DEF Copies
  <2>2. {l.port : l \in b.listen} = {l.port : l \in config[i].listen}
    BY DEF Copies
  <2> QED
    BY <2>1, <2>2 DEF Ports
<1>5. (\A l \in config[i].listen : l.ssl) => (\A l \in b.listen : l.ssl)
  BY DEF Copies
<1>6. RedirectsOnHttp(e)
  BY <1>1, <1>4, <1>5 DEF Regular, RedirectsOnHttp
<1>7. ASSUME NEW j \in DOMAIN config, HttpPort \in Ports(config[j])
      PROVE  Apart(b, config[j]) /\ Apart(config[j], b)
  <2>1. j \notin Named(config, d)
    BY <1>7 DEF HttpNamed
  <2> QED
    BY <2>1, ApartFromNew
<1>8. Unambiguous(e)
  BY <1>1, <1>7, UnambiguousIs DEF Regular
<1> QED
  BY <1>2, <1>3, <1>6, <1>8 DEF Regular

(* A block that gets https.                                                *)
LEMMA RegularSecure ==
    ASSUME NEW config \in Config, Regular(config), NEW i \in DOMAIN config, ~ IsSsl(config, i),
           NEW e, Changes(config, e, i, Secure(config[i]))
    PROVE  Regular(e)
<1>1. config[i] \in Block /\ HttpPort # HttpsPort
  BY PortAssumption DEF Config
<1>2. /\ Listen(HttpsPort, TRUE).port = HttpsPort /\ Listen(HttpsPort, TRUE).ssl
      /\ Listen(HttpPort, FALSE).port = HttpPort /\ ~ Listen(HttpPort, FALSE).ssl
  BY DEF Listen
<1>3. Sound(e)
  BY SoundSecure DEF Regular
<1>4. /\ DOMAIN e = DOMAIN config /\ e[i] = Secure(config[i])
      /\ \A j \in DOMAIN config : j # i => e[j] = config[j]
  BY DEF Changes
<1>5. HttpsOnly(e)
  <2>1. \A l \in Secure(config[i]).listen : l.ssl => l.port = HttpsPort
    BY <1>1, <1>2, SecureFields DEF Regular, HttpsOnly
  <2> QED
    BY <1>4, <2>1 DEF Regular, HttpsOnly
<1>6. HttpPort \in Ports(Secure(config[i])) <=> HttpPort \in Ports(config[i])
  <2>1. CASE config[i].listen = {}
    <3>1. Secure(config[i]).listen = {Listen(HttpsPort, TRUE), Listen(HttpPort, FALSE)}
      BY <1>1, <2>1, SecureFields
    <3> QED
      BY <1>2, <2>1, <3>1 DEF Ports
  <2>2. CASE config[i].listen # {}
    <3>1. Secure(config[i]).listen = config[i].listen \cup {Listen(HttpsPort, TRUE)}
      BY <1>1, <2>2, SecureFields
    <3> QED
      BY <1>1, <1>2, <2>2, <3>1 DEF Ports
  <2> QED
    BY <2>1, <2>2
<1>7. RedirectsOnHttp(e)
  <2>1. config[i].redirects = {} \/ HttpPort \in Ports(config[i])
    <3>1. \A l \in config[i].listen : ~ l.ssl
      BY ListeningIs DEF Regular
    <3>2. config[i].listen = {} => HttpPort \in Ports(config[i])
      BY DEF Ports
    <3> QED
      BY <3>1, <3>2 DEF Regular, RedirectsOnHttp
  <2>2. Secure(config[i]).redirects = config[i].redirects
    BY <1>1, SecureFields
  <2> QED
    BY <1>4, <1>6, <2>1, <2>2 DEF Regular, RedirectsOnHttp
<1>8. Unambiguous(e)
  <2>1. Secure(config[i]).names = config[i].names
    BY <1>1, SecureFields
  <2>2. \A j, k \in DOMAIN config : Apart(e[j], e[k]) <=> Apart(config[j], config[k])
    BY <1>4, <2>1 DEF Apart
  <2>3. \A j \in DOMAIN config : HttpPort \in Ports(e[j]) <=> HttpPort \in Ports(config[j])
    BY <1>4, <1>6
  <2> QED
    BY <1>4, <2>2, <2>3, UnambiguousIs DEF Regular
<1> QED
  BY <1>3, <1>5, <1>7, <1>8 DEF Regular

(* A block that is split in an http and an https half.                     *)
LEMMA RegularSplit ==
    ASSUME NEW config \in Config, Regular(config), NEW i \in DOMAIN config,
           \E l \in config[i].listen : l.ssl, \E l \in config[i].listen : ~ l.ssl,
           NEW http \in Block, http.names = config[i].names,
           http.redirects \in {{}, config[i].redirects},
           NEW e, Splits(config, e, i, OldHalf(config[i]), NewHalf(config[i], http))
    PROVE  Regular(e)
<1> DEFINE n == Len(config) + 1
           old == OldHalf(config[i])
           new == NewHalf(config[i], http)
<1>1. /\ config[i] \in Block /\ old.names = config[i].names /\ new.names = config[i].names
      /\ old.listen = {l \in config[i].listen : l.ssl}
      /\ new.listen = {l \in config[i].listen : ~ l.ssl}
      /\ new.redirects \in {{}, config[i].redirects}
  <2>1. config[i] \in Block
    BY DEF Config
  <2> QED
    BY <2>1, HalfFields
<1>2. Sound(e)
  <2>1. IsFiniteSet(http.names)
    BY DEF Regular, Sound, FiniteNames
  <2> QED
    BY <2>1, SoundSplit DEF Regular
<1>3. /\ DOMAIN e = DOMAIN config \cup {n} /\ n \notin DOMAIN config /\ e[i] = old /\ e[n] = new
      /\ \A j \in DOMAIN config : j # i => e[j] = config[j]
  BY DEF Splits
<1> HIDE DEF n, old, new
<1>4. HttpsOnly(e)
  BY <1>1, <1>3 DEF Regular, HttpsOnly
<1>5. HttpPort \notin Ports(old)
  <2>1. old.listen # {} /\ \A l \in old.listen : l.port # HttpPort
    BY <1>1 DEF Regular, Sound, Words
  <2> QED
    BY <2>1 DEF Ports
<1>6. HttpPort \in Ports(new) <=> HttpPort \in Ports(config[i])
  <2>1. new.listen # {} /\ config[i].listen # {}
    BY <1>1
  <2>2. \A l \in config[i].listen : l.port = HttpPort => l \in new.listen
    BY <1>1 DEF Regular, Sound, Words
  <2> QED
    BY <1>1, <2>1, <2>2 DEF Ports
<1>7. RedirectsOnHttp(e)
  <2>1. \A l \in old.listen : l.ssl
    BY <1>1
  <2>2. new.redirects = {} \/ HttpPort \in Ports(new)
    BY <1>1, <1>6 DEF Regular, RedirectsOnHttp
  <2> QED
    BY <1>3, <2>1, <2>2 DEF Regular, RedirectsOnHttp
<1>8. Unambiguous(e)
  <2>1. ASSUME NEW j \in DOMAIN config, j # i,
               HttpPort \in Ports(new), HttpPort \in Ports(config[j])
        PROVE  Apart(new, config[j]) /\ Apart(config[j], new)
    <3>1. Apart(config[i], config[j]) /\ Apart(config[j], config[i])
      BY <1>6, <2>1, UnambiguousIs DEF Regular
    <3> QED
      BY <1>1, <3>1 DEF Apart
  <2> QED
    BY <1>3, <1>5, <2>1, UnambiguousIs DEF Regular
<1> QED
  BY <1>2, <1>4, <1>7, <1>8 DEF Regular

-----------------------------------------------------------------------------
(* The operations lead from sound configurations to sound ones, and from   *)
(* regular ones to regular ones.                                           *)
LEMMA Kept ==
    ASSUME NEW config \in Config, NEW e, NEW i, NEW b, Changes(config, e, i, b),
           b.listen = config[i].listen, b.names = config[i].names,
           b.cert = "none" => config[i].cert = "none",
           b.redirects = config[i].redirects \/ HttpPort \in Ports(config[i])
    PROVE  (Sound(config) => Sound(e)) /\ (Regular(config) => Regular(e))
<1>1. Sound(config) => IsFiniteSet(b.names)
  BY DEF Changes, Sound, FiniteNames
<1> QED
  BY <1>1, SoundChange, RegularChange

LEMMA CertIs ==
    ASSUME NEW config \in Config, NEW i \in DOMAIN config
    PROVE  /\ Changes(config, [config EXCEPT ![i].cert = "new"], i,
                      [config[i] EXCEPT !.cert = "new"])
           /\ [config[i] EXCEPT !.cert = "new"].cert = "new"
           /\ [config[i] EXCEPT !.cert = "new"].names = config[i].names
           /\ [config[i] EXCEPT !.cert = "new"].listen = config[i].listen
           /\ [config[i] EXCEPT !.cert = "new"].redirects = config[i].redirects
<1> DEFINE b == [config[i] EXCEPT !.cert = "new"]
<1>1. config[i] \in Block
  BY DEF Config
<1>2. /\ b \in Block /\ b.cert = "new" /\ b.names = config[i].names
      /\ b.listen = config[i].listen /\ b.redirects = config[i].redirects
  BY <1>1 DEF Block
<1>3. [config EXCEPT ![i].cert = "new"] = [config EXCEPT ![i] = b]
  OBVIOUS
<1> HIDE DEF b
<1>4. Changes(config, [config EXCEPT ![i] = b], i, b)
  BY <1>2, ReplaceIs
<1> QED
  BY <1>2, <1>3, <1>4 DEF b

LEMMA ExtrasIs ==
    ASSUME NEW config \in Config, NEW i \in DOMAIN config, NEW x \in Extra
    PROVE  \E b : /\ Changes(config, [config EXCEPT ![i].extras = @ \cup {x}], i, b)
                  /\ b.names = config[i].names /\ b.listen = config[i].listen
                  /\ b.cert = config[i].cert /\ b.redirects = config[i].redirects
<1> DEFINE b == [config[i] EXCEPT !.extras = @ \cup {x}]
<1>1. config[i] \in Block
  BY DEF Config
<1>2. /\ b \in Block /\ b.cert = config[i].cert /\ b.names = config[i].names
      /\ b.listen = config[i].listen /\ b.redirects = config[i].redirects
  BY <1>1 DEF Block
<1>3. [config EXCEPT ![i].extras = @ \cup {x}] = [config EXCEPT ![i] = b]
  OBVIOUS
<1> HIDE DEF b
<1>4. Changes(config, [config EXCEPT ![i] = b], i, b)
  BY <1>2, ReplaceIs
<1> QED
  BY <1>2, <1>3, <1>4

Redirecting(config, i, S) == [config EXCEPT ![i].redirects = S]

LEMMA RedirectsAre ==
    ASSUME NEW config \in Config, NEW i \in DOMAIN config, NEW S \in SUBSET Domain
    PROVE  \E b : /\ Changes(config, Redirecting(config, i, S), i, b)
                  /\ b.names = config[i].names /\ b.listen = config[i].listen
                  /\ b.cert = config[i].cert /\ b.redirects = S
<1> DEFINE b == [config[i] EXCEPT !.redirects = S]
<1>1. config[i] \in Block
  BY DEF Config
<1>2. /\ b \in Block /\ b.cert = config[i].cert /\ b.names = config[i].names
      /\ b.listen = config[i].listen /\ b.redirects = S
  BY <1>1 DEF Block
<1>3. [config EXCEPT ![i].redirects = S] = [config EXCEPT ![i] = b]
  OBVIOUS
<1> HIDE DEF b
<1>4. Changes(config, [config EXCEPT ![i] = b], i, b)
  BY <1>2, ReplaceIs
<1> QED
  BY <1>2, <1>3, <1>4 DEF Redirecting

(* Securing a block does nothing if it has ssl, else what _make_server_ssl *)
(* does.                                                                   *)
LEMMA SecuredIs ==
    ASSUME NEW config \in Config, Sound(config), NEW i \in DOMAIN config
    PROVE  /\ Secured(config, i) \in Config /\ Len(Secured(config, i)) = Len(config)
           /\ DOMAIN Secured(config, i) = DOMAIN config
           /\ IsSsl(config, i) => Secured(config, i) = config
           /\ ~ IsSsl(config, i) => Changes(config, Secured(config, i), i, Secure(config[i]))
           /\ Sound(Secured(config, i)) /\ (Regular(config) => Regular(Secured(config, i)))
           /\ IsSsl(Secured(config, i), i)
<1> DEFINE e == Secured(config, i)
<1>1. IsSsl(config, i) => e = config
  BY DEF Secured
<1>2. ~ IsSsl(config, i) => Changes(config, e, i, Secure(config[i]))
  BY SecureIs DEF Secured
<1> HIDE DEF e
<1>3. CASE IsSsl(config, i)
  BY <1>1, <1>3 DEF e
<1>4. CASE ~ IsSsl(config, i)
  <2>1. Sound(e) /\ (Regular(config) => Regular(e))
    BY <1>2, <1>4, SoundSecure, RegularSecure
  <2>2. Listen(HttpsPort, TRUE) \in e[i].listen /\ Listen(HttpsPort, TRUE).ssl
    <3>1. config[i] \in Block
      BY DEF Config
    <3> QED
      BY <1>2, <1>4, <3>1, SecureFields DEF Changes, Listen
  <2>3. e \in Config /\ Len(e) = Len(config) /\ DOMAIN e = DOMAIN config
    BY <1>2, <1>4 DEF Changes
  <2>4. IsSsl(e, i)
    BY <2>1, <2>2, <2>3, ListeningIs
  <2> QED
    BY <1>2, <1>4, <2>1, <2>3, <2>4 DEF e
<1> QED
  BY <1>3, <1>4

LEMMA DeployKeeps ==
    ASSUME NEW config \in Config, Sound(config), NEW i \in DOMAIN config
    PROVE  Sound(DeployTo(config, i)) /\ (Regular(config) => Regular(DeployTo(config, i)))
<1> DEFINE s == Secured(config, i)
           e == [s EXCEPT ![i].cert = "new"]
           b == [s[i] EXCEPT !.cert = "new"]
<1>1. s \in Config /\ Sound(s) /\ (Regular(config) => Regular(s)) /\ i \in DOMAIN s
  BY SecuredIs
<1>2. DeployTo(config, i) = e
  BY DEF DeployTo
<1> HIDE DEF s
<1>3. /\ Changes(s, e, i, b) /\ b.cert = "new" /\ b.names = s[i].names
      /\ b.listen = s[i].listen /\ b.redirects = s[i].redirects
  BY <1>1, CertIs
<1> HIDE DEF e, b
<1>4. (Sound(s) => Sound(e)) /\ (Regular(s) => Regular(e))
  <2>1. b.cert = "none" => s[i].cert = "none"
    BY <1>3
  <2> QED
    BY <1>1, <1>3, <2>1, Kept
<1> QED
  BY <1>1, <1>2, <1>4

LEMMA StaplingKeeps ==
    ASSUME NEW config \in Config, Sound(config), NEW i \in DOMAIN config
    PROVE  /\ Sound(EnableOcspStapling(config, i))
           /\ Regular(config) => Regular(EnableOcspStapling(config, i))
<1> DEFINE s == Secured(config, i)
           e == [s EXCEPT ![i].extras = @ \cup {"staple"}]
<1>1. s \in Config /\ Sound(s) /\ (Regular(config) => Regular(s)) /\ i \in DOMAIN s
  BY SecuredIs
<1>2. EnableOcspStapling(config, i) = e
  BY DEF EnableOcspStapling
<1> HIDE DEF s
<1>3. PICK b : /\ Changes(s, e, i, b) /\ b.names = s[i].names
               /\ b.listen = s[i].listen /\ b.cert = s[i].cert /\ b.redirects = s[i].redirects
  BY <1>1, ExtrasIs DEF Extra
<1> HIDE DEF e
<1>4. (Sound(s) => Sound(e)) /\ (Regular(s) => Regular(e))
  BY <1>1, <1>3, Kept
<1> QED
  BY <1>1, <1>2, <1>4

(* A header goes in the block, or in the https half of it.                 *)
LEMMA HeaderIs ==
    ASSUME NEW config \in Config, Sound(config), NEW i \in DOMAIN config, NEW x \in Extra,
           NEW s, s = Secured(config, i)
    PROVE  \/ SetHttpHeader(config, i, x) = s
           \/ SetHttpHeader(config, i, x) = [s EXCEPT ![i].extras = @ \cup {x}]
           \/ /\ \E l \in s[i].listen : l.ssl
              /\ \E l \in s[i].listen : ~ l.ssl
              /\ SetHttpHeader(config, i, x)
                   = [SplitBlock(s, i, s[i]) EXCEPT ![i].extras = @ \cup {x}]
<1>1. s \in Config /\ Sound(s) /\ i \in DOMAIN s /\ IsSsl(s, i)
  BY SecuredIs
<1>2. \A l \in s[i].listen : l.port \in SslPorts(s) <=> l.ssl
  BY <1>1 DEF Sound, Words, SslPorts
<1>3. \E l \in s[i].listen : l.ssl
  BY <1>1, ListeningIs
<1> QED
  BY <1>2, <1>3 DEF SetHttpHeader

LEMMA HeaderKeeps ==
    ASSUME NEW config \in Config, Sound(config), NEW i \in DOMAIN config, NEW x \in Extra
    PROVE  /\ Sound(SetHttpHeader(config, i, x))
           /\ Regular(config) => Regular(SetHttpHeader(config, i, x))
<1> DEFINE s == Secured(config, i)
           t == SplitBlock(s, i, s[i])
           e == SetHttpHeader(config, i, x)
<1>1. s \in Config /\ Sound(s) /\ (Regular(config) => Regular(s)) /\ i \in DOMAIN s
  BY SecuredIs
<1>2. ASSUME NEW u \in Config, i \in DOMAIN u
      PROVE  /\ Sound(u) => Sound([u EXCEPT ![i].extras = @ \cup {x}])
             /\ Regular(u) => Regular([u EXCEPT ![i].extras = @ \cup {x}])
  <2> DEFINE v == [u EXCEPT ![i].extras = @ \cup {x}]
  <2>1. PICK b : /\ Changes(u, v, i, b) /\ b.names = u[i].names
                 /\ b.listen = u[i].listen /\ b.cert = u[i].cert /\ b.redirects = u[i].redirects
    BY <1>2, ExtrasIs
  <2> HIDE DEF v
  <2> QED
    BY <2>1, Kept DEF v
<1>3. \/ e = s
      \/ e = [s EXCEPT ![i].extras = @ \cup {x}]
      \/ /\ \E l \in s[i].listen : l.ssl
         /\ \E l \in s[i].listen : ~ l.ssl
         /\ e = [t EXCEPT ![i].extras = @ \cup {x}]
  BY HeaderIs
<1> HIDE DEF s, e
<1>4. /\ s[i] \in Block
      /\ Splits(s, t, i, OldHalf(s[i]), NewHalf(s[i], s[i]))
  <2>1. s[i] \in Block
    BY <1>1 DEF Config
  <2> QED
    BY <1>1, <2>1, SplitIs, Zenon
<1> HIDE DEF t
<1>5. t \in Config /\ i \in DOMAIN t /\ Sound(t)
  <2>1. IsFiniteSet(s[i].names)
    BY <1>1 DEF Sound, FiniteNames
  <2> QED
    BY <1>1, <1>4, <2>1, SoundSplit DEF Splits
<1>6. ASSUME \E l \in s[i].listen : l.ssl, \E l \in s[i].listen : ~ l.ssl
      PROVE  Regular(s) => Regular(t)
  BY <1>1, <1>4, <1>6, RegularSplit
<1>7. CASE e = s
  BY <1>1, <1>7 DEF e
<1>8. CASE e = [s EXCEPT ![i].extras = @ \cup {x}]
  BY <1>1, <1>2, <1>8 DEF e
<1>9. CASE /\ \E l \in s[i].listen : l.ssl
           /\ \E l \in s[i].listen : ~ l.ssl
           /\ e = [t EXCEPT ![i].extras = @ \cup {x}]
  BY <1>1, <1>2, <1>5, <1>6, <1>9 DEF e
<1> QED
  BY <1>3, <1>7, <1>8, <1>9

(* The http block of a redirect, before and after it has the redirect.     *)
LEMMA RedirectIs ==
    ASSUME NEW config \in Config, Sound(config), NEW i \in DOMAIN config, NEW d \in Domain,
           NEW e, e = EnableRedirect(config, i, d)
    PROVE  \/ /\ ~ IsSsl(config, i)
              /\ \E b : /\ Changes(config, e, i, b)
                        /\ b.names = config[i].names /\ b.listen = config[i].listen
                        /\ b.cert = config[i].cert
                        /\ b.redirects = config[i].redirects \cup {d}
           \/ /\ IsSsl(config, i)
              /\ \E t, h, b :
                    /\ h \in Block /\ h.names = config[i].names /\ h.redirects = {}
                    /\ Splits(config, t, i, OldHalf(config[i]), NewHalf(config[i], h))
                    /\ Changes(t, e, Len(config) + 1, b)
                    /\ b.names = config[i].names /\ b.listen = NewHalf(config[i], h).listen
                    /\ b.cert = "none" /\ b.redirects = {d}
<1>1. config[i] \in Block
  BY DEF Config
<1>2. CASE ~ IsSsl(config, i)
  <2> DEFINE S == config[i].redirects \cup {d}
  <2>1. S \in SUBSET Domain
    BY <1>1 DEF Block
  <2>2. e = Redirecting(config, i, S)
    BY <1>2 DEF EnableRedirect, Redirecting
  <2> HIDE DEF S
  <2>3. \E b : /\ Changes(config, e, i, b) /\ b.names = config[i].names
               /\ b.listen = config[i].listen /\ b.cert = config[i].cert /\ b.redirects = S
    BY <2>1, <2>2, RedirectsAre
  <2> QED
    BY <1>2, <2>3 DEF S
<1>3. CASE IsSsl(config, i)
  <2> DEFINE h == Bare(config[i].names, {})
             t == SplitBlock(config, i, h)
             n == Len(config) + 1
  <2>1. h \in Block /\ h.names = config[i].names /\ h.redirects = {}
    BY <1>1, BareType DEF Block, Bare
  <2>2. e = Redirecting(t, n, {d})
    BY <1>3 DEF EnableRedirect, Redirecting
  <2> HIDE DEF h
  <2>3. Splits(config, t, i, OldHalf(config[i]), NewHalf(config[i], h))
    BY <2>1, SplitIs, Zenon
  <2> HIDE DEF t
  <2>4. t \in Config /\ n \in DOMAIN t /\ t[n] = NewHalf(config[i], h)
    BY <2>3 DEF Splits
  <2>5. {d} \in SUBSET Domain
    OBVIOUS
  <2> HIDE DEF n
  <2>6. \E b : /\ Changes(t, e, n, b) /\ b.names = t[n].names
               /\ b.listen = t[n].listen /\ b.cert = t[n].cert /\ b.redirects = {d}
    BY <2>2, <2>4, <2>5, RedirectsAre
  <2>7. /\ t[n].names = config[i].names /\ t[n].listen = NewHalf(config[i], h).listen
        /\ t[n].cert = "none"
    BY <1>1, <2>1, <2>4, HalfFields
  <2> QED
    BY <1>3, <2>1, <2>3, <2>6, <2>7 DEF n
<1> QED
  BY <1>2, <1>3

LEMMA RedirectKeeps ==
    ASSUME NEW config \in Config, Sound(config), NEW i \in DOMAIN config, NEW d \in Domain
    PROVE  /\ Sound(EnableRedirect(config, i, d))
           /\ Regular(config) /\ HttpPort \in Ports(config[i]) =>
                  Regular(EnableRedirect(config, i, d))
<1> DEFINE e == EnableRedirect(config, i, d)
           n == Len(config) + 1
<1>1. config[i] \in Block
  BY DEF Config
<1> HIDE DEF e
<1>2. CASE /\ ~ IsSsl(config, i)
           /\ \E b : /\ Changes(config, e, i, b)
                     /\ b.names = config[i].names /\ b.listen = config[i].listen
                     /\ b.cert = config[i].cert
                     /\ b.redirects = config[i].redirects \cup {d}
  <2>1. PICK b : /\ Changes(config, e, i, b)
                 /\ b.names = config[i].names /\ b.listen = config[i].listen
                 /\ b.cert = config[i].cert
    BY <1>2
  <2>2. Sound(e)
    <3>1. IsFiniteSet(b.names)
      BY <2>1 DEF Sound, FiniteNames
    <3> QED
      BY <2>1, <3>1, SoundChange
  <2>3. Regular(config) /\ HttpPort \in Ports(config[i]) => Regular(e)
    BY <2>1, RegularChange
  <2> QED
    BY <2>2, <2>3 DEF e
<1>3. CASE /\ IsSsl(config, i)
           /\ \E t, h, b :
                 /\ h \in Block /\ h.names = config[i].names /\ h.redirects = {}
                 /\ Splits(config, t, i, OldHalf(config[i]), NewHalf(config[i], h))
                 /\ Changes(t, e, n, b)
                 /\ b.names = config[i].names /\ b.listen = NewHalf(config[i], h).listen
                 /\ b.cert = "none" /\ b.redirects = {d}
  <2>1. PICK t, h, b :
                 /\ h \in Block /\ h.names = config[i].names /\ h.redirects = {}
                 /\ Splits(config, t, i, OldHalf(config[i]), NewHalf(config[i], h))
                 /\ Changes(t, e, n, b)
                 /\ b.names = config[i].names /\ b.listen = NewHalf(config[i], h).listen
                 /\ b.cert = "none"
    BY <1>3, Zenon
  <2>2. /\ t \in Config /\ n \in DOMAIN t /\ t[n] = NewHalf(config[i], h)
    BY <2>1 DEF Splits
  <2>3. t[n].names = config[i].names /\ t[n].listen = b.listen /\ t[n].cert = b.cert
        /\ t[n].listen = {l \in config[i].listen : ~ l.ssl}
    BY <1>1, <2>1, <2>2, HalfFields
  <2>4. IsFiniteSet(config[i].names)
    BY DEF Sound, FiniteNames
  <2>5. Sound(t)
    BY <2>1, <2>4, SoundSplit
  <2>6. Sound(e)
    BY <2>1, <2>2, <2>3, <2>4, <2>5, SoundChange
  <2>7. ASSUME Regular(config), HttpPort \in Ports(config[i])
        PROVE  Regular(e)
    <3>1. PICK m \in config[i].listen : m.ssl
      BY <1>3, ListeningIs
    <3>2. PICK l \in config[i].listen : l.port = HttpPort
      BY <2>7, <3>1, ListeningIs
    <3>3. ~ l.ssl
      BY <3>2 DEF Sound, Words
    <3>4. Regular(t)
      BY <2>1, <2>7, <3>1, <3>3, RegularSplit
    <3>5. HttpPort \in Ports(t[n])
      BY <2>3, <3>2, <3>3 DEF Ports
    <3> QED
      BY <2>1, <2>2, <2>3, <3>4, <3>5, RegularChange
  <2> QED
    BY <2>6, <2>7 DEF e
<1> QED
  BY <1>2, <1>3, RedirectIs DEF e

(* A block made for a domain by duplicating another.                       *)
CopyFor(b, d) == [Duplicate(b) EXCEPT !.names = {Exact(d)}]

LEMMA DuplicateIs ==
    ASSUME NEW config \in Config, NEW i \in DOMAIN config, NEW d \in Domain,
           NEW b, b = CopyFor(config[i], d)
    PROVE  /\ b \in Block /\ b.names = {Exact(d)} /\ b.cert = config[i].cert
           /\ b.redirects = config[i].redirects
           /\ Once(config) => Copies(b, config[i])
           /\ Ports(b) = Ports(config[i])
<1> DEFINE L == {[l EXCEPT !.default = FALSE] : l \in config[i].listen}
           copy == [l \in config[i].listen |-> [l EXCEPT !.default = FALSE]]
<1>1. config[i] \in Block /\ \A l \in config[i].listen : l \in Addr
  BY BlockFields
<1>2. Duplicate(config[i]) \in Block
  BY <1>1, DuplicateType
<1>3. b \in Block /\ b.names = {Exact(d)} /\ b.cert = config[i].cert
      /\ b.redirects = config[i].redirects /\ b.listen = L
  BY <1>1, <1>2, ExactType DEF CopyFor, Duplicate, Block
<1>4. \A l \in config[i].listen :
        /\ copy[l] \in L /\ ~ copy[l].default
        /\ copy[l].port = l.port /\ copy[l].ssl = l.ssl
  BY <1>1 DEF Addr
<1>5. \A m \in L : \E l \in config[i].listen : m = copy[l]
  OBVIOUS
<1> HIDE DEF L, copy
<1>6. Once(config) => Copies(b, config[i])
  <2>1. \A m \in L : ~ m.default /\ \E l \in config[i].listen : m.port = l.port /\ m.ssl = l.ssl
    BY <1>4, <1>5
  <2>2. \A l \in config[i].listen : \E m \in L : m.port = l.port
    BY <1>4
  <2>3. Once(config) => \A l, m \in L : l.port = m.port => l = m
    BY <1>4, <1>5 DEF Once
  <2> QED
    BY <1>3, <2>1, <2>2, <2>3 DEF Copies
<1>7. Ports(b) = Ports(config[i])
  <2>1. L = {} <=> config[i].listen = {}
    BY <1>4, <1>5
  <2>2. {l.port : l \in L} = {l.port : l \in config[i].listen}
    BY <1>4, <1>5
  <2> QED
    BY <1>3, <2>1, <2>2 DEF Ports
<1> QED
  BY <1>3, <1>6, <1>7

LEMMA NamesAre ==
    ASSUME NEW config \in Config, NEW i \in DOMAIN config, NEW d \in Domain,
           NEW e, e = [config EXCEPT ![i].names = @ \cup {Exact(d)}]
    PROVE  \E b : /\ Changes(config, e, i, b)
                  /\ b.names = config[i].names \cup {Exact(d)} /\ b.listen = config[i].listen
                  /\ b.cert = config[i].cert /\ b.redirects = config[i].redirects
                  /\ b.answers = config[i].answers
<1> DEFINE b == [config[i] EXCEPT !.names = @ \cup {Exact(d)}]
<1>1. config[i] \in Block
  BY DEF Config
<1>2. /\ b \in Block /\ b.cert = config[i].cert /\ b.names = config[i].names \cup {Exact(d)}
      /\ b.listen = config[i].listen /\ b.redirects = config[i].redirects
      /\ b.answers = config[i].answers
  BY <1>1, ExactType DEF Block
<1>3. [config EXCEPT ![i].names = @ \cup {Exact(d)}] = [config EXCEPT ![i] = b]
  OBVIOUS
<1> HIDE DEF b
<1>4. Changes(config, [config EXCEPT ![i] = b], i, b)
  BY <1>2, ReplaceIs
<1> QED
  BY <1>2, <1>3, <1>4

(* The three ways of _vhost_from_duplicated_default.                       *)
Renames(config, e, v, d) ==
    \E b : /\ Changes(config, e, v, b)
           /\ b.names = config[v].names \cup {Exact(d)} /\ b.listen = config[v].listen
           /\ b.cert = config[v].cert /\ b.redirects = config[v].redirects
           /\ b.answers = config[v].answers
Duplicates(config, e, i, d) ==
    \E b : /\ Extends(config, e, b) /\ i \in DOMAIN config
           /\ b.names = {Exact(d)} /\ b.cert = config[i].cert
           /\ b.redirects = config[i].redirects
           /\ Once(config) => Copies(b, config[i])
           /\ Ports(b) = Ports(config[i])

(* _vhost_from_duplicated_default: a name is added, nothing happens, or a  *)
(* block is duplicated.                                                    *)
LEMMA FromDefaultIs ==
    ASSUME NEW config \in Config, NEW v \in 0..Len(config), NEW d \in Domain,
           NEW mismatch, NEW port,
           NEW o \in VhostFromDuplicatedDefault(config, v, d, mismatch, port)
    PROVE  \/ v # 0 /\ o.vhost = v /\ Renames(config, o.config, v, d)
           \/ v = 0 /\ o.vhost = 0 /\ o.config = config
           \/ /\ v = 0 /\ o.vhost = Len(config) + 1
              /\ \E i \in DOMAIN config :
                    /\ Duplicates(config, o.config, i, d)
                    /\ mismatch \/ i \in Defaults(config, port)
<1>1. CASE v # 0
  <2>1. o.config = [config EXCEPT ![v].names = @ \cup {Exact(d)}] /\ o.vhost = v
    BY <1>1 DEF VhostFromDuplicatedDefault
  <2>2. v \in DOMAIN config
    BY <1>1, IndexFinite
  <2> QED
    BY <1>1, <2>1, <2>2, NamesAre DEF Renames
<1>2. CASE v = 0
  <2>1. PICK i \in GetDefaultVhost(config, mismatch, port) :
            o = IF i = 0
                THEN [config |-> config, vhost |-> 0]
                ELSE [config |-> Append(config, CopyFor(config[i], d)), vhost |-> Len(config) + 1]
    BY <1>2 DEF VhostFromDuplicatedDefault, CopyFor
  <2>2. CASE i = 0
    BY <1>2, <2>1, <2>2
  <2>3. CASE i # 0
    <3> DEFINE b == CopyFor(config[i], d)
    <3>2. i \in DOMAIN config /\ (mismatch \/ i \in Defaults(config, port))
      <4>1. PICK S \in SUBSET Defaults(config, port) : S = {i} \/ mismatch
        BY <2>1, <2>3 DEF GetDefaultVhost
      <4>2. i \in DOMAIN config
        BY <2>1, <2>3, DefaultType
      <4> QED
        BY <4>1, <4>2
    <3>3. o.config = Append(config, b) /\ o.vhost = Len(config) + 1
      BY <2>1, <2>3
    <3>4. /\ b \in Block /\ b.names = {Exact(d)} /\ b.cert = config[i].cert
          /\ b.redirects = config[i].redirects
          /\ Once(config) => Copies(b, config[i])
          /\ Ports(b) = Ports(config[i])
      BY <3>2, DuplicateIs
    <3> HIDE DEF b
    <3>5. Extends(config, o.config, b)
      BY <3>3, <3>4, AppendIs
    <3> QED
      BY <1>2, <3>2, <3>3, <3>4, <3>5 DEF Duplicates
  <2> QED
    BY <2>2, <2>3
<1> QED
  BY <1>1, <1>2

LEMMA FromDefaultKeeps ==
    ASSUME NEW config \in Config, Sound(config), NEW v \in 0..Len(config), NEW d \in Domain,
           NEW mismatch, NEW port,
           NEW o \in VhostFromDuplicatedDefault(config, v, d, mismatch, port)
    PROVE  /\ Sound(o.config)
           /\ Regular(config) /\ HttpNamed(config, d) = {} => Regular(o.config)
<1>1. CASE o.config = config
  BY <1>1
<1>2. CASE Renames(config, o.config, v, d)
  <2>1. PICK b : /\ Changes(config, o.config, v, b)
                 /\ b.names = config[v].names \cup {Exact(d)} /\ b.listen = config[v].listen
                 /\ b.cert = config[v].cert /\ b.redirects = config[v].redirects
    BY <1>2 DEF Renames
  <2>2. IsFiniteSet(b.names)
    <3>1. IsFiniteSet(config[v].names)
      BY <2>1 DEF Changes, Sound, FiniteNames
    <3> QED
      BY <2>1, <3>1, FS_AddElement
  <2> QED
    BY <2>1, <2>2, SoundChange, RegularChange
<1>3. ASSUME NEW i \in DOMAIN config, Duplicates(config, o.config, i, d)
      PROVE  /\ Sound(o.config)
             /\ Regular(config) /\ HttpNamed(config, d) = {} => Regular(o.config)
  <2>1. PICK b : /\ Extends(config, o.config, b)
                 /\ b.names = {Exact(d)} /\ b.redirects = config[i].redirects
                 /\ Once(config) => Copies(b, config[i])
    BY <1>3 DEF Duplicates
  <2>2. Copies(b, config[i])
    BY <2>1 DEF Sound
  <2>3. IsFiniteSet({Exact(d)})
    BY FS_Singleton
  <2> QED
    BY <2>1, <2>2, <2>3, SoundAppend, RegularAppend
<1> QED
  BY <1>1, <1>2, <1>3, FromDefaultIs

(* The blocks listen and are certified as before, some with more answers.  *)
Answers(config, e, S, d) ==
    /\ e \in Config /\ DOMAIN e = DOMAIN config
    /\ \A i \in DOMAIN config :
          /\ e[i].names = config[i].names /\ e[i].listen = config[i].listen
          /\ e[i].cert = config[i].cert /\ e[i].redirects = config[i].redirects
          /\ e[i].answers = config[i].answers \cup (IF i \in S THEN {d} ELSE {})

LEMMA AnswerIs ==
    ASSUME NEW config \in Config, NEW S, NEW d \in Domain
    PROVE  Answers(config, Answer(config, S, d), S, d)
<1> DEFINE e == Answer(config, S, d)
<1>1. e \in Config
  BY AnswerType
<1>2. DOMAIN e = DOMAIN config
  BY DEF Answer
<1>3. ASSUME NEW i \in DOMAIN config
      PROVE  /\ e[i].names = config[i].names /\ e[i].listen = config[i].listen
             /\ e[i].cert = config[i].cert /\ e[i].redirects = config[i].redirects
             /\ e[i].answers = config[i].answers \cup (IF i \in S THEN {d} ELSE {})
  <2>1. config[i] \in Block
    BY DEF Config
  <2>2. e[i] = IF i \in S THEN [config[i] EXCEPT !.answers = @ \cup {d}] ELSE config[i]
    BY DEF Answer
  <2> HIDE DEF e
  <2> QED
    BY <2>1, <2>2 DEF Block
<1> HIDE DEF e
<1>4. Answers(config, e, S, d)
  BY <1>1, <1>2, <1>3 DEF Answers
<1> QED
  BY <1>4 DEF e

LEMMA AnswersKeep ==
    ASSUME NEW config \in Config, NEW e, NEW S, NEW d, Answers(config, e, S, d)
    PROVE  /\ Sound(config) => Sound(e)
           /\ Regular(config) => Regular(e)
           /\ \A c \in Domain : HttpNamed(e, c) = HttpNamed(config, c)
<1>1. /\ e \in Config /\ DOMAIN e = DOMAIN config
      /\ \A i \in DOMAIN config :
            /\ e[i].names = config[i].names /\ e[i].listen = config[i].listen
            /\ e[i].cert = config[i].cert /\ e[i].redirects = config[i].redirects
  BY DEF Answers
<1>2. \A i \in DOMAIN config : Ports(e[i]) = Ports(config[i])
  BY <1>1 DEF Ports
<1>3. Sound(config) => Sound(e)
  <2>1. \A i \in DOMAIN config : \A l \in config[i].listen :
            Leads(e, i, l) <=> Leads(config, i, l)
    BY <1>1 DEF Leads
  <2> QED
    BY <1>1, <2>1 DEF Sound, Once, OneDefault, Words, Certified, FiniteNames
<1>4. Regular(config) => Regular(e)
  <2>1. HttpsOnly(config) => HttpsOnly(e)
    BY <1>1 DEF HttpsOnly
  <2>2. RedirectsOnHttp(config) => RedirectsOnHttp(e)
    BY <1>1, <1>2 DEF RedirectsOnHttp
  <2>3. Unambiguous(config) => Unambiguous(e)
    BY <1>1, <1>2, UnambiguousIs DEF Apart
  <2> QED
    BY <1>3, <2>1, <2>2, <2>3 DEF Regular
<1>5. \A c \in Domain : HttpNamed(e, c) = HttpNamed(config, c)
  BY <1>1, <1>2 DEF HttpNamed, Named
<1> QED
  BY <1>3, <1>4, <1>5

(* _get_default_vhost for a challenge finds a block that listens for http. *)
OnHttp(config, v) == v # 0 => HttpPort \in Ports(config[v])

LEMMA RenamesIs ==
    ASSUME NEW config \in Config, NEW e, NEW v, NEW d \in Domain, Renames(config, e, v, d)
    PROVE  /\ e \in Config /\ DOMAIN e = DOMAIN config /\ v \in DOMAIN config
           /\ \A i \in DOMAIN config : /\ Ports(e[i]) = Ports(config[i])
                                       /\ e[i].answers = config[i].answers
           /\ \A c \in Domain \ {d} : HttpNamed(e, c) = HttpNamed(config, c)
           /\ HttpNamed(e, d) \subseteq HttpNamed(config, d) \cup {v}
           /\ v \in Named(e, d)
<1>1. PICK b : /\ Changes(config, e, v, b)
               /\ b.names = config[v].names \cup {Exact(d)} /\ b.listen = config[v].listen
               /\ b.answers = config[v].answers
  BY DEF Renames
<1>2. /\ e \in Config /\ DOMAIN e = DOMAIN config /\ v \in DOMAIN config
      /\ e[v] = b /\ \A i \in DOMAIN config : i # v => e[i] = config[i]
  BY <1>1 DEF Changes
<1>3. \A i \in DOMAIN config : Ports(e[i]) = Ports(config[i]) /\ e[i].answers = config[i].answers
  BY <1>1, <1>2 DEF Ports
<1>4. Exact(d).matches = {d}
  BY DEF Exact
<1>5. \A c \in Domain \ {d} : Named(e, c) = Named(config, c)
  BY <1>1, <1>2, <1>4 DEF Named
<1>6. Named(e, d) = Named(config, d) \cup {v}
  BY <1>1, <1>2, <1>4 DEF Named
<1>7. \A c \in Domain : Named(config, c) \subseteq DOMAIN config
  BY DEF Named
<1>8. \A c \in Domain \ {d} : HttpNamed(e, c) = HttpNamed(config, c)
  BY <1>3, <1>5, <1>7 DEF HttpNamed
<1>9. HttpNamed(e, d) \subseteq HttpNamed(config, d) \cup {v}
  BY <1>3, <1>6, <1>7 DEF HttpNamed
<1> QED
  BY <1>2, <1>3, <1>6, <1>8, <1>9

LEMMA DuplicatesIs ==
    ASSUME NEW config \in Config, NEW e, NEW i, NEW d \in Domain, Duplicates(config, e, i, d)
    PROVE  /\ e \in Config /\ DOMAIN e = DOMAIN config \cup {Len(config) + 1}
           /\ Len(config) + 1 \notin DOMAIN config
           /\ \A j \in DOMAIN config : e[j] = config[j]
           /\ Ports(e[Len(config) + 1]) = Ports(config[i])
           /\ \A c \in Domain \ {d} : Named(e, c) = Named(config, c)
           /\ Named(e, d) = Named(config, d) \cup {Len(config) + 1}
<1> DEFINE n == Len(config) + 1
<1>1. PICK b : /\ Extends(config, e, b) /\ b.names = {Exact(d)}
               /\ Ports(b) = Ports(config[i])
  BY DEF Duplicates
<1>2. /\ e \in Config /\ DOMAIN e = DOMAIN config \cup {n} /\ n \notin DOMAIN config
      /\ e[n] = b /\ \A j \in DOMAIN config : e[j] = config[j]
  BY <1>1 DEF Extends
<1>3. Exact(d).matches = {d}
  BY DEF Exact
<1> HIDE DEF n
<1>4. \A c \in Domain \ {d} : Named(e, c) = Named(config, c)
  BY <1>1, <1>2, <1>3 DEF Named
<1>5. Named(e, d) = Named(config, d) \cup {n}
  BY <1>1, <1>2, <1>3 DEF Named
<1> QED
  BY <1>1, <1>2, <1>4, <1>5 DEF n

(* A challenge of domain d, answered in the blocks for http or by a block  *)
(* of its own.                                                             *)
AnswersHttp(config, d) == \A i \in HttpNamed(config, d) : d \in config[i].answers

(* A domain of http-01: the blocks that name it answer for it, or the      *)
(* challenge is given a block of its own, and the domains before it stay   *)
(* answered.                                                               *)
LEMMA ChallengedIs ==
    ASSUME NEW config \in Config, Sound(config), NEW v \in 0..Len(config), NEW d \in Domain,
           OnHttp(config, v), NEW o \in Challenged(config, v, d)
    PROVE  /\ Sound(o.config)
           /\ Regular(config) => Regular(o.config)
           /\ OnHttp(o.config, o.vhost)
           /\ AnswersHttp(o.config, d) /\ (o.own \/ HttpNamed(o.config, d) # {})
           /\ \A c \in Domain \ {d} :
                 /\ HttpNamed(o.config, c) = HttpNamed(config, c)
                 /\ AnswersHttp(config, c) => AnswersHttp(o.config, c)
<1> DEFINE http == {i \in Named(config, d) : VhostListening(config, i, HttpPort, FALSE)}
           https == {i \in Named(config, d) : VhostListening(config, i, HttpsPort, TRUE)}
           given == VhostFromDuplicatedDefault(config, v, d, FALSE, HttpPort)
<1>1. http = HttpNamed(config, d)
  <2>1. Named(config, d) \subseteq DOMAIN config
    BY DEF Named
  <2> QED
    BY <2>1, ListeningIs DEF HttpNamed
<1>2. \A c \in Domain : HttpNamed(config, c) \subseteq DOMAIN config
  BY DEF HttpNamed, Named
<1>3. v # 0 => v \in DOMAIN config
  BY IndexFinite
<1>4. CASE http # {}
  <2>1. /\ o.config = Answer(config, http \cup https, d) /\ o.vhost = v
    BY <1>4 DEF Challenged
  <2> DEFINE S == http \cup https
  <2>2. S = http \cup https
    OBVIOUS
  <2> HIDE DEF S, http, https
  <2>3. Answers(config, o.config, S, d)
    BY <2>1, <2>2, AnswerIs
  <2>4. /\ Sound(o.config) /\ (Regular(config) => Regular(o.config))
        /\ \A c \in Domain : HttpNamed(o.config, c) = HttpNamed(config, c)
    BY <2>3, AnswersKeep
  <2>5. \A i \in DOMAIN config :
          /\ o.config[i].listen = config[i].listen
          /\ o.config[i].answers = config[i].answers \cup (IF i \in S THEN {d} ELSE {})
    BY <2>3 DEF Answers
  <2>6. OnHttp(o.config, o.vhost)
    BY <1>3, <2>1, <2>5 DEF OnHttp, Ports
  <2> QED
    BY <1>1, <1>2, <1>4, <2>2, <2>4, <2>5, <2>6 DEF AnswersHttp
<1>5. CASE http = {}
  <2> DEFINE answered(g) == [config |-> Answer(g.config, {g.vhost} \cup https, d),
                             vhost |-> IF g.vhost = 0 THEN v ELSE g.vhost,
                             own |-> g.vhost = 0]
  <2>1. Challenged(config, v, d) = {answered(g) : g \in given}
    BY <1>5, Zenon DEF Challenged
  <2> HIDE DEF answered, given
  <2>2. PICK g \in given : o = answered(g)
    BY <2>1
  <2> DEFINE S == {g.vhost} \cup https
  <2>3. /\ o.config = Answer(g.config, S, d)
        /\ o.vhost = IF g.vhost = 0 THEN v ELSE g.vhost
        /\ o.own <=> g.vhost = 0
    BY <2>2 DEF answered
  <2>4. g.vhost \in S
    OBVIOUS
  <2> HIDE DEF S, https
  <2>5. Sound(g.config) /\ (Regular(config) => Regular(g.config))
    BY <1>1, <1>5, FromDefaultKeeps DEF given
  <2>6. /\ g.config \in Config /\ (g.vhost # 0 => g.vhost \in DOMAIN g.config)
        /\ g.vhost = 0 => v = 0 /\ g.config = config
        /\ g.vhost # 0 => /\ HttpPort \in Ports(g.config[g.vhost])
                          /\ HttpNamed(g.config, d) = {g.vhost}
        /\ \A c \in Domain \ {d} :
              /\ HttpNamed(g.config, c) = HttpNamed(config, c)
              /\ \A i \in HttpNamed(config, c) : g.config[i].answers = config[i].answers
    <3>1. CASE v # 0 /\ g.vhost = v /\ Renames(config, g.config, v, d)
      <4>1. /\ g.config \in Config /\ DOMAIN g.config = DOMAIN config /\ v \in DOMAIN config
            /\ \A i \in DOMAIN config : /\ Ports(g.config[i]) = Ports(config[i])
                                        /\ g.config[i].answers = config[i].answers
            /\ \A c \in Domain \ {d} : HttpNamed(g.config, c) = HttpNamed(config, c)
            /\ HttpNamed(g.config, d) \subseteq HttpNamed(config, d) \cup {v}
            /\ v \in Named(g.config, d)
        BY <3>1, RenamesIs
      <4>2. HttpPort \in Ports(g.config[v])
        BY <3>1, <4>1 DEF OnHttp
      <4>3. HttpNamed(g.config, d) = {v}
        BY <1>1, <1>5, <4>1, <4>2 DEF HttpNamed
      <4> QED
        BY <1>2, <3>1, <4>1, <4>2, <4>3
    <3>2. CASE v = 0 /\ g.vhost = 0 /\ g.config = config
      BY <3>2
    <3>3. CASE /\ v = 0 /\ g.vhost = Len(config) + 1
               /\ \E i \in DOMAIN config : /\ Duplicates(config, g.config, i, d)
                                           /\ i \in Defaults(config, HttpPort)
      <4>1. PICK i \in DOMAIN config : /\ Duplicates(config, g.config, i, d)
                                       /\ i \in Defaults(config, HttpPort)
        BY <3>3
      <4> DEFINE n == Len(config) + 1
      <4>2. /\ g.config \in Config /\ DOMAIN g.config = DOMAIN config \cup {n}
            /\ n \notin DOMAIN config
            /\ \A j \in DOMAIN config : g.config[j] = config[j]
            /\ Ports(g.config[n]) = Ports(config[i])
            /\ \A c \in Domain \ {d} : Named(g.config, c) = Named(config, c)
            /\ Named(g.config, d) = Named(config, d) \cup {n}
        BY <4>1, DuplicatesIs
      <4>3. HttpPort \in Ports(config[i])
        BY <4>1 DEF Defaults, Ports
      <4>4. n # 0
        BY IndexFinite
      <4>5. g.vhost = n
        BY <3>3
      <4> HIDE DEF n
      <4>6. HttpNamed(g.config, d) = {n}
        BY <1>1, <1>5, <4>2, <4>3 DEF HttpNamed, Named
      <4>7. \A c \in Domain \ {d} : HttpNamed(g.config, c) = HttpNamed(config, c)
        BY <4>2 DEF HttpNamed, Named
      <4> QED
        BY <1>2, <4>2, <4>3, <4>4, <4>5, <4>6, <4>7
    <3> QED
      BY <3>1, <3>2, <3>3, FromDefaultIs DEF given
  <2>7. Answers(g.config, o.config, S, d)
    BY <2>3, <2>6, AnswerIs
  <2>8. /\ Sound(o.config) /\ (Regular(config) => Regular(o.config))
        /\ \A c \in Domain : HttpNamed(o.config, c) = HttpNamed(g.config, c)
    BY <2>5, <2>6, <2>7, AnswersKeep
  <2>9. \A i \in DOMAIN g.config :
          /\ o.config[i].listen = g.config[i].listen
          /\ o.config[i].answers = g.config[i].answers \cup (IF i \in S THEN {d} ELSE {})
    BY <2>7 DEF Answers
  <2>10. OnHttp(o.config, o.vhost)
    <3>1. \A i \in DOMAIN g.config : Ports(o.config[i]) = Ports(g.config[i])
      BY <2>9 DEF Ports
    <3> QED
      BY <2>3, <2>6, <3>1 DEF OnHttp
  <2>11. AnswersHttp(o.config, d) /\ (o.own \/ HttpNamed(o.config, d) # {})
    <3>1. CASE g.vhost = 0
      <4>1. HttpNamed(o.config, d) = {}
        BY <1>1, <1>5, <2>6, <2>8, <3>1
      <4> QED
        BY <2>3, <3>1, <4>1 DEF AnswersHttp
    <3>2. CASE g.vhost # 0
      <4>1. HttpNamed(o.config, d) = {g.vhost} /\ g.vhost \in DOMAIN g.config
        BY <2>6, <2>8, <3>2
      <4>2. d \in o.config[g.vhost].answers
        BY <2>4, <2>9, <4>1
      <4> QED
        BY <4>1, <4>2 DEF AnswersHttp
    <3> QED
      BY <3>1, <3>2
  <2>12. \A c \in Domain \ {d} :
            /\ HttpNamed(o.config, c) = HttpNamed(config, c)
            /\ AnswersHttp(config, c) => AnswersHttp(o.config, c)
    <3>1. \A c \in Domain : HttpNamed(g.config, c) \subseteq DOMAIN g.config
      BY DEF HttpNamed, Named
    <3> QED
      BY <2>6, <2>8, <2>9, <3>1 DEF AnswersHttp
  <2> QED
    BY <2>8, <2>10, <2>11, <2>12
<1> QED
  BY <1>4, <1>5

-----------------------------------------------------------------------------
(* The names that match a domain, and the best of them in a block.         *)
Matching(b, d) == {n \in b.names : d \in n.matches}

LEMMA KindsAre ==
    ASSUME NEW config \in Config, NEW i \in DOMAIN config
    PROVE  /\ \A n \in config[i].names : /\ Precedence[n.kind] \in 0..3 /\ n.length \in Nat
                                         /\ n.kind \in {"exact", "start", "end", "regex"}
           /\ \A k, l \in {"exact", "start", "end", "regex"} :
                 Precedence[k] = Precedence[l] => k = l
           /\ \A k \in {"exact", "start", "end", "regex"} :
                 k \in {"start", "end"} <=> Precedence[k] \in {1, 2}
<1>1. config[i] \in Block
  BY DEF Config
<1>2. \A n \in config[i].names : n \in Name
  BY <1>1 DEF Block
<1>3. /\ Precedence["exact"] = 0 /\ Precedence["start"] = 1
      /\ Precedence["end"] = 2 /\ Precedence["regex"] = 3
  BY DEF Precedence
<1> QED
  BY <1>2, <1>3 DEF Name

(* NameRank and NameLength are those of the best name a block has for the  *)
(* domain.                                                                 *)
LEMMA RankIs ==
    ASSUME NEW config \in Config, FiniteNames(config), NEW d \in Domain, NEW i \in Named(config, d)
    PROVE  /\ i \in DOMAIN config
           /\ NameRank(config, i, d) \in 0..3 /\ NameLength(config, i, d) \in Nat
           /\ \A n \in Matching(config[i], d) :
                 /\ NameRank(config, i, d) <= Precedence[n.kind]
                 /\ Precedence[n.kind] = NameRank(config, i, d) =>
                        n.length <= NameLength(config, i, d)
           /\ \E n \in Matching(config[i], d) :
                 Precedence[n.kind] = NameRank(config, i, d) /\ n.length = NameLength(config, i, d)
<1> DEFINE M == Matching(config[i], d)
           ranks == {Precedence[n.kind] : n \in M}
           r == NameRank(config, i, d)
           B == {n \in config[i].names : d \in n.matches /\ Precedence[n.kind] = r}
           lengths == {n.length : n \in B}
<1>1. i \in DOMAIN config /\ M # {}
  BY DEF Named, Matching
<1>2. \A n \in M : n \in config[i].names /\ Precedence[n.kind] \in 0..3 /\ n.length \in Nat
  BY <1>1, KindsAre DEF Matching
<1>3. r = Min(ranks)
  BY DEF NameRank, Matching
<1>4. NameLength(config, i, d) = Max(lengths)
  BY DEF NameLength
<1>5. ranks \in SUBSET Nat /\ ranks # {}
  BY <1>1, <1>2
<1>6. r \in ranks /\ \A k \in ranks : r <= k
  BY <1>3, <1>5, MinIs
<1>7. B = {n \in M : Precedence[n.kind] = r}
  BY DEF Matching
<1>8. IsFiniteSet(B)
  <2>1. IsFiniteSet(config[i].names)
    BY <1>1 DEF FiniteNames
  <2> QED
    BY <2>1, FS_Subset
<1> HIDE DEF r, B, M
<1>9. lengths \in SUBSET Nat /\ lengths # {}
  BY <1>2, <1>6, <1>7
<1>10. Max(lengths) \in lengths /\ \A k \in lengths : Max(lengths) >= k
  <2> DEFINE f == [n \in B |-> n.length]
  <2>1. B # {} /\ f \in [B -> Nat] /\ \A n \in B : f[n] = n.length
    BY <1>2, <1>6, <1>7
  <2> HIDE DEF f
  <2>2. PICK m \in B : \A k \in B : f[k] <= f[m]
    BY <1>8, <2>1, GreatestOf
  <2>3. m.length \in lengths /\ \A k \in lengths : m.length >= k
    BY <1>9, <2>1, <2>2
  <2> QED
    BY <2>3 DEF Max
<1>11. PICK n \in B : n.length = Max(lengths)
  BY <1>10
<1>12. \A m \in B : m.length <= Max(lengths)
  BY <1>10
<1>13. r \in 0..3 /\ NameLength(config, i, d) \in Nat
  BY <1>2, <1>4, <1>6, <1>9, <1>10
<1>14. \A m \in M : r <= Precedence[m.kind]
  BY <1>6
<1> QED
  BY <1>1, <1>4, <1>7, <1>11, <1>12, <1>13, <1>14 DEF M, r

(* Of block i a better name matches than of j, or one as good but first.   *)
Beats(config, d, i, j) ==
    \/ NameRank(config, i, d) < NameRank(config, j, d)
    \/ /\ NameRank(config, i, d) = NameRank(config, j, d)
       /\ \/ /\ NameRank(config, i, d) \in {1, 2}
             /\ NameLength(config, i, d) > NameLength(config, j, d)
          \/ /\ NameRank(config, i, d) \in {1, 2} =>
                   NameLength(config, i, d) = NameLength(config, j, d)
             /\ i < j

(* What _select_best_name_match chooses: of the best rank, the best.       *)
LEMMA SelectIs ==
    ASSUME NEW config \in Config, FiniteNames(config), NEW d \in Domain,
           NEW S \in SUBSET Named(config, d), S # {}, NEW rank \in [S -> Nat],
           \A i \in S : rank[i] = NameRank(config, i, d)
                        \/ rank[i] = NameRank(config, i, d) + NoSslModifier,
           NEW s, s = SelectBestNameMatch(config, d, rank)
    PROVE  /\ s \in S
           /\ \A j \in S : rank[s] <= rank[j]
           /\ \A j \in S \ {s} : rank[s] = rank[j] => Beats(config, d, s, j)
<1> DEFINE top == {i \in DOMAIN rank : \A j \in DOMAIN rank : rank[i] <= rank[j]}
           wildcard == \E i \in top : rank[i] \in {1, 2, 1 + NoSslModifier, 2 + NoSslModifier}
           longest == {i \in top : \A j \in top :
                         NameLength(config, i, d) >= NameLength(config, j, d)}
           best == IF wildcard THEN longest ELSE top
<1>1. /\ S \subseteq DOMAIN config /\ S \in SUBSET Nat /\ IsFiniteSet(S)
      /\ \A i \in S : NameRank(config, i, d) \in 0..3 /\ NameLength(config, i, d) \in Nat
  <2>1. S \in SUBSET DOMAIN config
    BY DEF Named
  <2> QED
    BY <2>1, RankIs, IndexFinite
<1>2. NoSslModifier = 4 /\ DOMAIN rank = S /\ \A i \in S : rank[i] \in Nat
  BY DEF NoSslModifier
<1>3. top # {}
  <2> DEFINE R == {rank[i] : i \in S}
  <2>1. R \in SUBSET Nat /\ R # {}
    OBVIOUS
  <2>2. PICK m \in R : \A k \in R : m <= k
    BY <2>1, LeastOf
  <2> QED
    BY <1>2, <2>2
<1>4. top \subseteq S /\ (\A i, j \in top : rank[i] = rank[j])
      /\ \A i \in top, j \in S : rank[i] <= rank[j] /\ (rank[i] = rank[j] => j \in top)
  BY <1>2
<1>5. \A i, j \in top : NameRank(config, i, d) = NameRank(config, j, d)
  BY <1>1, <1>2, <1>4
<1>6. wildcard <=> \A i \in top : NameRank(config, i, d) \in {1, 2}
  BY <1>1, <1>2, <1>3, <1>4, <1>5
<1>7. longest # {}
  <2> DEFINE f == [i \in top |-> NameLength(config, i, d)]
  <2>1. IsFiniteSet(top) /\ f \in [top -> Nat]
    BY <1>1, <1>4, FS_Subset
  <2> HIDE DEF top
  <2>2. PICK m \in top : \A k \in top : f[k] <= f[m]
    BY <1>3, <2>1, GreatestOf
  <2>3. \A k \in top : NameLength(config, k, d) <= NameLength(config, m, d)
    BY <2>2
  <2>4. \A k \in top : NameLength(config, k, d) \in Nat
    BY <1>1, <1>4
  <2> QED
    BY <2>3, <2>4
<1>8. s = Min(best)
  BY <1>3 DEF SelectBestNameMatch
<1>9. longest \subseteq top
  OBVIOUS
<1>10. \A i \in longest, j \in top : NameLength(config, i, d) >= NameLength(config, j, d)
  OBVIOUS
<1>11. \A i \in longest, j \in top :
          NameLength(config, i, d) = NameLength(config, j, d) => j \in longest
  BY <1>1, <1>4
<1> HIDE DEF top, longest, wildcard
<1>12. best \in SUBSET Nat /\ best # {} /\ best \subseteq top
  BY <1>1, <1>3, <1>4, <1>7, <1>9
<1>13. s \in best /\ \A j \in best : s <= j
  BY <1>8, <1>12, MinIs
<1>14. s \in top /\ s \in S
  BY <1>4, <1>12, <1>13
<1>15. ASSUME NEW j \in S \ {s}, rank[s] = rank[j] PROVE Beats(config, d, s, j)
  <2>1. j \in top /\ NameRank(config, s, d) = NameRank(config, j, d)
    BY <1>4, <1>5, <1>14, <1>15
  <2>2. s \in Nat /\ j \in Nat /\ s # j
    BY <1>1, <1>14
  <2>3. CASE wildcard
    <3>1. s \in longest /\ NameRank(config, s, d) \in {1, 2}
      BY <1>6, <1>13, <1>14, <2>3
    <3>2. NameLength(config, s, d) >= NameLength(config, j, d)
      BY <1>10, <2>1, <3>1
    <3>3. CASE NameLength(config, s, d) = NameLength(config, j, d)
      <4>1. s <= j
        BY <1>11, <1>13, <2>1, <2>3, <3>1, <3>3
      <4> QED
        BY <2>1, <2>2, <3>1, <3>3, <4>1 DEF Beats
    <3>4. CASE NameLength(config, s, d) # NameLength(config, j, d)
      BY <1>1, <1>14, <2>1, <3>1, <3>2, <3>4 DEF Beats
    <3> QED
      BY <3>3, <3>4
  <2>4. CASE ~ wildcard
    <3>1. NameRank(config, s, d) \notin {1, 2}
      BY <1>5, <1>6, <1>14, <2>4
    <3>2. s <= j
      BY <1>13, <2>1, <2>4
    <3> QED
      BY <2>1, <2>2, <3>1, <3>2 DEF Beats
  <2> QED
    BY <2>3, <2>4
<1> QED
  BY <1>4, <1>14, <1>15

-----------------------------------------------------------------------------
(* The block nginx picks by name, and the one the plugin chooses.          *)
PortNamed(config, port, d) == {i \in Named(config, d) : port \in Ports(config[i])}

(* The best name of a block that beats another precedes all names of the   *)
(* other.                                                                  *)
LEMMA BeatsPrecedes ==
    ASSUME NEW config \in Config, FiniteNames(config), NEW d \in Domain,
           NEW i \in Named(config, d), NEW j \in Named(config, d), Beats(config, d, i, j),
           NEW n \in Matching(config[i], d), Precedence[n.kind] = NameRank(config, i, d),
           n.length = NameLength(config, i, d),
           NEW m \in Matching(config[j], d)
    PROVE  Precedes(n, i, m, j)
<1>1. /\ i \in DOMAIN config /\ j \in DOMAIN config /\ i \in Nat /\ j \in Nat
      /\ NameRank(config, i, d) \in 0..3 /\ NameLength(config, i, d) \in Nat
      /\ NameRank(config, j, d) \in 0..3 /\ NameLength(config, j, d) \in Nat
      /\ NameRank(config, j, d) <= Precedence[m.kind]
      /\ Precedence[m.kind] = NameRank(config, j, d) => m.length <= NameLength(config, j, d)
  BY RankIs, IndexFinite
<1>2. /\ n \in config[i].names /\ m \in config[j].names
  BY DEF Matching
<1>3. /\ Precedence[m.kind] \in 0..3 /\ m.length \in Nat
      /\ Precedence[n.kind] = Precedence[m.kind] => n.kind = m.kind
      /\ n.kind \in {"start", "end"} <=> Precedence[n.kind] \in {1, 2}
  BY <1>1, <1>2, KindsAre
<1>4. CASE Precedence[n.kind] < Precedence[m.kind]
  BY <1>4 DEF Precedes
<1>5. CASE ~ (Precedence[n.kind] < Precedence[m.kind])
  <2>1. /\ NameRank(config, j, d) = NameRank(config, i, d)
        /\ Precedence[m.kind] = NameRank(config, i, d)
    BY <1>1, <1>3, <1>5 DEF Beats
  <2>2. n.kind = m.kind /\ m.length <= NameLength(config, j, d)
    BY <1>1, <1>3, <2>1
  <2>3. CASE /\ NameRank(config, i, d) \in {1, 2}
             /\ NameLength(config, i, d) > NameLength(config, j, d)
    <3>1. n.kind \in {"start", "end"} /\ n.length > m.length
      BY <1>1, <1>3, <2>2, <2>3
    <3> QED
      BY <2>2, <3>1 DEF Precedes
  <2>4. CASE /\ i < j
             /\ NameRank(config, i, d) \in {1, 2} =>
                    NameLength(config, i, d) = NameLength(config, j, d)
    <3>1. n.kind \in {"start", "end"} => m.length <= n.length
      BY <1>3, <2>2, <2>4
    <3>2. m.length <= n.length => m.length = n.length \/ n.length > m.length
      BY <1>1, <1>3
    <3> QED
      BY <2>2, <2>4, <3>1, <3>2 DEF Precedes
  <2> QED
    BY <1>1, <2>1, <2>3, <2>4 DEF Beats
<1> QED
  BY <1>4, <1>5

LEMMA PrecedesOnce ==
    ASSUME NEW config \in Config, NEW i \in DOMAIN config, NEW j \in DOMAIN config,
           NEW n \in config[i].names, NEW m \in config[j].names
    PROVE  ~ (Precedes(n, i, m, j) /\ Precedes(m, j, n, i))
<1>1. i \in Nat /\ j \in Nat
  BY IndexFinite
<1>2. /\ Precedence[n.kind] \in 0..3 /\ Precedence[m.kind] \in 0..3
      /\ n.length \in Nat /\ m.length \in Nat
  BY KindsAre
<1> QED
  BY <1>1, <1>2 DEF Precedes

(* nginx picks the block that beats the others: the order of nginx and the *)
(* one of _select_best_name_match agree.                                   *)
LEMMA ServingIs ==
    ASSUME NEW config \in Config, FiniteNames(config), NEW d \in Domain, NEW port,
           NEW s \in PortNamed(config, port, d),
           \A j \in PortNamed(config, port, d) \ {s} : Beats(config, d, s, j)
    PROVE  Serving(config, port, d) = s
<1> DEFINE on == {i \in DOMAIN config : port \in Ports(config[i])}
           best(i) == \E n \in Matching(config[i], d) :
                         \A j \in on \ {i} : \A m \in Matching(config[j], d) : Precedes(n, i, m, j)
<1>1. /\ Named(config, d) \subseteq DOMAIN config
      /\ \A i \in DOMAIN config : i \in Named(config, d) <=> Matching(config[i], d) # {}
  BY DEF Named, Matching
<1>2. PortNamed(config, port, d) = on \cap Named(config, d)
  BY <1>1 DEF PortNamed
<1>3. s \in on /\ s \in Named(config, d)
  BY <1>2
<1>4. best(s)
  <2>1. PICK n \in Matching(config[s], d) :
            Precedence[n.kind] = NameRank(config, s, d) /\ n.length = NameLength(config, s, d)
    BY <1>3, RankIs
  <2>2. ASSUME NEW j \in on \ {s}, NEW m \in Matching(config[j], d) PROVE Precedes(n, s, m, j)
    <3>1. j \in Named(config, d) /\ Beats(config, d, s, j)
      BY <1>1, <1>2, <2>2
    <3> QED
      BY <1>3, <2>1, <2>2, <3>1, BeatsPrecedes
  <2> QED
    BY <2>2
<1>5. ASSUME NEW i \in on, best(i) PROVE i = s
  <2>1. SUFFICES ASSUME i # s PROVE FALSE
    OBVIOUS
  <2>2. PICK n \in Matching(config[i], d) :
            \A j \in on \ {i} : \A m \in Matching(config[j], d) : Precedes(n, i, m, j)
    BY <1>5
  <2>3. PICK m \in Matching(config[s], d) :
            \A j \in on \ {s} : \A k \in Matching(config[j], d) : Precedes(m, s, k, j)
    BY <1>4
  <2>4. Precedes(n, i, m, s) /\ Precedes(m, s, n, i)
    BY <1>3, <2>1, <2>2, <2>3
  <2>5. n \in config[i].names /\ m \in config[s].names /\ i \in DOMAIN config /\ s \in DOMAIN config
    BY <1>3 DEF Matching
  <2> QED
    BY <2>4, <2>5, PrecedesOnce
<1>6. Serving(config, port, d) = CHOOSE i \in on : best(i)
  <2>1. on # {} /\ on \cap Named(config, d) # {}
    BY <1>3
  <2> QED
    BY <2>1 DEF Serving, Matching
<1> HIDE DEF best, on
<1> QED
  BY <1>3, <1>4, <1>5, <1>6

(* nginx serves by name what is named, and what it does not is not.        *)
LEMMA ServingNamed ==
    ASSUME NEW config \in Config, FiniteNames(config), NEW d \in Domain, NEW port
    PROVE  /\ PortNamed(config, port, d) # {} =>
                /\ Serving(config, port, d) \in PortNamed(config, port, d)
                /\ \A j \in PortNamed(config, port, d) \ {Serving(config, port, d)} :
                      Beats(config, d, Serving(config, port, d), j)
           /\ Serving(config, port, d) \in Named(config, d) => PortNamed(config, port, d) # {}
<1> DEFINE S == PortNamed(config, port, d)
           on == {i \in DOMAIN config : port \in Ports(config[i])}
<1>1. S \in SUBSET Named(config, d) /\ S = on \cap Named(config, d)
  BY DEF PortNamed, Named
<1>2. ASSUME S # {}
      PROVE  /\ Serving(config, port, d) \in S
             /\ \A j \in S \ {Serving(config, port, d)} :
                   Beats(config, d, Serving(config, port, d), j)
  <2> DEFINE rank == [i \in S |-> NameRank(config, i, d)]
             s == SelectBestNameMatch(config, d, rank)
  <2>1. \A i \in S : NameRank(config, i, d) \in Nat
    BY <1>1, RankIs
  <2>2. rank \in [S -> Nat] /\ \A i \in S : rank[i] = NameRank(config, i, d)
    BY <2>1
  <2> HIDE DEF rank
  <2>3. /\ s \in S
        /\ \A j \in S : rank[s] <= rank[j]
        /\ \A j \in S \ {s} : rank[s] = rank[j] => Beats(config, d, s, j)
    BY <1>1, <1>2, <2>2, SelectIs
  <2> HIDE DEF s
  <2>4. \A j \in S \ {s} : Beats(config, d, s, j)
    <3>1. \A j \in S : rank[s] < rank[j] \/ rank[s] = rank[j]
      BY <2>2, <2>3
    <3> QED
      BY <2>2, <2>3, <3>1 DEF Beats
  <2>5. Serving(config, port, d) = s
    BY <2>3, <2>4, ServingIs
  <2> QED
    BY <2>3, <2>4, <2>5
<1>3. ASSUME S = {}, Serving(config, port, d) \in Named(config, d) PROVE FALSE
  <2>1. 0 \notin Named(config, d)
    BY IndexFinite DEF Named
  <2>2. on # {} /\ Serving(config, port, d) = DefaultServer(config, port)
    BY <1>1, <1>3, <2>1 DEF Serving
  <2> DEFINE D == IF Defaults(config, port) # {} THEN Defaults(config, port) ELSE on
  <2>3. D \subseteq on /\ D # {}
    BY <2>2 DEF Defaults, Ports
  <2>4. on \in SUBSET DOMAIN config
    OBVIOUS
  <2>5. on \in SUBSET Nat
    BY <2>4, IndexFinite
  <2>6. DefaultServer(config, port) = Min(D)
    BY DEF DefaultServer
  <2> HIDE DEF D, on
  <2>7. Min(D) \in on
    BY <2>3, <2>5, MinIs
  <2> QED
    BY <1>1, <1>3, <2>2, <2>6, <2>7
<1> QED
  BY <1>2, <1>3

(* choose_vhosts picks a block that names the domain, and the best one     *)
(* with ssl if there is one.                                               *)
LEMMA ChooseIs ==
    ASSUME NEW config \in Config, FiniteNames(config), NEW d \in Domain,
           NEW s, s = ChooseVhost(config, d)
    PROVE  /\ Named(config, d) = {} => s = 0
           /\ Named(config, d) # {} =>
                 /\ s \in Named(config, d)
                 /\ (\E i \in Named(config, d) : IsSsl(config, i)) =>
                       /\ IsSsl(config, s)
                       /\ \A j \in Named(config, d) \ {s} :
                             IsSsl(config, j) => Beats(config, d, s, j)
<1> DEFINE S == Named(config, d)
           rank == [i \in S |-> NameRank(config, i, d)
                                  + (IF IsSsl(config, i) THEN 0 ELSE NoSslModifier)]
<1>1. s = SelectBestNameMatch(config, d, rank)
  BY DEF ChooseVhost
<1>2. CASE S = {}
  <2>1. DOMAIN rank = {}
    BY <1>2
  <2> HIDE DEF rank
  <2> QED
    BY <1>1, <1>2, <2>1 DEF SelectBestNameMatch
<1>3. CASE S # {}
  <2>1. \A i \in S : NameRank(config, i, d) \in 0..3
    BY RankIs
  <2>2. NoSslModifier = 4
    BY DEF NoSslModifier
  <2>3. /\ rank \in [S -> Nat]
        /\ \A i \in S : /\ IsSsl(config, i) => rank[i] = NameRank(config, i, d)
                        /\ ~ IsSsl(config, i) => rank[i] = NameRank(config, i, d) + NoSslModifier
    BY <2>1, <2>2
  <2> HIDE DEF rank
  <2>4. /\ s \in S
        /\ \A j \in S : rank[s] <= rank[j]
        /\ \A j \in S \ {s} : rank[s] = rank[j] => Beats(config, d, s, j)
    BY <1>1, <1>3, <2>3, SelectIs
  <2>5. ASSUME NEW i \in S, IsSsl(config, i)
        PROVE  /\ IsSsl(config, s)
               /\ \A j \in S \ {s} : IsSsl(config, j) => Beats(config, d, s, j)
    <3>1. IsSsl(config, s)
      BY <2>1, <2>2, <2>3, <2>4, <2>5
    <3>2. ASSUME NEW j \in S \ {s}, IsSsl(config, j) PROVE Beats(config, d, s, j)
      <4>1. /\ rank[s] <= rank[j]
            /\ rank[s] = NameRank(config, s, d) /\ rank[j] = NameRank(config, j, d)
        BY <2>3, <2>4, <3>1, <3>2
      <4>2. rank[s] < rank[j] \/ rank[s] = rank[j]
        BY <2>1, <2>4, <4>1
      <4> QED
        BY <2>4, <4>1, <4>2 DEF Beats
    <3> QED
      BY <3>1, <3>2
  <2> QED
    BY <1>3, <2>4, <2>5
<1> QED
  BY <1>2, <1>3

(* choose_redirect_vhosts picks the block nginx serves the domain with on  *)
(* the http port.                                                          *)
LEMMA ChooseRedirectIs ==
    ASSUME NEW config \in Config, Sound(config), NEW d \in Domain,
           NEW s, s = ChooseRedirectVhost(config, d)
    PROVE  /\ HttpNamed(config, d) = {} => s = 0
           /\ HttpNamed(config, d) # {} =>
                 s \in HttpNamed(config, d) /\ s = Serving(config, HttpPort, d)
<1> DEFINE S == HttpNamed(config, d)
           rank == [i \in S |-> NameRank(config, i, d)]
<1>1. S \in SUBSET Named(config, d) /\ S = PortNamed(config, HttpPort, d) /\ FiniteNames(config)
  BY DEF HttpNamed, PortNamed, Sound
<1>2. {i \in Named(config, d) : VhostListening(config, i, HttpPort, FALSE)} = S
  <2>1. Named(config, d) \subseteq DOMAIN config
    BY DEF Named
  <2> QED
    BY <2>1, ListeningIs DEF HttpNamed
<1> HIDE DEF S
<1>3. s = SelectBestNameMatch(config, d, rank)
  BY <1>2, Zenon DEF ChooseRedirectVhost
<1>4. CASE S = {}
  <2>1. DOMAIN rank = {}
    BY <1>4
  <2> HIDE DEF rank
  <2> QED
    BY <1>3, <1>4, <2>1 DEF SelectBestNameMatch, S
<1>5. CASE S # {}
  <2>1. \A i \in S : NameRank(config, i, d) \in Nat
    BY <1>1, RankIs
  <2>2. rank \in [S -> Nat] /\ \A i \in S : rank[i] = NameRank(config, i, d)
    BY <2>1
  <2> HIDE DEF rank
  <2>3. /\ s \in S
        /\ \A j \in S : rank[s] <= rank[j]
        /\ \A j \in S \ {s} : rank[s] = rank[j] => Beats(config, d, s, j)
    BY <1>1, <1>3, <1>5, <2>2, SelectIs
  <2>4. \A j \in S \ {s} : Beats(config, d, s, j)
    <3>1. \A j \in S : rank[s] < rank[j] \/ rank[s] = rank[j]
      BY <2>2, <2>3
    <3> QED
      BY <2>2, <2>3, <3>1 DEF Beats
  <2>5. Serving(config, HttpPort, d) = s
    BY <1>1, <2>3, <2>4, ServingIs
  <2> QED
    BY <1>5, <2>3, <2>5 DEF S
<1> QED
  BY <1>4, <1>5

-----------------------------------------------------------------------------
(* The blocks for challenges go before the others.                         *)
ChallengeBlocks == {ChallengeBlock(d) : d \in Domain}

LEMMA ChallengeBlockIs ==
    ASSUME NEW b \in ChallengeBlocks
    PROVE  /\ b \in Block /\ IsFiniteSet(b.names)
           /\ \E d \in Domain : b.names = {Exact(d)} /\ b.answers = {d}
           /\ b.listen = {Listen(HttpPort, FALSE)} /\ b.cert = "none"
           /\ Ports(b) = {HttpPort}
           /\ \A l \in b.listen : l.port = HttpPort /\ ~ l.ssl /\ ~ l.default
<1>1. PICK d \in Domain : b = ChallengeBlock(d)
  BY DEF ChallengeBlocks
<1>2. b \in Block
  BY <1>1, ChallengeBlockType
<1>3. /\ b.names = {Exact(d)} /\ b.answers = {d}
      /\ b.listen = {Listen(HttpPort, FALSE)} /\ b.cert = "none"
  BY <1>1 DEF ChallengeBlock, Bare
<1>4. IsFiniteSet({Exact(d)})
  BY FS_Singleton
<1>5. Ports(b) = {HttpPort} /\ \A l \in b.listen : l.port = HttpPort /\ ~ l.ssl /\ ~ l.default
  BY <1>3 DEF Ports, Listen
<1> QED
  BY <1>2, <1>3, <1>4, <1>5

(* The challenge blocks come before the blocks of the configuration.       *)
LEMMA JoinIs ==
    ASSUME NEW c \in Seq(ChallengeBlocks), NEW config \in Config
    PROVE  /\ c \in Config /\ c \o config \in Config
           /\ DOMAIN c = 1..Len(c) /\ Len(c) \in Nat
           /\ DOMAIN (c \o config) = 1..(Len(c) + Len(config))
           /\ \A i \in DOMAIN (c \o config) :
                 \/ i \in DOMAIN c /\ (c \o config)[i] = c[i] /\ c[i] \in ChallengeBlocks
                 \/ /\ i > Len(c) /\ i - Len(c) \in DOMAIN config
                    /\ (c \o config)[i] = config[i - Len(c)]
           /\ \A i \in DOMAIN config :
                 Len(c) + i \in DOMAIN (c \o config) /\ (c \o config)[Len(c) + i] = config[i]
<1>1. ChallengeBlocks \subseteq Block
  BY ChallengeBlockType DEF ChallengeBlocks
<1>2. c \in Config /\ Len(config) \in Nat /\ DOMAIN config = 1..Len(config)
  BY <1>1 DEF Config
<1>3. c \o config \in Config
  BY <1>2 DEF Config
<1>4. \A i \in DOMAIN c : c[i] \in ChallengeBlocks
  OBVIOUS
<1> QED
  BY <1>2, <1>3, <1>4 DEF Config

(* nginx accepts challenge blocks before a sound configuration.            *)
LEMMA SoundJoin ==
    ASSUME NEW c \in Seq(ChallengeBlocks), NEW config \in Config, Sound(config)
    PROVE  Sound(c \o config)
<1> DEFINE e == c \o config
           n == Len(c)
<1>1. /\ e \in Config /\ n \in Nat
      /\ \A i \in DOMAIN e :
            \/ e[i] \in ChallengeBlocks
            \/ i > n /\ i - n \in DOMAIN config /\ e[i] = config[i - n]
      /\ \A i \in DOMAIN config : n + i \in DOMAIN e /\ e[n + i] = config[i]
      /\ \A i \in DOMAIN e : i \in Nat
  BY JoinIs
<1> HIDE DEF e, n
<1>2. \A i \in DOMAIN config : i \in Nat
  BY IndexFinite
<1>3. Once(e) /\ FiniteNames(e)
  <2>1. \A b \in ChallengeBlocks : \A l, m \in b.listen : l = m
    BY ChallengeBlockIs
  <2>2. \A b \in ChallengeBlocks : IsFiniteSet(b.names)
    BY ChallengeBlockIs
  <2> QED
    BY <1>1, <2>1, <2>2 DEF Sound, Once, FiniteNames
<1>4. \A b \in ChallengeBlocks : \A l \in b.listen : l.port = HttpPort /\ ~ l.ssl /\ ~ l.default
  BY ChallengeBlockIs
<1>5. OneDefault(e)
  <2> SUFFICES ASSUME NEW i \in DOMAIN e, NEW j \in DOMAIN e,
                      NEW l \in e[i].listen, NEW m \in e[j].listen,
                      l.default, m.default, l.port = m.port
               PROVE  i = j
    BY DEF OneDefault
  <2>1. /\ i - n \in DOMAIN config /\ e[i] = config[i - n]
        /\ j - n \in DOMAIN config /\ e[j] = config[j - n]
    BY <1>1, <1>4
  <2>2. i - n = j - n
    BY <2>1 DEF Sound, OneDefault
  <2> QED
    BY <1>1, <2>2
<1>6. Words(e)
  <2>1. \A i \in DOMAIN e : \A l \in e[i].listen :
           \/ l.port = HttpPort /\ ~ l.ssl
           \/ \E k \in DOMAIN config : l \in config[k].listen
    BY <1>1, <1>4
  <2>2. \A k \in DOMAIN config : \A l \in config[k].listen : l.port = HttpPort => ~ l.ssl
    BY DEF Sound, Words
  <2> QED
    BY <2>1, <2>2, PortAssumption DEF Sound, Words
<1>7. Certified(e)
  <2> SUFFICES ASSUME NEW i \in DOMAIN e, NEW l \in e[i].listen, l.ssl, Leads(e, i, l)
               PROVE  e[i].cert # "none"
    BY DEF Certified
  <2>1. i - n \in DOMAIN config /\ e[i] = config[i - n]
    BY <1>1, <1>4
  <2>2. Leads(config, i - n, l)
    <3>1. CASE l.default
      BY <3>1 DEF Leads
    <3>2. CASE ~ l.default
      <4> SUFFICES ASSUME NEW j \in DOMAIN config, NEW m \in config[j].listen, m.port = l.port
                   PROVE  ~ m.default /\ i - n <= j
        BY DEF Leads
      <4>1. n + j \in DOMAIN e /\ m \in e[n + j].listen
        BY <1>1
      <4>2. ~ m.default /\ i <= n + j
        BY <3>2, <4>1 DEF Leads
      <4> QED
        BY <1>1, <1>2, <4>2
    <3> QED
      BY <3>1, <3>2
  <2> QED
    BY <2>1, <2>2 DEF Sound, Certified
<1> QED
  BY <1>3, <1>5, <1>6, <1>7 DEF Sound, e

-----------------------------------------------------------------------------
(* A set of configurations that the plugin does not leave is not left by   *)
(* what the Reverter brings back.                                          *)
Within(K) ==
    /\ {disk, parsed, saved, prior} \subseteq K
    /\ {temp, in_progress, checkpoints} \subseteq Seq(K)

(* A set of configurations that the operations of the plugin do not leave  *)
(* contains all files, backups and what nginx runs.                        *)
LEMMA WithinNext ==
    ASSUME NEW K, <<>> \in K, Within(K), [Next]_vars,
           Perform \/ DeployCert \/ Enhance => parsed' \in K
    PROVE  Within(K)'
<1> USE DEF files, history, memory, process, Go
<1>1. /\ disk \in K /\ parsed \in K /\ saved \in K /\ prior \in K
      /\ temp \in Seq(K) /\ in_progress \in Seq(K) /\ checkpoints \in Seq(K)
  BY DEF Within
<1>2. Recovered \in K
  BY <1>1 DEF Recovered
<1>3. <<>> \in Seq(K)
  OBVIOUS
<1> DEFINE Filed == /\ {disk', saved'} \subseteq K
                    /\ {temp', in_progress', checkpoints'} \subseteq Seq(K)
<1>4. SUFFICES Filed /\ parsed' \in K /\ prior' \in K
  BY DEF Within
<1>5. UNCHANGED files => Filed
  BY <1>1
<1>6. RecoveryRoutine => Filed
  BY <1>1, <1>2, <1>3 DEF RecoveryRoutine
<1>7. Save => Filed
  BY <1>1 DEF Save
<1>8. FinalizeCheckpoint => Filed
  <2>1. in_progress \o checkpoints \in Seq(K)
    BY <1>1
  <2> QED
    BY <1>1, <1>3, <2>1 DEF FinalizeCheckpoint
<1>9. Filed => disk' \in K
  OBVIOUS
<1>10. \A config \in K : Load(config) => parsed' \in K
  BY DEF Load
<1> HIDE DEF Filed
<1>11. ASSUME NEW c \in {"run", "install", "enhance", "rollback"}, NEW S, Start(c, S)
      PROVE  Filed /\ parsed' \in K /\ prior' \in K
  <2>1. Filed /\ disk' \in K
    BY <1>6, <1>9, <1>11 DEF Start
  <2> QED
    BY <1>10, <1>11, <2>1 DEF Start
<1>12. CASE Kill \/ End
  <2>1. UNCHANGED files /\ parsed' = <<>> /\ prior' = disk
    BY <1>12 DEF Kill, End, Forget
  <2> QED
    BY <1>1, <1>5, <2>1
<1>13. CASE Perform \/ DeployCert \/ Enhance
  <2>1. UNCHANGED files /\ UNCHANGED prior
    BY <1>13 DEF Perform, DeployCert, Enhance
  <2> QED
    BY <1>1, <1>5, <1>13, <2>1
<1>14. CASE \/ Fail \/ Performed \/ RestartForChallenge \/ Validate \/ RestartClean \/ Obtained
            \/ Restart \/ EnhanceConfig \/ RestartEnhanced \/ RestartRolledBack \/ UNCHANGED vars
  <2>1. UNCHANGED files /\ UNCHANGED parsed /\ UNCHANGED prior
    BY <1>14 DEF Fail, Performed, RestartForChallenge, Validate, RestartClean, Obtained, Restart,
                 EnhanceConfig, RestartEnhanced, RestartRolledBack, vars
  <2> QED
    BY <1>1, <1>5, <2>1
<1>15. CASE SaveDeployed \/ SaveEnhancement
  <2>1. Save /\ UNCHANGED parsed /\ UNCHANGED prior
    BY <1>15 DEF SaveDeployed, SaveEnhancement
  <2> QED
    BY <1>1, <1>7, <2>1
<1>16. CASE FinalizeDeployed \/ FinalizeEnhancement
  <2>1. FinalizeCheckpoint /\ UNCHANGED parsed /\ UNCHANGED prior
    BY <1>16 DEF FinalizeDeployed, FinalizeEnhancement
  <2> QED
    BY <1>1, <1>8, <2>1
<1>17. CASE SaveChallenge
  <2>1. <<disk>> \in Seq(K)
    BY <1>1
  <2>2. Filed
    BY <1>1, <1>17, <2>1 DEF SaveChallenge, Filed
  <2> QED
    BY <1>1, <1>17, <2>2 DEF SaveChallenge
<1>18. CASE Cleanup
  <2>1. UNCHANGED prior
    BY <1>18 DEF Cleanup
  <2>2. CASE UNCHANGED <<files, memory>>
    BY <1>1, <1>5, <2>1, <2>2
  <2>3. CASE ~ UNCHANGED <<files, memory>>
    <3>1. /\ disk' = (IF temp = <<>> THEN disk ELSE temp[1])
          /\ temp' = <<>> /\ Load(disk')
          /\ UNCHANGED <<in_progress, checkpoints, saved>>
      BY <1>18, <2>3 DEF Cleanup
    <3>2. disk' \in K
      BY <1>1, <3>1
    <3>3. Filed
      BY <1>1, <1>3, <3>1, <3>2 DEF Filed
    <3> QED
      BY <1>1, <1>10, <2>1, <3>1, <3>2, <3>3
  <2> QED
    BY <2>2, <2>3
<1>19. CASE Recover
  <2>1. UNCHANGED prior
    BY <1>19 DEF Recover
  <2>2. CASE RecoveryRoutine /\ Load(disk')
    BY <1>1, <1>6, <1>9, <1>10, <2>1, <2>2
  <2>3. CASE UNCHANGED <<files, parsed, new_vhost>>
    BY <1>1, <1>5, <2>1, <2>3
  <2> QED
    BY <1>19, <2>2, <2>3 DEF Recover
<1>20. CASE RollbackCheckpoints
  <2>1. UNCHANGED prior
    BY <1>20 DEF RollbackCheckpoints
  <2>2. disk' \in K /\ saved' \in K /\ checkpoints' \in Seq(K)
    <3>1. CASE checkpoints = <<>>
      BY <1>1, <1>20, <3>1 DEF RollbackCheckpoints
    <3>2. CASE checkpoints # <<>>
      <4>1. Head(checkpoints) \in K /\ Tail(checkpoints) \in Seq(K)
        BY <1>1, <3>2
      <4>2. /\ disk' = Head(checkpoints) /\ checkpoints' = Tail(checkpoints)
            /\ saved' = disk'
        BY <1>20, <3>2 DEF RollbackCheckpoints
      <4> QED
        BY <4>1, <4>2
    <3> QED
      BY <3>1, <3>2
  <2>3. Filed /\ parsed' \in K
    BY <1>1, <1>10, <1>20, <2>2 DEF RollbackCheckpoints, Filed
  <2> QED
    BY <1>1, <2>1, <2>3
<1> QED
  BY <1>11, <1>12, <1>13, <1>14, <1>15, <1>16, <1>17, <1>18, <1>19, <1>20 DEF Next

(* The blocks for challenges, and the block added for one.                 *)
ChallengeInv ==
    /\ {blocks, challenge_conf} \subseteq Seq(ChallengeBlocks)
    /\ pc = "perform" => OnHttp(parsed, new_vhost)

(* The operations of the plugin keep configurations sound and regular.     *)
LEMMA PluginKeeps ==
    ASSUME TypeOK, Sound(parsed), ChallengeInv, Perform \/ DeployCert \/ Enhance
    PROVE  /\ Sound(parsed') /\ (Regular(parsed) => Regular(parsed'))
           /\ ChallengeInv'
<1>1. parsed \in Config /\ new_vhost \in 0..Len(parsed) /\ todo \in Seq(Domain)
  BY DEF TypeOK, Config
<1>2. todo # <<>>
  BY DEF Perform, DeployCert, Enhance
<1>3. Head(todo) \in Domain
  BY <1>1, <1>2
<1> DEFINE d == Head(todo)
<1>4. FiniteNames(parsed) /\ Named(parsed, d) \subseteq DOMAIN parsed
  BY DEF Sound, Named
<1>5. CASE Perform
  <2>1. PICK o \in Challenged(parsed, new_vhost, d) :
            /\ parsed' = o.config /\ new_vhost' = o.vhost
            /\ blocks' = IF o.own THEN Append(blocks, ChallengeBlock(d)) ELSE blocks
    BY <1>5 DEF Perform
  <2>2. pc = "perform" /\ UNCHANGED challenge_conf
    BY <1>5 DEF Perform, files
  <2>3. /\ Sound(parsed') /\ (Regular(parsed) => Regular(parsed')) /\ OnHttp(parsed', new_vhost')
    BY <1>1, <1>3, <2>1, <2>2, ChallengedIs DEF ChallengeInv
  <2>4. blocks' \in Seq(ChallengeBlocks)
    <3>1. ChallengeBlock(d) \in ChallengeBlocks /\ blocks \in Seq(ChallengeBlocks)
      BY <1>3 DEF ChallengeBlocks, ChallengeInv
    <3> QED
      BY <2>1, <3>1
  <2> QED
    BY <2>2, <2>3, <2>4 DEF ChallengeInv
<1>6. CASE DeployCert
  <2> DEFINE i == ChooseVhost(parsed, d)
  <2>1. ChallengeInv'
    BY <1>6 DEF DeployCert, ChallengeInv, files, Go
  <2>2. CASE i # 0 /\ parsed' = DeployTo(parsed, i)
    <3>1. i \in DOMAIN parsed
      BY <1>1, <1>3, <1>4, <2>2, ChooseIs
    <3> QED
      BY <1>1, <2>1, <2>2, <3>1, DeployKeeps
  <2>3. CASE /\ i = 0
             /\ \E o \in VhostFromDuplicatedDefault(parsed, new_vhost, d, TRUE, HttpsPort) :
                   o.vhost # 0 /\ parsed' = DeployTo(o.config, o.vhost)
    <3>1. PICK o \in VhostFromDuplicatedDefault(parsed, new_vhost, d, TRUE, HttpsPort) :
              o.vhost # 0 /\ parsed' = DeployTo(o.config, o.vhost)
      BY <2>3
    <3>2. HttpNamed(parsed, d) = {}
      <4>1. 0 \notin Named(parsed, d)
        BY <1>1, <1>4, IndexFinite
      <4>2. Named(parsed, d) = {}
        BY <1>1, <1>3, <1>4, <2>3, <4>1, ChooseIs
      <4> QED
        BY <4>2 DEF HttpNamed
    <3>3. Sound(o.config) /\ (Regular(parsed) => Regular(o.config))
      BY <1>1, <1>3, <3>1, <3>2, FromDefaultKeeps
    <3>4. o.config \in Config /\ o.vhost \in 0..Len(o.config)
      BY <1>1, <1>3, <3>1, FromDefaultType
    <3>5. o.vhost \in DOMAIN o.config
      BY <3>1, <3>4, IndexFinite
    <3> QED
      BY <2>1, <3>1, <3>3, <3>4, <3>5, DeployKeeps
  <2> QED
    BY <1>6, <2>2, <2>3 DEF DeployCert
<1>7. CASE Enhance
  <2> DEFINE e == First(enhancements)
             i == IF e = "redirect" THEN ChooseRedirectVhost(parsed, d) ELSE ChooseVhost(parsed, d)
  <2>1. ChallengeInv'
    BY <1>7 DEF Enhance, ChallengeInv, files
  <2>2. e \in Extra \cup {"redirect"}
    BY FirstType
  <2>3. \/ parsed' = parsed
        \/ /\ i \in DOMAIN parsed
           /\ \/ e = "redirect" /\ parsed' = EnableRedirect(parsed, i, d)
              \/ parsed' = EnableOcspStapling(parsed, i)
              \/ e \in Extra /\ parsed' = SetHttpHeader(parsed, i, e)
    BY <1>7, <2>2 DEF Enhance
  <2>4. e = "redirect" /\ i \in DOMAIN parsed => HttpPort \in Ports(parsed[i])
    <3>1. 0 \notin DOMAIN parsed
      BY <1>1, IndexFinite
    <3> QED
      BY <1>1, <1>3, <3>1, ChooseRedirectIs DEF HttpNamed
  <2> HIDE DEF i, e, d
  <2>5. /\ Sound(parsed') /\ (Regular(parsed) => Regular(parsed'))
    BY <1>1, <1>3, <2>3, <2>4, RedirectKeeps, StaplingKeeps, HeaderKeeps DEF d
  <2> QED
    BY <2>1, <2>5
<1> QED
  BY <1>5, <1>6, <1>7

SoundConfigs == {config \in Config : Sound(config)}

LEMMA EmptyIs == <<>> \in Config /\ Sound(<<>>) /\ Regular(<<>>)
<1>1. <<>> \in Config /\ DOMAIN <<>> = {}
  BY DEF Config
<1>2. Sound(<<>>)
  BY <1>1 DEF Sound, Once, OneDefault, Words, Certified, FiniteNames
<1>3. Regular(<<>>)
  BY <1>1, <1>2, UnambiguousIs DEF Regular, HttpsOnly, RedirectsOnHttp
<1> QED
  BY <1>1, <1>2, <1>3

(* The challenge blocks are those of http-01 at each step.                 *)
LEMMA ChallengeNext ==
    ASSUME TypeOK, Sound(parsed), ChallengeInv, [Next]_vars
    PROVE  ChallengeInv'
<1> USE DEF files, history, memory, process, Go
<1>1. <<>> \in Seq(ChallengeBlocks)
  OBVIOUS
<1>2. CASE Perform \/ DeployCert \/ Enhance
  BY <1>2, PluginKeeps
<1>3. ASSUME NEW c \in {"run", "install", "enhance", "rollback"}, NEW S, Start(c, S)
      PROVE  ChallengeInv'
  <2>1. blocks' = <<>> /\ challenge_conf' = <<>> /\ new_vhost' = 0
    BY <1>3 DEF Start, RecoveryRoutine, Load
  <2> QED
    BY <1>1, <2>1 DEF ChallengeInv, OnHttp
<1>4. CASE Kill \/ End
  <2>1. UNCHANGED challenge_conf /\ blocks' = <<>> /\ pc' = "off"
    BY <1>4 DEF Kill, End, Forget
  <2> QED
    BY <1>1, <2>1 DEF ChallengeInv
<1>5. CASE SaveChallenge
  BY <1>5 DEF SaveChallenge, ChallengeInv
<1>6. CASE Cleanup
  <2>1. pc' \in {"restart_clean", "obtain"}
    BY <1>6 DEF Cleanup
  <2>2. /\ challenge_conf' = <<>> \/ UNCHANGED challenge_conf
        /\ blocks' = <<>> \/ UNCHANGED blocks
    BY <1>6 DEF Cleanup
  <2> QED
    BY <1>1, <2>1, <2>2 DEF ChallengeInv
<1>7. CASE Recover
  <2>1. pc' = "end" /\ UNCHANGED blocks
    BY <1>7 DEF Recover
  <2>2. challenge_conf' = <<>> \/ UNCHANGED challenge_conf
    BY <1>7 DEF Recover, RecoveryRoutine
  <2> QED
    BY <1>1, <2>1, <2>2 DEF ChallengeInv
<1>8. CASE RollbackCheckpoints \/ RestartRolledBack \/ RestartEnhanced \/ Restart
  BY <1>8 DEF RollbackCheckpoints, RestartRolledBack, RestartEnhanced, Restart, ChallengeInv
<1>9. CASE SaveDeployed \/ SaveEnhancement
  <2>1. UNCHANGED <<challenge_conf, blocks>> /\ pc' # "perform"
    BY <1>9 DEF SaveDeployed, SaveEnhancement, Save
  <2> QED
    BY <2>1 DEF ChallengeInv
<1>10. CASE FinalizeDeployed \/ FinalizeEnhancement
  <2>1. UNCHANGED <<challenge_conf, blocks>> /\ pc' # "perform"
    BY <1>10 DEF FinalizeDeployed, FinalizeEnhancement, FinalizeCheckpoint
  <2> QED
    BY <2>1 DEF ChallengeInv
<1>11. CASE Fail
  <2>1. UNCHANGED <<challenge_conf, blocks>> /\ pc' # "perform"
    BY <1>11 DEF Fail, Handler
  <2> QED
    BY <2>1 DEF ChallengeInv
<1>12. CASE \/ Performed \/ RestartForChallenge \/ Validate \/ RestartClean \/ Obtained
            \/ EnhanceConfig
  <2>1. UNCHANGED <<challenge_conf, blocks>> /\ pc' # "perform"
    BY <1>12 DEF Performed, RestartForChallenge, Validate, RestartClean, Obtained, EnhanceConfig
  <2> QED
    BY <2>1 DEF ChallengeInv
<1>13. CASE UNCHANGED vars
  BY <1>13 DEF vars, ChallengeInv
<1> QED
  BY <1>2, <1>3, <1>4, <1>5, <1>6, <1>7, <1>8, <1>9, <1>10, <1>11, <1>12, <1>13 DEF Next

(* Whatever is written is sound.                                           *)
SoundInv == Within(SoundConfigs) /\ ChallengeInv

LEMMA InitSound ==
    ASSUME \A config \in Configurations : Orderly(config), Init
    PROVE  SoundInv
<1>1. Configurations \subseteq Config
  BY ConfigurationsAssumption DEF Config
<1>2. disk \in SoundConfigs
  BY <1>1, OrderlyIs DEF Init, SoundConfigs
<1>3. <<>> \in SoundConfigs
  BY EmptyIs DEF SoundConfigs
<1>4. Within(SoundConfigs)
  BY <1>2, <1>3 DEF Init, Within
<1>5. ChallengeInv
  BY DEF Init, ChallengeInv
<1> QED
  BY <1>4, <1>5 DEF SoundInv

(* A step keeps all configurations sound.                                  *)
LEMMA NextSound == TypeOK /\ SoundInv /\ [Next]_vars => SoundInv'
<1> SUFFICES ASSUME TypeOK, SoundInv, [Next]_vars PROVE SoundInv'
  OBVIOUS
<1>1. Within(SoundConfigs) /\ ChallengeInv
  BY DEF SoundInv
<1>2. Sound(parsed)
  BY <1>1 DEF Within, SoundConfigs
<1>3. ChallengeInv'
  BY <1>1, <1>2, ChallengeNext
<1>4. TypeOK'
  BY NextType
<1>5. Perform \/ DeployCert \/ Enhance => parsed' \in SoundConfigs
  BY <1>1, <1>2, <1>4, PluginKeeps DEF SoundConfigs, TypeOK, Config
<1>6. <<>> \in SoundConfigs
  BY EmptyIs DEF SoundConfigs
<1>7. Within(SoundConfigs)'
  BY <1>1, <1>5, <1>6, WithinNext
<1> QED
  BY <1>3, <1>7 DEF SoundInv

(* Of orderly configurations: what is written for a challenge too leaves   *)
(* one default server to a port, and each port with ssl a certificate.     *)
THEOREM SoundAlways ==
    ASSUME \A config \in Configurations : Orderly(config)
    PROVE  Spec => []SoundInv
<1>1. Init => SoundInv
  BY InitSound
<1> QED
  BY <1>1, NextSound, Types, PTL DEF Spec

(* Configurations that nginx accepts, with the word ssl by port, lead only *)
(* to such.                                                                *)
THEOREM NginxAcceptsAlways ==
    ASSUME \A config \in Configurations : Orderly(config)
    PROVE  Spec => []NginxAccepts
<1>1. SoundInv /\ TypeOK => NginxAccepts
  <2> SUFFICES ASSUME SoundInv, TypeOK PROVE NginxAccepts
    OBVIOUS
  <2>1. disk \in Config /\ Sound(disk) /\ challenge_conf \in Seq(ChallengeBlocks)
    BY DEF SoundInv, Within, ChallengeInv, SoundConfigs
  <2>2. challenge_conf \o disk \in Config /\ Sound(challenge_conf \o disk)
    BY <2>1, JoinIs, SoundJoin
  <2> QED
    BY <2>2, OrderlyIs DEF Orderly, NginxAccepts
<1> QED
  BY <1>1, SoundAlways, Types, PTL

-----------------------------------------------------------------------------
(* The domains whose challenges were treated.                              *)
Listed(s) == {s[k] : k \in DOMAIN s}

Answered(c, config, d) ==
    /\ AnswersHttp(config, d)
    /\ HttpNamed(config, d) # {} \/ \E k \in DOMAIN c : c[k].answers = {d}

AnsweredInv ==
    /\ pc \in {"perform", "save_challenge", "restart_challenge"} =>
           \A d \in Domain : d \in Listed(todo) \/ Answered(blocks, parsed, d)
    /\ pc \in {"save_challenge", "restart_challenge", "validate"} => todo = <<>>
    /\ pc = "restart_challenge" => disk = parsed /\ challenge_conf = blocks
    /\ ChallengeServed

(* nginx picks a block with the answer, before or after the configuration. *)
LEMMA AnsweredServed ==
    ASSUME NEW c \in Seq(ChallengeBlocks), NEW config \in Config, Sound(config), NEW d \in Domain,
           Answered(c, config, d)
    PROVE  LET i == Serving(c \o config, HttpPort, d)
           IN  i # 0 /\ d \in (c \o config)[i].answers
<1> DEFINE e == c \o config
           n == Len(c)
           S == PortNamed(e, HttpPort, d)
<1>1. /\ e \in Config /\ n \in Nat /\ DOMAIN c = 1..n
      /\ \A i \in DOMAIN e :
            \/ i \in DOMAIN c /\ e[i] = c[i] /\ c[i] \in ChallengeBlocks
            \/ i > n /\ i - n \in DOMAIN config /\ e[i] = config[i - n]
      /\ \A i \in DOMAIN config : n + i \in DOMAIN e /\ e[n + i] = config[i]
      /\ DOMAIN c \subseteq DOMAIN e
  <2>1. \A i \in DOMAIN c : i \in DOMAIN e
    BY JoinIs
  <2> QED
    BY <2>1, JoinIs
<1>2. Sound(e)
  BY SoundJoin
<1> HIDE DEF e, n
<1>3. ASSUME NEW i \in S PROVE d \in e[i].answers
  <2>1. i \in DOMAIN e /\ HttpPort \in Ports(e[i]) /\ \E m \in e[i].names : d \in m.matches
    BY <1>3 DEF PortNamed, Named
  <2>2. CASE e[i] \in ChallengeBlocks
    <3>1. PICK x \in Domain : e[i].names = {Exact(x)} /\ e[i].answers = {x}
      BY <2>2, ChallengeBlockIs
    <3>2. x = d
      BY <2>1, <3>1 DEF Exact
    <3> QED
      BY <3>1, <3>2
  <2>3. CASE i - n \in DOMAIN config /\ e[i] = config[i - n]
    BY <2>1, <2>3 DEF HttpNamed, Named, AnswersHttp, Answered
  <2> QED
    BY <1>1, <2>1, <2>2, <2>3
<1>4. S # {}
  <2>1. CASE HttpNamed(config, d) # {}
    <3>1. PICK i \in DOMAIN config : /\ HttpPort \in Ports(config[i])
                                     /\ \E m \in config[i].names : d \in m.matches
      BY <2>1 DEF HttpNamed, Named
    <3>2. n + i \in DOMAIN e /\ e[n + i] = config[i]
      BY <1>1
    <3>3. n + i \in S
      BY <3>1, <3>2 DEF PortNamed, Named
    <3> QED
      BY <3>3
  <2>2. CASE \E k \in DOMAIN c : c[k].answers = {d}
    <3>1. PICK k \in DOMAIN c : c[k].answers = {d}
      BY <2>2
    <3>2. k \in DOMAIN e /\ e[k] = c[k] /\ c[k] \in ChallengeBlocks
      BY <1>1
    <3>3. PICK x \in Domain : c[k].names = {Exact(x)} /\ c[k].answers = {x}
      BY <3>2, ChallengeBlockIs
    <3>4. x = d
      BY <3>1, <3>3
    <3>5. d \in Exact(d).matches
      BY DEF Exact
    <3>6. HttpPort \in Ports(c[k])
      BY <3>2, ChallengeBlockIs
    <3>7. k \in S
      BY <3>2, <3>3, <3>4, <3>5, <3>6 DEF PortNamed, Named
    <3> QED
      BY <3>7
  <2> QED
    BY <2>1, <2>2 DEF Answered
<1>5. Serving(e, HttpPort, d) \in S
  BY <1>1, <1>2, <1>4, ServingNamed DEF Sound
<1>6. Serving(e, HttpPort, d) \in DOMAIN e
  BY <1>5 DEF PortNamed, Named
<1>7. Serving(e, HttpPort, d) # 0
  BY <1>1, <1>6, IndexFinite
<1> QED
  BY <1>3, <1>5, <1>7 DEF e

LEMMA ListedIs ==
    ASSUME NEW S, NEW s \in Seq(S), s # <<>>
    PROVE  Head(s) \in S /\ Tail(s) \in Seq(S) /\ Listed(s) = {Head(s)} \cup Listed(Tail(s))
<1>1. Listed(s) \subseteq {Head(s)} \cup Listed(Tail(s))
  <2> SUFFICES ASSUME NEW k \in DOMAIN s
               PROVE  s[k] = Head(s) \/ \E j \in DOMAIN Tail(s) : s[k] = Tail(s)[j]
    BY DEF Listed
  <2>1. CASE k = 1
    BY <2>1
  <2>2. CASE k # 1
    <3>1. k - 1 \in DOMAIN Tail(s) /\ Tail(s)[k - 1] = s[k]
      BY <2>2
    <3> QED
      BY <3>1
  <2> QED
    BY <2>1, <2>2
<1>2. \A j \in DOMAIN Tail(s) : j + 1 \in DOMAIN s /\ Tail(s)[j] = s[j + 1]
  OBVIOUS
<1>3. 1 \in DOMAIN s /\ Head(s) = s[1] /\ Head(s) \in S /\ Tail(s) \in Seq(S)
  OBVIOUS
<1> QED
  BY <1>1, <1>2, <1>3 DEF Listed

(* A step keeps the domains answered that are done.                        *)
LEMMA AnsweredNext ==
    ASSUME Listed(Domains) = Domain, TypeOK, SoundInv, AnsweredInv, [Next]_vars
    PROVE  AnsweredInv'
<1> USE DEF files, history, memory, process, Go
<1> DEFINE Before == {"perform", "save_challenge", "restart_challenge"}
<1>1. parsed \in Config /\ new_vhost \in 0..Len(parsed) /\ todo \in Seq(Domain)
  BY DEF TypeOK, Config
<1>2. Sound(parsed) /\ {blocks, challenge_conf} \subseteq Seq(ChallengeBlocks)
  BY DEF SoundInv, Within, SoundConfigs, ChallengeInv
<1>3. pc' \notin Before \cup {"validate"} => AnsweredInv'
  BY DEF AnsweredInv, ChallengeServed
<1>4. ASSUME NEW c \in {"run", "install", "enhance", "rollback"}, NEW S, Start(c, S)
      PROVE  AnsweredInv'
  <2>1. CASE c = "run"
    <3>1. pc' = "perform" /\ todo' = Domains
      BY <1>4, <2>1 DEF Start
    <3>2. Listed(todo') = Domain
      BY <3>1
    <3> QED
      BY <3>1, <3>2 DEF AnsweredInv, ChallengeServed
  <2>2. CASE c # "run"
    <3>1. pc' \notin Before \cup {"validate"}
      BY <1>4, <2>2 DEF Start
    <3> QED
      BY <1>3, <3>1
  <2> QED
    BY <2>1, <2>2
<1>5. CASE Perform
  <2> DEFINE d == Head(todo)
  <2>1. todo # <<>> /\ pc = "perform" /\ pc' = "perform" /\ todo' = Tail(todo)
    BY <1>5 DEF Perform
  <2>2. PICK o \in Challenged(parsed, new_vhost, d) :
            /\ parsed' = o.config /\ new_vhost' = o.vhost
            /\ blocks' = IF o.own THEN Append(blocks, ChallengeBlock(d)) ELSE blocks
    BY <1>5 DEF Perform
  <2>3. d \in Domain /\ Listed(todo) = {d} \cup Listed(Tail(todo))
    BY <1>1, <2>1, ListedIs
  <2> HIDE DEF d
  <2>4. OnHttp(parsed, new_vhost)
    BY <2>1 DEF SoundInv, ChallengeInv
  <2>5. /\ AnswersHttp(o.config, d) /\ (o.own \/ HttpNamed(o.config, d) # {})
        /\ \A c \in Domain \ {d} :
              /\ HttpNamed(o.config, c) = HttpNamed(parsed, c)
              /\ AnswersHttp(parsed, c) => AnswersHttp(o.config, c)
    BY <1>1, <1>2, <2>2, <2>3, <2>4, ChallengedIs
  <2>6. /\ \A k \in DOMAIN blocks : k \in DOMAIN blocks' /\ blocks'[k] = blocks[k]
        /\ o.own => \E k \in DOMAIN blocks' : blocks'[k].answers = {d}
    <3>1. ChallengeBlock(d).answers = {d} /\ ChallengeBlock(d) \in ChallengeBlocks
      BY <2>3 DEF ChallengeBlock, Bare, ChallengeBlocks
    <3>2. blocks \in Seq(ChallengeBlocks)
      BY <1>2
    <3>3. CASE o.own
      <4>1. blocks' = Append(blocks, ChallengeBlock(d))
        BY <2>2, <3>3
      <4>2. Len(blocks) + 1 \in DOMAIN blocks' /\ blocks'[Len(blocks) + 1] = ChallengeBlock(d)
            /\ \A k \in DOMAIN blocks : k \in DOMAIN blocks' /\ blocks'[k] = blocks[k]
        BY <3>1, <3>2, <4>1
      <4> QED
        BY <3>1, <4>2
    <3>4. CASE ~ o.own
      BY <2>2, <3>4
    <3> QED
      BY <3>3, <3>4
  <2>7. Answered(blocks', parsed', d)
    BY <2>2, <2>5, <2>6 DEF Answered
  <2>8. ASSUME NEW c \in Domain \ {d}, Answered(blocks, parsed, c)
        PROVE  Answered(blocks', parsed', c)
    <3>1. /\ HttpNamed(o.config, c) = HttpNamed(parsed, c)
          /\ AnswersHttp(o.config, c)
      BY <2>5, <2>8 DEF Answered
    <3>2. HttpNamed(o.config, c) # {} \/ \E k \in DOMAIN blocks' : blocks'[k].answers = {c}
      BY <2>6, <2>8, <3>1 DEF Answered
    <3> QED
      BY <2>2, <3>1, <3>2 DEF Answered
  <2>9. \A c \in Domain : c \in Listed(todo') \/ Answered(blocks', parsed', c)
    BY <2>1, <2>3, <2>7, <2>8 DEF AnsweredInv
  <2> QED
    BY <2>1, <2>9 DEF AnsweredInv, ChallengeServed, Listed
<1>6. CASE Performed
  <2>1. /\ pc = "perform" /\ todo = <<>> /\ pc' = "save_challenge"
        /\ UNCHANGED <<parsed, blocks, todo>>
    BY <1>6 DEF Performed
  <2>2. \A d \in Domain : d \in Listed(todo') \/ Answered(blocks', parsed', d)
    BY <2>1 DEF AnsweredInv
  <2> QED
    BY <2>1, <2>2 DEF AnsweredInv, ChallengeServed, Listed
<1>7. CASE SaveChallenge
  <2>1. /\ pc = "save_challenge" /\ pc' = "restart_challenge" /\ UNCHANGED <<parsed, blocks, todo>>
        /\ disk' = parsed /\ challenge_conf' = blocks
    BY <1>7 DEF SaveChallenge
  <2>2. \A d \in Domain : d \in Listed(todo') \/ Answered(blocks', parsed', d)
    BY <2>1 DEF AnsweredInv
  <2> QED
    BY <2>1, <2>2 DEF AnsweredInv, ChallengeServed, Listed
<1>8. CASE RestartForChallenge
  <2>1. /\ pc = "restart_challenge" /\ pc' = "validate" /\ UNCHANGED todo
        /\ running' = challenge_conf \o disk
    BY <1>8 DEF RestartForChallenge, Loaded
  <2>2. running' = blocks \o parsed /\ todo = <<>>
    BY <2>1 DEF AnsweredInv
  <2>3. ASSUME NEW d \in Domain PROVE Answered(blocks, parsed, d)
    BY <2>1, <2>2 DEF AnsweredInv, Listed
  <2>4. ASSUME NEW d \in Domain
        PROVE  LET i == Serving(running', HttpPort, d) IN i # 0 /\ d \in running'[i].answers
    <3>1. Answered(blocks, parsed, d) /\ blocks \in Seq(ChallengeBlocks)
      BY <1>2, <2>3
    <3>2. LET i == Serving(blocks \o parsed, HttpPort, d)
          IN  i # 0 /\ d \in (blocks \o parsed)[i].answers
      BY <1>1, <1>2, <3>1, AnsweredServed
    <3> QED
      BY <2>2, <3>2
  <2>5. ChallengeServed'
    BY <2>4 DEF ChallengeServed, Serving, DefaultServer, Defaults, Named, Ports
  <2> QED
    BY <2>1, <2>2, <2>5 DEF AnsweredInv
<1>9. CASE \/ Kill \/ End \/ Fail \/ Validate \/ Cleanup \/ RestartClean \/ Obtained
            \/ SaveDeployed \/ FinalizeDeployed \/ Restart \/ EnhanceConfig
  <2>1. pc' \notin Before \cup {"validate"}
    BY <1>9 DEF Kill, End, Forget, Fail, Handler, Validate, Cleanup, RestartClean, Obtained,
                 SaveDeployed, FinalizeDeployed, Restart, EnhanceConfig
  <2> QED
    BY <1>3, <2>1
<1>10. CASE \/ DeployCert \/ Enhance \/ SaveEnhancement \/ FinalizeEnhancement
            \/ RestartEnhanced \/ Recover \/ RollbackCheckpoints \/ RestartRolledBack
  <2>1. pc' \notin Before \cup {"validate"}
    BY <1>10 DEF DeployCert, Enhance, SaveEnhancement, FinalizeEnhancement, RestartEnhanced,
                 Recover, RollbackCheckpoints, RestartRolledBack
  <2> QED
    BY <1>3, <2>1
<1>11. CASE UNCHANGED vars
  BY <1>11 DEF vars, AnsweredInv, Listed, ChallengeServed
<1> QED
  BY <1>4, <1>5, <1>6, <1>7, <1>8, <1>9, <1>10, <1>11 DEF Next

(* Whoever asks for a domain while the CA validates gets its answer, when  *)
(* the certificate is for all domains.                                     *)
THEOREM ChallengeServedAlways ==
    ASSUME \A config \in Configurations : Orderly(config), Listed(Domains) = Domain
    PROVE  Spec => []ChallengeServed
<1>1. Init => AnsweredInv
  BY DEF Init, AnsweredInv, ChallengeServed
<1>2. TypeOK /\ SoundInv /\ AnsweredInv /\ [Next]_vars => AnsweredInv'
  BY AnsweredNext
<1>3. AnsweredInv => ChallengeServed
  BY DEF AnsweredInv
<1> QED
  BY <1>1, <1>2, <1>3, SoundAlways, Types, PTL DEF Spec

-----------------------------------------------------------------------------
(* How the block that serves a domain changes with the blocks.             *)
LEMMA RankSame ==
    ASSUME NEW config, NEW e, NEW i, NEW j, NEW d, Matching(e[j], d) = Matching(config[i], d)
    PROVE  /\ NameRank(e, j, d) = NameRank(config, i, d)
           /\ NameLength(e, j, d) = NameLength(config, i, d)
<1>1. NameRank(e, j, d) = NameRank(config, i, d)
  BY DEF NameRank, Matching
<1>2. \A r : {n \in e[j].names : d \in n.matches /\ Precedence[n.kind] = r}
             = {n \in config[i].names : d \in n.matches /\ Precedence[n.kind] = r}
  BY DEF Matching
<1> QED
  BY <1>1, <1>2 DEF NameLength

LEMMA BeatsOnce ==
    ASSUME NEW config \in Config, FiniteNames(config), NEW d \in Domain,
           NEW i \in Named(config, d), NEW j \in Named(config, d),
           Beats(config, d, i, j), Beats(config, d, j, i)
    PROVE  FALSE
<1>1. /\ NameRank(config, i, d) \in Nat /\ NameLength(config, i, d) \in Nat
      /\ NameRank(config, j, d) \in Nat /\ NameLength(config, j, d) \in Nat
      /\ i \in Nat /\ j \in Nat
  BY RankIs, IndexFinite
<1> QED
  BY <1>1 DEF Beats

(* The blocks that listen on port for d are the same.                      *)
AsBefore(config, e, port, d) ==
    /\ PortNamed(e, port, d) = PortNamed(config, port, d)
    /\ \A i \in PortNamed(config, port, d) : Matching(e[i], d) = Matching(config[i], d)

(* A domain is served by the same block, if the same blocks are named for  *)
(* it as before.                                                           *)
LEMMA ServingSame ==
    ASSUME NEW config \in Config, FiniteNames(config), NEW e \in Config, FiniteNames(e),
           NEW d \in Domain, NEW port, AsBefore(config, e, port, d),
           PortNamed(config, port, d) # {}
    PROVE  Serving(e, port, d) = Serving(config, port, d)
<1> DEFINE s == Serving(config, port, d)
           S == PortNamed(config, port, d)
<1>1. s \in S /\ \A j \in S \ {s} : Beats(config, d, s, j)
  BY ServingNamed
<1>2. PortNamed(e, port, d) = S /\ \A i \in S : Matching(e[i], d) = Matching(config[i], d)
  BY DEF AsBefore
<1> HIDE DEF s, S
<1>3. \A j \in S \ {s} : Beats(e, d, s, j)
  BY <1>1, <1>2, RankSame DEF Beats
<1> QED
  BY <1>1, <1>2, <1>3, ServingIs DEF s

(* One more block listens.                                                 *)
LEMMA ServingMore ==
    ASSUME NEW config \in Config, FiniteNames(config), NEW e \in Config, FiniteNames(e),
           NEW d \in Domain, NEW port, PortNamed(config, port, d) # {}, NEW k,
           PortNamed(e, port, d) = PortNamed(config, port, d) \cup {k},
           \A i \in PortNamed(config, port, d) : Matching(e[i], d) = Matching(config[i], d)
    PROVE  Serving(e, port, d) \in {k, Serving(config, port, d)}
<1> DEFINE s == Serving(config, port, d)
           t == Serving(e, port, d)
           S == PortNamed(config, port, d)
<1>1. s \in S /\ \A j \in S \ {s} : Beats(config, d, s, j)
  BY ServingNamed
<1>2. t \in S \cup {k} /\ \A j \in (S \cup {k}) \ {t} : Beats(e, d, t, j)
  BY ServingNamed
<1> HIDE DEF s, t, S
<1>3. ASSUME t # k, t # s PROVE FALSE
  <2>1. t \in S /\ Beats(config, d, s, t) /\ Beats(e, d, t, s)
    BY <1>1, <1>2, <1>3
  <2>2. Beats(config, d, t, s)
    BY <1>1, <2>1, RankSame DEF Beats, S
  <2> QED
    BY <1>1, <2>1, <2>2, BeatsOnce DEF S, PortNamed
<1> QED
  BY <1>3 DEF s, t

(* Where the configuration is unambiguous, the order of the blocks does    *)
(* not count.                                                              *)
BeatsByName(config, d, i, j) ==
    \/ NameRank(config, i, d) < NameRank(config, j, d)
    \/ /\ NameRank(config, i, d) = NameRank(config, j, d)
       /\ NameRank(config, i, d) \in {1, 2}
       /\ NameLength(config, i, d) > NameLength(config, j, d)

(* Where a configuration is unambiguous, order in the file decides         *)
(* nothing.                                                                *)
LEMMA BeatsByNameIs ==
    ASSUME NEW config \in Config, FiniteNames(config), Unambiguous(config), NEW d \in Domain,
           NEW i \in HttpNamed(config, d), NEW j \in HttpNamed(config, d), i # j,
           Beats(config, d, i, j)
    PROVE  BeatsByName(config, d, i, j)
<1>1. /\ i \in Named(config, d) /\ j \in Named(config, d)
      /\ i \in DOMAIN config /\ j \in DOMAIN config
      /\ HttpPort \in Ports(config[i]) /\ HttpPort \in Ports(config[j])
  BY DEF HttpNamed, Named
<1>2. PICK n \in Matching(config[i], d) :
          Precedence[n.kind] = NameRank(config, i, d) /\ n.length = NameLength(config, i, d)
  BY <1>1, RankIs
<1>3. PICK m \in Matching(config[j], d) :
          Precedence[m.kind] = NameRank(config, j, d) /\ m.length = NameLength(config, j, d)
  BY <1>1, RankIs
<1>4. /\ n \in config[i].names /\ m \in config[j].names /\ d \in n.matches \cap m.matches
  BY DEF Matching
<1>5. Apart(config[i], config[j])
  BY <1>1, UnambiguousIs
<1>6. n.kind # m.kind \/ (n.kind \in {"start", "end"} /\ n.length # m.length)
  BY <1>4, <1>5 DEF Apart
<1>7. /\ Precedence[n.kind] = Precedence[m.kind] => n.kind = m.kind
      /\ n.kind \in {"start", "end"} <=> Precedence[n.kind] \in {1, 2}
  BY <1>1, <1>4, KindsAre
<1> QED
  BY <1>2, <1>3, <1>6, <1>7 DEF Beats, BeatsByName

(* The names of a block that listens for http go to another.               *)
LEMMA ServingMoved ==
    ASSUME NEW config \in Config, FiniteNames(config), Unambiguous(config),
           NEW e \in Config, FiniteNames(e), NEW d \in Domain,
           NEW i \in HttpNamed(config, d), NEW n, n \notin DOMAIN config,
           HttpNamed(e, d) = (HttpNamed(config, d) \ {i}) \cup {n},
           Matching(e[n], d) = Matching(config[i], d),
           \A j \in HttpNamed(config, d) \ {i} : Matching(e[j], d) = Matching(config[j], d)
    PROVE  Serving(e, HttpPort, d) = IF Serving(config, HttpPort, d) = i
                                     THEN n ELSE Serving(config, HttpPort, d)
<1> DEFINE s == Serving(config, HttpPort, d)
           S == HttpNamed(config, d)
           t == IF s = i THEN n ELSE s
<1>1. S = PortNamed(config, HttpPort, d) /\ HttpNamed(e, d) = PortNamed(e, HttpPort, d)
  BY DEF PortNamed, HttpNamed
<1>2. s \in S /\ \A j \in S \ {s} : Beats(config, d, s, j)
  BY <1>1, ServingNamed
<1>3. \A j \in S : j \in DOMAIN config
  BY DEF HttpNamed, Named
<1> HIDE DEF s
<1>4. \A j \in S \ {s} : BeatsByName(config, d, s, j)
  BY <1>2, BeatsByNameIs
<1>5. t \in (S \ {i}) \cup {n} /\ \A j \in ((S \ {i}) \cup {n}) \ {t} : Beats(e, d, t, j)
  <2>1. CASE s = i
    <3>1. t = n
      BY <2>1
    <3>2. ASSUME NEW j \in S \ {i} PROVE Beats(e, d, n, j)
      <4>1. BeatsByName(config, d, i, j)
        BY <1>4, <2>1
      <4>2. /\ NameRank(e, n, d) = NameRank(config, i, d)
            /\ NameLength(e, n, d) = NameLength(config, i, d)
            /\ NameRank(e, j, d) = NameRank(config, j, d)
            /\ NameLength(e, j, d) = NameLength(config, j, d)
        BY RankSame
      <4> QED
        BY <4>1, <4>2 DEF Beats, BeatsByName
    <3> QED
      BY <3>1, <3>2
  <2>2. CASE s # i
    <3>1. t = s /\ s \in S \ {i}
      BY <1>2, <2>2
    <3>2. /\ NameRank(e, s, d) = NameRank(config, s, d)
          /\ NameLength(e, s, d) = NameLength(config, s, d)
      BY <3>1, RankSame
    <3>3. Beats(e, d, s, n)
      <4>1. BeatsByName(config, d, s, i)
        BY <1>4, <2>2
      <4>2. /\ NameRank(e, n, d) = NameRank(config, i, d)
            /\ NameLength(e, n, d) = NameLength(config, i, d)
        BY RankSame
      <4> QED
        BY <3>2, <4>1, <4>2 DEF Beats, BeatsByName
    <3>4. ASSUME NEW j \in S \ {i}, j # s PROVE Beats(e, d, s, j)
      <4>1. BeatsByName(config, d, s, j)
        BY <1>4, <3>4
      <4>2. /\ NameRank(e, j, d) = NameRank(config, j, d)
            /\ NameLength(e, j, d) = NameLength(config, j, d)
        BY RankSame
      <4> QED
        BY <3>2, <4>1, <4>2 DEF Beats, BeatsByName
    <3> QED
      BY <3>1, <3>3, <3>4
  <2> QED
    BY <2>1, <2>2
<1> HIDE DEF t, S
<1>6. Serving(e, HttpPort, d) = t
  BY <1>1, <1>5, ServingIs DEF S
<1> QED
  BY <1>6 DEF t, s

-----------------------------------------------------------------------------
(* What a step does to the blocks that are named for a domain.             *)
Redirects(config) == UNION {config[i].redirects : i \in DOMAIN config}
HttpsNamed(config, d) == PortNamed(config, HttpsPort, d)

(* A block that is named and listens as before.                            *)
LEMMA QuietIs ==
    ASSUME NEW config \in Config, NEW e, NEW i, NEW b, Changes(config, e, i, b),
           b.listen = config[i].listen, b.names = config[i].names, NEW d \in Domain
    PROVE  /\ Named(e, d) = Named(config, d)
           /\ \A port : AsBefore(config, e, port, d)
           /\ HttpNamed(e, d) = HttpNamed(config, d)
           /\ \A j \in DOMAIN config : Ports(e[j]) = Ports(config[j])
<1>1. /\ DOMAIN e = DOMAIN config
      /\ \A j \in DOMAIN config : e[j].names = config[j].names /\ e[j].listen = config[j].listen
  BY DEF Changes
<1>2. /\ \A j \in DOMAIN config : Ports(e[j]) = Ports(config[j])
      /\ \A j \in DOMAIN config : Matching(e[j], d) = Matching(config[j], d)
  BY <1>1 DEF Ports, Matching
<1>3. Named(e, d) = Named(config, d) /\ Named(config, d) \subseteq DOMAIN config
  BY <1>1 DEF Named
<1>4. \A port : PortNamed(e, port, d) = PortNamed(config, port, d)
  BY <1>2, <1>3 DEF PortNamed
<1>5. \A port : \A j \in PortNamed(config, port, d) : j \in DOMAIN config
  BY <1>3 DEF PortNamed
<1>6. HttpNamed(e, d) = HttpNamed(config, d)
  BY <1>2, <1>3 DEF HttpNamed
<1> QED
  BY <1>2, <1>3, <1>4, <1>5, <1>6 DEF AsBefore

(* A block that listens for https too.                                     *)
SecureView(config, e, i, d) ==
    /\ Named(e, d) = Named(config, d) /\ HttpNamed(e, d) = HttpNamed(config, d)
    /\ i \in Named(config, d) => HttpsNamed(e, d) = HttpsNamed(config, d) \cup {i}
    /\ i \notin Named(config, d) => HttpsNamed(e, d) = HttpsNamed(config, d)
    /\ \A j \in DOMAIN config : Matching(e[j], d) = Matching(config[j], d)
    /\ \A j \in DOMAIN config : e[j].redirects = config[j].redirects
    /\ Redirects(e) = Redirects(config)
    /\ HttpsPort \in Ports(e[i])

(* _make_server_ssl adds a block to those of the https port.               *)
LEMMA SecurePorts ==
    ASSUME NEW config \in Config, NEW e, NEW i, Changes(config, e, i, Secure(config[i])),
           NEW d \in Domain
    PROVE  SecureView(config, e, i, d)
<1>1. /\ DOMAIN e = DOMAIN config /\ i \in DOMAIN config
      /\ \A j \in DOMAIN config : j # i => e[j] = config[j]
      /\ e[i].listen = config[i].listen \cup {Listen(HttpsPort, TRUE)}
                       \cup (IF config[i].listen = {} THEN {Listen(HttpPort, FALSE)} ELSE {})
      /\ e[i].names = config[i].names /\ e[i].redirects = config[i].redirects
  <2>1. config[i] \in Block
    BY DEF Config, Changes
  <2> QED
    BY <2>1, SecureFields DEF Changes
<1>2. Listen(HttpsPort, TRUE).port = HttpsPort /\ Listen(HttpPort, FALSE).port = HttpPort
      /\ HttpPort # HttpsPort
  BY PortAssumption DEF Listen
<1>3. Ports(e[i]) = Ports(config[i]) \cup {HttpsPort}
  <2>1. CASE config[i].listen = {}
    <3>1. e[i].listen = {Listen(HttpsPort, TRUE), Listen(HttpPort, FALSE)}
      BY <1>1, <2>1
    <3>2. Ports(e[i]) = {HttpsPort, HttpPort}
      BY <1>2, <3>1 DEF Ports
    <3> QED
      BY <2>1, <3>2 DEF Ports
  <2>2. CASE config[i].listen # {}
    <3>1. e[i].listen = config[i].listen \cup {Listen(HttpsPort, TRUE)}
      BY <1>1, <2>2
    <3> HIDE <1>1
    <3>2. Ports(e[i]) = {l.port : l \in config[i].listen} \cup {HttpsPort}
      BY <1>2, <3>1 DEF Ports
    <3> QED
      BY <2>2, <3>2 DEF Ports
  <2> QED
    BY <2>1, <2>2
<1>4. \A j \in DOMAIN config : e[j].names = config[j].names /\ e[j].redirects = config[j].redirects
  BY <1>1
<1>5. Named(e, d) = Named(config, d) /\ Named(config, d) \subseteq DOMAIN config
  BY <1>1, <1>4 DEF Named
<1>6. \A j \in DOMAIN config : Matching(e[j], d) = Matching(config[j], d)
  BY <1>4 DEF Matching
<1>7. HttpNamed(e, d) = HttpNamed(config, d)
  BY <1>1, <1>2, <1>3, <1>5 DEF HttpNamed
<1>8. /\ i \in Named(config, d) => HttpsNamed(e, d) = HttpsNamed(config, d) \cup {i}
      /\ i \notin Named(config, d) => HttpsNamed(e, d) = HttpsNamed(config, d)
  BY <1>1, <1>3, <1>5 DEF HttpsNamed, PortNamed
<1>9. Redirects(e) = Redirects(config)
  BY <1>1, <1>4 DEF Redirects
<1> QED
  BY <1>3, <1>4, <1>5, <1>6, <1>7, <1>8, <1>9 DEF SecureView

(* A block whose plain directives go to a new one, if it has both kinds.   *)
SplitView(config, e, i, h, n, d) ==
    /\ n \notin DOMAIN config /\ DOMAIN e = DOMAIN config \cup {n}
    /\ AsBefore(config, e, HttpsPort, d) /\ HttpsNamed(e, d) = HttpsNamed(config, d)
    /\ Named(config, d) \subseteq Named(e, d)
    /\ i \in HttpNamed(config, d) => HttpNamed(e, d) = (HttpNamed(config, d) \ {i}) \cup {n}
    /\ i \notin HttpNamed(config, d) => HttpNamed(e, d) = HttpNamed(config, d)
    /\ \A j \in DOMAIN config : Matching(e[j], d) = Matching(config[j], d)
    /\ Matching(e[n], d) = Matching(config[i], d)
    /\ \A j \in DOMAIN config : e[j].redirects = config[j].redirects
    /\ \A j \in DOMAIN config : e[j].cert = config[j].cert
    /\ e[n].redirects = h.redirects
    /\ \A j \in DOMAIN config : j # i => Ports(e[j]) = Ports(config[j])
    /\ HttpsPort \notin Ports(e[n])

(* _split_block moves a block from the http port to a new one.             *)
LEMMA SplitPorts ==
    ASSUME NEW config \in Config, Regular(config), NEW i \in DOMAIN config,
           \E l \in config[i].listen : l.ssl, \E l \in config[i].listen : ~ l.ssl,
           NEW h \in Block, h.names = config[i].names,
           NEW e, Splits(config, e, i, OldHalf(config[i]), NewHalf(config[i], h)),
           NEW n, n = Len(config) + 1, NEW d \in Domain
    PROVE  SplitView(config, e, i, h, n, d)
<1>1. /\ DOMAIN e = DOMAIN config \cup {n} /\ n \notin DOMAIN config
      /\ \A j \in DOMAIN config : j # i => e[j] = config[j]
      /\ e[i].listen = {l \in config[i].listen : l.ssl}
      /\ e[n].listen = {l \in config[i].listen : ~ l.ssl}
      /\ e[i].cert = config[i].cert /\ e[i].names = config[i].names /\ e[n].names = config[i].names
      /\ e[i].redirects = config[i].redirects /\ e[n].redirects = h.redirects
  <2>1. config[i] \in Block
    BY DEF Config
  <2> QED
    BY <2>1, HalfFields DEF Splits
<1>2. \A l \in config[i].listen : (l.port = HttpPort => ~ l.ssl) /\ (l.port = HttpsPort => l.ssl)
  BY DEF Regular, Sound, Words
<1>3. /\ HttpsPort \in Ports(e[i]) <=> HttpsPort \in Ports(config[i])
      /\ HttpPort \notin Ports(e[i]) /\ HttpsPort \notin Ports(e[n])
      /\ HttpPort \in Ports(e[n]) <=> HttpPort \in Ports(config[i])
  <2>1. /\ config[i].listen # {} /\ e[i].listen # {} /\ e[n].listen # {}
    BY <1>1
  <2> QED
    BY <1>1, <1>2, <2>1 DEF Ports
<1>4. \A j \in DOMAIN config : /\ e[j].names = config[j].names
                               /\ e[j].redirects = config[j].redirects /\ e[j].cert = config[j].cert
  BY <1>1
<1>5. \A j \in DOMAIN config : j # i => Ports(e[j]) = Ports(config[j])
  BY <1>1
<1>6. /\ Named(config, d) \subseteq DOMAIN config
      /\ \A j \in DOMAIN config : j \in Named(e, d) <=> j \in Named(config, d)
      /\ n \in Named(e, d) <=> i \in Named(config, d)
      /\ Named(e, d) \subseteq DOMAIN config \cup {n}
  BY <1>1, <1>4 DEF Named
<1>7. /\ \A j \in DOMAIN config : Matching(e[j], d) = Matching(config[j], d)
      /\ Matching(e[n], d) = Matching(config[i], d)
  BY <1>1, <1>4 DEF Matching
<1>8. HttpsNamed(e, d) = HttpsNamed(config, d)
  BY <1>1, <1>3, <1>5, <1>6 DEF HttpsNamed, PortNamed
<1>9. AsBefore(config, e, HttpsPort, d)
  BY <1>6, <1>7, <1>8 DEF AsBefore, HttpsNamed, PortNamed
<1>10. i \in HttpNamed(config, d) => HttpNamed(e, d) = (HttpNamed(config, d) \ {i}) \cup {n}
  BY <1>1, <1>3, <1>5, <1>6 DEF HttpNamed
<1>11. i \notin HttpNamed(config, d) => HttpNamed(e, d) = HttpNamed(config, d)
  BY <1>1, <1>3, <1>5, <1>6 DEF HttpNamed
<1> QED
  BY <1>1, <1>3, <1>4, <1>5, <1>6, <1>7, <1>8, <1>9, <1>10, <1>11 DEF SplitView

-----------------------------------------------------------------------------
(* https serves d with the certificate; does not redirect it to itself;    *)
(* and http, if it is served by name, redirects it.                        *)
Deployed(config, d) ==
    /\ Serving(config, HttpsPort, d) \in Named(config, d)
    /\ config[Serving(config, HttpsPort, d)].cert = "new"
LeadsTo(config, d) ==
    /\ Serving(config, HttpsPort, d) \in Named(config, d)
    /\ d \notin config[Serving(config, HttpsPort, d)].redirects
Redirected(config, d) ==
    Serving(config, HttpPort, d) \in Named(config, d) =>
        /\ d \in config[Serving(config, HttpPort, d)].redirects
        /\ HttpsPort \notin Ports(config[Serving(config, HttpPort, d)])

(* No redirect is missing where there are some: what has http only has one.*)
Fulfilled(config, d) ==
    HttpNamed(config, d) # {} => d \in Redirects(config) \/ HttpsNamed(config, d) # {}
Complete(config) == Redirects(config) = {} \/ \A d \in Domain : Fulfilled(config, d)

Preserves(config, e) ==
    /\ Redirects(e) = Redirects(config)
    /\ \A x \in Domain : Fulfilled(config, x) => Fulfilled(e, x)
Improves(config, e) ==
    \A x \in Domain : /\ LeadsTo(config, x) => LeadsTo(e, x)
                      /\ Deployed(config, x) => Deployed(e, x)
                      /\ Redirected(config, x) => Redirected(e, x)

LEMMA RedirectsLeadIs ==
    ASSUME NEW config \in Config
    PROVE  /\ Redirects(config) \subseteq Domain
           /\ RedirectsLead(config) <=> \A x \in Redirects(config) : LeadsTo(config, x)
<1>1. \A i \in DOMAIN config : config[i].redirects \subseteq Domain
  <2> TAKE i \in DOMAIN config
  <2>1. config[i] \in Block
    BY DEF Config
  <2> QED
    BY <2>1 DEF Block
<1> QED
  BY <1>1 DEF Redirects, RedirectsLead, LeadsTo

(* What is served by name, for https: of the blocks that are named.        *)
LEMMA ServedByName ==
    ASSUME NEW config \in Config, FiniteNames(config), NEW port, NEW d \in Domain,
           Serving(config, port, d) \in Named(config, d)
    PROVE  /\ PortNamed(config, port, d) # {}
           /\ Serving(config, port, d) \in PortNamed(config, port, d)
           /\ Serving(config, port, d) \in DOMAIN config
           /\ port \in Ports(config[Serving(config, port, d)])
BY ServingNamed DEF PortNamed, Named

(* A new certificate or a header takes neither https nor a redirect from a *)
(* domain.                                                                 *)
LEMMA QuietKeeps ==
    ASSUME NEW config \in Config, FiniteNames(config), NEW e, NEW i, NEW b,
           Changes(config, e, i, b),
           b.listen = config[i].listen, b.names = config[i].names,
           b.redirects = config[i].redirects, b.cert \in {config[i].cert, "new"}
    PROVE  Preserves(config, e) /\ Improves(config, e)
<1>1. /\ e \in Config /\ DOMAIN e = DOMAIN config
      /\ \A j \in DOMAIN config : /\ e[j].redirects = config[j].redirects
                                  /\ e[j].cert \in {config[j].cert, "new"}
                                  /\ e[j].names = config[j].names
  BY DEF Changes
<1>2. FiniteNames(e)
  BY <1>1 DEF FiniteNames
<1>3. Redirects(e) = Redirects(config)
  BY <1>1 DEF Redirects
<1>4. ASSUME NEW x \in Domain
      PROVE  /\ Fulfilled(config, x) => Fulfilled(e, x)
             /\ LeadsTo(config, x) => LeadsTo(e, x)
             /\ Deployed(config, x) => Deployed(e, x)
             /\ Redirected(config, x) => Redirected(e, x)
  <2>1. /\ Named(e, x) = Named(config, x)
        /\ \A port : AsBefore(config, e, port, x)
        /\ HttpNamed(e, x) = HttpNamed(config, x)
        /\ \A j \in DOMAIN config : Ports(e[j]) = Ports(config[j])
    BY QuietIs
  <2>2. Fulfilled(config, x) => Fulfilled(e, x)
    BY <1>3, <2>1 DEF Fulfilled, HttpsNamed, AsBefore
  <2>3. ASSUME NEW port, Serving(config, port, x) \in Named(config, x)
        PROVE  /\ Serving(e, port, x) = Serving(config, port, x)
               /\ Serving(config, port, x) \in DOMAIN config
    BY <1>1, <1>2, <2>1, <2>3, ServedByName, ServingSame
  <2>4. ASSUME NEW port, Serving(e, port, x) \in Named(e, x)
        PROVE  Serving(config, port, x) \in Named(config, x)
    <3>1. PortNamed(config, port, x) # {}
      BY <1>1, <1>2, <2>1, <2>4, ServedByName DEF AsBefore
    <3> QED
      BY <3>1, ServingNamed DEF PortNamed
  <2>5. LeadsTo(config, x) => LeadsTo(e, x)
    BY <1>1, <2>1, <2>3 DEF LeadsTo
  <2>6. Deployed(config, x) => Deployed(e, x)
    BY <1>1, <2>1, <2>3 DEF Deployed
  <2>7. Redirected(config, x) => Redirected(e, x)
    BY <1>1, <2>1, <2>3, <2>4 DEF Redirected
  <2> QED
    BY <2>2, <2>5, <2>6, <2>7
<1> QED
  BY <1>3, <1>4 DEF Preserves, Improves

(* _make_server_ssl keeps the redirects, and what is fulfilled.            *)
LEMMA SecureKeeps ==
    ASSUME NEW config \in Config, NEW e, NEW i, Changes(config, e, i, Secure(config[i]))
    PROVE  Preserves(config, e)
<1>1. ASSUME NEW x \in Domain
      PROVE  /\ HttpNamed(e, x) = HttpNamed(config, x)
             /\ HttpsNamed(config, x) \subseteq HttpsNamed(e, x)
  <2>1. SecureView(config, e, i, x)
    BY SecurePorts
  <2>2. /\ HttpNamed(e, x) = HttpNamed(config, x)
        /\ i \in Named(config, x) => HttpsNamed(e, x) = HttpsNamed(config, x) \cup {i}
        /\ i \notin Named(config, x) => HttpsNamed(e, x) = HttpsNamed(config, x)
    BY <2>1 DEF SecureView
  <2> QED
    BY <2>2
<1>2. Redirects(e) = Redirects(config)
  <2>1. DOMAIN e = DOMAIN config /\ \A j \in DOMAIN config : e[j].redirects = config[j].redirects
    <3>1. config[i] \in Block
      BY DEF Config, Changes
    <3>2. Secure(config[i]).redirects = config[i].redirects
      BY <3>1, SecureFields
    <3> QED
      BY <3>2 DEF Changes
  <2> QED
    BY <2>1 DEF Redirects
<1> QED
  BY <1>1, <1>2 DEF Preserves, Fulfilled

(* _split_block takes neither https nor a redirect from a domain.          *)
LEMMA SplitKeeps ==
    ASSUME NEW config \in Config, Regular(config), NEW i \in DOMAIN config,
           \E l \in config[i].listen : l.ssl, \E l \in config[i].listen : ~ l.ssl,
           NEW h \in Block, h.names = config[i].names, h.redirects \in {{}, config[i].redirects},
           NEW e, Splits(config, e, i, OldHalf(config[i]), NewHalf(config[i], h))
    PROVE  Preserves(config, e) /\ Improves(config, e)
<1> DEFINE n == Len(config) + 1
<1>1. /\ n \notin DOMAIN config /\ DOMAIN e = DOMAIN config \cup {n}
      /\ \A j \in DOMAIN config : e[j].redirects = config[j].redirects
      /\ \A j \in DOMAIN config : e[j].cert = config[j].cert
      /\ e[n].redirects \subseteq config[i].redirects
      /\ e \in Config
      /\ HttpsPort \in Ports(config[i])
  <2>1. config[i] \in Block
    BY DEF Config
  <2>2. /\ e[i].redirects = config[i].redirects /\ e[n].redirects = h.redirects
        /\ e[i].cert = config[i].cert
        /\ n \notin DOMAIN config /\ DOMAIN e = DOMAIN config \cup {n} /\ e \in Config
        /\ \A j \in DOMAIN config : j # i => e[j] = config[j]
    BY <2>1, HalfFields DEF Splits
  <2>3. HttpsPort \in Ports(config[i])
    BY DEF Regular, HttpsOnly, Ports
  <2> QED
    BY <2>2, <2>3
<1>6. n = Len(config) + 1
  OBVIOUS
<1> HIDE DEF n
<1>2. Sound(config) /\ FiniteNames(config) /\ Unambiguous(config) /\ IsFiniteSet(h.names)
  BY DEF Regular, Sound, FiniteNames
<1>3. FiniteNames(e)
  BY <1>2, SoundSplit DEF Sound
<1>4. Redirects(e) = Redirects(config)
  BY <1>1 DEF Redirects
<1>5. ASSUME NEW x \in Domain
      PROVE  /\ Fulfilled(config, x) => Fulfilled(e, x)
             /\ LeadsTo(config, x) => LeadsTo(e, x)
             /\ Deployed(config, x) => Deployed(e, x)
             /\ Redirected(config, x) => Redirected(e, x)
  <2>1. /\ AsBefore(config, e, HttpsPort, x) /\ HttpsNamed(e, x) = HttpsNamed(config, x)
        /\ Named(config, x) \subseteq Named(e, x)
        /\ i \in HttpNamed(config, x) => HttpNamed(e, x) = (HttpNamed(config, x) \ {i}) \cup {n}
        /\ i \notin HttpNamed(config, x) => HttpNamed(e, x) = HttpNamed(config, x)
        /\ \A j \in DOMAIN config : Matching(e[j], x) = Matching(config[j], x)
        /\ Matching(e[n], x) = Matching(config[i], x)
        /\ \A j \in DOMAIN config : j # i => Ports(e[j]) = Ports(config[j])
    <3>1. SplitView(config, e, i, h, n, x)
      BY <1>6, SplitPorts
    <3> QED
      BY <3>1 DEF SplitView
  <2>2. Fulfilled(config, x) => Fulfilled(e, x)
    BY <1>4, <2>1 DEF Fulfilled
  <2>3. ASSUME Serving(config, HttpsPort, x) \in Named(config, x)
        PROVE  /\ Serving(e, HttpsPort, x) = Serving(config, HttpsPort, x)
               /\ Serving(config, HttpsPort, x) \in DOMAIN config
    BY <1>1, <1>2, <1>3, <2>1, <2>3, ServedByName, ServingSame
  <2>4. LeadsTo(config, x) => LeadsTo(e, x)
    BY <1>1, <2>1, <2>3 DEF LeadsTo
  <2>5. Deployed(config, x) => Deployed(e, x)
    BY <1>1, <2>1, <2>3 DEF Deployed
  <2>6. ASSUME Redirected(config, x), Serving(e, HttpPort, x) \in Named(e, x)
        PROVE  /\ x \in e[Serving(e, HttpPort, x)].redirects
               /\ HttpsPort \notin Ports(e[Serving(e, HttpPort, x)])
    <3> DEFINE s == Serving(config, HttpPort, x)
    <3>1. HttpNamed(e, x) # {}
      BY <1>1, <1>3, <2>6, ServedByName DEF HttpNamed, PortNamed
    <3>2. HttpNamed(config, x) # {} /\ HttpNamed(config, x) = PortNamed(config, HttpPort, x)
      BY <2>1, <3>1 DEF HttpNamed, PortNamed
    <3>3. s \in HttpNamed(config, x)
      BY <1>2, <3>2, ServingNamed
    <3>4. s \in Named(config, x) /\ s \in DOMAIN config
      BY <3>3 DEF HttpNamed, Named
    <3>5. x \in config[s].redirects /\ HttpsPort \notin Ports(config[s]) /\ s # i
      BY <1>1, <2>6, <3>4 DEF Redirected
    <3>6. Serving(e, HttpPort, x) = s
      <4>1. CASE i \in HttpNamed(config, x)
        <5>1. \A j \in HttpNamed(config, x) : j \in DOMAIN config
          BY DEF HttpNamed, Named
        <5> QED
          BY <1>1, <1>2, <1>3, <2>1, <3>5, <4>1, <5>1, ServingMoved
      <4>2. CASE i \notin HttpNamed(config, x)
        <5>1. AsBefore(config, e, HttpPort, x)
          BY <2>1, <3>2, <4>2 DEF AsBefore, HttpNamed, PortNamed, Named
        <5> QED
          BY <1>1, <1>2, <1>3, <3>2, <5>1, ServingSame
      <4> QED
        BY <4>1, <4>2
    <3> QED
      BY <1>1, <2>1, <3>4, <3>5, <3>6
  <2>7. Redirected(config, x) => Redirected(e, x)
    BY <2>6 DEF Redirected
  <2> QED
    BY <2>2, <2>4, <2>5, <2>7
<1> QED
  BY <1>4, <1>5 DEF Preserves, Improves

-----------------------------------------------------------------------------
(* What a certificate in block i does for domain d and for the others.     *)
Deploys(config, e, d) ==
    /\ Preserves(config, e) /\ Deployed(e, d)
    /\ \A x \in Domain : /\ Deployed(config, x) => Deployed(e, x)
                         /\ LeadsTo(config, x) => LeadsTo(e, x)

CertView(config, e, i) ==
    /\ Preserves(config, e) /\ Improves(config, e)
    /\ e \in Config /\ DOMAIN e = DOMAIN config /\ FiniteNames(e)
    /\ HttpsPort \in Ports(e[i]) /\ e[i].cert = "new"
    /\ \A j \in DOMAIN config : j # i => e[j] = config[j]
    /\ \A x \in Domain : Named(e, x) = Named(config, x)
    /\ \A x \in Domain : Serving(config, HttpsPort, x) \in Named(config, x) =>
           Serving(e, HttpsPort, x) = Serving(config, HttpsPort, x)

LEMMA CertLeads ==
    ASSUME NEW config \in Config, Regular(config), NEW i \in DOMAIN config,
           HttpsPort \in Ports(config[i]), NEW e, e = [config EXCEPT ![i].cert = "new"]
    PROVE  CertView(config, e, i)
<1> DEFINE b == [config[i] EXCEPT !.cert = "new"]
<1>1. /\ Changes(config, e, i, b) /\ b.cert = "new" /\ b.names = config[i].names
      /\ b.listen = config[i].listen /\ b.redirects = config[i].redirects
  BY CertIs
<1> HIDE DEF b
<1>2. FiniteNames(config)
  BY DEF Regular, Sound
<1>3. Preserves(config, e) /\ Improves(config, e)
  BY <1>1, <1>2, QuietKeeps
<1>4. /\ e \in Config /\ DOMAIN e = DOMAIN config /\ FiniteNames(e) /\ e[i].cert = "new"
      /\ \A j \in DOMAIN config : j # i => e[j] = config[j]
  BY <1>1, <1>2 DEF Changes, FiniteNames
<1>5. HttpsPort \in Ports(e[i])
  BY <1>1 DEF Changes, Ports
<1>6. ASSUME NEW x \in Domain
      PROVE  /\ Named(e, x) = Named(config, x)
             /\ Serving(config, HttpsPort, x) \in Named(config, x) =>
                  Serving(e, HttpsPort, x) = Serving(config, HttpsPort, x)
  <2>1. Named(e, x) = Named(config, x) /\ AsBefore(config, e, HttpsPort, x)
    BY <1>1, QuietIs
  <2> QED
    BY <1>2, <1>4, <2>1, ServedByName, ServingSame
<1> QED
  BY <1>3, <1>4, <1>5, <1>6 DEF CertView

(* A block that gets https takes over the domains it is named for, or      *)
(* leaves them where they were.                                            *)
LEMMA SecureServes ==
    ASSUME NEW config \in Config, Sound(config), NEW e, NEW i,
           Changes(config, e, i, Secure(config[i])), FiniteNames(e), NEW d \in Domain
    PROVE  /\ Serving(config, HttpsPort, d) \in Named(config, d) =>
                  \/ Serving(e, HttpsPort, d) = Serving(config, HttpsPort, d)
                  \/ i \in Named(config, d) /\ Serving(e, HttpsPort, d) = i
           /\ HttpsNamed(config, d) = {} /\ i \in Named(config, d) =>
                  Serving(e, HttpsPort, d) = i
<1>1. SecureView(config, e, i, d)
  BY SecurePorts
<1>2. /\ e \in Config /\ FiniteNames(config) /\ Named(config, d) \subseteq DOMAIN config
      /\ DOMAIN e = DOMAIN config
  BY DEF Changes, Sound, Named
<1>3. \A j \in PortNamed(config, HttpsPort, d) : Matching(e[j], d) = Matching(config[j], d)
  BY <1>1, <1>2 DEF SecureView, PortNamed
<1>4. CASE i \in Named(config, d)
  <2>1. PortNamed(e, HttpsPort, d) = PortNamed(config, HttpsPort, d) \cup {i}
    BY <1>1, <1>4 DEF SecureView, HttpsNamed
  <2>2. Serving(config, HttpsPort, d) \in Named(config, d) =>
            Serving(e, HttpsPort, d) \in {i, Serving(config, HttpsPort, d)}
    BY <1>2, <1>3, <2>1, ServedByName, ServingMore
  <2>3. HttpsNamed(config, d) = {} => Serving(e, HttpsPort, d) = i
    BY <1>2, <2>1, ServingNamed DEF HttpsNamed
  <2> QED
    BY <1>4, <2>2, <2>3
<1>5. CASE i \notin Named(config, d)
  <2>1. AsBefore(config, e, HttpsPort, d)
    BY <1>1, <1>3, <1>5 DEF SecureView, HttpsNamed, AsBefore
  <2> QED
    BY <1>2, <1>5, <2>1, ServedByName, ServingSame
<1> QED
  BY <1>4, <1>5

(* A certificate for the block that was chosen.                            *)
LEMMA DeployLeads ==
    ASSUME NEW config \in Config, Regular(config), NEW d \in Domain, NEW i \in Named(config, d),
           \/ IsSsl(config, i) /\ i = Serving(config, HttpsPort, d)
           \/ /\ ~ IsSsl(config, i) /\ HttpsNamed(config, d) = {}
              /\ \A x \in Domain : i \in Named(config, x) => x \notin config[i].redirects,
           NEW e, e = DeployTo(config, i)
    PROVE  Deploys(config, e, d) /\ i \in DOMAIN e /\ HttpsPort \in Ports(e[i])
<1> DEFINE s == Secured(config, i)
<1>1. i \in DOMAIN config /\ Sound(config) /\ HttpsOnly(config)
  BY DEF Named, Regular
<1>2. /\ s \in Config /\ DOMAIN s = DOMAIN config /\ Regular(s) /\ IsSsl(s, i)
      /\ IsSsl(config, i) => s = config
      /\ ~ IsSsl(config, i) => Changes(config, s, i, Secure(config[i]))
  BY <1>1, SecuredIs
<1>3. e = [s EXCEPT ![i].cert = "new"]
  BY DEF DeployTo
<1> HIDE DEF s
<1>4. HttpsPort \in Ports(s[i]) /\ FiniteNames(s)
  BY <1>1, <1>2, ListeningIs DEF Regular, Sound
<1>5. /\ Preserves(s, e) /\ Improves(s, e)
      /\ e \in Config /\ DOMAIN e = DOMAIN s /\ FiniteNames(e)
      /\ HttpsPort \in Ports(e[i]) /\ e[i].cert = "new"
      /\ \A j \in DOMAIN s : j # i => e[j] = s[j]
      /\ \A x \in Domain : Named(e, x) = Named(s, x)
      /\ \A x \in Domain : Serving(s, HttpsPort, x) \in Named(s, x) =>
             Serving(e, HttpsPort, x) = Serving(s, HttpsPort, x)
  <2>1. CertView(s, e, i)
    BY <1>1, <1>2, <1>3, <1>4, CertLeads
  <2> QED
    BY <2>1 DEF CertView
<1>6. CASE IsSsl(config, i) /\ i = Serving(config, HttpsPort, d)
  <2>1. s = config
    BY <1>2, <1>6
  <2>2. Deployed(e, d)
    BY <1>5, <1>6, <2>1 DEF Deployed
  <2> QED
    BY <1>1, <1>2, <1>5, <2>1, <2>2 DEF Deploys, Improves
<1>7. CASE /\ ~ IsSsl(config, i) /\ HttpsNamed(config, d) = {}
           /\ \A x \in Domain : i \in Named(config, x) => x \notin config[i].redirects
  <2>1. Changes(config, s, i, Secure(config[i])) /\ Preserves(config, s)
    BY <1>2, <1>7, SecureKeeps
  <2>2. Preserves(config, e)
    BY <1>5, <2>1 DEF Preserves
  <2>3. /\ \A x \in Domain : Named(s, x) = Named(config, x)
        /\ \A j \in DOMAIN config : s[j].redirects = config[j].redirects
        /\ \A j \in DOMAIN config : j # i => s[j] = config[j]
    <3>1. \A x \in Domain : SecureView(config, s, i, x)
      BY <2>1, SecurePorts
    <3>2. config[i].redirects = s[i].redirects
      <4>1. config[i] \in Block
        BY <1>1 DEF Config
      <4> QED
        BY <2>1, <4>1, SecureFields DEF Changes
    <3> QED
      BY <2>1, <3>1, <3>2 DEF SecureView, Changes
  <2>4. \A x \in Domain :
          /\ Serving(config, HttpsPort, x) \in Named(config, x) =>
                  \/ Serving(s, HttpsPort, x) = Serving(config, HttpsPort, x)
                  \/ i \in Named(config, x) /\ Serving(s, HttpsPort, x) = i
          /\ HttpsNamed(config, x) = {} /\ i \in Named(config, x) =>
                  Serving(s, HttpsPort, x) = i
    BY <1>1, <1>4, <2>1, SecureServes
  <2>5. Deployed(e, d)
    BY <1>5, <1>7, <2>3, <2>4 DEF Deployed
  <2>6. ASSUME NEW x \in Domain, LeadsTo(config, x)
        PROVE  LeadsTo(e, x)
    <3>1. LeadsTo(s, x)
      BY <1>7, <2>3, <2>4, <2>6 DEF LeadsTo, Named
    <3> QED
      BY <1>5, <3>1 DEF Improves
  <2>7. ASSUME NEW x \in Domain, Deployed(config, x)
        PROVE  Deployed(e, x)
    <3>1. /\ Serving(config, HttpsPort, x) \in Named(config, x)
          /\ config[Serving(config, HttpsPort, x)].cert = "new"
          /\ Named(config, x) \subseteq DOMAIN config
      BY <2>7 DEF Deployed, Named
    <3> QED
      BY <1>2, <1>5, <2>3, <2>4, <3>1 DEF Deployed
  <2> QED
    BY <1>1, <1>2, <1>5, <2>2, <2>5, <2>6, <2>7 DEF Deploys
<1> QED
  BY <1>6, <1>7

DeployView(config, e, i) ==
    /\ Preserves(config, e) /\ DOMAIN e = DOMAIN config /\ HttpsPort \in Ports(e[i])
    /\ \A j \in DOMAIN config : HttpsPort \in Ports(config[j]) => HttpsPort \in Ports(e[j])
    /\ \A x \in Domain : Named(e, x) = Named(config, x)

(* A certificate for any block.                                            *)
LEMMA DeployPreserves ==
    ASSUME NEW config \in Config, Regular(config), NEW i \in DOMAIN config,
           NEW e, e = DeployTo(config, i)
    PROVE  DeployView(config, e, i)
<1> DEFINE s == Secured(config, i)
<1>1. Sound(config) /\ HttpsOnly(config)
  BY DEF Regular
<1>2. /\ s \in Config /\ DOMAIN s = DOMAIN config /\ Regular(s) /\ IsSsl(s, i)
      /\ IsSsl(config, i) => s = config
      /\ ~ IsSsl(config, i) => Changes(config, s, i, Secure(config[i]))
  BY <1>1, SecuredIs
<1>3. e = [s EXCEPT ![i].cert = "new"]
  BY DEF DeployTo
<1> HIDE DEF s
<1>4. HttpsPort \in Ports(s[i])
  BY <1>1, <1>2, ListeningIs DEF Regular
<1>5. CertView(s, e, i)
  BY <1>2, <1>3, <1>4, CertLeads
<1>6. /\ Preserves(config, s)
      /\ \A x \in Domain : Named(s, x) = Named(config, x)
      /\ \A j \in DOMAIN config : j # i => s[j] = config[j]
  <2>1. CASE IsSsl(config, i)
    BY <1>2, <2>1 DEF Preserves
  <2>2. CASE ~ IsSsl(config, i)
    <3>1. \A x \in Domain : SecureView(config, s, i, x)
      BY <1>2, <2>2, SecurePorts
    <3> QED
      BY <1>2, <2>2, <3>1, SecureKeeps DEF SecureView, Changes
  <2> QED
    BY <2>1, <2>2
<1>7. Preserves(config, e)
  BY <1>5, <1>6 DEF CertView, Preserves
<1>8. DOMAIN e = DOMAIN config /\ HttpsPort \in Ports(e[i])
  BY <1>2, <1>5 DEF CertView
<1>9. ASSUME NEW j \in DOMAIN config, HttpsPort \in Ports(config[j])
      PROVE  HttpsPort \in Ports(e[j])
  BY <1>2, <1>5, <1>6, <1>9 DEF CertView
<1>10. \A x \in Domain : Named(e, x) = Named(config, x)
  BY <1>5, <1>6 DEF CertView
<1> QED
  BY <1>7, <1>8, <1>9, <1>10 DEF DeployView

(* A block without https that is named for d has no redirects, when there  *)
(* is no other for https.                                                  *)
LEMMA NoneRedirects ==
    ASSUME NEW config \in Config, Regular(config), Complete(config), RedirectsLead(config),
           NEW d \in Domain, NEW i \in Named(config, d), ~ IsSsl(config, i),
           HttpsNamed(config, d) = {}
    PROVE  config[i].redirects = {}
<1> SUFFICES ASSUME config[i].redirects # {} PROVE FALSE
  OBVIOUS
<1>1. i \in DOMAIN config /\ Sound(config) /\ FiniteNames(config)
  BY DEF Named, Regular, Sound
<1>2. HttpPort \in Ports(config[i])
  <2>1. /\ IsSsl(config, i) <=> \E l \in config[i].listen : l.ssl
        /\ config[i].listen = {} => HttpPort \in Ports(config[i])
    BY <1>1, ListeningIs
  <2>2. \/ HttpPort \in Ports(config[i])
        \/ \A l \in config[i].listen : l.ssl
    BY <1>1 DEF Regular, RedirectsOnHttp
  <2> QED
    BY <2>1, <2>2
<1>3. i \in HttpNamed(config, d)
  BY <1>2 DEF HttpNamed
<1>4. d \in Redirects(config)
  BY <1>1, <1>3 DEF Complete, Fulfilled, Redirects
<1>5. LeadsTo(config, d)
  BY <1>4, RedirectsLeadIs
<1> QED
  BY <1>1, <1>5, ServedByName DEF LeadsTo, HttpsNamed

(* deploy_cert, when choose_vhosts finds a block for the domain.           *)
LEMMA ChosenLeads ==
    ASSUME NEW config \in Config, Regular(config), Complete(config), RedirectsLead(config),
           NEW d \in Domain, NEW i, i = ChooseVhost(config, d), i # 0,
           NEW e, e = DeployTo(config, i)
    PROVE  Deploys(config, e, d)
<1>1. FiniteNames(config) /\ Sound(config) /\ Named(config, d) \subseteq DOMAIN config
  BY DEF Regular, Sound, Named
<1>2. /\ i \in Named(config, d)
      /\ (\E j \in Named(config, d) : IsSsl(config, j)) =>
            /\ IsSsl(config, i)
            /\ \A j \in Named(config, d) \ {i} : IsSsl(config, j) => Beats(config, d, i, j)
  BY <1>1, ChooseIs
<1>3. \A j \in Named(config, d) : IsSsl(config, j) <=> j \in PortNamed(config, HttpsPort, d)
  BY <1>1, ListeningIs DEF PortNamed, Regular
<1>4. CASE \E j \in Named(config, d) : IsSsl(config, j)
  <2>1. i \in PortNamed(config, HttpsPort, d)
    BY <1>2, <1>3, <1>4
  <2>2. \A j \in PortNamed(config, HttpsPort, d) \ {i} : Beats(config, d, i, j)
    BY <1>2, <1>3, <1>4 DEF PortNamed
  <2>3. i = Serving(config, HttpsPort, d)
    BY <1>1, <2>1, <2>2, ServingIs
  <2> QED
    BY <1>2, <1>4, <2>3, DeployLeads
<1>5. CASE ~ \E j \in Named(config, d) : IsSsl(config, j)
  <2>1. HttpsNamed(config, d) = {} /\ ~ IsSsl(config, i)
    BY <1>2, <1>3, <1>5 DEF HttpsNamed, PortNamed
  <2>2. config[i].redirects = {}
    BY <1>2, <2>1, NoneRedirects
  <2> QED
    BY <1>2, <2>1, <2>2, DeployLeads
<1> QED
  BY <1>4, <1>5

(* For x the blocks are as before; others may be new, or named for others. *)
SeenSame(config, e, x) ==
    /\ DOMAIN config \subseteq DOMAIN e
    /\ Named(e, x) = Named(config, x)
    /\ \A j \in DOMAIN config : /\ Matching(e[j], x) = Matching(config[j], x)
                                /\ Ports(e[j]) = Ports(config[j])
                                /\ e[j].redirects = config[j].redirects
                                /\ e[j].cert = config[j].cert

LEMMA SeenSameKeeps ==
    ASSUME NEW config \in Config, FiniteNames(config), NEW e \in Config, FiniteNames(e),
           NEW x \in Domain, SeenSame(config, e, x), Redirects(e) = Redirects(config)
    PROVE  /\ Fulfilled(config, x) => Fulfilled(e, x)
           /\ LeadsTo(config, x) => LeadsTo(e, x)
           /\ Deployed(config, x) => Deployed(e, x)
<1>1. /\ Named(config, x) \subseteq DOMAIN config /\ Named(e, x) = Named(config, x)
      /\ \A j \in DOMAIN config : Matching(e[j], x) = Matching(config[j], x)
      /\ \A j \in DOMAIN config : Ports(e[j]) = Ports(config[j])
      /\ \A j \in DOMAIN config : e[j].redirects = config[j].redirects
      /\ \A j \in DOMAIN config : e[j].cert = config[j].cert
  BY DEF SeenSame, Named
<1>2. HttpNamed(e, x) = HttpNamed(config, x) /\ HttpsNamed(e, x) = HttpsNamed(config, x)
  BY <1>1 DEF HttpNamed, HttpsNamed, PortNamed
<1>3. AsBefore(config, e, HttpsPort, x)
  BY <1>1, <1>2 DEF AsBefore, HttpsNamed, PortNamed
<1>4. Serving(config, HttpsPort, x) \in Named(config, x) =>
          Serving(e, HttpsPort, x) = Serving(config, HttpsPort, x)
  BY <1>3, ServedByName, ServingSame
<1> QED
  BY <1>1, <1>2, <1>4 DEF Fulfilled, LeadsTo, Deployed

FromView(config, g, v, i, d) ==
    /\ g \in Config /\ Regular(g) /\ i \in DOMAIN g /\ Named(g, d) = {i}
    /\ Redirects(g) = Redirects(config)
    /\ \A x \in Domain \ {d} : SeenSame(config, g, x)
    /\ v # 0 => i = v /\ Ports(g[i]) = Ports(config[i])
    /\ v = 0 => /\ \A x \in Domain : i \in Named(g, x) => x = d
                /\ g[i].redirects \subseteq Redirects(config)

(* A default server that is duplicated changes how d is served, and d      *)
(* only.                                                                   *)
LEMMA FromDefaultSees ==
    ASSUME NEW config \in Config, Regular(config), NEW v \in 0..Len(config), NEW d \in Domain,
           NEW mismatch, NEW port, Named(config, d) = {},
           NEW o \in VhostFromDuplicatedDefault(config, v, d, mismatch, port), o.vhost # 0
    PROVE  FromView(config, o.config, v, o.vhost, d)
<1> DEFINE g == o.config
           i == o.vhost
           E == Exact(d)
<1>1. g \in Config /\ Regular(g)
  <2>1. HttpNamed(config, d) = {} /\ Sound(config)
    BY DEF HttpNamed, Regular
  <2> QED
    BY <2>1, FromDefaultType, FromDefaultKeeps
<1>2. E.matches = {d}
  BY DEF Exact
<1>3. /\ v # 0 /\ i = v /\ Renames(config, g, v, d)
      \/ /\ v = 0 /\ i = Len(config) + 1
         /\ \E k \in DOMAIN config : Duplicates(config, g, k, d)
  BY FromDefaultIs
<1> HIDE DEF g, i, E
<1>4. CASE v # 0 /\ i = v /\ Renames(config, g, v, d)
  <2>1. PICK b : /\ Changes(config, g, v, b)
                 /\ b.names = config[v].names \cup {E} /\ b.listen = config[v].listen
                 /\ b.cert = config[v].cert /\ b.redirects = config[v].redirects
    BY <1>4 DEF Renames, E
  <2>2. /\ DOMAIN g = DOMAIN config /\ v \in DOMAIN config
        /\ g[v].names = config[v].names \cup {E}
        /\ \A j \in DOMAIN config : j # v => g[j].names = config[j].names
        /\ \A j \in DOMAIN config : g[j].redirects = config[j].redirects
        /\ \A j \in DOMAIN config : g[j].cert = config[j].cert
        /\ \A j \in DOMAIN config : g[j].listen = config[j].listen
    BY <2>1 DEF Changes
  <2>3. /\ \A j \in DOMAIN config : Ports(g[j]) = Ports(config[j])
        /\ Redirects(g) = Redirects(config)
    BY <2>2 DEF Ports, Redirects
  <2>4. ASSUME NEW x \in Domain \ {d}
        PROVE  SeenSame(config, g, x)
    <3>1. \A j \in DOMAIN config : Matching(g[j], x) = Matching(config[j], x)
      BY <1>2, <2>2 DEF Matching
    <3>2. Named(g, x) = Named(config, x)
      BY <1>2, <2>2 DEF Named
    <3> QED
      BY <2>2, <2>3, <3>1, <3>2 DEF SeenSame
  <2>5. Named(g, d) = {v}
    BY <1>2, <2>2 DEF Named
  <2> QED
    BY <1>1, <1>4, <2>2, <2>3, <2>4, <2>5 DEF FromView, g, i
<1>5. CASE /\ v = 0 /\ i = Len(config) + 1
           /\ \E k \in DOMAIN config : Duplicates(config, g, k, d)
  <2>0. PICK k \in DOMAIN config : Duplicates(config, g, k, d)
    BY <1>5
  <2>1. PICK b : /\ Extends(config, g, b)
                 /\ b.names = {E} /\ b.redirects = config[k].redirects
    BY <2>0 DEF Duplicates, E
  <2>2. /\ DOMAIN g = DOMAIN config \cup {i} /\ i \notin DOMAIN config
        /\ g[i].names = {E} /\ g[i].redirects = config[k].redirects
        /\ \A j \in DOMAIN config : g[j] = config[j]
    BY <1>5, <2>1 DEF Extends
  <2>3. \A x \in Domain : i \in Named(g, x) => x = d
    BY <1>2, <2>2 DEF Named
  <2>4. ASSUME NEW x \in Domain \ {d}
        PROVE  SeenSame(config, g, x)
    <3>1. Named(g, x) = Named(config, x)
      BY <2>2, <2>3 DEF Named
    <3> QED
      BY <2>2, <3>1 DEF SeenSame
  <2>5. Named(g, d) = {i}
    BY <1>2, <2>2 DEF Named
  <2>6. Redirects(g) = Redirects(config) /\ g[i].redirects \subseteq Redirects(config)
    BY <2>2 DEF Redirects
  <2> QED
    BY <1>1, <1>5, <2>2, <2>3, <2>4, <2>5, <2>6 DEF FromView, g, i
<1> QED
  BY <1>3, <1>4, <1>5 DEF g, i

LEMMA CompleteKept ==
    ASSUME NEW config, NEW e, Preserves(config, e)
    PROVE  Complete(config) => Complete(e)
BY DEF Preserves, Complete

LEMMA LeadsKept ==
    ASSUME NEW config \in Config, NEW e \in Config, Redirects(e) = Redirects(config),
           \A x \in Domain : LeadsTo(config, x) => LeadsTo(e, x)
    PROVE  RedirectsLead(config) => RedirectsLead(e)
BY RedirectsLeadIs

Advances(config, e, d) ==
    /\ RedirectsLead(e) /\ Deployed(e, d)
    /\ \A x \in Domain : Deployed(config, x) => Deployed(e, x)

LEMMA DuplicatePreserves ==
    ASSUME NEW config \in Config, Regular(config), NEW v, NEW d \in Domain,
           NEW g, NEW i, FromView(config, g, v, i, d), NEW e, e = DeployTo(g, i)
    PROVE  /\ Complete(config) => Complete(e)
           /\ HttpsPort \in Ports(e[i])
<1>1. /\ g \in Config /\ Regular(g) /\ i \in DOMAIN g /\ Named(g, d) = {i}
      /\ Redirects(g) = Redirects(config)
      /\ \A x \in Domain \ {d} : SeenSame(config, g, x)
  BY DEF FromView
<1>2. FiniteNames(config) /\ FiniteNames(g)
  BY <1>1 DEF Regular, Sound
<1>3. /\ Preserves(g, e) /\ DOMAIN e = DOMAIN g /\ HttpsPort \in Ports(e[i])
      /\ \A x \in Domain : Named(e, x) = Named(g, x)
  <2>1. DeployView(g, e, i)
    BY <1>1, DeployPreserves
  <2> QED
    BY <2>1 DEF DeployView
<1>4. ASSUME Complete(config)
      PROVE  Complete(e)
  <2>1. HttpsNamed(e, d) # {}
    BY <1>1, <1>3 DEF HttpsNamed, PortNamed
  <2>2. ASSUME NEW x \in Domain, Fulfilled(config, x)
        PROVE  Fulfilled(e, x)
    <3>1. CASE x = d
      BY <2>1, <3>1 DEF Fulfilled
    <3>2. CASE x # d
      <4>1. Fulfilled(g, x)
        BY <1>1, <1>2, <2>2, <3>2, SeenSameKeeps
      <4> QED
        BY <1>3, <4>1 DEF Preserves
    <3> QED
      BY <3>1, <3>2
  <2> QED
    BY <1>1, <1>3, <1>4, <2>2 DEF Complete, Preserves
<1> QED
  BY <1>3, <1>4

(* deploy_cert, when the default server is duplicated for the domain.      *)
LEMMA DuplicateLeads ==
    ASSUME NEW config \in Config, Regular(config), RedirectsLead(config), NEW v, NEW d \in Domain,
           Named(config, d) = {}, v # 0 => HttpsPort \in Ports(config[v]),
           NEW g, NEW i, FromView(config, g, v, i, d), NEW e, e = DeployTo(g, i)
    PROVE  Advances(config, e, d)
<1>1. /\ g \in Config /\ Regular(g) /\ i \in DOMAIN g /\ Named(g, d) = {i}
      /\ Redirects(g) = Redirects(config)
      /\ \A x \in Domain \ {d} : SeenSame(config, g, x)
      /\ v # 0 => i = v /\ Ports(g[i]) = Ports(config[i])
      /\ v = 0 => /\ \A x \in Domain : i \in Named(g, x) => x = d
                  /\ g[i].redirects \subseteq Redirects(config)
  BY DEF FromView
<1>2. FiniteNames(config) /\ FiniteNames(g) /\ Sound(g) /\ HttpsOnly(g)
  BY <1>1 DEF Regular, Sound
<1>3. /\ Redirects(config) \subseteq Domain
      /\ \A x \in Redirects(config) : LeadsTo(config, x)
  BY RedirectsLeadIs
<1>4. d \notin Redirects(config)
  BY <1>3 DEF LeadsTo
<1>5. Deploys(g, e, d)
  <2>1. CASE IsSsl(g, i)
    <3>1. PortNamed(g, HttpsPort, d) = {i}
      BY <1>1, <1>2, <2>1, ListeningIs DEF PortNamed
    <3>2. i = Serving(g, HttpsPort, d)
      BY <1>1, <1>2, <3>1, ServingNamed
    <3> QED
      BY <1>1, <2>1, <3>2, DeployLeads
  <2>2. CASE ~ IsSsl(g, i)
    <3>1. HttpsPort \notin Ports(g[i])
      BY <1>1, <1>2, <2>2, ListeningIs
    <3>2. HttpsNamed(g, d) = {}
      BY <1>1, <3>1 DEF HttpsNamed, PortNamed
    <3>3. v = 0
      BY <1>1, <3>1
    <3>4. \A x \in Domain : i \in Named(g, x) => x \notin g[i].redirects
      BY <1>1, <1>4, <3>3
    <3> QED
      BY <1>1, <2>2, <3>2, <3>4, DeployLeads
  <2> QED
    BY <2>1, <2>2
<1>6. /\ Redirects(e) = Redirects(config) /\ Deployed(e, d)
      /\ \A x \in Domain : Deployed(g, x) => Deployed(e, x)
      /\ \A x \in Domain : LeadsTo(g, x) => LeadsTo(e, x)
  BY <1>1, <1>5 DEF Deploys, Preserves
<1>7. ASSUME NEW x \in Domain
      PROVE  /\ LeadsTo(config, x) => LeadsTo(e, x)
             /\ Deployed(config, x) => Deployed(e, x)
  <2>1. CASE x = d
    BY <2>1 DEF LeadsTo, Deployed
  <2>2. CASE x # d
    BY <1>1, <1>2, <1>6, <2>2, SeenSameKeeps
  <2> QED
    BY <2>1, <2>2
<1>8. e \in Config
  BY <1>1, DeployType
<1>9. RedirectsLead(e)
  BY <1>6, <1>7, <1>8, LeadsKept
<1> QED
  BY <1>6, <1>7, <1>9 DEF Advances

(* deploy_cert.                                                            *)
HttpsKept(config, v) == v # 0 => HttpsPort \in Ports(config[v])

(* deploy_cert for one domain: it is deployed, and no other domain loses   *)
(* https.                                                                  *)
LEMMA DeployStep ==
    ASSUME TypeOK, DeployCert, Regular(parsed), HttpsKept(parsed, new_vhost)
    PROVE  /\ Complete(parsed) => Complete(parsed')
           /\ HttpsKept(parsed', new_vhost')
           /\ Complete(parsed) /\ RedirectsLead(parsed) =>
                  Advances(parsed, parsed', Head(todo))
<1> DEFINE d == Head(todo)
           c == ChooseVhost(parsed, d)
<1>1. parsed \in Config /\ new_vhost \in 0..Len(parsed) /\ d \in Domain
  BY DEF TypeOK, Config, DeployCert
<1>2. FiniteNames(parsed) /\ Sound(parsed) /\ Named(parsed, d) \subseteq DOMAIN parsed
  BY DEF Regular, Sound, Named
<1>3. \/ c # 0 /\ parsed' = DeployTo(parsed, c) /\ new_vhost' = new_vhost
      \/ /\ c = 0
         /\ \E o \in VhostFromDuplicatedDefault(parsed, new_vhost, d, TRUE, HttpsPort) :
              /\ o.vhost # 0 /\ parsed' = DeployTo(o.config, o.vhost) /\ new_vhost' = o.vhost
  BY DEF DeployCert
<1>4. /\ Named(parsed, d) = {} => c = 0
      /\ Named(parsed, d) # {} => c \in Named(parsed, d)
  BY <1>1, <1>2, ChooseIs
<1> HIDE DEF d
<1>5. CASE c # 0 /\ parsed' = DeployTo(parsed, c) /\ new_vhost' = new_vhost
  <2>1. c \in DOMAIN parsed
    BY <1>2, <1>4, <1>5
  <2>2. DeployView(parsed, parsed', c)
    BY <1>1, <1>5, <2>1, DeployPreserves
  <2>3. Complete(parsed) => Complete(parsed')
    BY <2>2, CompleteKept DEF DeployView
  <2>4. HttpsKept(parsed', new_vhost')
    <3>1. new_vhost # 0 => new_vhost \in DOMAIN parsed
      BY <1>1, IndexFinite
    <3> QED
      BY <1>5, <2>2, <3>1 DEF DeployView, HttpsKept
  <2>5. ASSUME Complete(parsed), RedirectsLead(parsed)
        PROVE  Advances(parsed, parsed', d)
    <3>1. Deploys(parsed, parsed', d)
      BY <1>1, <1>5, <2>5, ChosenLeads
    <3>2. parsed' \in Config
      BY <1>1, <1>5, <2>1, DeployType
    <3>3. RedirectsLead(parsed')
      BY <1>1, <2>5, <3>1, <3>2, LeadsKept DEF Deploys, Preserves
    <3> QED
      BY <3>1, <3>3 DEF Deploys, Advances
  <2> QED
    BY <2>3, <2>4, <2>5 DEF d
<1>6. CASE /\ c = 0
           /\ \E o \in VhostFromDuplicatedDefault(parsed, new_vhost, d, TRUE, HttpsPort) :
                /\ o.vhost # 0 /\ parsed' = DeployTo(o.config, o.vhost) /\ new_vhost' = o.vhost
  <2>1. PICK o \in VhostFromDuplicatedDefault(parsed, new_vhost, d, TRUE, HttpsPort) :
                /\ o.vhost # 0 /\ parsed' = DeployTo(o.config, o.vhost) /\ new_vhost' = o.vhost
    BY <1>6
  <2>2. Named(parsed, d) = {}
    <3>1. 0 \notin Named(parsed, d)
      BY <1>1, <1>2, IndexFinite
    <3> QED
      BY <1>4, <1>6, <3>1
  <2>3. FromView(parsed, o.config, new_vhost, o.vhost, d)
    BY <1>1, <2>1, <2>2, FromDefaultSees
  <2>4. /\ Complete(parsed) => Complete(parsed')
        /\ HttpsPort \in Ports(parsed'[new_vhost'])
    BY <1>1, <2>1, <2>3, DuplicatePreserves
  <2>5. HttpsKept(parsed', new_vhost')
    BY <2>4 DEF HttpsKept
  <2>6. RedirectsLead(parsed) => Advances(parsed, parsed', d)
    BY <1>1, <2>1, <2>2, <2>3, DuplicateLeads DEF HttpsKept
  <2> QED
    BY <2>4, <2>5, <2>6 DEF d
<1> QED
  BY <1>3, <1>5, <1>6

LEMMA KeepsOn ==
    ASSUME NEW config, NEW t, NEW e, Preserves(t, e), Improves(t, e)
    PROVE  /\ Preserves(config, t) => Preserves(config, e)
           /\ Improves(config, t) => Improves(config, e)
BY DEF Preserves, Improves

(* Securing a block only adds.                                             *)
LEMMA SecuredKeeps ==
    ASSUME NEW config \in Config, Regular(config), NEW i \in DOMAIN config,
           NEW s, s = Secured(config, i)
    PROVE  /\ Preserves(config, s)
           /\ IsSsl(config, i) => Improves(config, s)
<1>1. /\ IsSsl(config, i) => s = config
      /\ ~ IsSsl(config, i) => Changes(config, s, i, Secure(config[i]))
  BY SecuredIs DEF Regular
<1> QED
  BY <1>1, SecureKeeps DEF Preserves, Improves

LEMMA ExtrasKeeps ==
    ASSUME NEW config \in Config, FiniteNames(config), NEW i \in DOMAIN config, NEW x \in Extra,
           NEW e, e = [config EXCEPT ![i].extras = @ \cup {x}]
    PROVE  Preserves(config, e) /\ Improves(config, e)
<1>1. PICK b : /\ Changes(config, e, i, b) /\ b.names = config[i].names
               /\ b.listen = config[i].listen /\ b.cert = config[i].cert
               /\ b.redirects = config[i].redirects
  BY ExtrasIs
<1> QED
  BY <1>1, QuietKeeps

(* _enable_ocsp_stapling, on blocks with ssl or others.                    *)
LEMMA StaplingLeads ==
    ASSUME NEW config \in Config, Regular(config), NEW i \in DOMAIN config,
           NEW e, e = EnableOcspStapling(config, i)
    PROVE  /\ Preserves(config, e)
           /\ IsSsl(config, i) => Improves(config, e)
<1> DEFINE s == Secured(config, i)
<1>1. s \in Config /\ DOMAIN s = DOMAIN config /\ FiniteNames(s)
  BY SecuredIs DEF Regular, Sound
<1>2. Preserves(config, s) /\ (IsSsl(config, i) => Improves(config, s))
  BY SecuredKeeps
<1>3. e = [s EXCEPT ![i].extras = @ \cup {"staple"}] /\ "staple" \in Extra
  BY DEF EnableOcspStapling, Extra
<1> HIDE DEF s
<1>4. Preserves(s, e) /\ Improves(s, e)
  BY <1>1, <1>3, ExtrasKeeps
<1> QED
  BY <1>2, <1>4, KeepsOn

(* _set_http_header, on blocks with ssl or others.                         *)
LEMMA HeaderLeads ==
    ASSUME NEW config \in Config, Regular(config), NEW i \in DOMAIN config, NEW x \in Extra,
           NEW e, e = SetHttpHeader(config, i, x)
    PROVE  /\ Preserves(config, e)
           /\ IsSsl(config, i) => Improves(config, e)
<1> DEFINE s == Secured(config, i)
           t == SplitBlock(s, i, s[i])
<1>1. s \in Config /\ DOMAIN s = DOMAIN config /\ Regular(s) /\ FiniteNames(s) /\ Sound(s)
  BY SecuredIs DEF Regular, Sound
<1>2. Preserves(config, s) /\ (IsSsl(config, i) => Improves(config, s))
  BY SecuredKeeps
<1>3. \/ e = s
      \/ e = [s EXCEPT ![i].extras = @ \cup {x}]
      \/ /\ \E l \in s[i].listen : l.ssl
         /\ \E l \in s[i].listen : ~ l.ssl
         /\ e = [t EXCEPT ![i].extras = @ \cup {x}]
  BY HeaderIs DEF Regular
<1> HIDE DEF s
<1>4. CASE e = s
  BY <1>2, <1>4
<1>5. CASE e = [s EXCEPT ![i].extras = @ \cup {x}]
  <2>1. Preserves(s, e) /\ Improves(s, e)
    BY <1>1, <1>5, ExtrasKeeps
  <2> QED
    BY <1>2, <2>1, KeepsOn
<1>6. CASE /\ \E l \in s[i].listen : l.ssl
           /\ \E l \in s[i].listen : ~ l.ssl
           /\ e = [t EXCEPT ![i].extras = @ \cup {x}]
  <2>1. s[i] \in Block /\ IsFiniteSet(s[i].names)
    BY <1>1 DEF Config, FiniteNames
  <2>2. Splits(s, t, i, OldHalf(s[i]), NewHalf(s[i], s[i]))
    BY <1>1, <2>1, SplitIs
  <2> HIDE DEF t
  <2>3. Preserves(s, t) /\ Improves(s, t)
    BY <1>1, <1>6, <2>1, <2>2, SplitKeeps
  <2>4. t \in Config /\ i \in DOMAIN t /\ FiniteNames(t)
    <3>1. Sound(t)
      BY <1>1, <1>6, <2>1, <2>2, SoundSplit
    <3> QED
      BY <1>1, <2>2, <3>1 DEF Splits, Sound
  <2>5. Preserves(t, e) /\ Improves(t, e)
    BY <1>6, <2>4, ExtrasKeeps
  <2> QED
    BY <1>2, <2>3, <2>5, KeepsOn
<1> QED
  BY <1>3, <1>4, <1>5, <1>6

RedirectView(config, e, d) ==
    /\ e \in Config /\ Redirects(e) = Redirects(config) \cup {d}
    /\ \A x \in Domain : Fulfilled(config, x) => Fulfilled(e, x)
    /\ Improves(config, e)

(* A redirect in a block that is not on the https port.                    *)
LEMMA RedirectsAdd ==
    ASSUME NEW config \in Config, FiniteNames(config), NEW k \in DOMAIN config, NEW d \in Domain,
           HttpsPort \notin Ports(config[k]), NEW e, NEW b, Changes(config, e, k, b),
           b.names = config[k].names, b.listen = config[k].listen, b.cert = config[k].cert,
           b.redirects = config[k].redirects \cup {d}
    PROVE  /\ RedirectView(config, e, d)
           /\ k \in Named(config, d) /\ Serving(config, HttpPort, d) = k => Redirected(e, d)
<1>1. /\ e \in Config /\ DOMAIN e = DOMAIN config
      /\ \A j \in DOMAIN config : j # k => e[j] = config[j]
      /\ \A j \in DOMAIN config : e[j].cert = config[j].cert
      /\ \A j \in DOMAIN config : e[j].names = config[j].names
      /\ \A j \in DOMAIN config : config[j].redirects \subseteq e[j].redirects
      /\ e[k].redirects = config[k].redirects \cup {d}
  BY DEF Changes
<1>2. FiniteNames(e)
  BY <1>1 DEF FiniteNames
<1>3. Redirects(e) = Redirects(config) \cup {d}
  <2>1. \A j \in DOMAIN config : e[j].redirects \subseteq config[j].redirects \cup {d}
    BY <1>1
  <2> QED
    BY <1>1, <2>1 DEF Redirects
<1>4. ASSUME NEW x \in Domain
      PROVE  /\ Fulfilled(config, x) => Fulfilled(e, x)
             /\ LeadsTo(config, x) => LeadsTo(e, x)
             /\ Deployed(config, x) => Deployed(e, x)
             /\ Redirected(config, x) => Redirected(e, x)
             /\ x = d /\ k \in Named(config, x) /\ Serving(config, HttpPort, x) = k =>
                    Redirected(e, x)
  <2>1. /\ Named(e, x) = Named(config, x)
        /\ \A port : AsBefore(config, e, port, x)
        /\ HttpNamed(e, x) = HttpNamed(config, x)
        /\ \A j \in DOMAIN config : Ports(e[j]) = Ports(config[j])
    BY QuietIs
  <2>2. Fulfilled(config, x) => Fulfilled(e, x)
    BY <1>3, <2>1 DEF Fulfilled, HttpsNamed, AsBefore
  <2>3. ASSUME NEW port, Serving(config, port, x) \in Named(config, x)
        PROVE  /\ Serving(e, port, x) = Serving(config, port, x)
               /\ Serving(config, port, x) \in DOMAIN config
               /\ port \in Ports(config[Serving(config, port, x)])
    BY <1>1, <1>2, <2>1, <2>3, ServedByName, ServingSame
  <2>4. ASSUME NEW port, Serving(e, port, x) \in Named(e, x)
        PROVE  Serving(config, port, x) \in Named(config, x)
    <3>1. PortNamed(config, port, x) # {}
      BY <1>1, <1>2, <2>1, <2>4, ServedByName DEF AsBefore
    <3> QED
      BY <3>1, ServingNamed DEF PortNamed
  <2>5. LeadsTo(config, x) => LeadsTo(e, x)
    BY <1>1, <2>1, <2>3 DEF LeadsTo
  <2>6. Deployed(config, x) => Deployed(e, x)
    BY <1>1, <2>1, <2>3 DEF Deployed
  <2>7. Redirected(config, x) => Redirected(e, x)
    BY <1>1, <2>1, <2>3, <2>4 DEF Redirected
  <2>8. x = d /\ k \in Named(config, x) /\ Serving(config, HttpPort, x) = k => Redirected(e, x)
    BY <1>1, <2>1, <2>3 DEF Redirected
  <2> QED
    BY <2>2, <2>5, <2>6, <2>7, <2>8
<1> QED
  BY <1>1, <1>3, <1>4 DEF RedirectView, Improves

(* _enable_redirect, for a domain that is served by name on the http port. *)
LEMMA RedirectLeads ==
    ASSUME NEW config \in Config, Regular(config), NEW d \in Domain,
           NEW i, i = ChooseRedirectVhost(config, d), i # 0,
           NEW e, e = EnableRedirect(config, i, d)
    PROVE  RedirectView(config, e, d) /\ Redirected(e, d)
<1>1. /\ Sound(config) /\ HttpsOnly(config) /\ Unambiguous(config) /\ FiniteNames(config)
      /\ HttpNamed(config, d) \subseteq Named(config, d) /\ Named(config, d) \subseteq DOMAIN config
  BY DEF Regular, Sound, HttpNamed, Named
<1>2. i \in HttpNamed(config, d) /\ i = Serving(config, HttpPort, d)
  BY <1>1, ChooseRedirectIs
<1>3. i \in DOMAIN config /\ i \in Named(config, d) /\ HttpPort \in Ports(config[i])
  BY <1>1, <1>2 DEF HttpNamed
<1>4. \/ /\ ~ IsSsl(config, i)
         /\ \E b : /\ Changes(config, e, i, b)
                   /\ b.names = config[i].names /\ b.listen = config[i].listen
                   /\ b.cert = config[i].cert
                   /\ b.redirects = config[i].redirects \cup {d}
      \/ /\ IsSsl(config, i)
         /\ \E t, h, b :
               /\ h \in Block /\ h.names = config[i].names /\ h.redirects = {}
               /\ Splits(config, t, i, OldHalf(config[i]), NewHalf(config[i], h))
               /\ Changes(t, e, Len(config) + 1, b)
               /\ b.names = config[i].names /\ b.listen = NewHalf(config[i], h).listen
               /\ b.cert = "none" /\ b.redirects = {d}
  BY <1>1, <1>3, RedirectIs
<1>5. CASE /\ ~ IsSsl(config, i)
           /\ \E b : /\ Changes(config, e, i, b)
                     /\ b.names = config[i].names /\ b.listen = config[i].listen
                     /\ b.cert = config[i].cert
                     /\ b.redirects = config[i].redirects \cup {d}
  <2>1. HttpsPort \notin Ports(config[i])
    BY <1>1, <1>3, <1>5, ListeningIs
  <2> QED
    BY <1>1, <1>2, <1>3, <1>5, <2>1, RedirectsAdd
<1>6. CASE IsSsl(config, i) /\ \E t, h, b :
               /\ h \in Block /\ h.names = config[i].names /\ h.redirects = {}
               /\ Splits(config, t, i, OldHalf(config[i]), NewHalf(config[i], h))
               /\ Changes(t, e, Len(config) + 1, b)
               /\ b.names = config[i].names /\ b.listen = NewHalf(config[i], h).listen
               /\ b.cert = "none" /\ b.redirects = {d}
  <2>1. PICK t, h, b :
               /\ h \in Block /\ h.names = config[i].names /\ h.redirects = {}
               /\ Splits(config, t, i, OldHalf(config[i]), NewHalf(config[i], h))
               /\ Changes(t, e, Len(config) + 1, b)
               /\ b.names = config[i].names /\ b.listen = NewHalf(config[i], h).listen
               /\ b.cert = "none" /\ b.redirects = {d}
    BY <1>6
  <2> DEFINE n == Len(config) + 1
  <2>2. /\ \E l \in config[i].listen : l.ssl
        /\ \E l \in config[i].listen : ~ l.ssl
    <3>1. \E l \in config[i].listen : l.ssl
      BY <1>1, <1>3, <1>6, ListeningIs
    <3>2. \E l \in config[i].listen : l.port = HttpPort
      BY <1>1, <1>3, <3>1, ListeningIs
    <3> QED
      BY <1>3, <3>1, <3>2 DEF Sound, Words, Regular
  <2>3. SplitView(config, t, i, h, n, d)
    BY <1>3, <2>1, <2>2, SplitPorts
  <2>4. Preserves(config, t) /\ Improves(config, t)
    BY <1>3, <2>1, <2>2, SplitKeeps
  <2>5. /\ t \in Config /\ n \in DOMAIN t
        /\ t[n].names = config[i].names /\ t[n].listen = NewHalf(config[i], h).listen
        /\ t[n].cert = "none" /\ t[n].redirects = {}
    <3>1. config[i] \in Block
      BY <1>3 DEF Config
    <3> QED
      BY <2>1, <3>1, HalfFields DEF Splits
  <2>6. FiniteNames(t)
    <3>1. IsFiniteSet(h.names)
      BY <1>1, <1>3, <2>1 DEF FiniteNames
    <3>2. Sound(t)
      BY <1>1, <1>3, <2>1, <2>2, <3>1, SoundSplit
    <3> QED
      BY <3>2 DEF Sound
  <2>7. n = Len(config) + 1
    OBVIOUS
  <2> HIDE DEF n
  <2>8. /\ HttpsPort \notin Ports(t[n]) /\ n \notin DOMAIN config
        /\ HttpNamed(t, d) = (HttpNamed(config, d) \ {i}) \cup {n}
        /\ \A j \in DOMAIN config : Matching(t[j], d) = Matching(config[j], d)
        /\ Matching(t[n], d) = Matching(config[i], d)
    BY <1>2, <2>3 DEF SplitView
  <2>9. Serving(t, HttpPort, d) = n
    <3>1. \A j \in HttpNamed(config, d) \ {i} : Matching(t[j], d) = Matching(config[j], d)
      BY <1>1, <2>8
    <3> QED
      BY <1>1, <1>2, <2>5, <2>6, <2>8, <3>1, ServingMoved
  <2>10. n \in Named(t, d)
    BY <2>8 DEF HttpNamed
  <2>11. Changes(t, e, n, b) /\ b.redirects = t[n].redirects \cup {d}
    BY <2>1, <2>5, <2>7
  <2>12. RedirectView(t, e, d) /\ Redirected(e, d)
    BY <2>1, <2>5, <2>6, <2>8, <2>9, <2>10, <2>11, RedirectsAdd
  <2>13. RedirectView(config, e, d)
    BY <2>4, <2>12 DEF RedirectView, Preserves, Improves
  <2> QED
    BY <2>12, <2>13
<1> QED
  BY <1>4, <1>5, <1>6

-----------------------------------------------------------------------------
(* From here on configurations are clear as well.                          *)
RegularConfigs == {config \in Config : Regular(config)}
RegularInv == Within(RegularConfigs) /\ ChallengeInv

(* Clear configurations without redirects are regular.                     *)
LEMMA InitRegular ==
    ASSUME \A config \in Configurations :
               /\ Orderly(config) /\ Clear(config)
               /\ \A i \in DOMAIN config : config[i].redirects = {},
           Init
    PROVE  RegularInv
<1>1. Configurations \subseteq Config
  BY ConfigurationsAssumption DEF Config
<1>2. disk \in RegularConfigs
  <2>1. disk \in Config /\ Sound(disk)
    BY <1>1, OrderlyIs DEF Init
  <2>2. HttpsOnly(disk) /\ Unambiguous(disk)
    BY <2>1, HttpsOnlyIs DEF Init, Clear
  <2>3. RedirectsOnHttp(disk)
    BY DEF Init, RedirectsOnHttp
  <2> QED
    BY <2>1, <2>2, <2>3 DEF Regular, RegularConfigs
<1>3. <<>> \in RegularConfigs
  BY EmptyIs DEF RegularConfigs
<1>4. Within(RegularConfigs)
  BY <1>2, <1>3 DEF Init, Within
<1>5. ChallengeInv
  BY DEF Init, ChallengeInv
<1> QED
  BY <1>4, <1>5 DEF RegularInv

(* A step keeps all configurations regular.                                *)
LEMMA NextRegular == TypeOK /\ RegularInv /\ [Next]_vars => RegularInv'
<1> SUFFICES ASSUME TypeOK, RegularInv, [Next]_vars PROVE RegularInv'
  OBVIOUS
<1>1. Within(RegularConfigs) /\ ChallengeInv
  BY DEF RegularInv
<1>2. Regular(parsed) /\ Sound(parsed)
  BY <1>1 DEF Within, RegularConfigs, Regular
<1>3. ChallengeInv'
  BY <1>1, <1>2, ChallengeNext
<1>4. TypeOK'
  BY NextType
<1>5. Perform \/ DeployCert \/ Enhance => parsed' \in RegularConfigs
  BY <1>1, <1>2, <1>4, PluginKeeps DEF RegularConfigs, TypeOK, Config
<1>6. <<>> \in RegularConfigs
  BY EmptyIs DEF RegularConfigs
<1>7. Within(RegularConfigs)'
  BY <1>1, <1>5, <1>6, WithinNext
<1> QED
  BY <1>3, <1>7 DEF RegularInv

(* What is there at each point of a command that has raised nothing.       *)
Working == Deploying \cup Enhancing \cup {"restart"}

TempInv ==
    /\ pc \in Enhancing => temp = <<>>
    /\ pc \in {"restart_challenge", "validate"} => temp # <<>>
    /\ pc = "cleanup" /\ raised = "no" => temp # <<>>
    /\ pc \in {"restart_clean", "obtain"} /\ raised = "no" =>
           temp # <<>> \/ (parsed = saved /\ new_vhost = 0)

SyncInv ==
    /\ pc \in {"finalize", "restart", "enhance_config", "finalize_enhancement",
               "restart_enhanced"} => disk = parsed
    /\ pc = "enhance_config" /\ command \in {"run", "install"} => running = parsed
    /\ pc = "finalize_enhancement" => todo = <<>>
    /\ pc = "restart_enhanced" => enhancements = {}

RegularEnd ==
    /\ pc = "recovery" => raised # "no"
    /\ pc \in {"rollback", "restart_rolled_back"} => raised # "no" \/ command = "rollback"

ControlInv == TempInv /\ SyncInv /\ RegularEnd

LEMMA InitControl == Init => ControlInv
BY DEF Init, ControlInv, TempInv, SyncInv, RegularEnd, Enhancing

(* A step keeps what is known of the course of a command.                  *)
LEMMA NextControl == TypeOK /\ IInv /\ ControlInv /\ [Next]_vars => ControlInv'
<1> SUFFICES ASSUME TypeOK, IInv, ControlInv, [Next]_vars PROVE ControlInv'
  OBVIOUS
<1> USE DEF files, history, memory, process, Go, Challenging, Deploying, Enhancing, Settled
<1>1. disk \in Config /\ CheckpointsInv'
  BY NextInv DEF TypeOK, Config, IInv
<1>2. ASSUME NEW c \in {"run", "install", "enhance", "rollback"}, NEW S, Start(c, S)
      PROVE  ControlInv'
  <2>1. /\ temp' = <<>> /\ parsed' = disk' /\ new_vhost' = 0 /\ raised' = "no" /\ command' = c
        /\ pc' = [run |-> "perform", install |-> "deploy", enhance |-> "enhance_config",
                  rollback |-> "rollback"][c]
    BY <1>2 DEF Start, RecoveryRoutine, Load
  <2>2. /\ pc' \in {"perform", "deploy", "enhance_config", "rollback"}
        /\ pc' = "enhance_config" => c = "enhance"
        /\ pc' = "rollback" => c = "rollback"
    BY <2>1
  <2> QED
    BY <2>1, <2>2 DEF ControlInv, TempInv, SyncInv, RegularEnd
<1>3. CASE Kill \/ End
  <2>1. pc' = "off"
    BY <1>3 DEF Kill, End, Forget
  <2> QED
    BY <2>1 DEF ControlInv, TempInv, SyncInv, RegularEnd
<1>4. CASE Fail
  <2>1. raised' = pc /\ pc \in DOMAIN Handler /\ pc' = Handler[pc]
    BY <1>4 DEF Fail
  <2>2. raised' # "no" /\ pc' \in {"cleanup", "recovery", "rollback", "end"}
    BY <2>1 DEF Handler
  <2> QED
    BY <2>2 DEF ControlInv, TempInv, SyncInv, RegularEnd
<1>5. CASE Perform \/ Performed
  <2>1. pc' \in {"perform", "save_challenge"}
    BY <1>5 DEF Perform, Performed
  <2> QED
    BY <2>1 DEF ControlInv, TempInv, SyncInv, RegularEnd
<1>6. CASE SaveChallenge
  <2>1. pc' = "restart_challenge" /\ temp' # <<>>
    BY <1>6 DEF SaveChallenge
  <2> QED
    BY <2>1 DEF ControlInv, TempInv, SyncInv, RegularEnd
<1>7. CASE RestartForChallenge \/ Validate
  <2>1. /\ pc' \in {"validate", "cleanup"} /\ UNCHANGED temp
        /\ pc \in {"restart_challenge", "validate"}
    BY <1>7 DEF RestartForChallenge, Validate
  <2> QED
    BY <2>1 DEF ControlInv, TempInv, SyncInv, RegularEnd
<1>8. CASE Cleanup
  <2>1. pc = "cleanup" /\ UNCHANGED raised
    BY <1>8 DEF Cleanup
  <2>2. CASE /\ disk' = (IF temp = <<>> THEN disk ELSE temp[1]) /\ challenge_conf' = <<>>
             /\ temp' = <<>>
             /\ Load(disk') /\ blocks' = <<>> /\ pc' = "restart_clean"
             /\ UNCHANGED <<in_progress, checkpoints, saved>>
    <3>1. Recovered' = saved' /\ in_progress' = <<>>
      BY <1>1, <2>2 DEF CheckpointsInv
    <3>2. disk' = saved'
      BY <2>2, <3>1 DEF Recovered
    <3> QED
      BY <2>2, <3>2 DEF Load, ControlInv, TempInv, SyncInv, RegularEnd
  <2>3. CASE pc' = "obtain" /\ UNCHANGED <<files, memory>>
    BY <2>1, <2>3 DEF ControlInv, TempInv, SyncInv, RegularEnd
  <2> QED
    BY <1>8, <2>2, <2>3 DEF Cleanup
<1>9. CASE RestartClean
  <2>1. pc = "restart_clean" /\ pc' = "obtain" /\ UNCHANGED <<files, memory, raised>>
    BY <1>9 DEF RestartClean
  <2> QED
    BY <2>1 DEF ControlInv, TempInv, SyncInv, RegularEnd
<1>10. CASE Obtained \/ DeployCert
  <2>1. pc' \in {"end", "deploy", "save"}
    BY <1>10 DEF Obtained, DeployCert
  <2> QED
    BY <2>1 DEF ControlInv, TempInv, SyncInv, RegularEnd
<1>11. CASE SaveDeployed
  <2>1. pc' \in {"finalize", "deploy"} /\ disk' = parsed'
    BY <1>11 DEF SaveDeployed, Save
  <2> QED
    BY <2>1 DEF ControlInv, TempInv, SyncInv, RegularEnd
<1>12. CASE FinalizeDeployed
  <2>1. pc = "finalize" /\ pc' = "restart" /\ UNCHANGED <<disk, parsed>>
    BY <1>12 DEF FinalizeDeployed, FinalizeCheckpoint
  <2> QED
    BY <2>1 DEF ControlInv, TempInv, SyncInv, RegularEnd
<1>13. CASE Restart
  <2>1. /\ pc = "restart" /\ pc' = "enhance_config" /\ UNCHANGED <<files, parsed>>
        /\ running' = challenge_conf \o disk
    BY <1>13 DEF Restart, Loaded
  <2>2. temp = <<>> /\ challenge_conf = <<>>
    BY <2>1 DEF IInv, CheckpointsInv
  <2>3. running' = disk
    BY <1>1, <2>1, <2>2 DEF Config
  <2> QED
    BY <2>1, <2>2, <2>3 DEF ControlInv, TempInv, SyncInv, RegularEnd
<1>14. CASE EnhanceConfig
  <2>1. /\ pc = "enhance_config" /\ pc' \in {"end", "enhance"} /\ UNCHANGED temp
    BY <1>14 DEF EnhanceConfig
  <2> QED
    BY <2>1 DEF ControlInv, TempInv, SyncInv, RegularEnd
<1>15. CASE Enhance
  <2>1. pc = "enhance" /\ pc' = "enhance" /\ UNCHANGED temp
    BY <1>15 DEF Enhance
  <2> QED
    BY <2>1 DEF ControlInv, TempInv, SyncInv, RegularEnd
<1>16. CASE SaveEnhancement
  <2>1. /\ pc' = "finalize_enhancement" /\ temp' = <<>> /\ disk' = parsed' /\ todo' = <<>>
    BY <1>16 DEF SaveEnhancement, Save
  <2> QED
    BY <2>1 DEF ControlInv, TempInv, SyncInv, RegularEnd
<1>17. CASE FinalizeEnhancement
  <2>1. /\ pc = "finalize_enhancement" /\ pc' \in {"restart_enhanced", "enhance"}
        /\ UNCHANGED <<disk, temp, parsed>>
        /\ pc' = "restart_enhanced" => enhancements' = {}
    BY <1>17 DEF FinalizeEnhancement, FinalizeCheckpoint
  <2> QED
    BY <2>1 DEF ControlInv, TempInv, SyncInv, RegularEnd
<1>18. CASE RestartEnhanced \/ Recover \/ RestartRolledBack
  <2>1. pc' = "end"
    BY <1>18 DEF RestartEnhanced, Recover, RestartRolledBack
  <2> QED
    BY <2>1 DEF ControlInv, TempInv, SyncInv, RegularEnd
<1>19. CASE RollbackCheckpoints
  <2>1. pc = "rollback" /\ pc' = "restart_rolled_back" /\ UNCHANGED <<raised, command>>
    BY <1>19 DEF RollbackCheckpoints
  <2> QED
    BY <2>1 DEF ControlInv, TempInv, SyncInv, RegularEnd
<1>20. CASE UNCHANGED vars
  BY <1>20 DEF vars, ControlInv, TempInv, SyncInv, RegularEnd
<1> QED
  BY <1>2, <1>3, <1>4, <1>5, <1>6, <1>7, <1>8, <1>9, <1>10, <1>11, <1>12, <1>13, <1>14, <1>15,
     <1>16, <1>17, <1>18, <1>19, <1>20 DEF Next

-----------------------------------------------------------------------------
(* apply_enhancement.                                                      *)
EnhanceView(config, e, d, f) ==
    \/ /\ f # "redirect" /\ Preserves(config, e)
       /\ Deployed(config, d) => Improves(config, e)
    \/ /\ f = "redirect" /\ Redirected(e, d)
       /\ RedirectView(config, e, d) \/ (e = config /\ HttpNamed(config, d) = {})

(* apply_enhancement for one domain: https stays, and a redirect is added  *)
(* if that was asked.                                                      *)
LEMMA EnhanceStep ==
    ASSUME TypeOK, Enhance, Regular(parsed)
    PROVE  EnhanceView(parsed, parsed', Head(todo), First(enhancements))
<1> DEFINE d == Head(todo)
           f == First(enhancements)
           c == ChooseVhost(parsed, d)
           r == ChooseRedirectVhost(parsed, d)
<1>1. parsed \in Config /\ d \in Domain
  BY DEF TypeOK, Config, Enhance
<1>2. FiniteNames(parsed) /\ Sound(parsed) /\ Named(parsed, d) \subseteq DOMAIN parsed
  BY DEF Regular, Sound, Named
<1>3. f \in Extra \cup {"redirect"} /\ "redirect" \notin Extra
  BY FirstType DEF Extra
<1>4. \/ /\ f = "redirect"
         /\ parsed' = IF r \in DOMAIN parsed THEN EnableRedirect(parsed, r, d) ELSE parsed
      \/ /\ f # "redirect" /\ c \in DOMAIN parsed
         /\ parsed' = EnableOcspStapling(parsed, c) \/ parsed' = SetHttpHeader(parsed, c, f)
  BY DEF Enhance
<1> HIDE DEF d, f
<1>5. 0 \notin DOMAIN parsed
  BY <1>1, IndexFinite
<1>6. CASE /\ f # "redirect" /\ c \in DOMAIN parsed
           /\ parsed' = EnableOcspStapling(parsed, c) \/ parsed' = SetHttpHeader(parsed, c, f)
  <2>1. /\ Preserves(parsed, parsed')
        /\ IsSsl(parsed, c) => Improves(parsed, parsed')
    BY <1>1, <1>3, <1>6, StaplingLeads, HeaderLeads
  <2>2. ASSUME Deployed(parsed, d)
        PROVE  IsSsl(parsed, c)
    <3>1. PICK j \in PortNamed(parsed, HttpsPort, d) : TRUE
      BY <1>1, <1>2, <2>2, ServedByName DEF Deployed
    <3>2. j \in Named(parsed, d) /\ IsSsl(parsed, j)
      BY <1>1, <1>2, <3>1, ListeningIs DEF PortNamed, Regular
    <3> QED
      BY <1>1, <1>2, <3>2, ChooseIs
  <2> QED
    BY <1>6, <2>1, <2>2 DEF EnhanceView, d, f
<1>7. CASE f = "redirect" /\ HttpNamed(parsed, d) = {}
  <2>1. r = 0
    BY <1>1, <1>2, <1>7, ChooseRedirectIs
  <2>2. parsed' = parsed
    BY <1>4, <1>5, <1>7, <2>1
  <2>3. Redirected(parsed, d)
    BY <1>1, <1>2, <1>7, ServedByName DEF Redirected, HttpNamed, PortNamed
  <2> QED
    BY <1>7, <2>2, <2>3 DEF EnhanceView, d, f
<1>8. CASE f = "redirect" /\ HttpNamed(parsed, d) # {}
  <2>1. r \in HttpNamed(parsed, d)
    BY <1>1, <1>2, <1>8, ChooseRedirectIs
  <2>2. r \in DOMAIN parsed /\ r # 0
    BY <1>2, <1>5, <2>1 DEF HttpNamed
  <2>3. parsed' = EnableRedirect(parsed, r, d)
    BY <1>4, <1>8, <2>2
  <2>4. RedirectView(parsed, parsed', d) /\ Redirected(parsed', d)
    BY <1>1, <2>2, <2>3, RedirectLeads
  <2> QED
    BY <1>8, <2>4 DEF EnhanceView, d, f
<1> QED
  BY <1>4, <1>6, <1>7, <1>8

LEMMA TailListed ==
    ASSUME NEW s \in Seq(Domain), s # <<>>
    PROVE  \A d \in Listed(s) : d = Head(s) \/ d \in Listed(Tail(s))
BY ListedIs

-----------------------------------------------------------------------------
(* Every configuration that is kept or deployed is complete.               *)
CompleteConfigs == {config \in Config : Complete(config)}
FiledInv == saved \in CompleteConfigs /\ {in_progress, checkpoints} \subseteq Seq(CompleteConfigs)

FulfilledInv ==
    temp = <<>> /\ pc \in Working =>
        IF pc = "enhance" /\ First(enhancements) = "redirect"
        THEN \A d \in Domain : d \in Listed(todo) \/ Fulfilled(parsed, d)
        ELSE Complete(parsed)

NewVhostInv == temp = <<>> /\ pc \in Deploying => HttpsKept(parsed, new_vhost)

(* A step keeps all backups complete.                                      *)
LEMMA NextFiled ==
    ASSUME TypeOK, IInv, ControlInv, FiledInv, FulfilledInv, [Next]_vars
    PROVE  FiledInv'
<1> USE DEF files, history, memory, process, Go
<1>1. /\ saved \in CompleteConfigs /\ disk \in Config /\ parsed \in Config
      /\ in_progress \in Seq(CompleteConfigs) /\ checkpoints \in Seq(CompleteConfigs)
  BY DEF FiledInv, TypeOK, Config
<1>2. <<>> \in Seq(CompleteConfigs)
  OBVIOUS
<1>3. UNCHANGED <<in_progress, checkpoints, saved>> => FiledInv'
  BY <1>1 DEF FiledInv
<1>4. RecoveryRoutine => FiledInv'
  BY <1>1, <1>2 DEF RecoveryRoutine, FiledInv
<1>5. Save => FiledInv'
  <2> SUFFICES ASSUME Save PROVE FiledInv'
    OBVIOUS
  <2>1. in_progress = <<>> => disk = saved
    BY DEF Save, IInv, CheckpointsInv, Recovered
  <2>2. in_progress' \in Seq(CompleteConfigs)
    BY <1>1, <2>1 DEF Save
  <2> QED
    BY <1>1, <2>2 DEF Save, FiledInv
<1>6. ASSUME NEW c \in {"run", "install", "enhance", "rollback"}, NEW S, Start(c, S)
      PROVE  FiledInv'
  BY <1>4, <1>6 DEF Start
<1>7. CASE FinalizeDeployed \/ FinalizeEnhancement
  <2>1. pc \in {"finalize", "finalize_enhancement"} /\ FinalizeCheckpoint
    BY <1>7 DEF FinalizeDeployed, FinalizeEnhancement
  <2>2. temp = <<>> /\ disk = parsed /\ pc \in Working /\ pc # "enhance"
    BY <2>1 DEF IInv, CheckpointsInv, ControlInv, SyncInv, Working, Deploying, Enhancing
  <2>3. Complete(disk)
    BY <2>2 DEF FulfilledInv
  <2>4. in_progress \o checkpoints \in Seq(CompleteConfigs)
    BY <1>1
  <2> QED
    BY <1>1, <1>2, <2>1, <2>3, <2>4 DEF FinalizeCheckpoint, FiledInv, CompleteConfigs
<1>8. CASE RollbackCheckpoints
  <2>1. CASE checkpoints = <<>>
    BY <1>3, <1>8, <2>1 DEF RollbackCheckpoints
  <2>2. CASE checkpoints # <<>>
    <3>1. Head(checkpoints) \in CompleteConfigs /\ Tail(checkpoints) \in Seq(CompleteConfigs)
      BY <1>1, <2>2
    <3> QED
      BY <1>1, <1>8, <2>2, <3>1 DEF RollbackCheckpoints, FiledInv
  <2> QED
    BY <2>1, <2>2
<1>9. CASE Recover
  BY <1>3, <1>4, <1>9 DEF Recover
<1>10. CASE SaveDeployed \/ SaveEnhancement
  BY <1>5, <1>10 DEF SaveDeployed, SaveEnhancement
<1>11. CASE SaveChallenge \/ Cleanup
  <2>1. UNCHANGED <<in_progress, checkpoints, saved>>
    BY <1>11 DEF SaveChallenge, Cleanup
  <2> QED
    BY <1>3, <2>1
<1>12. CASE \/ Perform \/ Performed \/ RestartForChallenge \/ Validate \/ RestartClean
            \/ Obtained \/ DeployCert \/ Restart
  <2>1. UNCHANGED files
    BY <1>12 DEF Perform, Performed, RestartForChallenge, Validate, RestartClean, Obtained,
                 DeployCert, Restart
  <2> QED
    BY <1>3, <2>1
<1>13. CASE EnhanceConfig \/ Enhance \/ RestartEnhanced \/ RestartRolledBack \/ Fail \/ End \/ Kill
  <2>1. UNCHANGED files
    BY <1>13 DEF EnhanceConfig, Enhance, RestartEnhanced, RestartRolledBack, Fail, End, Kill
  <2> QED
    BY <1>3, <2>1
<1>14. CASE UNCHANGED vars
  BY <1>3, <1>14 DEF vars
<1> QED
  BY <1>6, <1>7, <1>8, <1>9, <1>10, <1>11, <1>12, <1>13, <1>14 DEF Next

DeployableInv == FulfilledInv /\ NewVhostInv

(* A step keeps what is being worked on complete.                          *)
LEMMA NextFulfilled ==
    ASSUME Listed(Domains) = Domain, TypeOK, IInv, RegularInv, ControlInv,
           FiledInv, DeployableInv, [Next]_vars
    PROVE  DeployableInv'
<1> USE DEF files, history, memory, process, Go
<1>1. /\ parsed \in Config /\ Regular(parsed) /\ todo \in Seq(Domain)
      /\ saved \in CompleteConfigs
  BY DEF TypeOK, RegularInv, Within, RegularConfigs, FiledInv
<1>2. pc' \notin Working => DeployableInv'
  BY DEF DeployableInv, FulfilledInv, NewVhostInv, Working
<1>3. /\ pc' \in Working \ {"enhance"} /\ Complete(parsed')
      /\ pc' \in Deploying => HttpsKept(parsed', new_vhost')
      => DeployableInv'
  BY DEF DeployableInv, FulfilledInv, NewVhostInv
<1>4. /\ pc' = "enhance" /\ todo' = Domains /\ Complete(parsed') => DeployableInv'
  BY DEF DeployableInv, FulfilledInv, NewVhostInv, Listed, Deploying
<1>5. FulfilledInv /\ NewVhostInv /\ HttpsKept(parsed', 0)
  BY DEF HttpsKept, DeployableInv
<1>6. ASSUME NEW c \in {"run", "install", "enhance", "rollback"}, NEW S, Start(c, S)
      PROVE  DeployableInv'
  <2>1. /\ RecoveryRoutine /\ parsed' = disk' /\ new_vhost' = 0
        /\ pc' \in {"perform", "deploy", "enhance_config", "rollback"}
    BY <1>6 DEF Start, Load
  <2>2. parsed' = saved
    BY <2>1 DEF RecoveryRoutine, IInv, CheckpointsInv
  <2> QED
    BY <1>1, <1>2, <1>3, <1>5, <2>1, <2>2 DEF CompleteConfigs, Working, Deploying, Enhancing
<1>7. CASE Obtained
  <2>1. CASE pc' = "end"
    BY <1>2, <2>1 DEF Working, Deploying, Enhancing
  <2>2. CASE pc' # "end"
    <3>1. /\ pc = "obtain" /\ raised = "no" /\ pc' = "deploy"
          /\ UNCHANGED <<temp, saved, parsed, new_vhost>>
      BY <1>7, <2>2 DEF Obtained
    <3>2. temp # <<>> \/ (parsed = saved /\ new_vhost = 0)
      BY <3>1 DEF ControlInv, TempInv
    <3>3. CASE temp # <<>>
      BY <3>1, <3>3 DEF DeployableInv, FulfilledInv, NewVhostInv
    <3>4. CASE parsed = saved /\ new_vhost = 0
      BY <1>1, <1>3, <1>5, <3>1, <3>4 DEF CompleteConfigs, Working, Deploying
    <3> QED
      BY <3>2, <3>3, <3>4
  <2> QED
    BY <2>1, <2>2
<1>8. CASE DeployCert
  <2>1. pc = "deploy" /\ pc' = "save" /\ UNCHANGED temp
    BY <1>8 DEF DeployCert
  <2>2. CASE temp # <<>>
    BY <2>1, <2>2 DEF DeployableInv, FulfilledInv, NewVhostInv
  <2>3. CASE temp = <<>>
    <3>1. Complete(parsed) /\ HttpsKept(parsed, new_vhost)
      BY <1>5, <2>1, <2>3 DEF FulfilledInv, NewVhostInv, Working, Deploying
    <3>2. Complete(parsed') /\ HttpsKept(parsed', new_vhost')
      BY <1>1, <1>8, <3>1, DeployStep
    <3> QED
      BY <1>3, <2>1, <3>2 DEF Working, Deploying
  <2> QED
    BY <2>2, <2>3
<1>9. CASE SaveDeployed
  <2>1. /\ pc = "save" /\ pc' \in {"finalize", "deploy"} /\ temp = <<>>
        /\ UNCHANGED <<parsed, new_vhost>>
    BY <1>9 DEF SaveDeployed, Save
  <2>2. Complete(parsed) /\ HttpsKept(parsed, new_vhost)
    BY <1>5, <2>1 DEF FulfilledInv, NewVhostInv, Working, Deploying
  <2> QED
    BY <1>3, <2>1, <2>2 DEF Working, Deploying
<1>10. CASE FinalizeDeployed \/ Restart
  <2>1. /\ pc \in {"finalize", "restart"} /\ pc' \in {"restart", "enhance_config"}
        /\ UNCHANGED parsed
    BY <1>10 DEF FinalizeDeployed, Restart
  <2>2. temp = <<>>
    BY <2>1 DEF IInv, CheckpointsInv, Settled
  <2>3. Complete(parsed)
    BY <1>5, <2>1, <2>2 DEF FulfilledInv, Working, Deploying, Enhancing
  <2> QED
    BY <1>3, <2>1, <2>3 DEF Working, Deploying, Enhancing
<1>11. CASE EnhanceConfig \/ FinalizeEnhancement
  <2>1. /\ pc \in {"enhance_config", "finalize_enhancement"} /\ UNCHANGED parsed
        /\ \/ pc' \in {"end", "restart_enhanced"}
           \/ pc' = "enhance" /\ todo' = Domains
    BY <1>11 DEF EnhanceConfig, FinalizeEnhancement
  <2>2. temp = <<>>
    BY <2>1 DEF ControlInv, TempInv, Enhancing
  <2>3. Complete(parsed)
    BY <1>5, <2>1, <2>2 DEF FulfilledInv, Working, Enhancing
  <2> QED
    BY <1>2, <1>3, <1>4, <2>1, <2>3 DEF Working, Deploying, Enhancing
<1>12. CASE Enhance
  <2>1. /\ pc = "enhance" /\ pc' = "enhance" /\ todo # <<>> /\ todo' = Tail(todo)
        /\ UNCHANGED <<temp, enhancements>>
    BY <1>12 DEF Enhance
  <2>2. temp = <<>> /\ pc \in Working
    BY <2>1 DEF ControlInv, TempInv, Enhancing, Working
  <2>3. EnhanceView(parsed, parsed', Head(todo), First(enhancements))
    BY <1>1, <1>12, EnhanceStep
  <2>4. CASE First(enhancements) # "redirect"
    <3>1. Complete(parsed)
      BY <1>5, <2>2, <2>4 DEF FulfilledInv
    <3>2. Complete(parsed')
      BY <2>3, <2>4, <3>1, CompleteKept DEF EnhanceView
    <3> QED
      BY <2>1, <2>4, <3>2 DEF DeployableInv, FulfilledInv, NewVhostInv, Deploying
  <2>5. CASE First(enhancements) = "redirect"
    <3>1. \A x \in Domain : x \in Listed(todo) \/ Fulfilled(parsed, x)
      BY <1>5, <2>1, <2>2, <2>5 DEF FulfilledInv
    <3>2. Fulfilled(parsed', Head(todo))
      BY <2>3, <2>5 DEF EnhanceView, RedirectView, Fulfilled
    <3>3. \A x \in Domain : Fulfilled(parsed, x) => Fulfilled(parsed', x)
      BY <2>3, <2>5 DEF EnhanceView, RedirectView
    <3>4. \A x \in Domain : x \in Listed(todo') \/ Fulfilled(parsed', x)
      BY <1>1, <2>1, <3>1, <3>2, <3>3, TailListed
    <3> QED
      BY <2>1, <2>5, <3>4 DEF DeployableInv, FulfilledInv, NewVhostInv, Deploying, Listed
  <2> QED
    BY <2>4, <2>5
<1>13. CASE SaveEnhancement
  <2>1. /\ pc = "enhance" /\ todo = <<>> /\ temp = <<>> /\ pc' = "finalize_enhancement"
        /\ UNCHANGED parsed
    BY <1>13 DEF SaveEnhancement, Save
  <2>2. Complete(parsed)
    <3>1. Listed(todo) = {}
      BY <2>1 DEF Listed
    <3> QED
      BY <1>5, <2>1, <3>1 DEF FulfilledInv, Complete, Working, Enhancing
  <2> QED
    BY <1>3, <2>1, <2>2 DEF Working, Deploying, Enhancing
<1>14. CASE RestartEnhanced \/ Recover \/ RollbackCheckpoints \/ RestartRolledBack \/ End \/ Kill
  <2>1. pc' \in {"end", "restart_rolled_back", "off"}
    BY <1>14 DEF RestartEnhanced, Recover, RollbackCheckpoints, RestartRolledBack, End, Kill,
                 Forget
  <2> QED
    BY <1>2, <2>1 DEF Working, Deploying, Enhancing
<1>15. CASE Fail
  <2>1. pc' \in {"cleanup", "recovery", "rollback", "end"}
    BY <1>15 DEF Fail, Handler
  <2> QED
    BY <1>2, <2>1 DEF Working, Deploying, Enhancing
<1>16. CASE \/ Perform \/ Performed \/ SaveChallenge \/ RestartForChallenge \/ Validate
            \/ Cleanup \/ RestartClean
  <2>1. pc' \in Challenging
    BY <1>16 DEF Perform, Performed, SaveChallenge, RestartForChallenge, Validate, Cleanup,
                 RestartClean, Challenging
  <2> QED
    BY <1>2, <2>1 DEF Working, Deploying, Enhancing, Challenging
<1>17. CASE UNCHANGED vars
  BY <1>17 DEF vars, DeployableInv, FulfilledInv, NewVhostInv, Listed
<1> QED
  BY <1>6, <1>7, <1>8, <1>9, <1>10, <1>11, <1>12, <1>13, <1>14, <1>15, <1>16, <1>17 DEF Next

-----------------------------------------------------------------------------
(* What run and install have achieved so far: Undeployed are the domains   *)
(* that may have no certificate yet, Unredirected those without redirect.  *)
Undeployed == IF pc \in {"deploy", "save"} THEN Listed(todo) ELSE {}

Unredirected ==
    IF "redirect" \in requests /\ pc \in {"enhance", "finalize_enhancement", "restart_enhanced"}
    THEN CASE "redirect" \notin enhancements -> {}
           [] "redirect" \in enhancements /\ "hsts" \in enhancements -> Domain
           [] "redirect" \in enhancements /\ "hsts" \notin enhancements -> Listed(todo)
    ELSE Domain

Achieved(config, U, V) ==
    /\ RedirectsLead(config)
    /\ \A d \in Domain : d \in U \/ Deployed(config, d)
    /\ \A d \in Domain : d \in V \/ Redirected(config, d)

Claimed ==
    temp = <<>> /\ pc \in Working /\ command \in {"run", "install"} /\ RedirectsLead(prior)

ServedInv == Claimed => Achieved(parsed, Undeployed, Unredirected)

(* What was achieved stays achieved by an enhancement, and a redirect adds *)
(* to it.                                                                  *)
LEMMA ImprovesAchieved ==
    ASSUME NEW config \in Config, NEW e \in Config, NEW V, NEW d \in Domain, NEW f,
           Achieved(config, {}, V), EnhanceView(config, e, d, f)
    PROVE  /\ Achieved(e, {}, V)
           /\ f = "redirect" => Achieved(e, {}, V \ {d})
<1>1. /\ \A x \in Domain : Deployed(config, x)
      /\ \A x \in Redirects(config) : x \in Domain /\ LeadsTo(config, x)
      /\ \A x \in Domain : x \in V \/ Redirected(config, x)
  BY RedirectsLeadIs DEF Achieved
<1>2. \/ e = config
      \/ /\ Improves(config, e)
         /\ Redirects(e) \subseteq Redirects(config) \cup {d}
  BY <1>1 DEF EnhanceView, Preserves, RedirectView
<1>3. f = "redirect" => Redirected(e, d)
  BY DEF EnhanceView
<1>4. ASSUME NEW x \in Domain
      PROVE  /\ Deployed(e, x)
             /\ x \in V \/ Redirected(e, x)
             /\ x \in Redirects(e) => LeadsTo(e, x)
  <2>1. CASE e = config
    BY <1>1, <2>1
  <2>2. CASE Improves(config, e) /\ Redirects(e) \subseteq Redirects(config) \cup {d}
    <3>1. /\ LeadsTo(config, x) => LeadsTo(e, x)
          /\ Deployed(config, x) => Deployed(e, x)
          /\ Redirected(config, x) => Redirected(e, x)
      BY <2>2 DEF Improves
    <3>2. LeadsTo(config, x)
      <4>1. CASE x \in Redirects(config)
        BY <1>1, <4>1
      <4>2. CASE x \notin Redirects(config)
        <5>1. Named(config, x) \subseteq DOMAIN config /\ Deployed(config, x)
          BY <1>1 DEF Named
        <5> QED
          BY <4>2, <5>1 DEF Deployed, LeadsTo, Redirects
      <4> QED
        BY <4>1, <4>2
    <3> QED
      BY <1>1, <3>1, <3>2
  <2> QED
    BY <1>2, <2>1, <2>2
<1>5. RedirectsLead(e)
  BY <1>4, RedirectsLeadIs
<1> QED
  BY <1>3, <1>4, <1>5 DEF Achieved

LEMMA FirstIs ==
    ASSUME NEW S
    PROVE  /\ First(S) = "redirect" <=> "redirect" \in S /\ "hsts" \notin S
           /\ First(S) = "hsts" <=> "hsts" \in S
BY DEF First

(* A step keeps what run and install have achieved.                        *)
LEMMA NextServed ==
    ASSUME Listed(Domains) = Domain, TypeOK, IInv, RegularInv, ControlInv,
           DeployableInv, ServedInv, [Next]_vars, TypeOK'
    PROVE  ServedInv'
<1> USE DEF files, history, memory, process, Go
<1>1. /\ parsed \in Config /\ parsed' \in Config /\ Regular(parsed) /\ todo \in Seq(Domain)
      /\ FulfilledInv /\ NewVhostInv
      /\ Listed(<<>>) = {}
  BY DEF TypeOK, RegularInv, Within, RegularConfigs, DeployableInv, Listed, Config
<1> SUFFICES ASSUME Claimed' PROVE Achieved(parsed', Undeployed', Unredirected')
  BY DEF ServedInv
<1>2. pc' \in Working /\ temp' = <<>> /\ command' \in {"run", "install"} /\ RedirectsLead(prior')
  BY DEF Claimed
<1>3. pc \in Working /\ temp = <<>> /\ UNCHANGED <<command, prior>> =>
          Achieved(parsed, Undeployed, Unredirected)
  BY <1>2 DEF Claimed, ServedInv
<1>4. /\ pc' \in {"deploy", "save"} => Undeployed' = Listed(todo') /\ Unredirected' = Domain
      /\ pc' \in {"finalize", "restart", "enhance_config"} =>
             Undeployed' = {} /\ Unredirected' = Domain
      /\ pc' \in Enhancing => Undeployed' = {}
  BY DEF Undeployed, Unredirected, Enhancing
<1>5. ASSUME NEW c \in {"run", "install", "enhance", "rollback"}, NEW S, Start(c, S)
      PROVE  Achieved(parsed', Undeployed', Unredirected')
  <2>1. /\ parsed' = disk' /\ prior' = disk' /\ command' = c
        /\ todo' = IF c \in {"run", "install"} THEN Domains ELSE <<>>
        /\ pc' = [run |-> "perform", install |-> "deploy", enhance |-> "enhance_config",
                  rollback |-> "rollback"][c]
    BY <1>5 DEF Start, Load
  <2>2. c = "install"
    BY <1>2, <2>1 DEF Working, Deploying, Enhancing
  <2>3. pc' = "deploy" /\ todo' = Domains
    BY <2>1, <2>2
  <2> QED
    BY <1>2, <1>4, <2>1, <2>3 DEF Achieved
<1>6. CASE Obtained
  <2>1. /\ pc = "obtain" /\ pc' = "deploy" /\ raised = "no" /\ todo' = Domains
        /\ UNCHANGED <<temp, parsed, prior>>
    BY <1>2, <1>6 DEF Obtained, Working, Deploying, Enhancing
  <2>2. parsed = saved /\ saved = prior
    BY <1>2, <2>1 DEF ControlInv, TempInv, IInv, PriorInv, Challenging
  <2> QED
    BY <1>2, <1>4, <2>1, <2>2 DEF Achieved
<1>7. CASE DeployCert
  <2>1. /\ pc = "deploy" /\ pc' = "save" /\ todo # <<>> /\ todo' = Tail(todo)
        /\ UNCHANGED <<temp, command, prior>>
    BY <1>7 DEF DeployCert
  <2>2. Complete(parsed) /\ HttpsKept(parsed, new_vhost)
    BY <1>1, <1>2, <2>1 DEF FulfilledInv, NewVhostInv, Working, Deploying
  <2>3. Achieved(parsed, Listed(todo), Domain)
    BY <1>2, <1>3, <2>1 DEF Undeployed, Unredirected, Working, Deploying
  <2>4. Advances(parsed, parsed', Head(todo))
    BY <1>1, <1>7, <2>2, <2>3, DeployStep DEF Achieved
  <2>5. \A d \in Domain : d \in Listed(todo') \/ Deployed(parsed', d)
    BY <1>1, <2>1, <2>3, <2>4, TailListed DEF Achieved, Advances
  <2> QED
    BY <1>4, <2>1, <2>4, <2>5 DEF Achieved, Advances
<1>8. CASE SaveDeployed
  <2>1. /\ pc = "save" /\ temp = <<>> /\ UNCHANGED <<command, prior, parsed, todo>>
        /\ pc' = IF todo = <<>> THEN "finalize" ELSE "deploy"
    BY <1>8 DEF SaveDeployed, Save
  <2>2. Achieved(parsed, Listed(todo), Domain)
    BY <1>3, <2>1 DEF Undeployed, Unredirected, Working, Deploying
  <2>3. CASE todo = <<>>
    BY <1>1, <1>4, <2>1, <2>2, <2>3
  <2>4. CASE todo # <<>>
    BY <1>4, <2>1, <2>2, <2>4
  <2> QED
    BY <2>3, <2>4
<1>9. CASE FinalizeDeployed \/ Restart
  <2>1. /\ pc \in {"finalize", "restart"} /\ pc' \in {"restart", "enhance_config"}
        /\ UNCHANGED <<command, prior, parsed, todo>>
    BY <1>9 DEF FinalizeDeployed, Restart
  <2>2. temp = <<>>
    BY <2>1 DEF IInv, CheckpointsInv, Settled
  <2>3. Achieved(parsed, {}, Domain)
    BY <1>3, <2>1, <2>2 DEF Undeployed, Unredirected, Working, Deploying
  <2> QED
    BY <1>4, <2>1, <2>3
<1>10. CASE EnhanceConfig
  <2>1. /\ pc = "enhance_config" /\ pc' = "enhance" /\ todo' = Domains /\ enhancements' = requests
        /\ UNCHANGED <<command, prior, parsed, requests, temp>>
    BY <1>2, <1>10 DEF EnhanceConfig, Working, Deploying, Enhancing
  <2>2. Achieved(parsed, {}, Domain)
    BY <1>2, <1>3, <2>1 DEF Undeployed, Unredirected, Working, Enhancing
  <2>3. Unredirected' = Domain
    <3>1. Listed(todo') = Domain
      BY <2>1
    <3> QED
      BY <2>1, <3>1 DEF Unredirected
  <2> QED
    BY <1>4, <2>1, <2>2, <2>3 DEF Enhancing
<1>11. CASE Enhance
  <2> DEFINE f == First(enhancements)
             d == Head(todo)
  <2>1. /\ pc = "enhance" /\ pc' = "enhance" /\ todo # <<>> /\ todo' = Tail(todo)
        /\ UNCHANGED <<temp, command, prior, requests, enhancements>>
    BY <1>11 DEF Enhance
  <2>2. EnhanceView(parsed, parsed', d, f) /\ d \in Domain
    BY <1>1, <1>11, <2>1, EnhanceStep
  <2>3. Achieved(parsed, {}, Unredirected)
    BY <1>2, <1>3, <2>1 DEF Undeployed, Working, Enhancing
  <2>4. /\ f = "redirect" <=> "redirect" \in enhancements /\ "hsts" \notin enhancements
        /\ enhancements \subseteq requests
    BY FirstIs DEF TypeOK
  <2> HIDE DEF f, d
  <2>5. /\ Achieved(parsed', {}, Unredirected)
        /\ f = "redirect" => Achieved(parsed', {}, Unredirected \ {d})
    BY <1>1, <2>2, <2>3, ImprovesAchieved
  <2>6. CASE f = "redirect"
    <3>1. Unredirected = Listed(todo) /\ Unredirected' = Listed(todo')
      BY <2>1, <2>4, <2>6 DEF Unredirected
    <3>2. Listed(todo) \ {d} \subseteq Listed(todo')
      BY <1>1, <2>1, TailListed DEF d
    <3>3. Achieved(parsed', {}, Listed(todo'))
      BY <2>5, <2>6, <3>1, <3>2 DEF Achieved
    <3> QED
      BY <1>4, <2>1, <3>1, <3>3 DEF Enhancing
  <2>7. CASE f # "redirect"
    <3>1. Unredirected' = Unredirected
      BY <2>1, <2>4, <2>7 DEF Unredirected
    <3> QED
      BY <1>4, <2>1, <2>5, <3>1 DEF Enhancing
  <2> QED
    BY <2>6, <2>7
<1>12. CASE SaveEnhancement
  <2>1. /\ pc = "enhance" /\ pc' = "finalize_enhancement" /\ temp = <<>>
        /\ UNCHANGED <<command, prior, parsed, requests, enhancements, todo>>
    BY <1>12 DEF SaveEnhancement, Save
  <2>2. Achieved(parsed, {}, Unredirected)
    BY <1>3, <2>1 DEF Undeployed, Working, Enhancing
  <2>3. Unredirected' = Unredirected
    <3>1. Listed(todo') = Listed(todo)
      BY <2>1
    <3> QED
      BY <2>1, <3>1 DEF Unredirected
  <2> QED
    BY <1>4, <2>1, <2>2, <2>3 DEF Enhancing
<1>13. CASE FinalizeEnhancement
  <2> DEFINE f == First(enhancements)
  <2>1. /\ pc = "finalize_enhancement" /\ pc' \in {"enhance", "restart_enhanced"}
        /\ enhancements' = enhancements \ {f}
        /\ enhancements' # {} => pc' = "enhance" /\ todo' = Domains
        /\ UNCHANGED <<command, prior, parsed, requests, temp>>
    BY <1>13 DEF FinalizeEnhancement, FinalizeCheckpoint
  <2>2. todo = <<>>
    BY <2>1 DEF ControlInv, SyncInv
  <2>3. Achieved(parsed, {}, Unredirected)
    BY <1>2, <1>3, <2>1 DEF Undeployed, Working, Enhancing
  <2>4. /\ f = "redirect" <=> "redirect" \in enhancements /\ "hsts" \notin enhancements
        /\ f = "hsts" <=> "hsts" \in enhancements
    BY FirstIs
  <2> HIDE DEF f
  <2>5. Undeployed' = {} /\ Undeployed = {}
    BY <1>4, <2>1 DEF Enhancing, Undeployed
  <2>6. CASE "redirect" \in enhancements /\ "hsts" \in enhancements
    <3>1. "redirect" \in enhancements' /\ "hsts" \notin enhancements'
      BY <2>1, <2>4, <2>6
    <3>2. pc' = "enhance" /\ Listed(todo') = Domain
      BY <2>1, <3>1
    <3>3. Unredirected' = Domain
      BY <3>1, <3>2 DEF Unredirected
    <3> QED
      BY <2>1, <2>3, <2>5, <3>3 DEF Achieved
  <2>7. CASE ~ ("redirect" \in enhancements /\ "hsts" \in enhancements)
    <3>1. "redirect" \in requests => Unredirected = {}
      <4>1. Listed(todo) = {}
        BY <1>1, <2>2
      <4> QED
        BY <2>1, <2>7, <4>1 DEF Unredirected
    <3>2. "redirect" \notin requests => Unredirected' = Domain
      BY <2>1 DEF Unredirected
    <3> QED
      BY <2>1, <2>3, <2>5, <3>1, <3>2 DEF Achieved
  <2> QED
    BY <2>6, <2>7
<1>14. ~ (RestartEnhanced \/ Recover \/ RollbackCheckpoints \/ RestartRolledBack \/ End \/ Kill)
  <2>1. pc' \notin {"end", "restart_rolled_back", "off"}
    BY <1>2 DEF Working, Deploying, Enhancing
  <2> QED
    BY <2>1 DEF RestartEnhanced, Recover, RollbackCheckpoints, RestartRolledBack, End, Kill,
                Forget
<1>15. ~ Fail
  <2>1. pc' \notin {"cleanup", "recovery", "rollback", "end"}
    BY <1>2 DEF Working, Deploying, Enhancing
  <2> QED
    BY <2>1 DEF Fail, Handler
<1>16. ~ (\/ Perform \/ Performed \/ SaveChallenge \/ RestartForChallenge \/ Validate
          \/ Cleanup \/ RestartClean)
  <2>1. pc' \notin Challenging
    BY <1>2 DEF Working, Deploying, Enhancing, Challenging
  <2> QED
    BY <2>1 DEF Perform, Performed, SaveChallenge, RestartForChallenge, Validate, Cleanup,
                RestartClean, Challenging
<1>17. CASE UNCHANGED vars
  <2>1. UNCHANGED <<temp, pc, command, prior, parsed, requests, enhancements, todo>>
    BY <1>17 DEF vars
  <2>2. Undeployed' = Undeployed /\ Unredirected' = Unredirected
    BY <2>1 DEF Undeployed, Unredirected, Listed
  <2> QED
    BY <1>2, <1>3, <2>1, <2>2
<1> QED
  BY <1>5, <1>6, <1>7, <1>8, <1>9, <1>10, <1>11, <1>12, <1>13, <1>14, <1>15, <1>16, <1>17 DEF Next

(* When nothing is left to achieve, HttpsServed holds.                     *)
LEMMA AchievedServed ==
    ASSUME NEW config \in Config, FiniteNames(config), NEW V, Achieved(config, {}, V),
           NEW d \in Domain
    PROVE  LET i == Serving(config, HttpsPort, d)
               j == Serving(config, HttpPort, d)
           IN  /\ i # 0 /\ config[i].cert = "new" /\ d \notin config[i].redirects
               /\ d \notin V /\ j \in Named(config, d) => d \in config[j].redirects
<1>1. /\ Deployed(config, d) /\ (d \in V \/ Redirected(config, d))
      /\ \A x \in Redirects(config) : LeadsTo(config, x)
  BY RedirectsLeadIs DEF Achieved
<1>2. Serving(config, HttpsPort, d) \in DOMAIN config /\ 0 \notin DOMAIN config
  BY <1>1, ServedByName, IndexFinite DEF Deployed
<1>3. d \notin config[Serving(config, HttpsPort, d)].redirects
  BY <1>1, <1>2 DEF Redirects, LeadsTo
<1> QED
  BY <1>1, <1>2, <1>3 DEF Deployed, Redirected

(* A step to the end of a command leaves https served.                     *)
LEMMA NextHttps ==
    ASSUME TypeOK, IInv, RegularInv, ControlInv, ServedInv, HttpsServed, [Next]_vars
    PROVE  HttpsServed'
<1> USE DEF files, history, memory, process, Go
<1>1. SUFFICES ASSUME pc' = "end", raised' = "no", command' \in {"run", "install"},
                      RedirectsLead(prior')
               PROVE  HttpsServed'
  BY DEF HttpsServed
<1>2. parsed \in Config /\ FiniteNames(parsed) /\ disk \in Config
  BY DEF TypeOK, RegularInv, Within, RegularConfigs, Regular, Sound, Config
<1>3. ASSUME NEW V, Achieved(parsed, {}, V), running' = parsed,
             "redirect" \in requests' => V = {}
      PROVE  HttpsServed'
  <2>1. ASSUME NEW d \in Domain
        PROVE  LET i == Serving(parsed, HttpsPort, d)
                   j == Serving(parsed, HttpPort, d)
               IN  /\ i # 0 /\ parsed[i].cert = "new" /\ d \notin parsed[i].redirects
                   /\ "redirect" \in requests' /\ j \in Named(parsed, d) =>
                          d \in parsed[j].redirects
    BY <1>2, <1>3, AchievedServed
  <2> QED
    BY <1>3, <2>1 DEF HttpsServed
<1>4. CASE EnhanceConfig
  <2>1. /\ pc = "enhance_config" /\ requests = {} /\ requests' = {}
        /\ UNCHANGED <<command, prior, running>>
    BY <1>1, <1>4 DEF EnhanceConfig
  <2>2. temp = <<>> /\ running = parsed
    BY <1>1, <2>1 DEF ControlInv, TempInv, SyncInv, Enhancing
  <2>3. Achieved(parsed, {}, Domain)
    BY <1>1, <2>1, <2>2 DEF ServedInv, Claimed, Undeployed, Unredirected, Working, Enhancing
  <2> QED
    BY <1>3, <2>1, <2>2, <2>3
<1>5. CASE RestartEnhanced
  <2>1. /\ pc = "restart_enhanced" /\ running' = challenge_conf \o disk
        /\ UNCHANGED <<command, prior, requests>>
    BY <1>5 DEF RestartEnhanced, Loaded
  <2>2. temp = <<>> /\ challenge_conf = <<>> /\ disk = parsed /\ enhancements = {}
    BY <2>1 DEF ControlInv, TempInv, SyncInv, IInv, CheckpointsInv, Enhancing
  <2>3. running' = parsed
    BY <1>2, <2>1, <2>2 DEF Config
  <2>4. Achieved(parsed, {}, Unredirected)
    BY <1>1, <2>1, <2>2 DEF ServedInv, Claimed, Undeployed, Working, Enhancing
  <2>5. "redirect" \in requests' => Unredirected = {}
    BY <2>1, <2>2 DEF Unredirected
  <2> QED
    BY <1>3, <2>3, <2>4, <2>5
<1>6. ~ (Obtained \/ Recover \/ RestartRolledBack)
  <2>1. ~ Obtained
    BY <1>1 DEF Obtained
  <2>2. ~ Recover
    BY <1>1 DEF Recover, ControlInv, RegularEnd
  <2>3. ~ RestartRolledBack
    BY <1>1 DEF RestartRolledBack, ControlInv, RegularEnd
  <2> QED
    BY <2>1, <2>2, <2>3
<1>7. ~ Fail
  BY <1>1 DEF Fail, Handler
<1>8. ~ (\E c \in {"run", "install", "enhance", "rollback"}, S \in Requests \cup {{}} : Start(c, S))
  BY <1>1 DEF Start
<1>9. ~ (\/ Perform \/ Performed \/ SaveChallenge \/ RestartForChallenge \/ Validate
         \/ Cleanup \/ RestartClean \/ DeployCert \/ SaveDeployed \/ FinalizeDeployed)
  BY <1>1 DEF Perform, Performed, SaveChallenge, RestartForChallenge, Validate, Cleanup,
              RestartClean, DeployCert, SaveDeployed, FinalizeDeployed
<1>10. ~ (\/ Restart \/ Enhance \/ SaveEnhancement \/ FinalizeEnhancement
          \/ RollbackCheckpoints \/ End \/ Kill)
  BY <1>1 DEF Restart, Enhance, SaveEnhancement, FinalizeEnhancement, RollbackCheckpoints, End,
              Kill, Forget
<1>11. CASE UNCHANGED vars
  BY <1>11 DEF vars, HttpsServed
<1> QED
  BY <1>4, <1>5, <1>6, <1>7, <1>8, <1>9, <1>10, <1>11 DEF Next

(* All that holds of such an installation at every step.                   *)
AllInv == RegularInv /\ ControlInv /\ FiledInv /\ DeployableInv /\ ServedInv /\ HttpsServed

(* When run or install ends, https serves what it should, and redirects    *)
(* lead there: from clear configurations, without redirects at first, and  *)
(* with a certificate for all domains.                                     *)
THEOREM HttpsServedAlways ==
    ASSUME \A config \in Configurations :
               /\ Orderly(config) /\ Clear(config)
               /\ \A i \in DOMAIN config : config[i].redirects = {},
           Listed(Domains) = Domain
    PROVE  Spec => []HttpsServed
<1>1. Init => AllInv
  <2> SUFFICES ASSUME Init PROVE AllInv
    OBVIOUS
  <2>1. RegularInv /\ ControlInv
    BY InitRegular, InitControl
  <2>2. FiledInv
    <3>1. saved \in Configurations /\ saved = disk
      BY DEF Init
    <3>2. saved \in Config /\ Redirects(saved) = {}
      BY <3>1, ConfigurationsAssumption DEF Redirects, Config
    <3> QED
      BY <3>2 DEF Init, FiledInv, CompleteConfigs, Complete
  <2>3. pc = "off" /\ pc \notin Working
    BY DEF Init, Working, Deploying, Enhancing
  <2> QED
    BY <2>1, <2>2, <2>3 DEF AllInv, DeployableInv, FulfilledInv, NewVhostInv, ServedInv, Claimed,
                            HttpsServed, Working
<1>2. TypeOK /\ IInv /\ TypeOK' /\ AllInv /\ [Next]_vars => AllInv'
  <2> SUFFICES ASSUME TypeOK, IInv, TypeOK', AllInv, [Next]_vars PROVE AllInv'
    OBVIOUS
  <2>1. RegularInv /\ ControlInv /\ FiledInv /\ DeployableInv /\ ServedInv /\ HttpsServed
    BY DEF AllInv
  <2>2. RegularInv' /\ ControlInv'
    BY <2>1, NextRegular, NextControl
  <2>3. FiledInv' /\ DeployableInv'
    BY <2>1, NextFiled, NextFulfilled DEF DeployableInv
  <2>4. ServedInv'
    BY <2>1, NextServed
  <2>5. HttpsServed'
    BY <2>1, NextHttps
  <2> QED
    BY <2>2, <2>3, <2>4, <2>5 DEF AllInv
<1>3. AllInv => HttpsServed
  BY DEF AllInv
<1>4. Spec => []IInv
  BY InitType, NextType, InitInv, NextInv, PTL DEF Spec
<1> QED
  BY <1>1, <1>2, <1>3, <1>4, Types, PTL DEF Spec
=============================================================================
