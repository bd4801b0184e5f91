---------------------------- MODULE Installation ----------------------------
(***************************************************************************)
(* The commands that change the configuration of a web server - run,       *)
(* install, enhance and rollback of certbot/_internal/main.py, with        *)
(* certbot/_internal/client.py - and the nginx plugin they work with, as   *)
(* authenticator and installer.  The plugin changes the parsed             *)
(* configuration (NginxConf), saves it in checkpoints of the Reverter, and *)
(* has the server load it.  A process may be killed between any two steps. *)
(* The checkpoints are taken for the files they stand for: Reverter shows  *)
(* how they are written and recovered.                                     *)
(***************************************************************************)
EXTENDS NginxConf

CONSTANTS
    Domains,        \* the domains of the certificate, in order
    Configurations, \* what may be configured at first
    Requests,       \* sets of enhancements that may be asked for
    MaxStarts,      \* bound: processes
    MaxKills        \* bound: of these, how many are killed

ASSUME DomainsAssumption == Domains \in Seq(Domain) /\ Domains # <<>>
ASSUME ConfigurationsAssumption == Configurations \subseteq Seq(Block)
ASSUME RequestsAssumption == Requests \subseteq SUBSET (Extra \cup {"redirect"})

VARIABLES
    disk,           \* the configuration files
    challenge_conf, \* the blocks of the file that is included for challenges
    running,        \* what the server has loaded
    temp,           \* the temporary checkpoint: what it would restore, or <<>>
    in_progress,    \* the checkpoint in progress, likewise
    checkpoints,    \* what the finalized ones would restore, the newest first
    starts, kills,
    command, requests,
    pc,
    parsed,         \* parser.parsed
    blocks,         \* the blocks http_01 makes, to be written to challenge_conf
    new_vhost,      \* 0 for None
    todo,           \* the domains the current loop has not treated
    enhancements,   \* the enhancements still to be applied
    raised,         \* where the exception was raised that is under way, or "no"
    saved,          \* history: the last complete configuration
    prior           \* history: the configuration the process began with

files == <<disk, challenge_conf, temp, in_progress, checkpoints, saved>>
history == <<starts, kills>>
memory == <<parsed, blocks, new_vhost>>
process == <<command, requests, pc, memory, todo, enhancements, raised, prior>>
vars == <<files, running, history, process>>

Init ==
    /\ disk \in Configurations /\ challenge_conf = <<>> /\ running = disk /\ saved = disk
    /\ temp = <<>> /\ in_progress = <<>> /\ checkpoints = <<>>
    /\ starts = 0 /\ kills = 0
    /\ command = "none" /\ requests = {} /\ pc = "off"
    /\ parsed = <<>> /\ blocks = <<>> /\ new_vhost = 0
    /\ todo = <<>> /\ enhancements = {} /\ raised = "no" /\ prior = disk

Go(label) == pc' = label

Forget ==
    /\ command' = "none" /\ requests' = {} /\ Go("off")
    /\ parsed' = <<>> /\ blocks' = <<>> /\ new_vhost' = 0
    /\ todo' = <<>> /\ enhancements' = {} /\ raised' = "no" /\ prior' = disk

(* parser.load, after the files were reverted; mutated: new_vhost is kept. *)
LoadOnly(config) == parsed' = config /\ UNCHANGED new_vhost
Load(config) == parsed' = config /\ new_vhost' = 0

(* recovery_routine of the Reverter.                                       *)
Recovered ==
    CASE in_progress # <<>> -> in_progress[1]
      [] in_progress = <<>> /\ temp # <<>> -> temp[1]
      [] in_progress = <<>> /\ temp = <<>> -> disk

RecoveryRoutine ==
    /\ disk' = Recovered /\ challenge_conf' = <<>>
    /\ temp' = <<>> /\ in_progress' = <<>>
    /\ UNCHANGED <<checkpoints, saved>>

(* The order in which enhance_config applies them.                         *)
First(S) ==
    CASE "hsts" \in S -> "hsts"
      [] "hsts" \notin S /\ "redirect" \in S -> "redirect"
      [] S \cap {"hsts", "redirect"} = {} /\ "staple" \in S -> "staple"
      [] S \cap {"hsts", "redirect", "staple"} = {} -> "uir"

-----------------------------------------------------------------------------
(* The plugin is made, which recovers what was left by a killed process,   *)
(* and prepared, which has nginx check the files.                          *)
Start(c, S) ==
    /\ pc = "off" /\ starts < MaxStarts
    /\ c = "enhance" => S # {}
    /\ starts' = starts + 1
    /\ RecoveryRoutine /\ prior' = disk'
    /\ Load(disk') /\ blocks' = <<>>
    /\ command' = c /\ requests' = S
    /\ todo' = IF c \in {"run", "install"} THEN Domains ELSE <<>>
    /\ enhancements' = {}
    /\ Accepted(disk')
    /\ raised' = "no"
    /\ Go([run |-> "perform", install |-> "deploy", enhance |-> "enhance_config",
           rollback |-> "rollback"][c])
    /\ UNCHANGED <<running, kills>>

Kill ==
    /\ pc # "off" /\ kills < MaxKills
    /\ kills' = kills + 1
    /\ Forget
    /\ UNCHANGED <<files, running, starts>>

(* An error of the files, of the server or of the CA, where the handlers   *)
(* of the client or of AuthHandler go on.                                  *)
Handler ==
    [perform |-> "cleanup", save_challenge |-> "cleanup", restart_challenge |-> "cleanup",
     validate |-> "cleanup",
     deploy |-> "recovery", save |-> "recovery", finalize |-> "recovery",
     enhance |-> "recovery", finalize_enhancement |-> "recovery",
     restart |-> "rollback", restart_enhanced |-> "rollback",
     obtain |-> "end", rollback |-> "end", restart_rolled_back |-> "end"]

Fail ==
    /\ pc \in DOMAIN Handler
    /\ raised' = pc /\ Go(Handler[pc])
    /\ todo' = <<>>
    /\ UNCHANGED <<files, running, history, command, requests, memory, enhancements, prior>>

-----------------------------------------------------------------------------
(* perform: the blocks for a challenge, the temporary checkpoint with the  *)
(* file for the other blocks, and the restart.                             *)
Perform ==
    /\ pc = "perform" /\ todo # <<>>
    /\ \E o \in Challenged(parsed, new_vhost, Head(todo)) :
         /\ parsed' = o.config /\ new_vhost' = o.vhost
         /\ blocks' = IF o.own THEN Append(blocks, ChallengeBlock(Head(todo))) ELSE blocks
    /\ todo' = Tail(todo)
    /\ UNCHANGED <<files, running, history, command, requests, pc, enhancements, raised, prior>>

Performed ==
    /\ pc = "perform" /\ todo = <<>> /\ Go("save_challenge")
    /\ UNCHANGED <<files, running, history, command, requests, memory, todo, enhancements,
                   raised, prior>>

SaveChallenge ==
    /\ pc = "save_challenge" /\ Go("restart_challenge")
    /\ temp' = (IF temp = <<>> THEN <<disk>> ELSE temp)
    /\ disk' = parsed /\ challenge_conf' = blocks
    /\ UNCHANGED <<in_progress, checkpoints, saved, running, history, command, requests,
                   memory, todo, enhancements, raised, prior>>

Loaded == Accepted(challenge_conf \o disk) /\ running' = challenge_conf \o disk

RestartForChallenge ==
    /\ pc = "restart_challenge" /\ Loaded /\ Go("validate")
    /\ UNCHANGED <<files, history, command, requests, memory, todo, enhancements, raised, prior>>

Validate ==
    /\ pc = "validate" /\ Go("cleanup")
    /\ UNCHANGED <<files, running, history, command, requests, memory, todo, enhancements,
                   raised, prior>>

(* cleanup; what it raises is logged by the handler and lost.              *)
Cleanup ==
    /\ pc = "cleanup"
    /\ \/ /\ disk' = (IF temp = <<>> THEN disk ELSE temp[1]) /\ challenge_conf' = <<>>
          /\ temp' = <<>>
          /\ Load(disk') /\ blocks' = <<>> /\ Go("restart_clean")
          /\ UNCHANGED <<in_progress, checkpoints, saved>>
       \/ Go("obtain") /\ UNCHANGED <<files, memory>>
    /\ UNCHANGED <<running, history, command, requests, todo, enhancements, raised, prior>>

RestartClean ==
    /\ pc = "restart_clean" /\ Go("obtain")
    /\ Loaded \/ UNCHANGED running
    /\ UNCHANGED <<files, history, command, requests, memory, todo, enhancements, raised, prior>>

Obtained ==
    /\ pc = "obtain"
    /\ IF raised # "no" THEN Go("end") /\ UNCHANGED todo ELSE Go("deploy") /\ todo' = Domains
    /\ UNCHANGED <<files, running, history, command, requests, memory, enhancements, raised,
                   prior>>

-----------------------------------------------------------------------------
(* deploy_certificate: deploy_cert and a save for each domain.             *)
DeployCert ==
    /\ pc = "deploy" /\ todo # <<>>
    /\ LET d == Head(todo)
           i == ChooseVhost(parsed, d)
       IN  \/ /\ i # 0 /\ CanSecure(parsed, i)
              /\ parsed' = DeployTo(parsed, i) /\ UNCHANGED new_vhost
           \/ /\ i = 0
              /\ \E o \in VhostFromDuplicatedDefault(parsed, new_vhost, d, TRUE, HttpsPort) :
                   /\ o.vhost # 0 /\ CanSecure(o.config, o.vhost)
                   /\ parsed' = DeployTo(o.config, o.vhost) /\ new_vhost' = o.vhost
    /\ todo' = Tail(todo) /\ Go("save")
    /\ UNCHANGED <<files, running, history, command, requests, blocks, enhancements, raised,
                   prior>>

(* save: the checkpoint in progress keeps what it has of the files, and    *)
(* none is made of a file that is changed temporarily.  Mutated: it does   *)
(* not keep it.                                                            *)
SaveAnew ==
    /\ temp = <<>>
    /\ in_progress' = <<disk>>
    /\ disk' = parsed
    /\ UNCHANGED <<challenge_conf, temp, checkpoints, saved>>
Save ==
    /\ temp = <<>>
    /\ in_progress' = (IF in_progress = <<>> THEN <<disk>> ELSE in_progress)
    /\ disk' = parsed
    /\ UNCHANGED <<challenge_conf, temp, checkpoints, saved>>

FinalizeCheckpoint ==
    /\ checkpoints' = in_progress \o checkpoints /\ in_progress' = <<>>
    /\ saved' = disk
    /\ UNCHANGED <<disk, challenge_conf, temp>>

SaveDeployed ==
    /\ pc = "save" /\ Save
    /\ Go(IF todo = <<>> THEN "finalize" ELSE "deploy")
    /\ UNCHANGED <<running, history, command, requests, memory, todo, enhancements, raised,
                   prior>>

FinalizeDeployed ==
    /\ pc = "finalize" /\ FinalizeCheckpoint /\ Go("restart")
    /\ UNCHANGED <<running, history, command, requests, memory, todo, enhancements, raised,
                   prior>>

Restart ==
    /\ pc = "restart" /\ Loaded /\ Go("enhance_config")
    /\ UNCHANGED <<files, history, command, requests, memory, todo, enhancements, raised, prior>>

(* enhance_config and apply_enhancement.                                   *)
EnhanceConfig ==
    /\ pc = "enhance_config"
    /\ enhancements' = requests
    /\ IF requests = {}
       THEN Go("end") /\ UNCHANGED todo
       ELSE Go("enhance") /\ todo' = Domains
    /\ UNCHANGED <<files, running, history, command, requests, memory, raised, prior>>

Enhance ==
    /\ pc = "enhance" /\ todo # <<>>
    /\ LET d == Head(todo)
           e == First(enhancements)
           i == IF e = "redirect" THEN ChooseRedirectVhost(parsed, d) ELSE ChooseVhost(parsed, d)
       IN  \/ /\ e = "redirect"
              /\ parsed' = IF i \in DOMAIN parsed THEN EnableRedirect(parsed, i, d) ELSE parsed
           \/ /\ e # "redirect" /\ i \in DOMAIN parsed /\ CanSecure(parsed, i)
              /\ parsed' = IF e = "staple" THEN EnableOcspStapling(parsed, i)
                           ELSE SetHttpHeader(parsed, i, e)
    /\ todo' = Tail(todo)
    /\ UNCHANGED <<files, running, history, command, requests, pc, blocks, new_vhost,
                   enhancements, raised, prior>>

SaveEnhancement ==
    /\ pc = "enhance" /\ todo = <<>> /\ Save /\ Go("finalize_enhancement")
    /\ UNCHANGED <<running, history, command, requests, memory, todo, enhancements, raised,
                   prior>>

FinalizeEnhancement ==
    /\ pc = "finalize_enhancement" /\ FinalizeCheckpoint
    /\ enhancements' = enhancements \ {First(enhancements)}
    /\ IF enhancements' = {}
       THEN Go("restart_enhanced") /\ UNCHANGED todo
       ELSE Go("enhance") /\ todo' = Domains
    /\ UNCHANGED <<running, history, command, requests, memory, raised, prior>>

RestartEnhanced ==
    /\ pc = "restart_enhanced" /\ Loaded /\ Go("end")
    /\ UNCHANGED <<files, history, command, requests, memory, todo, enhancements, raised, prior>>

-----------------------------------------------------------------------------
(* _recovery_routine_with_msg; an error in it is logged.                   *)
Recover ==
    /\ pc = "recovery" /\ Go("end")
    /\ \/ RecoveryRoutine /\ Load(disk')
       \/ UNCHANGED <<files, parsed, new_vhost>>
    /\ UNCHANGED <<running, history, command, requests, blocks, todo, enhancements, raised, prior>>

(* rollback_checkpoints, of _rollback_and_restart and of the command;       *)
(* where there is no checkpoint it only warns, and nginx is restarted.     *)
RollbackCheckpoints ==
    /\ pc = "rollback"
    /\ \/ /\ checkpoints # <<>>
          /\ disk' = Head(checkpoints) /\ checkpoints' = Tail(checkpoints) /\ saved' = disk'
       \/ checkpoints = <<>> /\ UNCHANGED <<disk, checkpoints, saved>>
    /\ Load(disk') /\ Go("restart_rolled_back")
    /\ UNCHANGED <<challenge_conf, temp, in_progress, running, history, command, requests,
                   blocks, todo, enhancements, raised, prior>>

RestartRolledBack ==
    /\ pc = "restart_rolled_back" /\ Loaded /\ Go("end")
    /\ UNCHANGED <<files, history, command, requests, memory, todo, enhancements, raised, prior>>

End ==
    /\ pc = "end"
    /\ Forget
    /\ UNCHANGED <<files, running, history>>

Next ==
    \/ (\E c \in {"run", "install", "enhance"}, S \in Requests : Start(c, S))
    \/ Start("rollback", {})
    \/ Perform \/ Performed \/ SaveChallenge \/ RestartForChallenge \/ Validate
    \/ Cleanup \/ RestartClean \/ Obtained
    \/ DeployCert \/ SaveDeployed \/ FinalizeDeployed \/ Restart
    \/ EnhanceConfig \/ Enhance \/ SaveEnhancement \/ FinalizeEnhancement
    \/ RestartEnhanced \/ Recover \/ RollbackCheckpoints \/ RestartRolledBack
    \/ Fail \/ End \/ Kill

Spec == Init /\ [][Next]_vars

-----------------------------------------------------------------------------
(* Types.                                                                  *)
TypeOK ==
    /\ {disk, challenge_conf, running, parsed, blocks, saved, prior} \subseteq Seq(Block)
    /\ {temp, in_progress, checkpoints} \subseteq Seq(Seq(Block))
    /\ new_vhost \in 0..Len(parsed)
    /\ todo \in Seq(Domain) /\ requests \in Requests \cup {{}} /\ enhancements \subseteq requests
    /\ raised \in {"no"} \cup DOMAIN Handler

(* Whatever is written, for challenges too and over several processes,     *)
(* nginx accepts: a reload does not fail for it.                           *)
NginxAccepts == Accepted(challenge_conf \o disk)

(* While the CA validates, the block that nginx picks for a request to a   *)
(* domain has the answer to its challenge.                                 *)
ChallengeServed ==
    pc = "validate" =>
        \A d \in Domain :
            LET i == Serving(running, HttpPort, d)
            IN  i # 0 /\ d \in running[i].answers

(* What redirects http goes to an https that serves it: not so when        *)
(* redirects were enabled before there was https to go to, nor when they   *)
(* already are in a loop.                                                  *)
RedirectsLead(config) ==
    \A d \in UNION {config[i].redirects : i \in DOMAIN config} :
        LET i == Serving(config, HttpsPort, d)
        IN  i \in Named(config, d) /\ d \notin config[i].redirects

(* When run or install ends without an error, the block nginx picks for    *)
(* https has the certificate and does not redirect the domain to itself;   *)
(* and the one it picks by name for http redirects it, if that was asked.  *)
HttpsServed ==
    /\ pc = "end" /\ raised = "no" /\ command \in {"run", "install"}
    /\ RedirectsLead(prior)
    => \A d \in Domain :
          LET i == Serving(running, HttpsPort, d)
              j == Serving(running, HttpPort, d)
          IN  /\ i # 0 /\ running[i].cert = "new" /\ d \notin running[i].redirects
              /\ "redirect" \in requests /\ j \in Named(running, d) =>
                      d \in running[j].redirects

(* At any point the Reverter leads back to the last complete               *)
(* configuration.  That is the prior one when a command fails before the   *)
(* certificate is deployed; and when nginx does not restart with the       *)
(* certificate, the prior one is running again at the end.                 *)
BeforeDeployed ==
    {"perform", "save_challenge", "restart_challenge", "validate", "obtain", "deploy", "save",
     "finalize"}

Restored ==
    /\ Recovered = saved
    /\ pc = "end" /\ raised \in BeforeDeployed => saved = prior
    /\ pc = "end" /\ raised = "restart" => disk = prior /\ running = prior
=============================================================================
