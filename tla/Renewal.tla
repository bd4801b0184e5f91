------------------------------- MODULE Renewal -------------------------------
(***************************************************************************)
(* The commands that renew certificates: renew and certonly of             *)
(* certbot/_internal/main.py, the loop over the lineages of                *)
(* certbot/_internal/renewal.py, the updaters, and with Hooks, Standalone  *)
(* and Webroot all they do to the machine.  One process runs at a time     *)
(* (LockFile).  A process may be killed, or interrupted from the keyboard, *)
(* between any two steps; files, links and web server survive it.  How     *)
(* lineages are written is in Lineage, how the CA is dealt with in         *)
(* AuthHandler: here they take a step or two.                              *)
(***************************************************************************)
EXTENDS Naturals, Hooks, Webroot

CONSTANTS
    LastLineage,    \* the renewal configuration files, in order, are 1..LastLineage
    MaxStarts,      \* bound: processes
    MaxKills,       \* bound: of these, how many are killed
    Setups          \* what may be configured for a lineage

ASSUME CountAssumption == LastLineage \in Nat \ {0} /\ MaxStarts \in Nat /\ MaxKills \in Nat

Lineage == 1..LastLineage

(* Its hooks, the authenticator, which may be a plugin of the web server,  *)
(* and whether that plugin is the installer.                               *)
ASSUME SetupAssumption ==
    Setups \subseteq [hooks : SUBSET Hook, authenticator : {"standalone", "webroot", "server"},
                installer : BOOLEAN]

VARIABLES
    setup,      \* what is configured for each lineage
    version,    \* its newest certificate
    due,        \* the lineages due for renewal
    announced,  \* the version the deploy-hook was last called for
    starts, kills,
    verb, dry_run, sleep,   \* the command, --dry-run, apply_random_sleep
    pc,         \* what the process does, "off" when there is none
    i,          \* renewal_candidate
    todo,       \* what its current loop has not treated
    raised,     \* the exception under way: "no", an "error" or an "interrupt"
    hit,        \* where the process was interrupted
    stale,      \* an ErrorHandler of the process ended regularly: its handler stays
    taken_back, \* the lineages whose links a signal took back, and went no further
    renewed,    \* renew_successes, and renewed_domains by lineage
    failed,     \* the same for failures
    parse_failures,
    told        \* what the post-hooks are told: RENEWED_DOMAINS and FAILED_DOMAINS

disk == <<version, live, due, announced>>
history == <<starts, kills>>
plugin == <<standalone, webroot>>
authenticator == setup[i].authenticator
command == <<setup, verb, dry_run>>
signals == <<stale, taken_back>>
results == <<renewed, failed, parse_failures, told>>
vars == <<command, history, disk, port, loaded, hooks, plugin, signals, sleep, pc, i, todo,
          raised, hit, results>>

NoneTold == [renewed |-> {}, failed |-> {}]

Init ==
    /\ setup \in [Lineage -> Setups]
    /\ version = [l \in Lineage |-> 1] /\ live = version /\ loaded = version /\ announced = version
    /\ port = "server" /\ due = {}
    /\ starts = 0 /\ kills = 0
    /\ verb = "renew" /\ dry_run = FALSE /\ sleep = FALSE
    /\ pc = "off" /\ i = 1 /\ todo = {} /\ raised = "no" /\ hit = "no"
    /\ stale = FALSE /\ taken_back = {}
    /\ executed_pre_hooks = {} /\ post_hooks = <<>>
    /\ instances = FALSE /\ resources = {} /\ served = {}
    /\ dirs = 0 /\ created_dirs = 0 /\ files = {} /\ performed = {} /\ cut = FALSE
    /\ renewed = {} /\ failed = {} /\ parse_failures = {} /\ told = NoneTold

Go(label) == pc' = label

(* What is in the memory of a process: nothing when it ends.               *)
Forget ==
    /\ verb' = "renew" /\ dry_run' = FALSE /\ sleep' = FALSE
    /\ i' = 1 /\ todo' = {} /\ raised' = "no" /\ hit' = "no"
    /\ stale' = FALSE /\ taken_back' = {}
    /\ executed_pre_hooks' = {} /\ post_hooks' = <<>>
    /\ NewAuthenticator /\ NewWebroot
    /\ renewed' = {} /\ failed' = {} /\ parse_failures' = {} /\ told' = NoneTold

(* Between two processes a certificate comes near its end, or is revoked.  *)
BecomesDue(l) ==
    /\ pc = "off" /\ starts < MaxStarts /\ l \notin due
    /\ due' = due \cup {l}
    /\ UNCHANGED <<command, history, signals, version, live, announced, port, loaded, hooks,
                   plugin, sleep, pc, i, todo, raised, hit, results>>

(* renew, or certonly for one certificate, not interactively: a renewal    *)
(* has to wait some time.                                                  *)
Start ==
    /\ pc = "off" /\ starts < MaxStarts
    /\ starts' = starts + 1 /\ dry_run' \in BOOLEAN
    /\ \/ verb' = "renew" /\ i' = 1 /\ sleep' = TRUE /\ Go("load")
       \/ verb' = "certonly" /\ i' \in Lineage /\ sleep' = FALSE /\ Go("deployed")
    /\ UNCHANGED <<setup, kills, signals, disk, port, loaded, hooks, plugin, todo, raised, hit,
                   results>>

-----------------------------------------------------------------------------
(* Where an exception leads.  One raised in the try of _get_and_save_cert  *)
(* passes through its finally and, when a challenge may be there, first    *)
(* through the cleanup of AuthHandler.  The loop of handle_renewal_request *)
(* takes errors for a failure of the lineage; an interrupt leaves it.      *)
(* update_all_links_to has its links taken back before it raises.          *)
InTry == {"obtain", "perform", "note", "validate", "cleanup", "save", "link", "deploy"}
Presenting == {"perform", "note", "validate"}

LoopGoesOn == IF i = LastLineage THEN Go("describe") /\ i' = i ELSE Go("load") /\ i' = i + 1

Leaves(exception) ==
    IF verb = "renew" /\ exception = "error"
    THEN failed' = failed \cup {i} /\ raised' = "no" /\ LoopGoesOn
    ELSE /\ Go(IF verb = "renew" THEN "saved_hooks" ELSE "end")
         /\ raised' = exception /\ UNCHANGED <<i, failed>>

RaiseWithoutFinally(exception) ==
    IF pc \in Presenting
    THEN Go("cleanup") /\ raised' = exception /\ UNCHANGED <<i, failed>>
    ELSE Leaves(exception)
Raise(exception) ==
    IF pc \in InTry
    THEN /\ Go(IF pc \in Presenting THEN "cleanup" ELSE "post_hook")
         /\ raised' = exception /\ UNCHANGED <<i, failed>>
    ELSE Leaves(exception)

MayRaise == {"deployed", "plugins", "obtain", "perform", "validate", "save", "link",
             "deploy", "deployer", "restart", "updaters"}

Error ==
    /\ pc \in MayRaise \/ (pc = "note" /\ authenticator = "webroot")
    /\ Raise("error")
    /\ UNCHANGED <<command, history, signals, disk, port, loaded, hooks, plugin, sleep,
                   todo, hit, renewed, parse_failures, told>>

(* KeyboardInterrupt, once per process.  The post-hooks still to be run    *)
(* are skipped when it comes among them.                                   *)
Interrupt ==
    /\ pc \notin {"off", "end", "hung"} /\ hit = "no"
    /\ hit' = (IF pc \in {"pre_hook", "cleanup", "post_hook", "saved_hooks"}
               THEN pc ELSE "elsewhere")
    /\ CASE pc = "saved_hooks" -> Go("end") /\ raised' = "interrupt" /\ UNCHANGED <<i, failed>>
         [] pc = "post_hook" -> Leaves("interrupt")
         [] OTHER -> Raise("interrupt")
    /\ UNCHANGED <<command, history, signals, disk, port, loaded, hooks, plugin, sleep,
                   todo, renewed, parse_failures, told>>

(* SIGKILL or a crash.                                                     *)
Kill ==
    /\ pc # "off" /\ kills < MaxKills
    /\ kills' = kills + 1 /\ Go("off")
    /\ port' = (IF Bound THEN "nobody" ELSE port)
    /\ Forget
    /\ UNCHANGED <<setup, starts, disk, loaded, dirs>>

-----------------------------------------------------------------------------
(* reconstitute; a broken configuration file is skipped.                   *)
Reconstitute ==
    /\ pc = "load"
    /\ \/ Go("deployed") /\ i' = i /\ UNCHANGED parse_failures
       \/ LoopGoesOn /\ parse_failures' = parse_failures \cup {i}
    /\ UNCHANGED <<command, history, signals, disk, port, loaded, hooks, plugin, sleep,
                   todo, raised, hit, renewed, failed, told>>

(* update_all_links_to the newest version, in an ErrorHandler.  When it    *)
(* ends regularly the signal handler of that block stays.  From then on    *)
(* signals are swallowed: one that interrupts a later update has the links *)
(* taken back by _fix_symlinks, and the process goes on behind the block.  *)
UpdateAllLinksTo(l) ==
    \/ /\ live' = [live EXCEPT ![l] = version[l]]
       /\ stale' = TRUE /\ taken_back' = taken_back \ {l}
    \/ /\ stale /\ taken_back' = taken_back \cup {l}
       /\ UNCHANGED <<live, stale>>

(* ensure_deployed and should_renew, with the random delay before the      *)
(* first renewal.  certonly is content with links it had to mend, and      *)
(* otherwise renews, because it is time or is told to.                     *)
ShouldRenew ==
    /\ pc = "deployed"
    /\ IF live[i] = version[i] THEN UNCHANGED <<live, signals>> ELSE UpdateAllLinksTo(i)
    /\ Go(CASE verb = "certonly" -> IF live[i] = version[i] THEN "plugins" ELSE "end"
            [] verb = "renew" -> IF i \notin due /\ ~ dry_run THEN "updaters"
                                 ELSE IF sleep THEN "sleep" ELSE "plugins")
    /\ UNCHANGED <<command, history, version, due, announced, port, loaded, hooks, plugin,
                   sleep, i, todo, raised, hit, results>>

RandomSleep ==
    /\ pc = "sleep" /\ Go("plugins")
    /\ sleep' = FALSE
    /\ UNCHANGED <<command, history, signals, disk, port, loaded, hooks, plugin, i, todo,
                   raised, hit, results>>

(* choose_configurator_plugins and _init_le_client; pre_hook begins.       *)
HooksOfFirst ==
    /\ pc = "plugins" /\ Go("pre_hook")
    /\ NewAuthenticator /\ NewWebroot
    /\ todo' = (IF i = 1 \/ verb = "certonly" THEN setup[i].hooks ELSE {})
    /\ UNCHANGED <<command, history, signals, disk, port, loaded, hooks, dirs, sleep, i,
                   raised, hit, results>>
ChoosePlugins ==
    /\ pc = "plugins" /\ Go("pre_hook")
    /\ NewAuthenticator /\ NewWebroot
    /\ todo' = setup[i].hooks
    /\ UNCHANGED <<command, history, signals, disk, port, loaded, hooks, dirs, sleep, i,
                   raised, hit, results>>

PreHook ==
    /\ pc = "pre_hook"
    /\ IF todo = {}
       THEN Go("obtain") /\ UNCHANGED <<todo, executed_pre_hooks, port>>
       ELSE \E h \in todo : RunPreHook(h) /\ todo' = todo \ {h} /\ UNCHANGED pc
    /\ UNCHANGED <<command, history, signals, disk, loaded, post_hooks, plugin, sleep, i,
                   raised, hit, results>>

-----------------------------------------------------------------------------
(* obtain_certificate.  The CA may still know the domains.                 *)
NewOrder ==
    /\ pc = "obtain"
    /\ \/ Go("save") /\ todo' = {}
       \/ Go("perform") /\ todo' = (IF authenticator = "server" THEN {WebServer} ELSE Challenge)
    /\ UNCHANGED <<command, history, signals, disk, port, loaded, hooks, plugin, sleep, i,
                   raised, hit, results>>

(* perform of the standalone plugin and of webroot: the challenges of the  *)
(* list one after the other.                                               *)
First(cs) == CHOOSE c \in cs : TRUE

Perform ==
    /\ pc = "perform" /\ authenticator = "standalone" /\ todo # {}
    /\ PerformHttp01(First(todo)) /\ todo' = todo \ {First(todo)}
    /\ Go("note")
    /\ UNCHANGED <<command, history, signals, disk, loaded, hooks, webroot, sleep, i,
                   raised, hit, results>>

Note ==
    /\ pc = "note" /\ authenticator = "standalone"
    /\ \E c \in resources \ served : NoteServed(c)
    /\ Go("perform")
    /\ UNCHANGED <<command, history, signals, disk, loaded, hooks, webroot, sleep, i, todo,
                   raised, hit, results>>

PerformWebroot ==
    /\ pc = "perform" /\ authenticator = "webroot" /\ todo # {}
    /\ \/ CreateChallengeDir /\ UNCHANGED <<pc, todo>>
       \/ /\ SaveValidation(First(todo)) /\ todo' = todo \ {First(todo)}
          /\ Go("note")
    /\ UNCHANGED <<command, history, signals, disk, port, loaded, hooks, standalone, sleep,
                   i, raised, hit, results>>

NoteWebroot ==
    /\ pc = "note" /\ authenticator = "webroot"
    /\ \E c \in files \ performed : NotePerformed(c)
    /\ Go("perform")
    /\ UNCHANGED <<command, history, signals, disk, port, loaded, hooks, standalone, sleep,
                   i, todo, raised, hit, results>>

(* perform of a plugin that has the web server answer, and reloads it.     *)
PerformByServer ==
    /\ pc = "perform" /\ authenticator = "server" /\ todo # {}
    /\ RestartServer /\ todo' = {}
    /\ UNCHANGED <<command, history, signals, disk, hooks, plugin, sleep, pc, i, raised,
                   hit, results>>

(* The challenges are answered, and the CA finds them valid.               *)
Answered ==
    /\ pc = "perform" /\ todo = {} /\ Go("validate")
    /\ UNCHANGED <<command, history, signals, disk, port, loaded, hooks, plugin, sleep, i,
                   todo, raised, hit, results>>

Validated ==
    /\ pc = "validate"
    /\ CASE authenticator = "standalone" -> \A c \in Challenge : Answers(c)
         [] authenticator = "webroot" -> port = "server" /\ files = Challenge
         [] authenticator = "server" -> port = "server"
    /\ Go("cleanup")
    /\ UNCHANGED <<command, history, signals, disk, port, loaded, hooks, plugin, sleep, i,
                   todo, raised, hit, results>>

(* _cleanup_challenges.  What it raises is logged.                         *)
CleanupChallenges ==
    /\ pc = "cleanup"
    /\ CASE authenticator = "standalone" -> Cleanup(Challenge) /\ UNCHANGED <<loaded, webroot>>
         [] authenticator = "webroot" ->
               RemoveValidations(Challenge) /\ UNCHANGED <<port, loaded, standalone>>
         [] authenticator = "server" -> RestartServer /\ UNCHANGED plugin
    /\ Go(IF raised = "no" THEN "save" ELSE "post_hook")
    /\ todo' = {}
    /\ UNCHANGED <<command, history, signals, disk, hooks, sleep, i, raised, hit, results>>

-----------------------------------------------------------------------------
(* The rest of renew_cert: save_successor unless this is a dry run,        *)
(* update_all_links_to, and truncate with renew_hook, which may raise.     *)
Save ==
    /\ pc = "save"
    /\ IF dry_run
       THEN Go("post_hook") /\ UNCHANGED <<version, due>>
       ELSE /\ Go("link")
            /\ version' = [version EXCEPT ![i] = @ + 1] /\ due' = due \ {i}
    /\ UNCHANGED <<command, history, signals, live, announced, port, loaded, hooks, plugin,
                   sleep, i, todo, raised, hit, results>>

LinkEarlier ==
    /\ pc = "link" /\ Go("deploy")
    /\ live' = [live EXCEPT ![i] = version[i] - 1]
    /\ stale' = TRUE /\ taken_back' = taken_back \ {i}
    /\ UNCHANGED <<command, history, version, due, announced, port, loaded, hooks, plugin,
                   sleep, i, todo, raised, hit, results>>
Link ==
    /\ pc = "link" /\ Go("deploy")
    /\ UpdateAllLinksTo(i)
    /\ UNCHANGED <<command, history, version, due, announced, port, loaded, hooks, plugin,
                   sleep, i, todo, raised, hit, results>>

RenewHook ==
    /\ pc = "deploy" /\ Go("post_hook")
    /\ announced' = [announced EXCEPT ![i] = live[i]]
    /\ UNCHANGED <<command, history, signals, version, live, due, port, loaded, hooks,
                   plugin, sleep, i, todo, raised, hit, results>>

(* post_hook, in the finally of _get_and_save_cert: renew saves the hooks  *)
(* for the end, certonly runs them.  The exception goes on from there, or  *)
(* the server is reloaded when there is an installer.                      *)
Renewed == renewed' = renewed \cup {i} /\ Go("updaters")

PostHook ==
    /\ pc = "post_hook"
    /\ IF verb = "renew"
       THEN RunEventually(setup[i].hooks) /\ UNCHANGED <<port, loaded>>
       ELSE /\ IF WebServer \in setup[i].hooks THEN RunPostHook(WebServer)
               ELSE UNCHANGED <<port, loaded>>
            /\ UNCHANGED post_hooks
    /\ CASE raised # "no" -> Leaves(raised) /\ UNCHANGED renewed
         [] raised = "no" /\ setup[i].installer /\ ~ dry_run ->
               /\ Go(IF verb = "renew" THEN "deployer" ELSE "restart")
               /\ UNCHANGED <<renewed, i, failed, raised>>
         [] raised = "no" /\ ~ (setup[i].installer /\ ~ dry_run) ->
               /\ IF verb = "renew" THEN Renewed ELSE Go("end") /\ UNCHANGED renewed
               /\ UNCHANGED <<i, failed, raised>>
    /\ UNCHANGED <<command, history, signals, disk, executed_pre_hooks, plugin, sleep, todo,
                   hit, parse_failures, told>>

RunRenewalDeployer ==
    /\ pc = "deployer" /\ Go("restart")
    /\ UNCHANGED <<command, history, signals, disk, port, loaded, hooks, plugin, sleep, i,
                   todo, raised, hit, results>>

Restart ==
    /\ pc = "restart"
    /\ RestartServer
    /\ IF verb = "renew" THEN Renewed ELSE Go("end") /\ UNCHANGED renewed
    /\ UNCHANGED <<command, history, signals, disk, hooks, plugin, sleep, i, todo, raised,
                   hit, failed, parse_failures, told>>

RunGenericUpdaters ==
    /\ pc = "updaters" /\ LoopGoesOn
    /\ UNCHANGED <<command, history, signals, disk, port, loaded, hooks, plugin, sleep,
                   todo, raised, hit, results>>

(* The end of handle_renewal_request.  When something failed it raises, so *)
(* that renew tells the post-hooks nothing.                                *)
Describe ==
    /\ pc = "describe" /\ Go("saved_hooks")
    /\ told' = IF failed \cup parse_failures = {}
               THEN [renewed |-> renewed, failed |-> failed] ELSE NoneTold
    /\ UNCHANGED <<command, history, signals, disk, port, loaded, hooks, plugin, sleep, i,
                   todo, raised, hit, renewed, failed, parse_failures>>

SavedPostHooks ==
    /\ pc = "saved_hooks"
    /\ IF post_hooks = <<>>
       THEN Go("end") /\ UNCHANGED <<port, loaded, post_hooks>>
       ELSE RunSavedPostHook /\ UNCHANGED pc
    /\ UNCHANGED <<command, history, signals, disk, executed_pre_hooks, plugin, sleep, i,
                   todo, raised, hit, results>>

(* The interpreter waits for the threads of a listener that was left.      *)
End ==
    /\ pc = "end"
    /\ IF Bound
       THEN Go("hung") /\ UNCHANGED <<verb, dry_run, signals, sleep, i, todo, raised, hit,
                                      hooks, plugin, results>>
       ELSE Go("off") /\ Forget /\ UNCHANGED dirs
    /\ UNCHANGED <<setup, history, disk, port, loaded>>

Process ==
    \/ Reconstitute \/ ShouldRenew \/ RandomSleep \/ ChoosePlugins \/ PreHook
    \/ NewOrder \/ Perform \/ Note \/ PerformWebroot \/ NoteWebroot \/ PerformByServer
    \/ Answered \/ Validated
    \/ CleanupChallenges \/ Save \/ Link \/ RenewHook \/ PostHook
    \/ RunRenewalDeployer \/ Restart \/ RunGenericUpdaters \/ Describe
    \/ SavedPostHooks \/ End \/ Error

Next ==
    \/ (\E l \in Lineage : BecomesDue(l))
    \/ Start \/ Process \/ Interrupt \/ Kill

Spec == Init /\ [][Next]_vars

-----------------------------------------------------------------------------

(* Where a pre-hook of the lineage has stopped the web server, the         *)
(* standalone plugin finds the port free: also for the lineages after the  *)
(* first, when that pre-hook is not run again and the post-hook is saved.  *)
(* Only a reload for another lineage brings the server back in between.    *)
PortFree ==
    /\ pc = "perform" /\ authenticator = "standalone"
    /\ WebServer \in setup[i].hooks /\ ~ instances
    => \/ port = "nobody"
       \/ \E l \in 1..(i - 1) : setup[l].installer \/ setup[l].authenticator = "server"

(* However the attempt for a certificate ends, what it presented is taken  *)
(* down before the next attempt, the installer or a post-hook: the         *)
(* listener, the validation files, and the directories made for them when  *)
(* all of them were written - unless the interrupt came in the cleanup.    *)
NothingLeft ==
    pc \notin Presenting \cup {"perform", "cleanup"} /\ hit # "cleanup"
    => ~ Bound /\ files = {} /\ (created_dirs = 0 \/ cut)

(* What is reported as renewed, to the user and to the post-hooks, has its *)
(* links and its deploy-hook done, and the server of the installer uses    *)
(* it.  When a signal was swallowed that took the links back, the hook and *)
(* the server have at least the certificate the links lead to.             *)
RenewedIsDeployed ==
    \A l \in renewed \cup told.renewed :
        dry_run \/ /\ version[l] = live[l] \/ l \in taken_back
                   /\ live[l] = announced[l]
                   /\ setup[l].installer => loaded[l] = live[l]

(* When a process that stopped the server by a pre-hook ends, the server   *)
(* is up again, whatever failed: unless the process was interrupted        *)
(* exactly in the cleanup, in the post-hooks, or among the pre-hooks,      *)
(* which are run before the try that ends with the post-hooks.             *)
ServerComesBack ==
    pc \in {"end", "hung"} /\ WebServer \in executed_pre_hooks
    => \/ port = "server"
       \/ hit \in {"pre_hook", "cleanup", "post_hook", "saved_hooks"}
=============================================================================
