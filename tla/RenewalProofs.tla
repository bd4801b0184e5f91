---------------------------- MODULE RenewalProofs ----------------------------
(***************************************************************************)
(* Theorems about Renewal, for any number of lineages, any hooks and any   *)
(* setup of each: that the port is free where a hook freed it, that        *)
(* nothing presented outlives its attempt, that what is reported as        *)
(* renewed is in use, and that a server a hook stopped comes back.         *)
(***************************************************************************)
EXTENDS Renewal, SequenceTheorems, FiniteSetTheorems, TLAPS

(* The steps of a process: of the attempt for one lineage, in their order, *)
(* and after the last.                                                     *)
Early == {"load", "deployed", "sleep", "plugins", "pre_hook", "obtain"}
Busy == Presenting \cup {"cleanup"}
Late == {"save", "link", "deploy", "post_hook", "deployer", "restart"}
After == {"describe", "saved_hooks", "end", "hung"}

Attempt == Early \cup Busy \cup Late
Labels == {"off", "updaters"} \cup Attempt \cup After

TypeOK ==
    /\ setup \in [Lineage -> Setups] /\ i \in Lineage
    /\ version \in [Lineage -> Nat] /\ live \in [Lineage -> Nat]
    /\ announced \in [Lineage -> Nat] /\ loaded \in [Lineage -> Nat]
    /\ port \in {"nobody", "server", "certbot"}
    /\ verb \in {"renew", "certonly"}
    /\ pc \in Labels
    /\ raised \in {"no", "error", "interrupt"}
    /\ resources \subseteq Challenge /\ served \subseteq Challenge
    /\ files \subseteq Challenge
    /\ told.renewed \subseteq renewed /\ renewed \subseteq Lineage

(* update_all_links_to was left behind, regularly or not.                  *)
Linked(l) == live[l] = version[l] \/ l \in taken_back

(* A listener belongs to the authenticator that is in use, and so do files *)
(* and directories.  An interrupt in the cleanup ends the process.         *)
PresentInv ==
    /\ Bound <=> instances
    /\ pc \in Busy =>
          /\ authenticator = "standalone" \/ ~ Bound
          /\ authenticator = "webroot" \/ (files = {} /\ (created_dirs = 0 \/ cut))
          /\ authenticator = "server" \/ todo \subseteq Challenge
    /\ hit = "cleanup" => pc \in {"post_hook"} \cup After /\ raised = "interrupt"
    /\ NothingLeft

(* The pre-hooks of the lineage are run before its challenges are          *)
(* presented, and until the process is through with all of them a server   *)
(* that one of them stopped is brought back by a reload only: one for an   *)
(* earlier lineage, or for the present one when it has got to that.        *)
Reloads(l) == setup[l].installer \/ setup[l].authenticator = "server"
Ending == {"deployer", "restart", "updaters"}
Reloaded == \/ pc \notin Early /\ authenticator = "server"
            \/ pc \in Ending /\ setup[i].installer
HookInv ==
    /\ pc = "off" => executed_pre_hooks = {}
    /\ pc = "pre_hook" => setup[i].hooks \subseteq executed_pre_hooks \cup todo
    /\ pc \in {"obtain", "perform", "note"} => setup[i].hooks \subseteq executed_pre_hooks
    /\ pc \in {"deployer", "restart"} => setup[i].installer
    /\ /\ WebServer \in executed_pre_hooks /\ pc \in Attempt \cup {"updaters"}
       /\ \A l \in 1..(i - 1) : ~ Reloads(l)
       /\ ~ Reloaded
       => port # "server"

(* What was done for the lineage of the attempt.                           *)
Deployed(l) == Linked(l) /\ live[l] = announced[l]
DeployInv ==
    /\ renewed \subseteq 1..i
    /\ pc \in Attempt => i \notin renewed
    /\ pc = "off" \/ verb = "certonly" => renewed = {}
    /\ pc = "deploy" => Linked(i)
    /\ pc = "post_hook" /\ raised = "no" => dry_run \/ Deployed(i)
    /\ pc \in {"deployer", "restart"} => Deployed(i)
    /\ RenewedIsDeployed

IInv == TypeOK /\ PresentInv /\ HookInv /\ DeployInv

USE CountAssumption

-----------------------------------------------------------------------------
LEMMA SetupTypes ==
    ASSUME TypeOK
    PROVE  \A l \in Lineage : /\ setup[l].authenticator \in {"standalone", "webroot", "server"}
                             /\ setup[l].installer \in BOOLEAN
BY SetupAssumption DEF TypeOK

LEMMA FirstOfSome ==
    ASSUME NEW cs, cs # {}
    PROVE  First(cs) \in cs
BY DEF First

(* The loop goes on with the next lineage, or ends.                        *)
LEMMA LoopWays ==
    ASSUME TypeOK, LoopGoesOn
    PROVE  /\ i' \in Lineage
           /\ \/ pc' = "describe" /\ i' = i
              \/ pc' = "load" /\ i' = i + 1
BY DEF LoopGoesOn, Go, TypeOK, Lineage

(* An exception that leaves the attempt leads to the next, if it is taken  *)
(* for a failure, or to the end.                                           *)
Away == \/ pc' = "describe" /\ i' = i
        \/ pc' = "load" /\ i' = i + 1
        \/ pc' \in {"saved_hooks", "end"} /\ i' = i

LEMMA LeaveWays ==
    ASSUME TypeOK, NEW exception \in {"error", "interrupt"}, Leaves(exception)
    PROVE  /\ Away /\ i' \in Lineage /\ raised' \in {"no", exception}
           /\ exception = "interrupt" =>
                 pc' \in {"saved_hooks", "end"} /\ raised' = exception
BY LoopWays DEF Leaves, Go, Away, TypeOK

LEMMA RaiseWays ==
    ASSUME TypeOK, NEW exception \in {"error", "interrupt"}, Raise(exception)
    PROVE  /\ i' \in Lineage /\ raised' \in {"no", exception}
           /\ \/ pc \in Presenting /\ pc' = "cleanup" /\ i' = i
              \/ pc \in InTry \ Presenting /\ pc' = "post_hook" /\ i' = i
                 /\ raised' = exception
              \/ pc \notin InTry /\ Away
           /\ exception = "interrupt" => raised' = exception
BY LeaveWays DEF Raise, Go, TypeOK

(* What both kinds of exceptions leave alone, and where they lead.         *)
LEMMA ExceptionWays ==
    ASSUME TypeOK, Error \/ Interrupt
    PROVE  /\ UNCHANGED <<command, version, live, announced, loaded, port, executed_pre_hooks,
                          standalone, webroot, todo, renewed, told, signals>>
           /\ i' \in Lineage /\ raised' \in {"no", "error", "interrupt"}
           /\ \/ pc \in Presenting /\ pc' = "cleanup" /\ i' = i
              \/ pc \in (InTry \ Presenting) /\ pc' = "post_hook" /\ i' = i
                 /\ raised' # "no"
              \/ pc \notin (InTry \cup {"off", "hung", "end"}) /\ Away
           /\ hit' = "cleanup" =>
                 \/ hit = "cleanup" /\ Error
                 \/ pc = "cleanup" /\ raised' = "interrupt"
<1>1. CASE Error
  <2>1. Raise("error") /\ pc \in MayRaise \cup {"note"}
    BY <1>1 DEF Error, MayRaise
  <2>2. UNCHANGED <<command, version, live, announced, loaded, port, executed_pre_hooks,
                    standalone, webroot, todo, renewed, told, hit, signals>>
    BY <1>1 DEF Error, command, disk, hooks, plugin, standalone, webroot
  <2> QED
    BY <1>1, <2>1, <2>2, RaiseWays DEF MayRaise
<1>2. CASE Interrupt
  <2>1. UNCHANGED <<command, version, live, announced, loaded, port, executed_pre_hooks,
                    standalone, webroot, todo, renewed, told, signals>>
    BY <1>2 DEF Interrupt, command, disk, hooks, plugin, standalone, webroot
  <2>2. /\ pc \notin {"off", "end", "hung"}
        /\ hit' = "cleanup" => pc = "cleanup"
    BY <1>2 DEF Interrupt
  <2>3. CASE pc = "saved_hooks"
    BY <1>2, <2>1, <2>2, <2>3 DEF Interrupt, Go, Away, InTry, TypeOK
  <2>4. CASE pc = "post_hook"
    <3>1. Leaves("interrupt")
      BY <1>2, <2>4 DEF Interrupt
    <3> QED
      BY <2>1, <2>2, <2>4, <3>1, LeaveWays DEF InTry
  <2>5. CASE pc \notin {"saved_hooks", "post_hook"}
    <3>1. Raise("interrupt")
      BY <1>2, <2>5 DEF Interrupt
    <3> QED
      BY <2>1, <2>2, <3>1, RaiseWays
  <2> QED
    BY <2>3, <2>4, <2>5
<1> QED
  BY <1>1, <1>2

(* The server of the machine.                                              *)
LEMMA ServerWays ==
    ASSUME TypeOK, RestartServer \/ StartServer \/ UNCHANGED <<port, loaded>>
    PROVE  /\ port' \in {port, "server"} /\ (port = "certbot" => port' = port)
           /\ loaded' \in {loaded, live} /\ loaded' \in [Lineage -> Nat]
BY DEF TypeOK, RestartServer, StartServer

LEMMA PostHookWays ==
    ASSUME TypeOK, NEW h, RunPostHook(h)
    PROVE  StartServer \/ UNCHANGED <<port, loaded>>
BY DEF RunPostHook

(* The three ways to take challenges down.                                 *)
LEMMA CleanupWays ==
    ASSUME TypeOK, CleanupChallenges
    PROVE  \/ /\ authenticator = "standalone" /\ UNCHANGED <<loaded, webroot, resources>>
              /\ served' = {} /\ IF instances THEN port' = "nobody" /\ ~ instances'
                                ELSE UNCHANGED <<instances, port>>
           \/ /\ authenticator = "webroot" /\ UNCHANGED <<port, loaded, standalone>>
              /\ files' = {} /\ (created_dirs' = 0 \/ cut')
           \/ authenticator = "server" /\ RestartServer /\ UNCHANGED plugin
<1>1. authenticator \in {"standalone", "webroot", "server"}
  BY SetupTypes DEF authenticator, TypeOK
<1>2. CASE authenticator = "standalone"
  BY <1>2 DEF CleanupChallenges, Cleanup, TypeOK
<1>3. CASE authenticator = "webroot"
  BY <1>3 DEF CleanupChallenges, RemoveValidations, TypeOK
<1>4. CASE authenticator = "server"
  BY <1>4 DEF CleanupChallenges
<1> QED
  BY <1>1, <1>2, <1>3, <1>4

(* The links of one lineage are changed, if any.                           *)
OthersStay ==
    \A l \in Lineage :
        l # i => live'[l] = live[l] /\ (l \in taken_back => l \in taken_back')

LEMMA UpdateWays ==
    ASSUME TypeOK, UpdateAllLinksTo(i)
    PROVE  /\ live' \in [Lineage -> Nat] /\ OthersStay
           /\ live'[i] = version[i] \/ i \in taken_back'
BY DEF UpdateAllLinksTo, TypeOK, OthersStay

LEMMA ShouldRenewWays ==
    ASSUME TypeOK, ShouldRenew
    PROVE  /\ pc = "deployed" /\ pc' \in {"updaters", "sleep", "plugins", "end"}
           /\ live' \in [Lineage -> Nat] /\ OthersStay
<1>1. /\ pc = "deployed" /\ verb \in {"renew", "certonly"}
      /\ UNCHANGED <<live, signals>> \/ UpdateAllLinksTo(i)
  BY DEF ShouldRenew, TypeOK
<1>2. live' \in [Lineage -> Nat] /\ OthersStay
  BY <1>1, UpdateWays DEF TypeOK, OthersStay, signals
<1>3. CASE verb = "certonly"
  BY <1>1, <1>2, <1>3 DEF ShouldRenew, Go
<1>4. CASE verb = "renew"
  BY <1>1, <1>2, <1>4 DEF ShouldRenew, Go
<1> QED
  BY <1>1, <1>3, <1>4

LEMMA ForgottenTypes ==
    ASSUME TypeOK, Forget, UNCHANGED <<setup, disk, loaded>>, pc' \in Labels,
           port' \in {"nobody", "server", "certbot"}
    PROVE  TypeOK'
<1>1. 1 \in Lineage
  BY DEF Lineage
<1> QED
  BY <1>1 DEF TypeOK, Forget, NewAuthenticator, NewWebroot, NoneTold, disk

LEMMA TypeInit == Init => TypeOK
<1>1. 1 \in Lineage
  BY DEF Lineage
<1>2. Init => [l \in Lineage |-> 1] \in [Lineage -> Nat] /\ pc \in Labels
  BY DEF Init, Labels
<1>3. Init => /\ version \in [Lineage -> Nat] /\ live \in [Lineage -> Nat]
              /\ announced \in [Lineage -> Nat] /\ loaded \in [Lineage -> Nat]
  BY <1>2 DEF Init
<1> QED
  BY <1>1, <1>2, <1>3 DEF Init, TypeOK, NoneTold

LEMMA TypeStep == IInv /\ [Next]_vars => TypeOK'
<1> SUFFICES ASSUME IInv, [Next]_vars PROVE TypeOK'
  OBVIOUS
<1> USE DEF Labels, Attempt, Early, Busy, Presenting, Late, After, Go
<1>a. TypeOK /\ setup \in [Lineage -> Setups]
  BY DEF IInv, TypeOK
<1>b. UNCHANGED vars => TypeOK'
  BY <1>a DEF TypeOK, vars, command, disk, hooks, plugin, standalone, webroot, results
<1>1. CASE \E l \in Lineage : BecomesDue(l)
  BY <1>a, <1>1 DEF TypeOK, BecomesDue, command, disk, plugin, standalone, webroot, results
<1>2. CASE Start
  <2>1. i' \in Lineage /\ pc' \in Labels /\ verb' \in {"renew", "certonly"}
    BY <1>2 DEF Start, Lineage
  <2> QED
    BY <1>a, <1>2, <2>1 DEF TypeOK, Start, disk, plugin, standalone, webroot, results
<1>3. CASE Reconstitute
  BY <1>a, <1>3, LoopWays
     DEF TypeOK, Reconstitute, command, disk, plugin, standalone, webroot, results
<1>4. CASE ShouldRenew
  <2>1. live' \in [Lineage -> Nat] /\ pc' \in Labels
    BY <1>a, <1>4, ShouldRenewWays
  <2> QED
    BY <1>a, <1>4, <2>1
       DEF TypeOK, ShouldRenew, command, disk, plugin, standalone, webroot, results
<1>5. CASE RandomSleep
  BY <1>a, <1>5 DEF TypeOK, RandomSleep, command, disk, plugin, standalone, webroot, results
<1>6. CASE ChoosePlugins
  BY <1>a, <1>6
     DEF TypeOK, ChoosePlugins, NewAuthenticator, NewWebroot, command, disk, plugin,
         standalone, webroot, results
<1>7. CASE PreHook
  BY <1>a, <1>7
     DEF TypeOK, PreHook, RunPreHook, StopServer, command, disk, plugin, standalone,
         webroot, results
<1>8. CASE NewOrder
  BY <1>a, <1>8 DEF TypeOK, NewOrder, command, disk, plugin, standalone, webroot, results
<1>9. CASE Perform
  BY <1>a, <1>9, FirstOfSome
     DEF TypeOK, Perform, PerformHttp01, Run, IInv, PresentInv, command, disk, plugin,
         standalone, webroot, results
<1>10. CASE Note
  BY <1>a, <1>10
     DEF TypeOK, Note, NoteServed, command, disk, plugin, standalone, webroot, results
<1>11. CASE PerformWebroot
  BY <1>a, <1>11, FirstOfSome
     DEF TypeOK, PerformWebroot, CreateChallengeDir, SaveValidation, IInv, PresentInv,
         command, disk, plugin, standalone, webroot, results
<1>12. CASE NoteWebroot
  BY <1>a, <1>12
     DEF TypeOK, NoteWebroot, NotePerformed, command, disk, plugin, standalone, webroot,
         results
<1>13. CASE PerformByServer
  BY <1>a, <1>13, ServerWays
     DEF TypeOK, PerformByServer, command, disk, plugin, standalone, webroot, results
<1>14. CASE Answered
  BY <1>a, <1>14 DEF TypeOK, Answered, command, disk, plugin, standalone, webroot, results
<1>15. CASE Validated
  BY <1>a, <1>15 DEF TypeOK, Validated, command, disk, plugin, standalone, webroot, results
<1>16. CASE CleanupChallenges
  <2>1. pc' \in Labels /\ UNCHANGED <<command, disk, i, raised, results>>
    BY <1>16 DEF CleanupChallenges
  <2>2. /\ port' \in {"nobody", "server", "certbot"} /\ loaded' \in [Lineage -> Nat]
        /\ resources' = resources
        /\ served' \subseteq served /\ files' \subseteq files
    <3>1. CASE authenticator = "standalone"
      BY <1>a, <1>16, <3>1, CleanupWays DEF TypeOK, webroot
    <3>2. CASE authenticator = "webroot"
      BY <1>a, <1>16, <3>2, CleanupWays DEF TypeOK, standalone
    <3>3. CASE authenticator = "server"
      BY <1>a, <1>16, <3>3, CleanupWays, ServerWays DEF TypeOK, plugin, standalone, webroot
    <3> QED
      BY <1>a, <1>16, <3>1, <3>2, <3>3, CleanupWays
  <2> QED
    BY <1>a, <2>1, <2>2 DEF TypeOK, command, disk, results
<1>17. CASE Save
  <2>1. version' \in [Lineage -> Nat]
    BY <1>a, <1>17 DEF TypeOK, Save
  <2> QED
    BY <1>a, <1>17, <2>1 DEF TypeOK, Save, command, plugin, standalone, webroot, results
<1>18. CASE Link
  <2>1. live' \in [Lineage -> Nat] /\ pc' = "deploy"
    BY <1>a, <1>18, UpdateWays DEF Link
  <2> QED
    BY <1>a, <1>18, <2>1
       DEF TypeOK, Link, command, disk, plugin, standalone, webroot, results
<1>19. CASE RenewHook
  BY <1>a, <1>19 DEF TypeOK, RenewHook, command, disk, plugin, standalone, webroot, results
<1>20. CASE PostHook
  <2>1. port' \in {"nobody", "server", "certbot"} /\ loaded' \in [Lineage -> Nat]
    BY <1>a, <1>20, ServerWays, PostHookWays DEF TypeOK, PostHook
  <2>2. /\ pc' \in Labels /\ i' \in Lineage /\ raised' \in {"no", "error", "interrupt"}
        /\ renewed \subseteq renewed' /\ renewed' \subseteq Lineage
    <3>1. CASE raised # "no"
      <4>1. Leaves(raised) /\ renewed' = renewed
        BY <1>20, <3>1 DEF PostHook
      <4>2. raised \in {"error", "interrupt"}
        BY <1>a, <3>1 DEF TypeOK
      <4> QED
        BY <1>a, <4>1, <4>2, LeaveWays DEF TypeOK, Away
    <3>2. CASE raised = "no"
      <4>1. /\ pc' \in {"deployer", "restart", "updaters", "end"} /\ UNCHANGED <<i, raised>>
            /\ renewed' \in {renewed, renewed \cup {i}}
        BY <1>20, <3>2 DEF PostHook, Renewed
      <4> QED
        BY <1>a, <4>1 DEF TypeOK
    <3> QED
      BY <3>1, <3>2
  <2> QED
    BY <1>a, <1>20, <2>1, <2>2
       DEF TypeOK, PostHook, command, disk, plugin, standalone, webroot
<1>21. CASE RunRenewalDeployer
  BY <1>a, <1>21
     DEF TypeOK, RunRenewalDeployer, command, disk, plugin, standalone, webroot, results
<1>22. CASE Restart
  <2>1. /\ pc' \in Labels /\ renewed \subseteq renewed' /\ renewed' \subseteq Lineage
        /\ UNCHANGED <<command, disk, plugin, i, raised, told>>
    BY <1>a, <1>22 DEF TypeOK, Restart, Renewed
  <2> QED
    BY <1>a, <1>22, <2>1, ServerWays
       DEF TypeOK, Restart, command, disk, plugin, standalone, webroot
<1>23. CASE RunGenericUpdaters
  BY <1>a, <1>23, LoopWays
     DEF TypeOK, RunGenericUpdaters, command, disk, plugin, standalone, webroot, results
<1>24. CASE Describe
  BY <1>a, <1>24
     DEF TypeOK, Describe, NoneTold, command, disk, plugin, standalone, webroot, results
<1>25. CASE SavedPostHooks
  BY <1>a, <1>25, ServerWays, PostHookWays
     DEF TypeOK, SavedPostHooks, RunSavedPostHook, command, disk, plugin, standalone,
         webroot, results
<1>26. CASE End
  <2>1. CASE Bound
    BY <1>a, <1>26, <2>1
       DEF TypeOK, End, command, disk, plugin, standalone, webroot, results
  <2>2. CASE ~ Bound
    BY <1>a, <1>26, <2>2, ForgottenTypes DEF TypeOK, End
  <2> QED
    BY <2>1, <2>2
<1>27. CASE Kill
  BY <1>a, <1>27, ForgottenTypes DEF TypeOK, Kill
<1>28. CASE Error \/ Interrupt
  BY <1>a, <1>28, ExceptionWays DEF TypeOK, Away, command, standalone, webroot
<1> QED
  BY <1>b, <1>1, <1>2, <1>3, <1>4, <1>5, <1>6, <1>7, <1>8, <1>9, <1>10, <1>11, <1>12, <1>13,
     <1>14, <1>15, <1>16, <1>17, <1>18, <1>19, <1>20, <1>21, <1>22, <1>23, <1>24, <1>25,
     <1>26, <1>27, <1>28
     DEF Next, Process

-----------------------------------------------------------------------------
(* What is presented.                                                      *)
LEMMA PresentInit == Init => PresentInv
BY DEF Init, PresentInv, NothingLeft, Bound, Busy, Presenting

(* Steps that present nothing and take nothing down.                       *)
LEMMA PresentSame ==
    ASSUME IInv, UNCHANGED <<setup, instances, files, created_dirs, cut>>, Bound' <=> Bound,
           hit' = hit, hit = "cleanup" => pc' \in {"post_hook"} \cup After /\ raised' = raised,
           pc' \in Busy => pc \in Busy /\ i' = i /\ todo' \subseteq todo,
           pc \in Busy => pc' \in Busy
    PROVE  PresentInv'
<1>1. PresentInv /\ (hit = "cleanup" => pc \notin Busy)
  BY DEF IInv, PresentInv, Busy, Presenting, After
<1>2. authenticator' = authenticator \/ pc' \notin Busy
  BY DEF authenticator
<1> QED
  BY <1>1, <1>2 DEF PresentInv, NothingLeft, Busy, Presenting

LEMMA PresentStep == IInv /\ [Next]_vars => PresentInv'
<1> SUFFICES ASSUME IInv, [Next]_vars PROVE PresentInv'
  OBVIOUS
<1> USE DEF Labels, Attempt, Early, Busy, Presenting, Late, After, Go
<1>a. TypeOK /\ PresentInv
  BY DEF IInv
<1>1. CASE UNCHANGED vars
  BY <1>a, <1>1, PresentSame
     DEF vars, results, history, hooks, disk, PresentInv, command, plugin, standalone,
         webroot, Bound
<1>2. CASE \E l \in Lineage : BecomesDue(l)
  BY <1>a, <1>2, PresentSame
     DEF BecomesDue, PresentInv, command, plugin, standalone, webroot, Bound
<1>3. CASE Start
  BY <1>a, <1>3, PresentSame
     DEF Start, PresentInv, command, plugin, standalone, webroot, Bound
<1>4. CASE Reconstitute
  BY <1>a, <1>4, LoopWays, PresentSame
     DEF Reconstitute, PresentInv, command, plugin, standalone, webroot, Bound
<1>5. CASE ShouldRenew
  BY <1>a, <1>5, ShouldRenewWays, PresentSame
     DEF ShouldRenew, PresentInv, command, plugin, standalone, webroot, Bound
<1>6. CASE RandomSleep
  BY <1>a, <1>6, PresentSame
     DEF RandomSleep, PresentInv, command, plugin, standalone, webroot, Bound
<1>7. CASE ChoosePlugins
  BY <1>a, <1>7, PresentSame
     DEF ChoosePlugins, NothingLeft, NewAuthenticator, NewWebroot, PresentInv, command,
         plugin, standalone, webroot, Bound
<1>8. CASE PreHook
  BY <1>a, <1>8, PresentSame
     DEF PreHook, RunPreHook, StopServer, PresentInv, command, plugin, standalone, webroot,
         Bound
<1>9. CASE NewOrder
  <2>1. hit # "cleanup" /\ NothingLeft /\ pc \notin Busy
    BY <1>a, <1>9 DEF NewOrder, PresentInv
  <2>2. pc' \in {"save", "perform"} /\ UNCHANGED <<setup, i, port, plugin, hit>>
    BY <1>9 DEF NewOrder, command
  <2>3. pc' = "perform" => authenticator = "server" \/ todo' \subseteq Challenge
    BY <1>9 DEF NewOrder
  <2> QED
    BY <1>a, <2>1, <2>2, <2>3
       DEF PresentInv, NothingLeft, authenticator, plugin, standalone, webroot, Bound
<1>10. CASE Perform
  <2>1. /\ pc = "perform" /\ pc' = "note"
        /\ authenticator = "standalone" /\ authenticator' = authenticator
        /\ port' = "certbot" /\ instances' = TRUE /\ todo' \subseteq todo
        /\ UNCHANGED <<hit, files, created_dirs, cut>>
    BY <1>10 DEF Perform, PerformHttp01, Run, authenticator, command, webroot
  <2> QED
    BY <1>a, <2>1 DEF PresentInv, NothingLeft, Bound
<1>11. CASE Note
  BY <1>a, <1>11, PresentSame
     DEF Note, NoteServed, PresentInv, command, plugin, standalone, webroot, Bound
<1>12. CASE PerformWebroot
  <2>1. /\ pc = "perform" /\ pc' \in {"perform", "note"} /\ authenticator = "webroot"
        /\ authenticator' = authenticator /\ todo' \subseteq todo
        /\ UNCHANGED <<hit, port, instances>>
    BY <1>12 DEF PerformWebroot, authenticator, command, standalone
  <2> QED
    BY <1>a, <2>1 DEF PresentInv, NothingLeft, Bound
<1>13. CASE NoteWebroot
  BY <1>a, <1>13, PresentSame
     DEF NoteWebroot, NotePerformed, PresentInv, command, plugin, standalone, webroot, Bound
<1>14. CASE PerformByServer
  BY <1>a, <1>14, ServerWays, PresentSame
     DEF PerformByServer, PresentInv, command, plugin, standalone, webroot, Bound
<1>15. CASE Answered
  BY <1>a, <1>15, PresentSame
     DEF Answered, PresentInv, command, plugin, standalone, webroot, Bound
<1>16. CASE Validated
  BY <1>a, <1>16, PresentSame
     DEF Validated, PresentInv, command, plugin, standalone, webroot, Bound
<1>17. CASE CleanupChallenges
  <2>1. /\ pc = "cleanup" /\ pc' \in {"save", "post_hook"} /\ UNCHANGED <<setup, i, hit>>
    BY <1>17 DEF CleanupChallenges, command
  <2>2. /\ Bound' <=> instances'
        /\ ~ Bound' /\ files' = {} /\ (created_dirs' = 0 \/ cut')
    <3>1. CASE authenticator = "standalone"
      BY <1>a, <1>17, <2>1, <3>1, CleanupWays DEF PresentInv, webroot, Bound
    <3>2. CASE authenticator = "webroot"
      BY <1>a, <1>17, <2>1, <3>2, CleanupWays DEF PresentInv, standalone, Bound
    <3>3. CASE authenticator = "server"
      BY <1>a, <1>17, <2>1, <3>3, CleanupWays, ServerWays
         DEF PresentInv, plugin, standalone, webroot, Bound
    <3> QED
      BY <1>a, <1>17, <3>1, <3>2, <3>3, CleanupWays
  <2> QED
    BY <1>a, <2>1, <2>2 DEF PresentInv, NothingLeft
<1>18. CASE Save
  BY <1>a, <1>18, PresentSame
     DEF Save, PresentInv, command, plugin, standalone, webroot, Bound
<1>19. CASE Link
  BY <1>a, <1>19, PresentSame
     DEF Link, PresentInv, command, plugin, standalone, webroot, Bound
<1>20. CASE RenewHook
  BY <1>a, <1>20, PresentSame
     DEF RenewHook, PresentInv, command, plugin, standalone, webroot, Bound
<1>21. CASE PostHook
  <2>1. /\ pc = "post_hook"
        /\ StartServer \/ UNCHANGED <<port, loaded>>
        /\ UNCHANGED <<setup, instances, files, created_dirs, cut, hit>>
    BY <1>a, <1>21, PostHookWays DEF PostHook, command, plugin, standalone, webroot
  <2>2. Bound' <=> Bound
    BY <1>a, <2>1 DEF StartServer, Bound
  <2>3. CASE raised # "no"
    <3>1. Leaves(raised) /\ raised \in {"error", "interrupt"}
      BY <1>a, <1>21, <2>3 DEF PostHook, TypeOK
    <3>2. /\ pc' \notin Busy
          /\ raised = "interrupt" => pc' \in {"saved_hooks", "end"} /\ raised' = raised
      BY <1>a, <3>1, LeaveWays DEF Away
    <3> QED
      BY <1>a, <2>1, <2>2, <3>2, PresentSame DEF PresentInv
  <2>4. CASE raised = "no"
    <3>1. pc' \in {"deployer", "restart", "updaters", "end"}
      BY <1>21, <2>4, SetupTypes DEF PostHook, Renewed
    <3> QED
      BY <1>a, <2>1, <2>2, <2>4, <3>1, PresentSame DEF PresentInv
  <2> QED
    BY <2>3, <2>4
<1>22. CASE RunRenewalDeployer
  BY <1>a, <1>22, PresentSame
     DEF RunRenewalDeployer, PresentInv, command, plugin, standalone, webroot, Bound
<1>23. CASE Restart
  <2>1. /\ pc = "restart" /\ pc' \in {"updaters", "end"} /\ RestartServer
        /\ UNCHANGED <<setup, instances, files, created_dirs, cut, hit>>
    BY <1>23 DEF Restart, Renewed, command, plugin, standalone, webroot
  <2>2. Bound' <=> Bound
    BY <2>1 DEF RestartServer, Bound
  <2> QED
    BY <1>a, <2>1, <2>2, PresentSame DEF PresentInv
<1>24. CASE RunGenericUpdaters
  BY <1>a, <1>24, LoopWays, PresentSame
     DEF RunGenericUpdaters, PresentInv, command, plugin, standalone, webroot, Bound
<1>25. CASE Describe
  BY <1>a, <1>25, PresentSame
     DEF Describe, PresentInv, command, plugin, standalone, webroot, Bound
<1>26. CASE SavedPostHooks
  <2>1. /\ pc = "saved_hooks" /\ pc' \in {"saved_hooks", "end"}
        /\ StartServer \/ UNCHANGED <<port, loaded>>
        /\ UNCHANGED <<setup, instances, files, created_dirs, cut, hit, raised>>
    BY <1>a, <1>26, PostHookWays
       DEF SavedPostHooks, RunSavedPostHook, command, plugin, standalone, webroot
  <2>2. Bound' <=> Bound
    BY <1>a, <2>1 DEF StartServer, Bound
  <2> QED
    BY <1>a, <2>1, <2>2, PresentSame DEF PresentInv
<1>27. CASE End
  <2>1. CASE Bound
    BY <1>a, <1>27, <2>1, PresentSame
       DEF End, PresentInv, command, plugin, standalone, webroot, results, Bound
  <2>2. CASE ~ Bound
    BY <1>27, <2>2
       DEF End, Forget, NewAuthenticator, NewWebroot, PresentInv, NothingLeft, Bound
  <2> QED
    BY <2>1, <2>2
<1>28. CASE Kill
  BY <1>a, <1>28, PresentSame
     DEF Kill, Forget, NewAuthenticator, NewWebroot, NothingLeft, PresentInv, command,
         plugin, standalone, webroot, Bound
<1>29. CASE Error \/ Interrupt
  <2>1. hit = "cleanup" => pc \notin MayRaise \cup {"note"} /\ pc \notin Busy
    BY <1>a DEF PresentInv, MayRaise
  <2>2. hit' = "cleanup" => pc = "cleanup" /\ raised' = "interrupt"
    BY <1>a, <1>29, <2>1, ExceptionWays DEF Error
  <2>3. UNCHANGED <<setup, port, instances, files, created_dirs, cut, todo>>
    BY <1>a, <1>29, ExceptionWays DEF command, standalone, webroot
  <2>4. CASE pc \in Presenting
    BY <1>a, <1>29, <2>1, <2>2, <2>3, <2>4, ExceptionWays
       DEF PresentInv, NothingLeft, authenticator, InTry, Bound
  <2>5. CASE pc \notin Presenting
    <3>1. pc' \notin Busy /\ (hit' = "cleanup" => pc' = "post_hook")
      BY <1>a, <1>29, <2>2, <2>5, ExceptionWays DEF Away, InTry
    <3>2. pc = "cleanup" => hit' = "cleanup"
      BY <1>29 DEF Error, Interrupt, MayRaise
    <3>3. pc # "cleanup" => (hit = "cleanup" => hit' = "cleanup")
      BY <1>29 DEF Error, Interrupt
    <3> QED
      BY <1>a, <2>2, <2>3, <2>5, <3>1, <3>2, <3>3 DEF PresentInv, NothingLeft, Bound
  <2> QED
    BY <2>4, <2>5
<1> QED
  BY <1>1, <1>2, <1>3, <1>4, <1>5, <1>6, <1>7, <1>8, <1>9, <1>10, <1>11, <1>12, <1>13,
     <1>14, <1>15, <1>16, <1>17, <1>18, <1>19, <1>20, <1>21, <1>22, <1>23, <1>24, <1>25,
     <1>26, <1>27, <1>28, <1>29
     DEF Next, Process

-----------------------------------------------------------------------------
(* The hooks.                                                              *)
LEMMA HookInit == Init => HookInv
BY DEF Init, HookInv, Attempt, Early, Busy, Presenting, Late

(* Steps of one attempt that keep the web server from coming back.         *)
LEMMA HookSame ==
    ASSUME IInv, UNCHANGED <<setup, i, executed_pre_hooks>>, port' = "server" => port = "server",
           pc' = "off" => pc = "off",
           pc' = "pre_hook" => pc = "pre_hook" /\ todo' = todo,
           pc' \in {"obtain", "perform", "note"} => pc \in {"obtain", "perform", "note"},
           pc' \in {"deployer", "restart"} => pc \in {"deployer", "restart"},
           pc' \in Attempt \cup {"updaters"} =>
               /\ pc \in Attempt \cup {"updaters"}
               /\ pc' \in Early => pc \in Early
               /\ pc \in Ending => pc' \in Ending
    PROVE  HookInv'
BY DEF IInv, HookInv, Reloads, Reloaded, authenticator

(* The next lineage, when the one of the attempt did not reload either.    *)
LEMMA HookNext ==
    ASSUME IInv, UNCHANGED <<setup, executed_pre_hooks>>, port' = "server" => port = "server",
           pc \in Attempt \cup {"updaters"}, pc' = "load", i' = i + 1
    PROVE  HookInv'
<1>1. i \in Nat /\ i \in 1..(i' - 1) /\ \A l \in 1..(i - 1) : l \in 1..(i' - 1)
  BY DEF IInv, TypeOK, Lineage
<1>2. \A l : Reloads(l)' = Reloads(l)
  BY DEF Reloads
<1> QED
  BY <1>1, <1>2 DEF IInv, HookInv, Reloads, Reloaded, authenticator, Early, Ending

LEMMA HookAway ==
    ASSUME IInv, UNCHANGED <<setup, executed_pre_hooks>>, port' = "server" => port = "server",
           pc \in Attempt \cup {"updaters"}, Away
    PROVE  HookInv'
<1>1. CASE pc' = "load"
  BY <1>1, HookNext DEF Away
<1>2. CASE pc' # "load"
  BY <1>2 DEF Away, HookInv, Attempt, Early, Busy, Presenting, Late
<1> QED
  BY <1>1, <1>2

LEMMA HookStep == IInv /\ [Next]_vars => HookInv'
<1> SUFFICES ASSUME IInv, [Next]_vars PROVE HookInv'
  OBVIOUS
<1> USE DEF Labels, Attempt, Early, Busy, Presenting, Late, After, Ending, Go
<1>a. TypeOK /\ HookInv
  BY DEF IInv
<1>b. ASSUME pc' \in After PROVE HookInv'
  BY <1>b DEF HookInv
<1>1. CASE UNCHANGED vars
  BY <1>a, <1>1, HookSame DEF vars, command, hooks
<1>2. CASE \E l \in Lineage : BecomesDue(l)
  BY <1>a, <1>2, HookSame DEF BecomesDue, command, hooks
<1>3. CASE Start
  <2>1. executed_pre_hooks' = {} /\ pc' \in {"load", "deployed"}
    BY <1>a, <1>3 DEF Start, HookInv, hooks
  <2> QED
    BY <2>1 DEF HookInv
<1>4. CASE Reconstitute
  <2>1. /\ pc = "load" /\ UNCHANGED <<setup, executed_pre_hooks, port>>
        /\ (pc' = "deployed" /\ i' = i) \/ LoopGoesOn
    BY <1>4 DEF Reconstitute, command, hooks
  <2>2. CASE pc' = "deployed" /\ i' = i
    BY <2>1, <2>2, HookSame
  <2>3. CASE LoopGoesOn
    BY <1>a, <2>1, <2>3, LoopWays, HookAway DEF Away
  <2> QED
    BY <2>1, <2>2, <2>3
<1>5. CASE ShouldRenew
  BY <1>a, <1>5, ShouldRenewWays, HookSame DEF ShouldRenew, command, hooks
<1>6. CASE RandomSleep
  BY <1>a, <1>6, HookSame DEF RandomSleep, command, hooks
<1>7. CASE ChoosePlugins
  <2>1. /\ pc = "plugins" /\ pc' = "pre_hook" /\ todo' = setup[i].hooks
        /\ UNCHANGED <<setup, i, port, executed_pre_hooks>>
    BY <1>7 DEF ChoosePlugins, command, hooks
  <2> QED
    BY <1>a, <2>1 DEF HookInv, Reloads, Reloaded, authenticator
<1>8. CASE PreHook
  <2>1. pc = "pre_hook" /\ UNCHANGED <<setup, i>>
    BY <1>8 DEF PreHook, command
  <2>2. CASE todo = {}
    <3>1. pc' = "obtain" /\ UNCHANGED <<executed_pre_hooks, port>>
      BY <1>8, <2>2 DEF PreHook
    <3> QED
      BY <1>a, <2>1, <2>2, <3>1 DEF HookInv, Reloads, Reloaded, authenticator
  <2>3. CASE todo # {}
    <3>1. PICK h \in todo : RunPreHook(h) /\ todo' = todo \ {h} /\ pc' = pc
      BY <1>8, <2>3 DEF PreHook
    <3>2. executed_pre_hooks' = executed_pre_hooks \cup {h}
      BY <3>1 DEF RunPreHook
    <3>3. /\ port' = "server" => port = "server"
          /\ h = WebServer /\ h \notin executed_pre_hooks => port' # "server"
      BY <3>1 DEF RunPreHook, StopServer
    <3> QED
      BY <1>a, <2>1, <3>1, <3>2, <3>3 DEF HookInv, Reloads, Reloaded, authenticator
  <2> QED
    BY <2>2, <2>3
<1>9. CASE NewOrder
  BY <1>a, <1>9, HookSame DEF NewOrder, command, hooks
<1>10. CASE Perform
  BY <1>a, <1>10, HookSame DEF Perform, PerformHttp01, Run, command, hooks
<1>11. CASE Note
  BY <1>a, <1>11, HookSame DEF Note, NoteServed, command, hooks
<1>12. CASE PerformWebroot
  BY <1>a, <1>12, HookSame DEF PerformWebroot, command, hooks
<1>13. CASE NoteWebroot
  BY <1>a, <1>13, HookSame DEF NoteWebroot, command, hooks
<1>14. CASE PerformByServer
  <2>1. /\ pc = "perform" /\ pc' = "perform" /\ setup[i].authenticator = "server"
        /\ UNCHANGED <<setup, i, executed_pre_hooks>>
    BY <1>14 DEF PerformByServer, command, hooks, authenticator
  <2> QED
    BY <1>a, <2>1 DEF HookInv, Reloads, Reloaded, authenticator
<1>15. CASE Answered
  BY <1>a, <1>15, HookSame DEF Answered, command, hooks
<1>16. CASE Validated
  BY <1>a, <1>16, HookSame DEF Validated, command, hooks
<1>17. CASE CleanupChallenges
  <2>1. /\ pc = "cleanup" /\ pc' \in {"save", "post_hook"}
        /\ UNCHANGED <<setup, i, executed_pre_hooks>>
    BY <1>17 DEF CleanupChallenges, command, hooks
  <2>2. CASE authenticator = "server"
    BY <1>a, <2>1, <2>2 DEF HookInv, Reloads, Reloaded, authenticator
  <2>3. CASE authenticator # "server"
    <3>1. port' = "server" => port = "server"
      BY <1>a, <1>17, <2>3, CleanupWays DEF standalone
    <3> QED
      BY <2>1, <3>1, HookSame
  <2> QED
    BY <2>2, <2>3
<1>18. CASE Save
  BY <1>a, <1>18, HookSame DEF Save, command, hooks
<1>19. CASE Link
  BY <1>a, <1>19, HookSame DEF Link, command, hooks
<1>20. CASE RenewHook
  BY <1>a, <1>20, HookSame DEF RenewHook, command, hooks
<1>21. CASE PostHook
  <2>1. /\ pc = "post_hook" /\ UNCHANGED <<setup, executed_pre_hooks>>
        /\ verb = "renew" => port' = port
    BY <1>21 DEF PostHook, command
  <2>2. CASE raised # "no"
    <3>1. Leaves(raised) /\ raised \in {"error", "interrupt"}
      BY <1>a, <1>21, <2>2 DEF PostHook, TypeOK
    <3>2. CASE verb = "renew"
      BY <1>a, <2>1, <3>1, <3>2, LeaveWays, HookAway
    <3>3. CASE verb # "renew"
      BY <1>b, <3>1, <3>3 DEF Leaves
    <3> QED
      BY <3>2, <3>3
  <2>3. CASE raised = "no"
    <3>1. /\ i' = i /\ pc' \in {"deployer", "restart", "updaters", "end"}
          /\ pc' \in {"deployer", "restart"} => setup[i].installer
          /\ pc' = "updaters" => verb = "renew"
      BY <1>21, <2>3 DEF PostHook, Renewed
    <3>2. CASE pc' = "end"
      BY <1>b, <3>2
    <3>3. CASE pc' \in {"deployer", "restart"}
      BY <2>1, <3>1, <3>3 DEF HookInv, Reloads, Reloaded, authenticator
    <3>4. CASE pc' = "updaters"
      BY <2>1, <3>1, <3>4, HookSame
    <3> QED
      BY <3>1, <3>2, <3>3, <3>4
  <2> QED
    BY <2>2, <2>3
<1>22. CASE RunRenewalDeployer
  BY <1>a, <1>22, HookSame DEF RunRenewalDeployer, command, hooks
<1>23. CASE Restart
  <2>1. /\ setup[i].installer /\ UNCHANGED <<setup, i, executed_pre_hooks>>
        /\ pc' \in {"updaters", "end"}
    BY <1>a, <1>23 DEF Restart, HookInv, Renewed, command, hooks
  <2> QED
    BY <2>1 DEF HookInv, Reloads, Reloaded, authenticator
<1>24. CASE RunGenericUpdaters
  BY <1>a, <1>24, LoopWays, HookAway DEF RunGenericUpdaters, Away, command, hooks
<1>25. CASE Describe
  BY <1>a, <1>25, <1>b DEF Describe, command, hooks
<1>26. CASE SavedPostHooks
  BY <1>b, <1>26 DEF SavedPostHooks
<1>27. CASE End \/ Kill
  BY <1>b, <1>27 DEF End, Kill, Forget, HookInv
<1>28. CASE Error \/ Interrupt
  <2>1. UNCHANGED <<setup, executed_pre_hooks, port>>
    BY <1>a, <1>28, ExceptionWays DEF command
  <2>2. CASE pc' \in {"cleanup", "post_hook"} /\ pc \in InTry /\ i' = i
    BY <2>1, <2>2, HookSame DEF InTry
  <2>3. CASE pc \in Attempt \cup {"updaters"} /\ Away
    BY <2>1, <2>3, HookAway
  <2>4. CASE pc \in After
    <3>1. pc' \in After
      BY <1>28, <2>4 DEF Error, Interrupt, MayRaise, Raise, Leaves, LoopGoesOn, InTry
    <3> QED
      BY <1>b, <3>1
  <2> QED
    BY <1>a, <1>28, <2>2, <2>3, <2>4, ExceptionWays DEF TypeOK, InTry
<1> QED
  BY <1>1, <1>2, <1>3, <1>4, <1>5, <1>6, <1>7, <1>8, <1>9, <1>10, <1>11, <1>12, <1>13,
     <1>14, <1>15, <1>16, <1>17, <1>18, <1>19, <1>20, <1>21, <1>22, <1>23, <1>24, <1>25,
     <1>26, <1>27, <1>28
     DEF Next, Process

-----------------------------------------------------------------------------
(* What is deployed.                                                       *)
LEMMA DeployInit == Init => DeployInv
BY DEF Init, DeployInv, RenewedIsDeployed, NoneTold, Attempt, Early, Busy, Presenting, Late

(* What was reported stays so, for the other lineages alone are worked on. *)
LEMMA RenewedStay ==
    ASSUME IInv, renewed' = renewed, told'.renewed \subseteq renewed, loaded' \in {loaded, live},
           UNCHANGED <<setup, dry_run>>,
           \A l \in renewed : /\ version'[l] = version[l] /\ live'[l] = live[l]
                              /\ announced'[l] = announced[l]
                              /\ l \in taken_back => l \in taken_back'
    PROVE  RenewedIsDeployed'
BY DEF IInv, DeployInv, RenewedIsDeployed

(* Steps that neither write, link nor report anything.                     *)
LEMMA DeploySame ==
    ASSUME IInv, UNCHANGED <<command, version, live, announced, renewed, signals>>,
           told'.renewed \subseteq renewed, loaded' \in {loaded, live}, i' = i,
           pc' \in Attempt => pc \in Attempt,
           pc' = "off" => pc = "off",
           pc' = "deploy" => pc = "deploy",
           pc' = "post_hook" => (pc = "post_hook" /\ raised' = raised) \/ raised' # "no",
           pc' \in {"deployer", "restart"} => pc \in {"deployer", "restart"}
    PROVE  DeployInv'
<1>1. RenewedIsDeployed'
  BY RenewedStay DEF command, signals
<1>2. Deployed(i)' = Deployed(i) /\ Linked(i)' = Linked(i)
  BY DEF Deployed, Linked, signals
<1> QED
  BY <1>1, <1>2 DEF IInv, DeployInv, command

LEMMA DeployAway ==
    ASSUME IInv, UNCHANGED <<command, version, live, announced, renewed, signals>>,
           told'.renewed \subseteq renewed, loaded' \in {loaded, live},
           pc # "off", Away
    PROVE  DeployInv'
<1>1. RenewedIsDeployed'
  BY RenewedStay DEF command, signals
<1>2. i' \in {i, i + 1} /\ (pc' = "load" => i' = i + 1) /\ i \in Nat
  BY DEF Away, IInv, TypeOK, Lineage
<1>3. renewed \subseteq 1..i' /\ (pc' = "load" => i' \notin renewed)
  BY <1>2 DEF IInv, DeployInv
<1>4. pc' \in {"describe", "load", "saved_hooks", "end"}
  BY DEF Away
<1> QED
  BY <1>1, <1>3, <1>4
     DEF IInv, DeployInv, command, Attempt, Early, Busy, Presenting, Late

LEMMA DeployForgotten ==
    ASSUME Forget, pc' = "off"
    PROVE  DeployInv'
BY DEF Forget, NoneTold, DeployInv, RenewedIsDeployed, Attempt, Early, Busy, Presenting, Late

LEMMA DeployStep == IInv /\ [Next]_vars => DeployInv'
<1> SUFFICES ASSUME IInv, [Next]_vars PROVE DeployInv'
  OBVIOUS
<1> USE DEF Labels, Attempt, Early, Busy, Presenting, Late, After, Go
<1>a. TypeOK /\ DeployInv /\ told.renewed \subseteq renewed
  BY DEF IInv, TypeOK
<1>b. i \in 1..i
  BY <1>a DEF TypeOK, Lineage
<1>1. CASE UNCHANGED vars
  BY <1>a, <1>1, DeploySame DEF vars, disk, results
<1>2. CASE \E l \in Lineage : BecomesDue(l)
  BY <1>a, <1>2, DeploySame DEF BecomesDue, disk, results
<1>3. CASE Start
  <2>1. /\ renewed' = {} /\ told'.renewed = {} /\ pc' \in {"load", "deployed"}
    BY <1>a, <1>3 DEF Start, DeployInv, results
  <2> QED
    BY <2>1 DEF DeployInv, RenewedIsDeployed
<1>4. CASE Reconstitute
  <2>1. /\ pc = "load" /\ UNCHANGED <<command, disk, loaded, renewed, told, signals>>
        /\ (pc' = "deployed" /\ i' = i) \/ LoopGoesOn
    BY <1>4 DEF Reconstitute
  <2> QED
    BY <1>a, <2>1, DeploySame, DeployAway, LoopWays DEF Away, disk
<1>5. CASE ShouldRenew
  <2>1. /\ pc = "deployed" /\ pc' \in {"updaters", "sleep", "plugins", "end"}
        /\ UNCHANGED <<command, version, announced, loaded, renewed, told, i>>
    BY <1>a, <1>5, ShouldRenewWays DEF ShouldRenew, results
  <2>2. \A l \in renewed : live'[l] = live[l] /\ (l \in taken_back => l \in taken_back')
    <3>1. i \notin renewed /\ OthersStay
      BY <1>a, <1>5, ShouldRenewWays DEF DeployInv
    <3> QED
      BY <1>a, <3>1 DEF OthersStay, TypeOK
  <2>3. RenewedIsDeployed'
    BY <1>a, <2>1, <2>2, RenewedStay DEF command
  <2> QED
    BY <1>a, <2>1, <2>3 DEF DeployInv, command
<1>6. CASE RandomSleep
  BY <1>a, <1>6, DeploySame DEF RandomSleep, disk, results
<1>7. CASE ChoosePlugins
  BY <1>a, <1>7, DeploySame DEF ChoosePlugins, disk, results
<1>8. CASE PreHook
  BY <1>a, <1>8, DeploySame DEF PreHook, disk, results
<1>9. CASE NewOrder
  BY <1>a, <1>9, DeploySame DEF NewOrder, disk, results
<1>10. CASE Perform
  BY <1>a, <1>10, DeploySame DEF Perform, disk, results
<1>11. CASE Note
  BY <1>a, <1>11, DeploySame DEF Note, disk, results
<1>12. CASE PerformWebroot
  BY <1>a, <1>12, DeploySame DEF PerformWebroot, disk, results
<1>13. CASE NoteWebroot
  BY <1>a, <1>13, DeploySame DEF NoteWebroot, disk, results
<1>14. CASE PerformByServer
  BY <1>a, <1>14, ServerWays, DeploySame DEF PerformByServer, disk, results
<1>15. CASE Answered
  BY <1>a, <1>15, DeploySame DEF Answered, disk, results
<1>16. CASE Validated
  BY <1>a, <1>16, DeploySame DEF Validated, disk, results
<1>17. CASE CleanupChallenges
  <2>1. loaded' \in {loaded, live}
    BY <1>a, <1>17, CleanupWays, ServerWays
  <2> QED
    BY <1>a, <1>17, <2>1, DeploySame DEF CleanupChallenges, disk, results
<1>18. CASE Save
  <2>1. /\ pc = "save" /\ UNCHANGED <<command, live, announced, loaded, renewed, told, i, signals>>
        /\ \/ dry_run /\ pc' = "post_hook" /\ version' = version
           \/ pc' = "link" /\ version' = [version EXCEPT ![i] = @ + 1]
    BY <1>18 DEF Save, results
  <2>2. \A l \in renewed : version'[l] = version[l]
    BY <1>a, <2>1 DEF TypeOK, DeployInv
  <2>3. RenewedIsDeployed'
    BY <1>a, <2>1, <2>2, RenewedStay DEF command, signals
  <2> QED
    BY <1>a, <2>1, <2>3 DEF DeployInv, command
<1>19. CASE Link
  <2>1. /\ pc = "link" /\ pc' = "deploy" /\ UpdateAllLinksTo(i)
        /\ UNCHANGED <<command, version, announced, loaded, renewed, told, i>>
    BY <1>19 DEF Link, results
  <2>2. /\ Linked(i)'
        /\ \A l \in renewed : live'[l] = live[l] /\ (l \in taken_back => l \in taken_back')
    <3>1. i \notin renewed
      BY <1>a, <2>1 DEF DeployInv
    <3> QED
      BY <1>a, <2>1, <3>1, UpdateWays DEF TypeOK, Linked, OthersStay
  <2>3. RenewedIsDeployed'
    BY <1>a, <2>1, <2>2, RenewedStay DEF command, signals
  <2> QED
    BY <1>a, <2>1, <2>2, <2>3 DEF DeployInv, command
<1>20. CASE RenewHook
  <2>1. /\ pc = "deploy" /\ pc' = "post_hook"
        /\ UNCHANGED <<command, version, live, loaded, renewed, told, i, signals>>
        /\ announced' = [announced EXCEPT ![i] = live[i]]
    BY <1>20 DEF RenewHook, results
  <2>2. announced'[i] = live[i] /\ \A l \in renewed : announced'[l] = announced[l]
    BY <1>a, <2>1 DEF TypeOK, DeployInv
  <2>3. RenewedIsDeployed'
    BY <1>a, <2>1, <2>2, RenewedStay DEF command, signals
  <2> QED
    BY <1>a, <2>1, <2>2, <2>3 DEF DeployInv, Deployed, Linked, command, signals
<1>21. CASE PostHook
  <2>1. /\ pc = "post_hook" /\ UNCHANGED <<command, version, live, announced, told, signals>>
        /\ loaded' \in {loaded, live}
    BY <1>a, <1>21, PostHookWays, ServerWays DEF PostHook, disk
  <2>2. CASE raised # "no"
    <3>1. Leaves(raised) /\ raised \in {"error", "interrupt"} /\ renewed' = renewed
      BY <1>a, <1>21, <2>2 DEF PostHook, TypeOK
    <3> QED
      BY <1>a, <2>1, <3>1, LeaveWays, DeployAway
  <2>3. CASE raised = "no"
    <3>1. /\ UNCHANGED <<i, raised>> /\ (dry_run \/ Deployed(i))
          /\ \/ /\ pc' \in {"deployer", "restart", "end"} /\ renewed' = renewed
                /\ pc' # "end" => ~ dry_run
             \/ /\ pc' = "updaters" /\ verb = "renew" /\ renewed' = renewed \cup {i}
                /\ setup[i].installer => dry_run
      BY <1>a, <1>21, <2>3 DEF PostHook, Renewed, DeployInv
    <3>2. CASE renewed' = renewed
      <4>1. RenewedIsDeployed'
        BY <1>a, <2>1, <3>2, RenewedStay DEF command, signals
      <4>2. pc' \in {"deployer", "restart"} => Deployed(i)'
        BY <2>1, <3>1 DEF Deployed, Linked, command, signals
      <4> QED
        BY <1>a, <2>1, <3>1, <3>2, <4>1, <4>2 DEF DeployInv, command
    <3>3. CASE pc' = "updaters" /\ verb = "renew" /\ renewed' = renewed \cup {i}
      <4>1. \A l \in renewed' :
               dry_run \/ (Deployed(l) /\ (setup[l].installer => loaded'[l] = live[l]))
        BY <1>a, <2>1, <3>1, <3>3 DEF DeployInv, RenewedIsDeployed, Deployed, Linked
      <4>2. RenewedIsDeployed'
        BY <1>a, <2>1, <3>3, <4>1 DEF RenewedIsDeployed, Deployed, Linked, command, signals
      <4>3. renewed' \subseteq 1..i
        BY <1>a, <1>b, <3>3 DEF DeployInv
      <4> QED
        BY <2>1, <3>1, <3>3, <4>2, <4>3 DEF DeployInv, command
    <3> QED
      BY <3>1, <3>2, <3>3
  <2> QED
    BY <2>2, <2>3
<1>22. CASE RunRenewalDeployer
  BY <1>a, <1>22, DeploySame DEF RunRenewalDeployer, disk, results
<1>23. CASE Restart
  <2>1. /\ UNCHANGED <<command, version, live, announced, told, i, signals>>
        /\ loaded' = live /\ Deployed(i)
        /\ \/ pc' = "end" /\ renewed' = renewed
           \/ pc' = "updaters" /\ verb = "renew" /\ renewed' = renewed \cup {i}
    BY <1>a, <1>23 DEF Restart, RestartServer, Renewed, DeployInv, disk
  <2>2. \A l \in renewed' : dry_run \/ (Deployed(l) /\ loaded'[l] = live[l])
    BY <1>a, <2>1 DEF DeployInv, RenewedIsDeployed, Deployed, Linked
  <2>3. RenewedIsDeployed'
    BY <1>a, <2>1, <2>2 DEF RenewedIsDeployed, Deployed, Linked, command, signals
  <2>4. renewed' \subseteq 1..i
    BY <1>a, <1>b, <2>1 DEF DeployInv
  <2> QED
    BY <1>a, <2>1, <2>3, <2>4 DEF DeployInv, command
<1>24. CASE RunGenericUpdaters
  BY <1>a, <1>24, LoopWays, DeployAway DEF RunGenericUpdaters, Away, disk, results
<1>25. CASE Describe
  <2>1. told'.renewed \subseteq renewed
    BY <1>25 DEF Describe, NoneTold
  <2> QED
    BY <1>a, <1>25, <2>1, DeploySame DEF Describe, disk
<1>26. CASE SavedPostHooks
  <2>1. loaded' \in {loaded, live}
    BY <1>a, <1>26, PostHookWays, ServerWays DEF SavedPostHooks, RunSavedPostHook
  <2> QED
    BY <1>a, <1>26, <2>1, DeploySame DEF SavedPostHooks, disk, results
<1>27. CASE End \/ Kill
  <2>1. CASE Forget /\ pc' = "off"
    BY <2>1, DeployForgotten
  <2>2. CASE ~ (Forget /\ pc' = "off")
    BY <1>a, <1>27, <2>2, DeploySame DEF End, Kill, command, disk, results
  <2> QED
    BY <2>1, <2>2
<1>28. CASE Error \/ Interrupt
  BY <1>a, <1>28, ExceptionWays, DeploySame, DeployAway DEF InTry
<1> QED
  BY <1>1, <1>2, <1>3, <1>4, <1>5, <1>6, <1>7, <1>8, <1>9, <1>10, <1>11, <1>12, <1>13,
     <1>14, <1>15, <1>16, <1>17, <1>18, <1>19, <1>20, <1>21, <1>22, <1>23, <1>24, <1>25,
     <1>26, <1>27, <1>28
     DEF Next, Process

-----------------------------------------------------------------------------
LEMMA Invariant == Spec => []IInv
<1>1. Init => IInv
  BY TypeInit, PresentInit, HookInit, DeployInit DEF IInv
<1>2. IInv /\ [Next]_vars => IInv'
  BY TypeStep, PresentStep, HookStep, DeployStep DEF IInv
<1> QED
  BY <1>1, <1>2, PTL DEF Spec

(* Where a pre-hook of the lineage has stopped the web server, the         *)
(* standalone plugin finds the port free, whatever failed before.          *)
THEOREM PortIsFree == Spec => []PortFree
<1>1. IInv => PortFree
  <2> SUFFICES ASSUME IInv, pc = "perform", authenticator = "standalone",
                      WebServer \in setup[i].hooks, ~ instances,
                      \A l \in 1..(i - 1) : ~ Reloads(l)
               PROVE  port = "nobody"
    BY DEF PortFree, Reloads
  <2> QED
    BY DEF IInv, HookInv, PresentInv, TypeOK, Bound, Reloaded, Attempt, Early, Busy,
       Presenting, Ending
<1> QED
  BY <1>1, Invariant, PTL

(* Nothing that was presented is left when the attempt is over.            *)
THEOREM NothingIsLeft == Spec => []NothingLeft
BY Invariant, PTL DEF IInv, PresentInv

(* What is reported as renewed is linked, announced and in use; the links  *)
(* alone may be behind, when a signal that was swallowed took them back,   *)
(* and then what they lead to is announced and in use.                     *)
THEOREM RenewedIsInUse == Spec => []RenewedIsDeployed
BY Invariant, PTL DEF IInv, DeployInv

-----------------------------------------------------------------------------
(* The return of the server.  Whoever stopped it owes it back: the         *)
(* post-hook is still ahead, or saved for the end, or was run.             *)
Owes ==
    /\ WebServer \in executed_pre_hooks
    /\ hit \notin {"pre_hook", "cleanup", "post_hook", "saved_hooks"}
Ahead == pc \in InTry \cup {"pre_hook", "post_hook"} /\ WebServer \in setup[i].hooks
Saved == verb = "renew" /\ pc \notin {"end", "hung"} /\ WebServer \in ToSet(post_hooks)
Back == port = "server" /\ (pc \in After \/ (verb = "certonly" /\ pc = "restart"))
BackInv ==
    /\ post_hooks \in Seq(Hook)
    /\ pc = "pre_hook" => todo \subseteq setup[i].hooks
    /\ Owes => Ahead \/ Saved \/ Back

LEMMA SetupHooks ==
    ASSUME TypeOK, NEW l \in Lineage
    PROVE  setup[l].hooks \subseteq Hook
BY SetupAssumption DEF TypeOK

(* The commands that are not yet among the saved ones are put behind them. *)
LEMMA RunEventuallyWays ==
    ASSUME NEW hs, hs \subseteq Hook, post_hooks \in Seq(Hook), RunEventually(hs)
    PROVE  post_hooks' \in Seq(Hook) /\ hs \cup ToSet(post_hooks) \subseteq ToSet(post_hooks')
<1> DEFINE new == hs \ ToSet(post_hooks)
<1>1. IsFiniteSet(new)
  BY HookAssumption, FS_Subset
<1>2. PICK n \in Nat : n = Cardinality(new)
  BY <1>1, FS_CardinalityType
<1>3. PICK s \in SetToSeqs(new) : post_hooks' = post_hooks \o s
  BY DEF RunEventually
<1>4. s \in [1..n -> new] /\ \A j, k \in 1..n : j # k => s[j] # s[k]
  BY <1>2, <1>3 DEF SetToSeqs
<1>5. s \in Surjection(1..n, new)
  <2>1. s \in Injection(1..n, new)
    BY <1>4 DEF Injection, IsInjective
  <2>2. Cardinality(1..n) = n
    BY <1>2, FS_Interval
  <2> QED
    BY <1>1, <1>2, <2>1, <2>2, FS_Injection
<1>6. /\ s \in Seq(Hook) /\ Len(s) = n
      /\ \A h \in new : \E k \in 1..n : s[k] = h
  <2>1. new \subseteq Hook
    OBVIOUS
  <2>2. s \in [1..n -> Hook]
    BY <1>4, <2>1
  <2>3. \A h \in new : \E k \in 1..n : s[k] = h
    BY <1>5 DEF Surjection
  <2>4. s \in Seq(Hook)
    BY <1>2, <2>2, SeqDef
  <2>5. Len(s) = n
    BY <1>2, <2>2, <2>4, LenProperties
  <2> QED
    BY <2>3, <2>4, <2>5
<1>7. \A h \in ToSet(post_hooks) : h \in ToSet(post_hooks')
  <2> SUFFICES ASSUME NEW k \in 1..Len(post_hooks)
               PROVE  post_hooks[k] \in ToSet(post_hooks')
    BY DEF ToSet
  <2>1. k \in 1..Len(post_hooks') /\ post_hooks'[k] = post_hooks[k]
    BY <1>3, <1>6
  <2>2. post_hooks' \in Seq(Hook)
    BY <1>3, <1>6
  <2> QED
    BY <2>1, <2>2 DEF ToSet
<1>8. \A h \in new : h \in ToSet(post_hooks')
  <2> SUFFICES ASSUME NEW h \in new PROVE h \in ToSet(post_hooks')
    OBVIOUS
  <2>1. PICK k \in 1..n : s[k] = h
    BY <1>6
  <2>2. /\ Len(post_hooks) + k \in 1..Len(post_hooks')
        /\ post_hooks'[Len(post_hooks) + k] = h
    BY <1>2, <1>3, <1>6, <2>1
  <2>3. post_hooks' \in Seq(Hook)
    BY <1>3, <1>6
  <2> QED
    BY <2>2, <2>3 DEF ToSet
<1> QED
  BY <1>3, <1>6, <1>7, <1>8

LEMMA BackInit == Init => BackInv
BY DEF Init, BackInv, Owes

(* Steps that leave the hooks alone and lead nowhere without the server.   *)
LEMMA BackKept ==
    ASSUME BackInv, UNCHANGED <<verb, hooks>>,
           pc' = "pre_hook" => todo' \subseteq setup'[i'].hooks,
           Owes' => /\ Owes
                    /\ Ahead => Ahead'
                    /\ Back => Back'
                    /\ pc' \in {"end", "hung"} => pc \in {"end", "hung"} \/ verb # "renew"
    PROVE  BackInv'
BY DEF BackInv, Saved, hooks

LEMMA BackStep == IInv /\ BackInv /\ [Next]_vars => BackInv'
<1> SUFFICES ASSUME IInv, BackInv, [Next]_vars PROVE BackInv'
  OBVIOUS
<1> USE DEF After, Go, InTry
<1>a. TypeOK /\ HookInv /\ (hit # "cleanup" /\ pc \notin Busy => ~ Bound)
  BY DEF IInv, PresentInv, NothingLeft, Busy, Presenting
<1>1. CASE UNCHANGED vars
  BY <1>1, BackKept DEF vars, command, hooks, Owes, Ahead, Back, BackInv
<1>2. CASE \E l \in Lineage : BecomesDue(l)
  BY <1>2, BackKept DEF BecomesDue, command, hooks, Owes, Ahead, Back, BackInv
<1>3. CASE Start
  BY <1>a, <1>3 DEF Start, HookInv, hooks, Owes, BackInv
<1>4. CASE Reconstitute
  <2>1. /\ pc = "load" /\ UNCHANGED <<verb, hit, hooks>> /\ pc' \in {"deployed", "load", "describe"}
    BY <1>a, <1>4, LoopWays DEF Reconstitute, command
  <2> QED
    BY <2>1, BackKept DEF hooks, Owes, Ahead, Back
<1>5. CASE ShouldRenew
  <2>1. /\ pc = "deployed" /\ UNCHANGED <<verb, hit, hooks>>
        /\ pc' \in {"updaters", "sleep", "plugins", "end"}
        /\ pc' = "end" => verb # "renew"
    BY <1>a, <1>5, ShouldRenewWays DEF ShouldRenew, command
  <2> QED
    BY <2>1, BackKept DEF hooks, Owes, Ahead, Back
<1>6. CASE RandomSleep
  BY <1>6, BackKept DEF RandomSleep, command, hooks, Owes, Ahead, Back
<1>7. CASE ChoosePlugins
  BY <1>7, BackKept DEF ChoosePlugins, command, hooks, Owes, Ahead, Back
<1>8. CASE PreHook
  <2>1. pc = "pre_hook" /\ UNCHANGED <<setup, verb, i, hit, post_hooks>>
    BY <1>8 DEF PreHook, command
  <2>2. CASE todo = {}
    <3>1. pc' = "obtain" /\ UNCHANGED <<executed_pre_hooks, port>>
      BY <1>8, <2>2 DEF PreHook
    <3> QED
      BY <2>1, <3>1, BackKept DEF hooks, Owes, Ahead, Back
  <2>3. CASE todo # {}
    <3>1. PICK h \in todo : RunPreHook(h) /\ todo' = todo \ {h} /\ pc' = pc
      BY <1>8, <2>3 DEF PreHook
    <3>2. executed_pre_hooks' = executed_pre_hooks \cup {h} /\ h \in setup[i].hooks
      BY <2>1, <3>1 DEF RunPreHook, BackInv
    <3> QED
      BY <2>1, <3>1, <3>2 DEF BackInv, Owes, Ahead, Saved, Back
  <2> QED
    BY <2>2, <2>3
<1>9. CASE \/ NewOrder \/ Perform \/ Note \/ PerformWebroot \/ NoteWebroot \/ PerformByServer
           \/ Answered \/ Validated \/ CleanupChallenges \/ Save \/ Link \/ RenewHook
  <2>1. /\ pc \in InTry /\ pc' \in InTry \cup {"post_hook"}
        /\ UNCHANGED <<setup, i, verb, hit, hooks>>
    <3>1. CASE NewOrder \/ Perform \/ Note \/ PerformWebroot
      BY <3>1 DEF NewOrder, Perform, Note, PerformWebroot, command
    <3>2. CASE NoteWebroot \/ PerformByServer \/ Answered \/ Validated
      BY <3>2 DEF NoteWebroot, PerformByServer, Answered, Validated, command
    <3>3. CASE CleanupChallenges \/ Save \/ Link \/ RenewHook
      BY <3>3 DEF CleanupChallenges, Save, Link, RenewHook, command
    <3> QED
      BY <1>9, <3>1, <3>2, <3>3
  <2> QED
    BY <2>1, BackKept DEF hooks, Owes, Ahead, Back
<1>10. CASE PostHook
  <2>1. /\ pc = "post_hook" /\ UNCHANGED <<setup, verb, hit, executed_pre_hooks>>
        /\ i \in Lineage /\ setup[i].hooks \subseteq Hook
    BY <1>a, <1>10, SetupHooks DEF PostHook, command, TypeOK
  <2>2. CASE raised # "no"
    <3>1. Leaves(raised) /\ raised \in {"error", "interrupt"}
      BY <1>a, <1>10, <2>2 DEF PostHook, TypeOK
    <3>2. CASE verb = "renew"
      <4>1. pc' \in {"load", "describe", "saved_hooks"}
        BY <1>a, <3>1, <3>2, LoopWays DEF Leaves
      <4>2. RunEventually(setup[i].hooks)
        BY <1>10, <3>2 DEF PostHook
      <4>3. /\ post_hooks' \in Seq(Hook)
            /\ setup[i].hooks \cup ToSet(post_hooks) \subseteq ToSet(post_hooks')
        BY <2>1, <4>2, RunEventuallyWays DEF BackInv
      <4> QED
        BY <2>1, <3>2, <4>1, <4>3 DEF BackInv, Owes, Ahead, Saved, Back
    <3>3. CASE verb # "renew"
      <4>1. pc' = "end" /\ post_hooks' = post_hooks
        BY <1>10, <3>1, <3>3 DEF PostHook, Leaves
      <4>2. WebServer \in setup[i].hooks => StartServer
        BY <1>10, <3>3 DEF PostHook, RunPostHook
      <4>3. Owes /\ WebServer \in setup[i].hooks => port' = "server"
        BY <1>a, <2>1, <4>2
           DEF StartServer, Owes, TypeOK, Bound, Busy, Presenting
      <4> QED
        BY <2>1, <3>3, <4>1, <4>3 DEF BackInv, Owes, Ahead, Saved, Back
    <3> QED
      BY <3>2, <3>3
  <2>3. CASE raised = "no"
    <3>1. CASE verb = "renew"
      <4>1. pc' \in {"deployer", "updaters"} /\ RunEventually(setup[i].hooks)
        BY <1>10, <2>3, <3>1 DEF PostHook, Renewed
      <4>2. /\ post_hooks' \in Seq(Hook)
            /\ setup[i].hooks \cup ToSet(post_hooks) \subseteq ToSet(post_hooks')
        BY <2>1, <4>1, RunEventuallyWays DEF BackInv
      <4> QED
        BY <2>1, <3>1, <4>1, <4>2 DEF BackInv, Owes, Ahead, Saved, Back
    <3>2. CASE verb # "renew"
      <4>1. pc' \in {"restart", "end"} /\ post_hooks' = post_hooks /\ verb = "certonly"
        BY <1>a, <1>10, <2>3, <3>2 DEF PostHook, TypeOK
      <4>2. WebServer \in setup[i].hooks => StartServer
        BY <1>10, <3>2 DEF PostHook, RunPostHook
      <4>3. Owes /\ WebServer \in setup[i].hooks => port' = "server"
        BY <1>a, <2>1, <4>2
           DEF StartServer, Owes, TypeOK, Bound, Busy, Presenting
      <4> QED
        BY <2>1, <3>2, <4>1, <4>3 DEF BackInv, Owes, Ahead, Saved, Back
    <3> QED
      BY <3>1, <3>2
  <2> QED
    BY <2>2, <2>3
<1>11. CASE RunRenewalDeployer
  <2>1. /\ pc = "deployer" /\ pc' = "restart" /\ UNCHANGED <<verb, hit, hooks>>
    BY <1>11 DEF RunRenewalDeployer, command
  <2> QED
    BY <2>1, BackKept DEF hooks, Owes, Ahead, Back
<1>12. CASE Restart
  <2>1. /\ pc = "restart" /\ port' = "server" /\ UNCHANGED <<verb, hit, hooks>>
        /\ pc' = IF verb = "renew" THEN "updaters" ELSE "end"
    BY <1>12 DEF Restart, RestartServer, Renewed, command
  <2> QED
    BY <2>1, BackKept DEF hooks, Owes, Ahead, Back
<1>13. CASE RunGenericUpdaters
  <2>1. /\ pc = "updaters" /\ pc' \in {"load", "describe"} /\ UNCHANGED <<verb, hit, hooks>>
    BY <1>a, <1>13, LoopWays DEF RunGenericUpdaters, command
  <2> QED
    BY <2>1, BackKept DEF hooks, Owes, Ahead, Back
<1>14. CASE Describe
  <2>1. /\ pc = "describe" /\ pc' = "saved_hooks" /\ UNCHANGED <<verb, hit, hooks, port>>
    BY <1>14 DEF Describe, command
  <2> QED
    BY <2>1, BackKept DEF hooks, Owes, Ahead, Back
<1>15. CASE SavedPostHooks
  <2>1. pc = "saved_hooks" /\ UNCHANGED <<verb, hit, executed_pre_hooks>>
    BY <1>15 DEF SavedPostHooks, command
  <2>2. CASE post_hooks = <<>>
    <3>1. pc' = "end" /\ UNCHANGED <<port, post_hooks>>
      BY <1>15, <2>2 DEF SavedPostHooks
    <3>2. ToSet(post_hooks) = {}
      BY <2>2 DEF ToSet
    <3> QED
      BY <2>1, <3>1, <3>2 DEF BackInv, Owes, Ahead, Saved, Back
  <2>3. CASE post_hooks # <<>>
    <3>1. /\ pc' = "saved_hooks" /\ post_hooks' = Tail(post_hooks)
          /\ RunPostHook(Head(post_hooks))
      BY <1>15, <2>1, <2>3 DEF SavedPostHooks, RunSavedPostHook
    <3>2. /\ post_hooks' \in Seq(Hook)
          /\ WebServer \in ToSet(post_hooks) =>
                WebServer = Head(post_hooks) \/ WebServer \in ToSet(post_hooks')
      <4>1. post_hooks \in Seq(Hook)
        BY DEF BackInv
      <4>2. \A k \in 1..Len(post_hooks) :
                k = 1 \/ (k - 1 \in 1..Len(post_hooks') /\ post_hooks'[k - 1] = post_hooks[k])
        BY <2>3, <3>1, <4>1
      <4>3. post_hooks' \in Seq(Hook) /\ Head(post_hooks) = post_hooks[1]
        BY <2>3, <3>1, <4>1
      <4> QED
        BY <4>1, <4>2, <4>3 DEF ToSet
    <3>3. Owes => /\ port = "server" => port' = "server"
                  /\ WebServer = Head(post_hooks) => port' = "server"
      BY <1>a, <2>1, <3>1 DEF RunPostHook, StartServer, Owes, TypeOK, Bound, Busy, Presenting
    <3> QED
      BY <2>1, <3>1, <3>2, <3>3 DEF BackInv, Owes, Ahead, Saved, Back
  <2> QED
    BY <2>2, <2>3
<1>16. CASE End
  <2>1. CASE Bound
    <3>1. pc = "end" /\ pc' = "hung" /\ UNCHANGED <<verb, hit, hooks, port>>
      BY <1>16, <2>1 DEF End
    <3> QED
      BY <3>1, BackKept DEF hooks, Owes, Ahead, Back
  <2>2. CASE ~ Bound
    BY <1>16, <2>2 DEF End, Forget, BackInv, Owes
  <2> QED
    BY <2>1, <2>2
<1>17. CASE Kill
  BY <1>17 DEF Kill, Forget, BackInv, Owes
<1>18. CASE Error \/ Interrupt
  <2>1. /\ UNCHANGED <<setup, verb, hooks, port>> /\ pc' # "pre_hook"
        /\ \/ pc \in InTry /\ pc' \in {"cleanup", "post_hook"} /\ i' = i
           \/ pc \notin InTry /\ Away
    <3>1. UNCHANGED <<setup, verb, hooks, port>>
      BY <1>18 DEF Error, Interrupt, command
    <3> QED
      BY <1>a, <1>18, <3>1, ExceptionWays DEF Away, Presenting
  <2>2. Owes' => /\ Owes /\ pc \notin {"pre_hook", "post_hook", "saved_hooks"}
                 /\ pc \in {"end", "hung"} => pc' = pc
    <3>1. CASE Error
      BY <3>1 DEF Error, MayRaise, Owes, hooks
    <3>2. CASE Interrupt
      BY <3>2 DEF Interrupt, Owes, hooks
    <3> QED
      BY <1>18, <3>1, <3>2
  <2>3. pc \notin InTry /\ pc # "saved_hooks" /\ verb = "renew" => pc' # "end"
    <3>1. pc \notin InTry /\ pc # "saved_hooks" => \E e \in {"error", "interrupt"} : Leaves(e)
      BY <1>18 DEF Error, Interrupt, Raise, MayRaise
    <3> QED
      BY <1>a, <3>1, LoopWays DEF Leaves
  <2>4. pc \in {"describe", "restart"} /\ pc \notin InTry /\ verb = "certonly" => pc' = "end"
    <3>1. pc \in {"describe", "restart"} => \E e \in {"error", "interrupt"} : Leaves(e)
      BY <1>18 DEF Error, Interrupt, Raise, MayRaise
    <3> QED
      BY <3>1 DEF Leaves
  <2>5. pc = "describe" => pc' \in {"end", "saved_hooks"}
    <3>1. pc = "describe" => Leaves("interrupt")
      BY <1>18 DEF Error, Interrupt, Raise, MayRaise
    <3> QED
      BY <3>1 DEF Leaves
  <2>6. Owes' /\ Ahead => Ahead'
    BY <2>1, <2>2 DEF Ahead
  <2>7. Owes' /\ Back => Back'
    BY <2>1, <2>2, <2>4, <2>5 DEF Back
  <2> QED
    BY <2>1, <2>2, <2>3, <2>6, <2>7, BackKept DEF Away
<1> QED
  BY <1>1, <1>2, <1>3, <1>4, <1>5, <1>6, <1>7, <1>8, <1>9, <1>10, <1>11, <1>12, <1>13,
     <1>14, <1>15, <1>16, <1>17, <1>18
     DEF Next, Process

(* A web server that a pre-hook stopped is up when the process ends,       *)
(* whatever fails in whichever attempt, and whether the post-hook is run   *)
(* in the finally or saved for the end.  Interrupts among the pre-hooks,   *)
(* in a cleanup and among the post-hooks are excepted.                     *)
THEOREM ServerIsBack == Spec => []ServerComesBack
<1>1. BackInv => ServerComesBack
  BY DEF BackInv, Owes, Ahead, Saved, Back, InTry, ServerComesBack
<1>2. Init => BackInv
  BY BackInit
<1>3. IInv /\ BackInv /\ [Next]_vars => BackInv'
  BY BackStep
<1> QED
  BY <1>1, <1>2, <1>3, Invariant, PTL DEF Spec
=============================================================================
