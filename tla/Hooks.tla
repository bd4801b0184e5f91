-------------------------------- MODULE Hooks --------------------------------
(***************************************************************************)
(* The pre- and post-hooks of certbot/_internal/hooks.py.  They come in    *)
(* pairs, as in the documentation: the post-hook undoes what the pre-hook  *)
(* did.  The pair WebServer stops and starts the web server; what others   *)
(* do is of no interest.  The server holds the port of Standalone while it *)
(* is up, and loads the certificates when it starts or is reloaded.        *)
(***************************************************************************)
EXTENDS Sequences, SequencesExt, Standalone

CONSTANTS
    Hook,           \* the pairs of commands
    WebServer

ASSUME HookAssumption == WebServer \in Hook /\ IsFiniteSet(Hook)

VARIABLES
    executed_pre_hooks,
    post_hooks,     \* the saved ones, still to be run
    live,           \* the version of each certificate the live links point to
    loaded          \* the version the web server uses

hooks == <<executed_pre_hooks, post_hooks>>

(* The commands that stop and start the server; the start fails, and a     *)
(* failing hook is only reported, when the port is in use.                 *)
StopServer == port' = (IF port = "server" THEN "nobody" ELSE port)

StartServer ==
    IF port = "nobody"
    THEN port' = "server" /\ loaded' = live
    ELSE UNCHANGED <<port, loaded>>

(* restart of an installer: a reload, or a start.                          *)
RestartServer == port # "certbot" /\ port' = "server" /\ loaded' = live

(* _run_pre_hook_if_necessary.                                             *)
RunPreHook(h) ==
    /\ IF h = WebServer /\ h \notin executed_pre_hooks THEN StopServer ELSE UNCHANGED port
    /\ executed_pre_hooks' = executed_pre_hooks \cup {h}

RunPostHook(h) ==
    IF h = WebServer THEN StartServer ELSE UNCHANGED <<port, loaded>>

(* _run_eventually, for some commands in any order.                        *)
RunEventually(hs) ==
    \E s \in SetToSeqs(hs \ ToSet(post_hooks)) : post_hooks' = post_hooks \o s

(* One round of run_saved_post_hooks.                                      *)
RunSavedPostHook ==
    /\ post_hooks # <<>>
    /\ RunPostHook(Head(post_hooks))
    /\ post_hooks' = Tail(post_hooks)
=============================================================================
