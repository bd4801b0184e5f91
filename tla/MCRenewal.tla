------------------------------ MODULE MCRenewal ------------------------------
(***************************************************************************)
(* Renewal on two lineages.  Their setups: the standalone plugin with the  *)
(* documented hooks that free the port, with and without an installer that *)
(* reloads the same server; webroot, or the plugin of the server for both  *)
(* purposes, and no hooks.                                                 *)
(***************************************************************************)
EXTENDS Renewal

MCStopping == [hooks : {{WebServer}}, authenticator : {"standalone"}, installer : BOOLEAN]

MCSetups ==
    MCStopping
    \cup [hooks : {{}}, authenticator : {"webroot"}, installer : {FALSE}]
    \cup [hooks : {{}}, authenticator : {"server"}, installer : {TRUE}]
=============================================================================
