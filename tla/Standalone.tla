----------------------------- MODULE Standalone -----------------------------
(***************************************************************************)
(* The standalone authenticator (certbot/_internal/plugins/standalone.py   *)
(* and the servers of acme/standalone.py) on a machine whose web server    *)
(* uses the same port.  A new authenticator, with a server manager that    *)
(* knows no server yet, is made for each certificate; a listener belongs   *)
(* to the process and is gone with it.                                     *)
(***************************************************************************)
CONSTANT Challenge      \* the challenges of a certificate

VARIABLES
    port,       \* who listens at it: "nobody", the "server" or "certbot"
    instances,  \* the server manager has an instance at the port
    resources,  \* http_01_resources
    served      \* the challenges noted to be served by the instance

standalone == <<instances, resources, served>>

Bound == port = "certbot"

(* __init__.                                                               *)
NewAuthenticator == instances' = FALSE /\ resources' = {} /\ served' = {}

(* ServerManager.run: nothing is done when there is an instance, otherwise *)
(* the port is bound and the threads are started.  A port in use is an     *)
(* error: _handle_perform_error raises, for nobody is asked to retry.      *)
Run ==
    /\ instances \/ port = "nobody"
    /\ port' = "certbot" /\ instances' = TRUE

(* _perform_single, of the challenges one after the other.                 *)
PerformHttp01(c) ==
    /\ Run
    /\ resources' = resources \cup {c}
    /\ UNCHANGED served

NoteServed(c) ==
    /\ c \in resources
    /\ served' = served \cup {c}
    /\ UNCHANGED <<port, instances, resources>>

(* cleanup: a server without challenges is stopped; the resources stay.    *)
CleanupIfServed(cs) ==
    /\ served' = served \ cs
    /\ IF served # {} /\ served' = {}
       THEN instances' = FALSE /\ port' = (IF instances THEN "nobody" ELSE port)
       ELSE UNCHANGED <<instances, port>>
    /\ UNCHANGED resources
Cleanup(cs) ==
    /\ served' = served \ cs
    /\ IF instances /\ served' = {}
       THEN instances' = FALSE /\ port' = "nobody"
       ELSE UNCHANGED <<instances, port>>
    /\ UNCHANGED resources

(* The CA finds the answer to a challenge.                                 *)
Answers(c) == Bound /\ c \in resources
=============================================================================
