----------------------------- MODULE AcmeClient -----------------------------
(***************************************************************************)
(* The requests of acme/client.py.  Every POST is signed with a nonce that *)
(* the CA has given out; the CA takes each one at most once, forgets some, *)
(* and gives out a new one with its response.  What the requests are for   *)
(* is in AuthHandler.                                                      *)
(***************************************************************************)
CONSTANT Nonce      \* names for nonces; one not in use stands for a new one

ASSUME NonceAssumption == Nonce # {}

VARIABLES
    nonces,     \* the pool, _nonces
    sent,       \* history: the nonces that were sent
    attempt     \* of the request under way, 1 or 2

net == <<nonces, sent, attempt>>

NetInit == nonces = {} /\ sent = {} /\ attempt = 1

NewNonce(pool) == CHOOSE n \in Nonce : n \notin pool

(* _get_nonce: the nonces it may return, of the pool or from newNonce.     *)
GetNonce == IF nonces = {} THEN {NewNonce({})} ELSE nonces
Peek(n) == nonces \cup {n}
Pop(n) == nonces \ {n}

(* _post_once, with a response of the CA, whose nonce _add_nonce keeps.    *)
Post ==
    \E n \in GetNonce :
        LET new == NewNonce(Pop(n))
        IN  /\ nonces' = Pop(n) \cup {new}
            /\ sent' = (sent \cup {n}) \ {new}
            /\ attempt' = 1

Used(n) == nonces' = Pop(n) /\ sent' = sent \cup {n}

(* The CA refuses the nonce: post tries once more.  The nonce of an error  *)
(* response is not kept, for _check_response raises.                       *)
BadNonce ==
    /\ attempt = 1 /\ attempt' = 2
    /\ \E n \in GetNonce : Used(n)

(* The request raises: newNonce, the connection, or the response, where a  *)
(* second badNonce is an error like others.                                *)
PostFails ==
    /\ attempt' = 1
    /\ \/ nonces = {} /\ UNCHANGED <<nonces, sent>>
       \/ \E n \in GetNonce : Used(n)

-----------------------------------------------------------------------------
(* No nonce is sent twice: the pool has none that was sent.  And it is     *)
(* empty after a refusal, so that the second attempt is made with a nonce  *)
(* the CA gives out only then, not with one it may have forgotten too.     *)
FreshNonces ==
    /\ nonces \cap sent = {}
    /\ attempt = 2 => nonces = {}
=============================================================================
