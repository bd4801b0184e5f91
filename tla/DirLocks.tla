------------------------------ MODULE DirLocks ------------------------------
(***************************************************************************)
(* What the directory locks of certbot promise: a directory has at most    *)
(* one holder, that gives it up by itself or by dying.                     *)
(***************************************************************************)
CONSTANTS Process, Dir

VARIABLE holders    \* the processes that hold each directory

Init == holders = [d \in Dir |-> {}]

Acquire(p, d) ==
    /\ holders[d] = {}
    /\ holders' = [holders EXCEPT ![d] = {p}]

Release(p, d) ==
    /\ p \in holders[d]
    /\ holders' = [holders EXCEPT ![d] = @ \ {p}]

Crash(p) == holders' = [d \in Dir |-> holders[d] \ {p}]

Next == \E p \in Process :
    \/ \E d \in Dir : Acquire(p, d) \/ Release(p, d)
    \/ Crash(p)

Spec == Init /\ [][Next]_holders
=============================================================================
