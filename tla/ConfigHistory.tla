---------------------------- MODULE ConfigHistory ----------------------------
(***************************************************************************)
(* What the Reverter of certbot promises its callers, without directories, *)
(* backups or crashes: one configuration, stable, that a recovery leads    *)
(* to, and a history of older ones under growing time stamps.  Committing  *)
(* puts stable into the history; a rollback moves stable, file by file, to *)
(* the newest entry and drops the entry once stable has reached it.  A     *)
(* rollback that is interrupted leaves the history whole.                  *)
(***************************************************************************)
EXTENDS Naturals

CONSTANTS File, Content

VARIABLES
    stable,  \* the configuration a recovery leads to
    points,  \* the configurations rollbacks lead to, by time stamp
    rolling  \* a rollback is under way

vars == <<stable, points, rolling>>

Init ==
    /\ stable \in [File -> Content]
    /\ points = [s \in {} |-> stable]
    /\ rolling = FALSE

Newest(s) == s \in DOMAIN points /\ \A t \in DOMAIN points : t <= s

(* finalize_checkpoint: what recovery led to so far becomes the newest     *)
(* entry, under a stamp that is greater than all others.                   *)
Commit ==
    /\ ~ rolling /\ rolling' = rolling
    /\ stable' \in [File -> Content]
    /\ \E s \in DOMAIN points' \ DOMAIN points :
        /\ \A t \in DOMAIN points : t < s
        /\ points' = [t \in DOMAIN points \cup {s} |->
                        IF t = s THEN stable ELSE points[t]]

Begin ==
    /\ ~ rolling /\ rolling' = TRUE
    /\ DOMAIN points # {}
    /\ UNCHANGED <<stable, points>>

OneFileMoves ==
    \E f \in File, c \in Content : stable' = [stable EXCEPT ![f] = c]

Move == rolling /\ OneFileMoves /\ UNCHANGED <<points, rolling>>

Finish ==
    /\ rolling /\ rolling' \in BOOLEAN
    /\ \E s \in DOMAIN points :
        /\ Newest(s)
        /\ stable = points[s]
        /\ points' = [t \in DOMAIN points \ {s} |-> points[t]]
    /\ UNCHANGED stable

(* A rollback stops where it is; the file it was writing may be cut short. *)
Abort ==
    /\ rolling /\ rolling' = FALSE
    /\ OneFileMoves \/ UNCHANGED stable
    /\ UNCHANGED points

Next == Commit \/ Begin \/ Move \/ Finish \/ Abort

Spec == Init /\ [][Next]_vars
=============================================================================
