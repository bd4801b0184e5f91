------------------------------- MODULE Webroot -------------------------------
(***************************************************************************)
(* The webroot authenticator (certbot/_internal/plugins/webroot.py): files *)
(* in two nested directories, .well-known and acme-challenge, of what the  *)
(* web server at the port of Standalone serves.  A new authenticator is    *)
(* made for each certificate; the directories are on the disk and stay.    *)
(***************************************************************************)
EXTENDS Naturals, Standalone

VARIABLES
    dirs,           \* how many of the two directories there are
    created_dirs,   \* how many of them this authenticator made
    files,          \* the challenges whose validation file is there
    performed,      \* the challenges noted to be performed
    cut             \* history: cleanup raised and did not reach the directories

webroot == <<dirs, created_dirs, files, performed, cut>>

(* __init__.  Files of an earlier authenticator have other names.          *)
NewWebroot == created_dirs' = 0 /\ files' = {} /\ performed' = {} /\ cut' = FALSE

(* One round of the loop of _create_challenge_dirs.                        *)
CreateChallengeDir ==
    /\ dirs < 2
    /\ dirs' = dirs + 1 /\ created_dirs' = created_dirs + 1
    /\ UNCHANGED <<files, performed, cut>>

(* _perform_single: the file is opened and written, and noted.             *)
SaveValidation(c) ==
    /\ dirs = 2
    /\ files' = files \cup {c}
    /\ UNCHANGED <<dirs, created_dirs, performed, cut>>

NotePerformed(c) ==
    /\ c \in files
    /\ performed' = performed \cup {c}
    /\ UNCHANGED <<dirs, created_dirs, files, cut>>

(* cleanup: the file of each challenge is removed, in the order they were  *)
(* performed in; the first that was not performed to the end raises.  Then *)
(* the directories made here are removed: they are empty.                  *)
RemoveValidations(cs) ==
    /\ files' = files \ cs /\ performed' = performed \ cs
    /\ IF cs \subseteq performed
       THEN dirs' = dirs - created_dirs /\ created_dirs' = 0 /\ cut' = FALSE
       ELSE cut' = TRUE /\ UNCHANGED <<dirs, created_dirs>>
=============================================================================
