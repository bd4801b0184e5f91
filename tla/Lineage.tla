------------------------------ MODULE Lineage ------------------------------
(***************************************************************************)
(* A certificate lineage on the disk (RenewableCert of                     *)
(* certbot/_internal/storage.py, with the renewal that uses it): the files *)
(* of every version in archive/, the symbolic links in live/ that servers  *)
(* read, the previous_ links that allow an interrupted update to be taken  *)
(* back, and the renewal configuration file.  The four kinds of file (the  *)
(* code's ALL_FOUR) are treated alike, so where the code goes through them *)
(* in a fixed order, here they come in any order.  One certbot process     *)
(* works on the lineage at a time (see LockFile); everything but its       *)
(* locals survives it, and it may die between any two steps.               *)
(***************************************************************************)
EXTENDS Naturals, FiniteSets

CONSTANTS
    Kind,           \* the kinds of file
    Cert,           \* the kind truncate goes by
    NoKind,
    MaxVersion,     \* bound: version numbers
    Keep,           \* num_prior_certs_to_keep
    MaxFaults       \* bound: crashes and failed calls

ASSUME KindAssumption == Cert \in Kind /\ NoKind \notin Kind
ASSUME BoundAssumption == MaxVersion \in Nat \ {0} /\ Keep \in Nat

VARIABLES
    archive,    \* archive[k][n]: the file of kind k in version n
    live,       \* the version each live link points to, 0 for no link
    prev,       \* the same for the previous_ links
    conf,       \* the renewal configuration file
    newconf,    \* the file that is to replace it
    pc,         \* what the running process does, "off" when none runs
    todo,       \* the kinds its current loop has not treated
    mid,        \* the kind whose link is removed and not made again yet, or whose
                \* file is opened and not written yet
    version,    \* the version that is saved or deployed
    renewing,   \* update_all_links_to was called by a renewal
    restoring,  \* _fix_symlinks found all previous_ links
    failed,     \* _fix_symlinks runs because update_all_links_to failed
    old,        \* truncate: the files still to delete
    faults      \* crashes and failed calls so far

disk == <<archive, live, prev, conf, newconf>>
local == <<todo, mid, version, renewing, restoring, failed, old>>
vars == <<disk, pc, local, faults>>

Version == 1..MaxVersion

(* The files and links of which there are some, as os.path.exists says:    *)
(* a link exists when its target does.                                     *)
Available(k) == {n \in Version : archive[k][n] # "none"}
PrevExists(k) == prev[k] \in Available(k)
Common == {n \in Version : \A k \in Kind : n \in Available(k)}
Largest(n, S) == n \in S /\ \A m \in S : m <= n

(* next_free_version.                                                      *)
IsNextCommon(n) == \E m \in Version : n = m + 1 /\ Largest(m, Common)
IsNextFree(n) ==
    \E m \in Version : /\ n = m + 1
                       /\ Largest(m, UNION {Available(k) : k \in Kind})

(* latest_common_version.                                                  *)
IsLatestCommon(n) == Largest(n, Common)

-----------------------------------------------------------------------------
Init ==
    /\ archive = [k \in Kind |-> [n \in Version |-> "none"]]
    /\ live = [k \in Kind |-> 0] /\ prev = [k \in Kind |-> 0]
    /\ conf = "none" /\ newconf = "none"
    /\ pc = "off"
    /\ todo = {} /\ mid = NoKind /\ version = 0 /\ old = {}
    /\ renewing = FALSE /\ restoring = FALSE /\ failed = FALSE
    /\ faults = 0

Fault == faults < MaxFaults /\ faults' = faults + 1

(* A loop over the kinds begins.                                           *)
Loop(label) == pc' = label /\ todo' = Kind /\ mid' = NoKind

(* The process ends, by itself or by an error.                             *)
Ends ==
    /\ pc' = "off"
    /\ todo' = {} /\ mid' = NoKind /\ version' = 0 /\ old' = {}
    /\ renewing' = FALSE /\ restoring' = FALSE /\ failed' = FALSE

(* os.symlink and os.unlink of a live link.                                *)
LinkTo(k, n) == live' = [live EXCEPT ![k] = n]
Removed(k) == live' = [live EXCEPT ![k] = 0]

-----------------------------------------------------------------------------
(* new_lineage.  The configuration file is created first, to own the name, *)
(* and written last.                                                       *)
Create ==
    /\ pc = "off" /\ conf = "none"
    /\ conf' = "empty"
    /\ IF /\ \A k \in Kind : live[k] = 0 /\ prev[k] = 0 /\ Available(k) = {}
       THEN /\ Loop("create")
            /\ version' = 1
            /\ UNCHANGED <<renewing, restoring, failed, old>>
       ELSE Ends
    /\ UNCHANGED <<archive, live, prev, newconf, faults>>

CreateLink(k) ==
    /\ pc = "create" /\ k \in todo
    /\ LinkTo(k, 1)
    /\ todo' = todo \ {k}
    /\ UNCHANGED <<archive, prev, conf, newconf, pc, mid, version, renewing, restoring,
                   failed, old, faults>>

CreateLinked ==
    /\ pc = "create" /\ todo = {}
    /\ Loop("create_files")
    /\ UNCHANGED <<disk, version, renewing, restoring, failed, old, faults>>

(* The files of a version are written, here and in save_successor: opened, *)
(* which creates them, and filled.                                         *)
Writing == pc \in {"create_files", "save"}

OpenFile(k) ==
    /\ Writing /\ k \in todo /\ mid = NoKind
    /\ archive' = [archive EXCEPT ![k][version] = "cut"]
    /\ mid' = k
    /\ UNCHANGED <<live, prev, conf, newconf, pc, todo, version, renewing, restoring, failed,
                   old, faults>>

WriteFile(k) ==
    /\ Writing /\ mid = k
    /\ archive' = [archive EXCEPT ![k][version] = "whole"]
    /\ todo' = todo \ {k} /\ mid' = NoKind
    /\ UNCHANGED <<live, prev, conf, newconf, pc, version, renewing, restoring, failed, old,
                   faults>>

-----------------------------------------------------------------------------
(* _fix_symlinks, called whenever a lineage is loaded and by the error     *)
(* handler of update_all_links_to.                                         *)
FixSymlinks(after) ==
    /\ restoring' = \A k \in Kind : PrevExists(k)
    /\ failed' = after
    /\ Loop("fix")

(* The configuration is saved and the new lineage is loaded.               *)
CreateDone ==
    /\ pc = "create_files" /\ todo = {}
    /\ conf' = "saved"
    /\ FixSymlinks(FALSE)
    /\ UNCHANGED <<archive, live, prev, newconf, version, renewing, old, faults>>

(* RenewableCert.__init__; a configuration without the four references is  *)
(* refused.                                                                *)
Load ==
    /\ pc = "off" /\ conf = "saved"
    /\ FixSymlinks(FALSE)
    /\ UNCHANGED <<disk, version, renewing, old, faults>>

FixUnlink(k) ==
    /\ pc = "fix" /\ restoring /\ k \in todo /\ mid = NoKind
    /\ Removed(k)
    /\ mid' = k
    /\ UNCHANGED <<archive, prev, conf, newconf, pc, todo, version, renewing, restoring,
                   failed, old, faults>>

FixLink(k) ==
    /\ pc = "fix" /\ restoring /\ mid = k
    /\ LinkTo(k, prev[k])
    /\ todo' = todo \ {k} /\ mid' = NoKind
    /\ UNCHANGED <<archive, prev, conf, newconf, pc, version, renewing, restoring, failed,
                   old, faults>>

Fixed ==
    /\ pc = "fix" /\ (restoring => todo = {})
    /\ Loop("unprev_fix")
    /\ UNCHANGED <<disk, version, renewing, restoring, failed, old, faults>>

FixUnlinkPrev(k) ==
    /\ pc = "unprev_fix" /\ k \in todo
    /\ prev' = [prev EXCEPT ![k] = IF PrevExists(k) THEN 0 ELSE @]
    /\ todo' = todo \ {k}
    /\ UNCHANGED <<archive, live, conf, newconf, pc, mid, version, renewing, restoring, failed,
                   old, faults>>

(* _check_symlinks.                                                        *)
LinksExist == \A k \in Kind : live[k] \in Available(k)

Loaded ==
    /\ pc = "unprev_fix" /\ todo = {} /\ ~ failed /\ LinksExist
    /\ pc' = "loaded"
    /\ UNCHANGED <<disk, local, faults>>

(* A link is broken, or the error that called _fix_symlinks goes on.       *)
FixEnds ==
    /\ pc = "unprev_fix" /\ todo = {} /\ (failed \/ ~ LinksExist)
    /\ Ends
    /\ UNCHANGED <<disk, faults>>

-----------------------------------------------------------------------------
(* update_all_links_to begins.                                             *)
UpdateAllLinksTo(n, renew) ==
    /\ Loop("prev")
    /\ version' = n /\ renewing' = renew
    /\ UNCHANGED <<restoring, failed, old>>

(* has_pending_deployment.                                                 *)
FarBehind == \E n \in Common, k \in Kind : live[k] + 1 < n
HasPendingDeployment == \E n \in Common, k \in Kind : live[k] < n

(* ensure_deployed, which renew calls for every lineage it loads.          *)
EnsureDeployed ==
    /\ pc = "loaded"
    /\ IF HasPendingDeployment
       THEN \E n \in Version : IsLatestCommon(n) /\ UpdateAllLinksTo(n, FALSE)
       ELSE pc' = "ready" /\ UNCHANGED local
    /\ UNCHANGED <<disk, faults>>

(* Other commands do without.                                              *)
NotEnsured ==
    /\ pc = "loaded"
    /\ pc' = "ready"
    /\ UNCHANGED <<disk, local, faults>>

(* renew_cert has a new certificate: save_successor.                       *)
SaveSuccessor ==
    /\ pc = "ready"
    /\ \E n \in Version : IsNextFree(n) /\ version' = n
    /\ Loop("save")
    /\ UNCHANGED <<disk, renewing, restoring, failed, old, faults>>

(* The files are written.                                                  *)
Saved ==
    /\ pc = "save" /\ todo = {}
    /\ pc' = "config"
    /\ UNCHANGED <<disk, local, faults>>

(* save_new_config_values of the command reconfigure, with no new version. *)
SaveNewConfigValues ==
    /\ pc = "loaded"
    /\ pc' = "config" /\ version' = 0
    /\ UNCHANGED <<disk, todo, mid, renewing, restoring, failed, old, faults>>

(* update_configuration.  What a dead process has left is removed, then    *)
(* the file is created, written and put in the place of the old one.       *)
RemoveNewConf ==
    /\ pc = "config"
    /\ pc' = "config_write" /\ newconf' = "none"
    /\ UNCHANGED <<archive, live, prev, conf, local, faults>>

WriteNewConf ==
    /\ pc = "config_write"
    /\ \/ newconf = "none" /\ newconf' = "empty" /\ UNCHANGED pc
       \/ newconf = "empty" /\ newconf' = "saved" /\ pc' = "config_replace"
    /\ UNCHANGED <<archive, live, prev, conf, local, faults>>

(* A new version is then linked.                                           *)
ReplaceConf ==
    /\ pc = "config_replace"
    /\ conf' = newconf /\ newconf' = "none"
    /\ IF version = 0
       THEN pc' = "ready" /\ UNCHANGED local
       ELSE \E n \in Version : IsLatestCommon(n) /\ UpdateAllLinksTo(n, TRUE)
    /\ UNCHANGED <<archive, live, prev, faults>>

(* A previous_ link that is still there would be an error; as loading      *)
(* removes them, there is none.                                            *)
PrevLink(k) ==
    /\ pc = "prev" /\ k \in todo /\ prev[k] = 0
    /\ prev' = [prev EXCEPT ![k] = live[k]]
    /\ todo' = todo \ {k}
    /\ UNCHANGED <<archive, live, conf, newconf, pc, mid, version, renewing, restoring, failed,
                   old, faults>>

NoPrevLinks ==
    /\ pc = "prev"
    /\ Loop("update")
    /\ UNCHANGED <<disk, version, renewing, restoring, failed, old, faults>>
PrevLinked ==
    /\ pc = "prev" /\ todo = {}
    /\ Loop("update")
    /\ UNCHANGED <<disk, version, renewing, restoring, failed, old, faults>>

(* _update_link_to.                                                        *)
Unlink(k) ==
    /\ pc = "update" /\ k \in todo /\ mid = NoKind
    /\ Removed(k)
    /\ mid' = k
    /\ UNCHANGED <<archive, prev, conf, newconf, pc, todo, version, renewing, restoring,
                   failed, old, faults>>

Symlink(k) ==
    /\ pc = "update" /\ mid = k
    /\ LinkTo(k, version)
    /\ todo' = todo \ {k} /\ mid' = NoKind
    /\ UNCHANGED <<archive, prev, conf, newconf, pc, version, renewing, restoring, failed,
                   old, faults>>

Updated ==
    /\ pc = "update" /\ todo = {}
    /\ Loop("unprev")
    /\ UNCHANGED <<disk, version, renewing, restoring, failed, old, faults>>

UnlinkPrev(k) ==
    /\ pc = "unprev" /\ k \in todo
    /\ prev' = [prev EXCEPT ![k] = 0]
    /\ todo' = todo \ {k}
    /\ UNCHANGED <<archive, live, conf, newconf, pc, mid, version, renewing, restoring, failed,
                   old, faults>>

(* A call in the body of update_all_links_to fails, or a signal comes.     *)
UpdateFails ==
    /\ pc \in {"prev", "update", "unprev"}
    /\ Fault
    /\ FixSymlinks(TRUE)
    /\ UNCHANGED <<disk, version, renewing, old>>

(* The previous_ links are gone; a renewal goes on to truncate.            *)
KeepsFewer(current) == {n \in Version : n <= current /\ current < n + Keep}
KeptVersions(current) == {n \in Version : n <= current /\ current <= n + Keep}

UpdateDone ==
    /\ pc = "unprev" /\ todo = {}
    /\ IF renewing
       THEN /\ pc' = "truncate"
            /\ \E n \in Version : /\ IsLatestCommon(n)
                                  /\ old' = Kind \X (Available(Cert) \ KeptVersions(n))
            /\ UNCHANGED <<todo, mid, version, renewing, restoring, failed>>
       ELSE pc' = "ready" /\ UNCHANGED local
    /\ UNCHANGED <<disk, faults>>

(* truncate; a file that cannot be deleted is passed over.                 *)
TruncateFile(k, n) ==
    /\ pc = "truncate" /\ <<k, n>> \in old
    /\ old' = old \ {<<k, n>>}
    /\ \/ archive' = [archive EXCEPT ![k][n] = "none"] /\ UNCHANGED faults
       \/ UNCHANGED archive /\ Fault
    /\ UNCHANGED <<live, prev, conf, newconf, pc, todo, mid, version, renewing, restoring,
                   failed>>

Truncated ==
    /\ pc = "truncate" /\ old = {}
    /\ pc' = "ready"
    /\ UNCHANGED <<disk, local, faults>>

-----------------------------------------------------------------------------
(* delete_files.  The configuration goes first; with an empty one the code *)
(* fails on the missing references and leaves the rest.                    *)
DeleteFiles ==
    /\ pc = "off" /\ conf # "none"
    /\ conf' = "none"
    /\ IF conf = "saved"
       THEN Loop("delete") /\ UNCHANGED <<version, renewing, restoring, failed, old>>
       ELSE Ends
    /\ UNCHANGED <<archive, live, prev, newconf, faults>>

DeleteLink(k) ==
    /\ pc = "delete" /\ k \in todo
    /\ \/ Removed(k) /\ UNCHANGED faults
       \/ Fault /\ UNCHANGED live
    /\ todo' = todo \ {k}
    /\ UNCHANGED <<archive, prev, conf, newconf, pc, mid, version, renewing, restoring, failed,
                   old>>

(* shutil.rmtree, which may fail after the first file: what matters is     *)
(* whether anything is left.                                               *)
DeleteArchive ==
    /\ pc = "delete" /\ todo = {}
    /\ \/ archive' = [k \in Kind |-> [n \in Version |-> "none"]] /\ UNCHANGED faults
       \/ /\ Fault
          /\ \E k \in Kind, n \in Version : archive' = [archive EXCEPT ![k][n] = "none"]
    /\ Ends
    /\ UNCHANGED <<live, prev, conf, newconf>>

-----------------------------------------------------------------------------
(* The command is over.                                                    *)
Exit ==
    /\ pc = "ready"
    /\ Ends
    /\ UNCHANGED <<disk, faults>>

(* The process is killed.                                                  *)
Crash ==
    /\ pc # "off"
    /\ Fault
    /\ Ends
    /\ UNCHANGED disk

(* The steps of a call that is under way.                                  *)
Proceed ==
    \/ \E k \in Kind :
          \/ CreateLink(k) \/ OpenFile(k) \/ WriteFile(k)
          \/ FixUnlink(k) \/ FixLink(k) \/ FixUnlinkPrev(k)
          \/ PrevLink(k) \/ Unlink(k) \/ Symlink(k) \/ UnlinkPrev(k)
          \/ DeleteLink(k)
          \/ \E n \in Version : TruncateFile(k, n)
    \/ CreateLinked \/ CreateDone
    \/ Fixed \/ Loaded \/ FixEnds
    \/ Saved \/ RemoveNewConf \/ WriteNewConf \/ ReplaceConf
    \/ PrevLinked \/ Updated \/ UpdateDone \/ Truncated
    \/ DeleteArchive

Next ==
    \/ Create \/ Load \/ EnsureDeployed \/ NotEnsured \/ SaveSuccessor \/ SaveNewConfigValues
    \/ DeleteFiles \/ Exit
    \/ Proceed
    \/ UpdateFails \/ Crash

(* A process goes on until it ends, and certbot renew is run again and     *)
(* again (a cron job or a timer).                                          *)
Fairness ==
    /\ WF_vars(Proceed) /\ WF_vars(Load) /\ WF_vars(Exit)
    /\ SF_vars(EnsureDeployed)

Spec == Init /\ [][Next]_vars
FairSpec == Spec /\ Fairness

-----------------------------------------------------------------------------

(* The version that is in use once the lineage is loaded again: while all  *)
(* previous_ links exist, loading takes the update back.                   *)
Taken(k) == IF \A j \in Kind : PrevExists(j) THEN prev[k] ELSE live[k]

(* At every moment, also in the middle of an update, of its recovery or of *)
(* a truncation and wherever the process dies, the four files a lineage    *)
(* comes back with belong to one version and are all there.                *)
OneVersion ==
    conf = "saved" => \E n \in Common : \A k \in Kind : Taken(k) = n

(* has_pending_deployment takes a version for complete that has all files; *)
(* so the files that are in use are complete.                              *)
Servable ==
    conf = "saved" => \A k \in Kind : archive[k][Taken(k)] = "whole"

(* A new certificate never goes into a file that an earlier attempt left   *)
(* behind: the number it gets is free for all kinds, not only for the      *)
(* kinds that the last complete version has.                               *)
SuccessorIsNew ==
    pc = "save" => \A k \in todo : archive[k][version] = "none" \/ mid = k

(* The lineage implements what Deployment promises.                        *)
Deployed == IF conf = "saved" THEN CHOOSE n \in Version : \A k \in Kind : Taken(k) = n
                              ELSE 0
Abstract == INSTANCE Deployment WITH
                deployed <- Deployed, issued <- IF conf = "saved" THEN Common ELSE {}

(* The four links change together, from one version to the newest that has *)
(* all files and never back, and of the old versions only those go that are more *)
(* than Keep behind the one in use.                                        *)
DeploysAtOnce == Abstract!Spec

(* A version with all files that a dead process left unlinked is put into  *)
(* use by a later renewal, unless the lineage is deleted first: nothing    *)
(* else makes its configuration unreadable, in between or for ever.        *)
LatestIsDeployed ==
    \A n \in Version :
        (conf = "saved" /\ n \in Common) ~> (conf = "none" \/ \A k \in Kind : live[k] >= n)
=============================================================================
