--------------------------- MODULE LineageProofs ---------------------------
(***************************************************************************)
(* Theorems about Lineage, for every set of kinds and every bound: the     *)
(* lineage comes back with one version wherever a process dies, a new      *)
(* version never takes a name in use, and Deployment is implemented.       *)
(***************************************************************************)
EXTENDS Lineage, TLAPS

(* The steps of a process: those with the configuration in place, and of   *)
(* these the ones with no update begun.                                    *)
Quiet == {"loaded", "ready", "save", "config", "config_write", "config_replace", "truncate"}
Updating == {"prev", "update", "unprev"}
Fixing == {"fix", "unprev_fix"}
Creating == {"create", "create_files"}

TypeOK ==
    /\ archive \in [Kind -> [Version -> {"none", "cut", "whole"}]]
    /\ live \in [Kind -> 0..MaxVersion] /\ prev \in [Kind -> 0..MaxVersion]
    /\ conf \in {"none", "empty", "saved"} /\ newconf \in {"none", "empty", "saved"}
    /\ pc \in Quiet \cup Updating \cup Fixing \cup Creating \cup {"off", "delete"}
    /\ todo \in SUBSET Kind /\ mid \in Kind \cup {NoKind}
    /\ version \in 0..MaxVersion
    /\ old \in SUBSET (Kind \X Version)

(* What the configuration is while a process is under way.                 *)
ConfInv ==
    /\ pc \in Quiet \cup Updating \cup Fixing => conf = "saved"
    /\ pc \in Creating => conf = "empty"
    /\ pc = "delete" => conf = "none"
    /\ pc = "config_replace" => newconf = "saved"

(* A lineage that is made has nothing but its first version.               *)
CreateInv ==
    /\ pc \in Creating =>
          /\ version = 1
          /\ \A k \in Kind : /\ prev[k] = 0
                             /\ \A n \in Version : n # 1 => archive[k][n] = "none"
    /\ pc = "create" => \A k \in Kind : /\ archive[k][1] = "none"
                                        /\ k \notin todo => live[k] = 1
    /\ pc = "create_files" => \A k \in Kind : /\ live[k] = 1
                                              /\ k \notin todo => archive[k][1] = "whole"

(* No previous_ link of a lineage in use is broken.                        *)
PrevLead == conf = "saved" => \A k \in Kind : prev[k] = 0 \/ PrevExists(k)

(* How far the links are, in the repair of a lineage and in an update.     *)
FixInv ==
    /\ pc = "fix" => /\ restoring <=> \A k \in Kind : PrevExists(k)
                     /\ restoring => \A k \in Kind \ todo : live[k] = prev[k]
    /\ pc = "unprev_fix" => \A k \in Kind : /\ live[k] = Taken(k)
                                            /\ k \notin todo => prev[k] = 0
    /\ pc \in Quiet => \A k \in Kind : prev[k] = 0

UpdateInv ==
    /\ pc \in Updating => IsLatestCommon(version)
    /\ pc = "prev" => \A k \in Kind : prev[k] = IF k \in todo THEN 0 ELSE live[k]
    /\ pc = "update" => /\ \A k \in Kind : PrevExists(k)
                        /\ \A k \in Kind \ todo : live[k] = version
    /\ pc = "unprev" => \A k \in Kind : /\ live[k] = version
                                        /\ k \notin todo => prev[k] = 0

(* The version that is saved is above all others.                          *)
SaveInv ==
    pc = "save" => /\ version \in Version
                   /\ \A k \in Kind : \A n \in Available(k) : n <= version

(* What is truncated is neither in use nor one of the last Keep.           *)
TruncateInv ==
    pc = "truncate" => /\ IsLatestCommon(live[Cert])
                       /\ \A t \in old : t[2] \notin KeptVersions(live[Cert])

IInv ==
    /\ TypeOK /\ ConfInv /\ CreateInv /\ PrevLead /\ FixInv /\ UpdateInv
    /\ SaveInv /\ TruncateInv /\ OneVersion /\ SuccessorIsNew

USE KindAssumption, BoundAssumption

-----------------------------------------------------------------------------
(* The files are the same, and so is the version a lineage comes back with. *)
Kept ==
    /\ \A k \in Kind : Available(k)' = Available(k)
    /\ conf = "saved" => \A k \in Kind : Taken(k)' = Taken(k)
    /\ conf' = conf

LEMMA LatestSame ==
    ASSUME \A k \in Kind : Available(k)' = Available(k)
    PROVE  Common' = Common /\ \A n : IsLatestCommon(n)' = IsLatestCommon(n)
<1>1. Common' = Common
  BY DEF Common
<1> QED
  BY <1>1 DEF IsLatestCommon, Largest

LEMMA FilesSame ==
    ASSUME UNCHANGED archive
    PROVE  \A k \in Kind : Available(k)' = Available(k)
BY DEF Available

LEMMA DiskSame ==
    ASSUME UNCHANGED <<archive, live, prev, conf>>
    PROVE  Kept /\ \A k \in Kind : PrevExists(k)' = PrevExists(k)
<1>1. \A k \in Kind : Available(k)' = Available(k)
  BY FilesSame
<1>2. \A k \in Kind : PrevExists(k)' = PrevExists(k)
  BY <1>1 DEF PrevExists
<1>3. \A k \in Kind : Taken(k)' = Taken(k)
  BY <1>2 DEF Taken
<1> QED
  BY <1>1, <1>2, <1>3 DEF Kept

(* The live links may be in any state while all previous_ links exist.     *)
LEMMA LiveOnly ==
    ASSUME UNCHANGED <<archive, prev, conf>>,
           conf = "saved" => \A k \in Kind : PrevExists(k)
    PROVE  Kept /\ \A k \in Kind : PrevExists(k)' = PrevExists(k)
<1>1. \A k \in Kind : Available(k)' = Available(k)
  BY FilesSame
<1>2. \A k \in Kind : PrevExists(k)' = PrevExists(k)
  BY <1>1 DEF PrevExists
<1>3. conf = "saved" => \A k \in Kind : Taken(k)' = Taken(k)
  BY <1>2 DEF Taken
<1> QED
  BY <1>1, <1>2, <1>3 DEF Kept

LEMMA OneKept == ASSUME OneVersion, Kept PROVE OneVersion'
<1>1. Common' = Common
  BY LatestSame DEF Kept
<1> QED
  BY <1>1 DEF OneVersion, Kept

-----------------------------------------------------------------------------
LEMMA TypeInv == ASSUME TypeOK, Next PROVE TypeOK'
<1>1. ASSUME NEW k \in Kind, CreateLink(k) PROVE TypeOK'
  BY <1>1 DEF TypeOK, CreateLink, LinkTo
<1>2. ASSUME NEW k \in Kind, WriteFile(k) PROVE TypeOK'
  BY <1>2 DEF TypeOK, WriteFile
<1>3. ASSUME NEW k \in Kind, FixUnlink(k) PROVE TypeOK'
  BY <1>3 DEF TypeOK, FixUnlink, Removed
<1>4. ASSUME NEW k \in Kind, FixLink(k) PROVE TypeOK'
  BY <1>4 DEF TypeOK, FixLink, LinkTo
<1>5. ASSUME NEW k \in Kind, FixUnlinkPrev(k) PROVE TypeOK'
  BY <1>5 DEF TypeOK, FixUnlinkPrev
<1>6. ASSUME NEW k \in Kind, PrevLink(k) PROVE TypeOK'
  BY <1>6 DEF TypeOK, PrevLink
<1>7. ASSUME NEW k \in Kind, Unlink(k) PROVE TypeOK'
  BY <1>7 DEF TypeOK, Unlink, Removed
<1>8. ASSUME NEW k \in Kind, Symlink(k) PROVE TypeOK'
  BY <1>8 DEF TypeOK, Symlink, LinkTo
<1>9. ASSUME NEW k \in Kind, UnlinkPrev(k) PROVE TypeOK'
  BY <1>9 DEF TypeOK, UnlinkPrev
<1>10. ASSUME NEW k \in Kind, DeleteLink(k) PROVE TypeOK'
  BY <1>10 DEF TypeOK, DeleteLink, Removed
<1>11. ASSUME NEW k \in Kind, OpenFile(k) PROVE TypeOK'
  BY <1>11 DEF TypeOK, OpenFile
<1>12. ASSUME NEW k \in Kind, NEW n \in Version, TruncateFile(k, n) PROVE TypeOK'
  <2> USE DEF TypeOK
  <2>1. [archive EXCEPT ![k][n] = "none"] \in [Kind -> [Version -> {"none", "cut", "whole"}]]
    OBVIOUS
  <2>2. archive' \in [Kind -> [Version -> {"none", "cut", "whole"}]]
    BY <1>12, <2>1 DEF TruncateFile
  <2>3. old' \in SUBSET (Kind \X Version)
    BY <1>12 DEF TruncateFile
  <2> QED
    BY <1>12, <2>2, <2>3 DEF TruncateFile
<1> USE DEF TypeOK, Quiet, Updating, Fixing, Creating, disk, local
<1>13. CASE CreateLinked \/ CreateDone \/ Load
  BY <1>13 DEF CreateLinked, CreateDone, Load, FixSymlinks, Loop
<1>14. CASE Fixed \/ Loaded \/ FixEnds \/ Saved \/ NotEnsured
  BY <1>14 DEF Fixed, Loaded, FixEnds, Saved, NotEnsured, Loop, Ends
<1>15. CASE RemoveNewConf \/ WriteNewConf \/ SaveNewConfigValues
  BY <1>15 DEF RemoveNewConf, WriteNewConf, SaveNewConfigValues
<1>16. CASE ReplaceConf \/ EnsureDeployed
  <2>1. \A n \in Version : n \in 0..MaxVersion
    BY DEF Version
  <2> QED
    BY <1>16, <2>1 DEF ReplaceConf, EnsureDeployed, UpdateAllLinksTo, Loop
<1>17. CASE SaveSuccessor
  <2>1. \A n \in Version : n \in 0..MaxVersion
    BY DEF Version
  <2> QED
    BY <1>17, <2>1 DEF SaveSuccessor, Loop
<1>18. CASE PrevLinked \/ Updated \/ Truncated
  BY <1>18 DEF PrevLinked, Updated, Truncated, Loop
<1>19. CASE UpdateDone
  <2>1. \A n : Kind \X (Available(Cert) \ KeptVersions(n)) \in SUBSET (Kind \X Version)
    BY DEF Available
  <2> QED
    BY <1>19, <2>1 DEF UpdateDone
<1>20. CASE DeleteArchive
  BY <1>20 DEF DeleteArchive, Ends
<1>21. CASE DeleteFiles \/ Exit \/ Crash
  BY <1>21 DEF DeleteFiles, Exit, Crash, Loop, Ends
<1>22. CASE Create
  BY <1>22 DEF Create, Loop, Ends
<1>23. CASE UpdateFails
  BY <1>23 DEF UpdateFails, FixSymlinks, Loop
<1> QED
  BY <1>1, <1>2, <1>3, <1>4, <1>5, <1>6, <1>7, <1>8, <1>9, <1>10, <1>11, <1>12, <1>13,
     <1>14, <1>15, <1>16, <1>17, <1>18, <1>19, <1>20, <1>21, <1>22, <1>23 DEF Next, Proceed

USE DEF Quiet, Updating, Fixing, Creating, disk, local

LEMMA FixEndsInv == ASSUME IInv, TypeOK', FixEnds PROVE IInv' /\ Kept
<1>1. /\ Kept /\ Common' = Common /\ \A n : IsLatestCommon(n)' = IsLatestCommon(n)
      /\ \A k \in Kind : PrevExists(k)' = PrevExists(k)
  BY DiskSame, LatestSame DEF FixEnds, Kept
<1>2. PrevLead' /\ OneVersion'
  BY <1>1, OneKept DEF FixEnds, IInv, PrevLead
<1> QED
  BY <1>1, <1>2
     DEF FixEnds, IInv, ConfInv, CreateInv, FixInv, UpdateInv, SaveInv, TruncateInv,
         SuccessorIsNew, Kept, Ends

LEMMA ExitInv == ASSUME IInv, TypeOK', Exit PROVE IInv' /\ Kept
<1>1. /\ Kept /\ Common' = Common /\ \A n : IsLatestCommon(n)' = IsLatestCommon(n)
      /\ \A k \in Kind : PrevExists(k)' = PrevExists(k)
  BY DiskSame, LatestSame DEF Exit, Kept
<1>2. PrevLead' /\ OneVersion'
  BY <1>1, OneKept DEF Exit, IInv, PrevLead
<1> QED
  BY <1>1, <1>2
     DEF Exit, IInv, ConfInv, CreateInv, FixInv, UpdateInv, SaveInv, TruncateInv,
         SuccessorIsNew, Kept, Ends

LEMMA CrashInv == ASSUME IInv, TypeOK', Crash PROVE IInv' /\ Kept
<1>1. /\ Kept /\ Common' = Common /\ \A n : IsLatestCommon(n)' = IsLatestCommon(n)
      /\ \A k \in Kind : PrevExists(k)' = PrevExists(k)
  BY DiskSame, LatestSame DEF Crash, Kept
<1>2. PrevLead' /\ OneVersion'
  BY <1>1, OneKept DEF Crash, IInv, PrevLead
<1> QED
  BY <1>1, <1>2
     DEF Crash, IInv, ConfInv, CreateInv, FixInv, UpdateInv, SaveInv, TruncateInv,
         SuccessorIsNew, Kept, Ends

LEMMA LoadInv == ASSUME IInv, TypeOK', Load PROVE IInv' /\ Kept
<1>1. /\ Kept /\ Common' = Common /\ \A n : IsLatestCommon(n)' = IsLatestCommon(n)
      /\ \A k \in Kind : PrevExists(k)' = PrevExists(k)
  BY DiskSame, LatestSame DEF Load, Kept
<1>2. PrevLead' /\ OneVersion'
  BY <1>1, OneKept DEF Load, IInv, PrevLead
<1> QED
  BY <1>1, <1>2
     DEF Load, IInv, ConfInv, CreateInv, FixInv, UpdateInv, SaveInv, TruncateInv,
         SuccessorIsNew, Kept, FixSymlinks, Loop

LEMMA LoadedInv == ASSUME IInv, TypeOK', Loaded PROVE IInv' /\ Kept
<1>1. /\ Kept /\ Common' = Common /\ \A n : IsLatestCommon(n)' = IsLatestCommon(n)
      /\ \A k \in Kind : PrevExists(k)' = PrevExists(k)
  BY DiskSame, LatestSame DEF Loaded, Kept
<1>2. PrevLead' /\ OneVersion'
  BY <1>1, OneKept DEF Loaded, IInv, PrevLead
<1> QED
  BY <1>1, <1>2
     DEF Loaded, IInv, ConfInv, CreateInv, FixInv, UpdateInv, SaveInv, TruncateInv,
         SuccessorIsNew, Kept

LEMMA EnsureDeployedInv == ASSUME IInv, TypeOK', EnsureDeployed PROVE IInv' /\ Kept
<1>1. /\ Kept /\ Common' = Common /\ \A n : IsLatestCommon(n)' = IsLatestCommon(n)
      /\ \A k \in Kind : PrevExists(k)' = PrevExists(k)
  BY DiskSame, LatestSame DEF EnsureDeployed, Kept
<1>2. PrevLead' /\ OneVersion'
  BY <1>1, OneKept DEF EnsureDeployed, IInv, PrevLead
<1> QED
  BY <1>1, <1>2
     DEF EnsureDeployed, IInv, ConfInv, CreateInv, FixInv, UpdateInv, SaveInv, TruncateInv,
         SuccessorIsNew, Kept, UpdateAllLinksTo, Loop

LEMMA NotEnsuredInv == ASSUME IInv, TypeOK', NotEnsured PROVE IInv' /\ Kept
<1>1. /\ Kept /\ Common' = Common /\ \A n : IsLatestCommon(n)' = IsLatestCommon(n)
      /\ \A k \in Kind : PrevExists(k)' = PrevExists(k)
  BY DiskSame, LatestSame DEF NotEnsured, Kept
<1>2. PrevLead' /\ OneVersion'
  BY <1>1, OneKept DEF NotEnsured, IInv, PrevLead
<1> QED
  BY <1>1, <1>2
     DEF NotEnsured, IInv, ConfInv, CreateInv, FixInv, UpdateInv, SaveInv, TruncateInv,
         SuccessorIsNew, Kept

LEMMA SaveSuccessorInv == ASSUME IInv, TypeOK', SaveSuccessor PROVE IInv' /\ Kept
<1>1. /\ Kept /\ Common' = Common /\ \A n : IsLatestCommon(n)' = IsLatestCommon(n)
      /\ \A k \in Kind : PrevExists(k)' = PrevExists(k)
  BY DiskSame, LatestSame DEF SaveSuccessor, Kept
<1>2. PrevLead' /\ OneVersion'
  BY <1>1, OneKept DEF SaveSuccessor, IInv, PrevLead
<1>3. PICK n \in Version : IsNextFree(n) /\ version' = n
  BY DEF SaveSuccessor
<1>4. \A k \in Kind : \A m \in Available(k) : m < n
  <2>1. PICK l \in Version : n = l + 1 /\ Largest(l, UNION {Available(k) : k \in Kind})
    BY <1>3 DEF IsNextFree
  <2>2. \A k \in Kind : \A m \in Available(k) : m \in Version /\ m <= l
    BY <2>1 DEF Largest, Available
  <2> QED
    BY <2>1, <2>2 DEF Version
<1>5. SaveInv'
  BY <1>1, <1>3, <1>4 DEF SaveInv, Kept, Available, Version
<1>6. SuccessorIsNew'
  <2>1. \A k \in Kind : n \notin Available(k)
    BY <1>3, <1>4 DEF Version
  <2>2. \A k \in Kind : archive[k][n] = "none"
    BY <1>3, <2>1 DEF Available
  <2> QED
    BY <1>3, <2>2 DEF SuccessorIsNew, SaveSuccessor, Loop
<1> QED
  BY <1>1, <1>2, <1>3, <1>4, <1>5, <1>6
     DEF SaveSuccessor, IInv, ConfInv, CreateInv, FixInv, UpdateInv, TruncateInv, Kept, Loop

LEMMA SaveNewConfigValuesInv == ASSUME IInv, TypeOK', SaveNewConfigValues PROVE IInv' /\ Kept
<1>1. /\ Kept /\ Common' = Common /\ \A n : IsLatestCommon(n)' = IsLatestCommon(n)
      /\ \A k \in Kind : PrevExists(k)' = PrevExists(k)
  BY DiskSame, LatestSame DEF SaveNewConfigValues, Kept
<1>2. PrevLead' /\ OneVersion'
  BY <1>1, OneKept DEF SaveNewConfigValues, IInv, PrevLead
<1> QED
  BY <1>1, <1>2
     DEF SaveNewConfigValues, IInv, ConfInv, CreateInv, FixInv, UpdateInv, SaveInv,
         TruncateInv, SuccessorIsNew, Kept

LEMMA SavedInv == ASSUME IInv, TypeOK', Saved PROVE IInv' /\ Kept
<1>1. /\ Kept /\ Common' = Common /\ \A n : IsLatestCommon(n)' = IsLatestCommon(n)
      /\ \A k \in Kind : PrevExists(k)' = PrevExists(k)
  BY DiskSame, LatestSame DEF Saved, Kept
<1>2. PrevLead' /\ OneVersion'
  BY <1>1, OneKept DEF Saved, IInv, PrevLead
<1> QED
  BY <1>1, <1>2
     DEF Saved, IInv, ConfInv, CreateInv, FixInv, UpdateInv, SaveInv, TruncateInv,
         SuccessorIsNew, Kept

LEMMA CreateLinkedInv == ASSUME IInv, TypeOK', CreateLinked PROVE IInv' /\ Kept
<1>1. /\ Kept /\ Common' = Common /\ \A n : IsLatestCommon(n)' = IsLatestCommon(n)
      /\ \A k \in Kind : PrevExists(k)' = PrevExists(k)
  BY DiskSame, LatestSame DEF CreateLinked, Kept
<1>2. PrevLead' /\ OneVersion'
  BY <1>1, OneKept DEF CreateLinked, IInv, PrevLead
<1> QED
  BY <1>1, <1>2
     DEF CreateLinked, IInv, ConfInv, CreateInv, FixInv, UpdateInv, SaveInv, TruncateInv,
         SuccessorIsNew, Kept, Loop

LEMMA FixedInv == ASSUME IInv, TypeOK', Fixed PROVE IInv' /\ Kept
<1>1. /\ Kept /\ Common' = Common /\ \A n : IsLatestCommon(n)' = IsLatestCommon(n)
      /\ \A k \in Kind : PrevExists(k)' = PrevExists(k)
  BY DiskSame, LatestSame DEF Fixed, Kept
<1>2. PrevLead' /\ OneVersion'
  BY <1>1, OneKept DEF Fixed, IInv, PrevLead
<1>3. \A k \in Kind : live[k] = Taken(k)
  BY DEF Fixed, IInv, FixInv, Taken
<1> QED
  BY <1>1, <1>2, <1>3
     DEF Fixed, IInv, ConfInv, CreateInv, FixInv, UpdateInv, SaveInv, TruncateInv,
         SuccessorIsNew, Kept, Loop

LEMMA PrevLinkedInv == ASSUME IInv, TypeOK', PrevLinked PROVE IInv' /\ Kept
<1>1. /\ Kept /\ Common' = Common /\ \A n : IsLatestCommon(n)' = IsLatestCommon(n)
      /\ \A k \in Kind : PrevExists(k)' = PrevExists(k)
  BY DiskSame, LatestSame DEF PrevLinked, Kept
<1>2. PrevLead' /\ OneVersion'
  BY <1>1, OneKept DEF PrevLinked, IInv, PrevLead
<1>3. \A k \in Kind : prev[k] = live[k]
  BY DEF PrevLinked, IInv, UpdateInv
<1>4. \A k \in Kind : PrevExists(k)
  <2>1. PICK n \in Common : \A k \in Kind : Taken(k) = n
    BY DEF PrevLinked, IInv, ConfInv, OneVersion
  <2> QED
    BY <1>3, <2>1 DEF Taken, PrevExists, Common
<1> QED
  BY <1>1, <1>2, <1>3, <1>4
     DEF PrevLinked, IInv, ConfInv, CreateInv, FixInv, UpdateInv, SaveInv, TruncateInv,
         SuccessorIsNew, Kept, Loop

LEMMA UpdatedInv == ASSUME IInv, TypeOK', Updated PROVE IInv' /\ Kept
<1>1. /\ Kept /\ Common' = Common /\ \A n : IsLatestCommon(n)' = IsLatestCommon(n)
      /\ \A k \in Kind : PrevExists(k)' = PrevExists(k)
  BY DiskSame, LatestSame DEF Updated, Kept
<1>2. PrevLead' /\ OneVersion'
  BY <1>1, OneKept DEF Updated, IInv, PrevLead
<1> QED
  BY <1>1, <1>2
     DEF Updated, IInv, ConfInv, CreateInv, FixInv, UpdateInv, SaveInv, TruncateInv,
         SuccessorIsNew, Kept, Loop

LEMMA UpdateDoneInv == ASSUME IInv, TypeOK', UpdateDone PROVE IInv' /\ Kept
<1>1. /\ Kept /\ Common' = Common /\ \A n : IsLatestCommon(n)' = IsLatestCommon(n)
      /\ \A k \in Kind : PrevExists(k)' = PrevExists(k)
  BY DiskSame, LatestSame DEF UpdateDone, Kept
<1>2. PrevLead' /\ OneVersion'
  BY <1>1, OneKept DEF UpdateDone, IInv, PrevLead
<1>3. \A k \in Kind : live[k] = version /\ prev[k] = 0
  BY DEF UpdateDone, IInv, UpdateInv
<1>4. IsLatestCommon(version)
  BY DEF UpdateDone, IInv, UpdateInv
<1>5. \A n \in Version : IsLatestCommon(n) => n = version
  BY <1>4 DEF IsLatestCommon, Largest, Common, Version
<1>6. TruncateInv'
  BY <1>1, <1>3, <1>4, <1>5 DEF TruncateInv, UpdateDone
<1> QED
  BY <1>1, <1>2, <1>3, <1>4, <1>5, <1>6
     DEF UpdateDone, IInv, ConfInv, CreateInv, FixInv, UpdateInv, SaveInv, SuccessorIsNew,
         Kept

LEMMA TruncatedInv == ASSUME IInv, TypeOK', Truncated PROVE IInv' /\ Kept
<1>1. /\ Kept /\ Common' = Common /\ \A n : IsLatestCommon(n)' = IsLatestCommon(n)
      /\ \A k \in Kind : PrevExists(k)' = PrevExists(k)
  BY DiskSame, LatestSame DEF Truncated, Kept
<1>2. PrevLead' /\ OneVersion'
  BY <1>1, OneKept DEF Truncated, IInv, PrevLead
<1> QED
  BY <1>1, <1>2
     DEF Truncated, IInv, ConfInv, CreateInv, FixInv, UpdateInv, SaveInv, TruncateInv,
         SuccessorIsNew, Kept

LEMMA UpdateFailsInv == ASSUME IInv, TypeOK', UpdateFails PROVE IInv' /\ Kept
<1>1. /\ Kept /\ Common' = Common /\ \A n : IsLatestCommon(n)' = IsLatestCommon(n)
      /\ \A k \in Kind : PrevExists(k)' = PrevExists(k)
  BY DiskSame, LatestSame DEF UpdateFails, Kept
<1>2. PrevLead' /\ OneVersion'
  BY <1>1, OneKept DEF UpdateFails, IInv, PrevLead
<1> QED
  BY <1>1, <1>2
     DEF UpdateFails, IInv, ConfInv, CreateInv, FixInv, UpdateInv, SaveInv, TruncateInv,
         SuccessorIsNew, Kept, FixSymlinks, Loop

-----------------------------------------------------------------------------
(* Steps that change the live links.                                       *)

LEMMA CreateLinkInv == ASSUME IInv, TypeOK', NEW k \in Kind, CreateLink(k) PROVE IInv' /\ Kept
<1>1. conf = "saved" => \A j \in Kind : PrevExists(j)
  BY DEF CreateLink, IInv, ConfInv, FixInv, UpdateInv
<1>2. /\ Kept /\ Common' = Common /\ \A n : IsLatestCommon(n)' = IsLatestCommon(n)
      /\ \A j \in Kind : PrevExists(j)' = PrevExists(j)
  BY <1>1, LiveOnly, LatestSame DEF CreateLink, Kept
<1>3. PrevLead' /\ OneVersion'
  BY <1>2, OneKept DEF CreateLink, IInv, PrevLead
<1> QED
  BY <1>1, <1>2, <1>3
     DEF CreateLink, IInv, TypeOK, ConfInv, CreateInv, FixInv, UpdateInv, SaveInv,
         TruncateInv, SuccessorIsNew, Kept, LinkTo

LEMMA FixUnlinkInv == ASSUME IInv, TypeOK', NEW k \in Kind, FixUnlink(k) PROVE IInv' /\ Kept
<1>1. conf = "saved" => \A j \in Kind : PrevExists(j)
  BY DEF FixUnlink, IInv, ConfInv, FixInv, UpdateInv
<1>2. /\ Kept /\ Common' = Common /\ \A n : IsLatestCommon(n)' = IsLatestCommon(n)
      /\ \A j \in Kind : PrevExists(j)' = PrevExists(j)
  BY <1>1, LiveOnly, LatestSame DEF FixUnlink, Kept
<1>3. PrevLead' /\ OneVersion'
  BY <1>2, OneKept DEF FixUnlink, IInv, PrevLead
<1> QED
  BY <1>1, <1>2, <1>3
     DEF FixUnlink, IInv, TypeOK, ConfInv, CreateInv, FixInv, UpdateInv, SaveInv,
         TruncateInv, SuccessorIsNew, Kept, Removed

LEMMA FixLinkInv == ASSUME IInv, TypeOK', NEW k \in Kind, FixLink(k) PROVE IInv' /\ Kept
<1>1. conf = "saved" => \A j \in Kind : PrevExists(j)
  BY DEF FixLink, IInv, ConfInv, FixInv, UpdateInv
<1>2. /\ Kept /\ Common' = Common /\ \A n : IsLatestCommon(n)' = IsLatestCommon(n)
      /\ \A j \in Kind : PrevExists(j)' = PrevExists(j)
  BY <1>1, LiveOnly, LatestSame DEF FixLink, Kept
<1>3. PrevLead' /\ OneVersion'
  BY <1>2, OneKept DEF FixLink, IInv, PrevLead
<1> QED
  BY <1>1, <1>2, <1>3
     DEF FixLink, IInv, TypeOK, ConfInv, CreateInv, FixInv, UpdateInv, SaveInv, TruncateInv,
         SuccessorIsNew, Kept, LinkTo

LEMMA UnlinkInv == ASSUME IInv, TypeOK', NEW k \in Kind, Unlink(k) PROVE IInv' /\ Kept
<1>1. conf = "saved" => \A j \in Kind : PrevExists(j)
  BY DEF Unlink, IInv, ConfInv, FixInv, UpdateInv
<1>2. /\ Kept /\ Common' = Common /\ \A n : IsLatestCommon(n)' = IsLatestCommon(n)
      /\ \A j \in Kind : PrevExists(j)' = PrevExists(j)
  BY <1>1, LiveOnly, LatestSame DEF Unlink, Kept
<1>3. PrevLead' /\ OneVersion'
  BY <1>2, OneKept DEF Unlink, IInv, PrevLead
<1> QED
  BY <1>1, <1>2, <1>3
     DEF Unlink, IInv, TypeOK, ConfInv, CreateInv, FixInv, UpdateInv, SaveInv, TruncateInv,
         SuccessorIsNew, Kept, Removed

LEMMA SymlinkInv == ASSUME IInv, TypeOK', NEW k \in Kind, Symlink(k) PROVE IInv' /\ Kept
<1>1. conf = "saved" => \A j \in Kind : PrevExists(j)
  BY DEF Symlink, IInv, ConfInv, FixInv, UpdateInv
<1>2. /\ Kept /\ Common' = Common /\ \A n : IsLatestCommon(n)' = IsLatestCommon(n)
      /\ \A j \in Kind : PrevExists(j)' = PrevExists(j)
  BY <1>1, LiveOnly, LatestSame DEF Symlink, Kept
<1>3. PrevLead' /\ OneVersion'
  BY <1>2, OneKept DEF Symlink, IInv, PrevLead
<1> QED
  BY <1>1, <1>2, <1>3
     DEF Symlink, IInv, TypeOK, ConfInv, CreateInv, FixInv, UpdateInv, SaveInv, TruncateInv,
         SuccessorIsNew, Kept, LinkTo

LEMMA DeleteLinkInv == ASSUME IInv, TypeOK', NEW k \in Kind, DeleteLink(k) PROVE IInv' /\ Kept
<1>1. conf = "saved" => \A j \in Kind : PrevExists(j)
  BY DEF DeleteLink, IInv, ConfInv, FixInv, UpdateInv
<1>2. /\ Kept /\ Common' = Common /\ \A n : IsLatestCommon(n)' = IsLatestCommon(n)
      /\ \A j \in Kind : PrevExists(j)' = PrevExists(j)
  BY <1>1, LiveOnly, LatestSame DEF DeleteLink, Kept
<1>3. PrevLead' /\ OneVersion'
  BY <1>2, OneKept DEF DeleteLink, IInv, PrevLead
<1> QED
  BY <1>1, <1>2, <1>3
     DEF DeleteLink, IInv, TypeOK, ConfInv, CreateInv, FixInv, UpdateInv, SaveInv,
         TruncateInv, SuccessorIsNew, Kept, Removed

-----------------------------------------------------------------------------
(* Steps that change the configuration that is to come.                    *)

LEMMA RemoveNewConfInv == ASSUME IInv, TypeOK', RemoveNewConf PROVE IInv' /\ Kept
<1>1. UNCHANGED <<archive, live, prev, conf>>
  BY DEF RemoveNewConf, IInv, ConfInv
<1>2. /\ Kept /\ Common' = Common /\ \A n : IsLatestCommon(n)' = IsLatestCommon(n)
      /\ \A k \in Kind : PrevExists(k)' = PrevExists(k)
  BY <1>1, DiskSame, LatestSame DEF Kept
<1>3. PrevLead' /\ OneVersion'
  BY <1>1, <1>2, OneKept DEF IInv, PrevLead
<1> QED
  BY <1>1, <1>2, <1>3
     DEF RemoveNewConf, IInv, ConfInv, CreateInv, FixInv, UpdateInv, SaveInv, TruncateInv,
         SuccessorIsNew

LEMMA WriteNewConfInv == ASSUME IInv, TypeOK', WriteNewConf PROVE IInv' /\ Kept
<1>1. UNCHANGED <<archive, live, prev, conf>>
  BY DEF WriteNewConf, IInv, ConfInv
<1>2. /\ Kept /\ Common' = Common /\ \A n : IsLatestCommon(n)' = IsLatestCommon(n)
      /\ \A k \in Kind : PrevExists(k)' = PrevExists(k)
  BY <1>1, DiskSame, LatestSame DEF Kept
<1>3. PrevLead' /\ OneVersion'
  BY <1>1, <1>2, OneKept DEF IInv, PrevLead
<1> QED
  BY <1>1, <1>2, <1>3
     DEF WriteNewConf, IInv, ConfInv, CreateInv, FixInv, UpdateInv, SaveInv, TruncateInv,
         SuccessorIsNew

LEMMA ReplaceConfInv == ASSUME IInv, TypeOK', ReplaceConf PROVE IInv' /\ Kept
<1>1. UNCHANGED <<archive, live, prev, conf>>
  BY DEF ReplaceConf, IInv, ConfInv
<1>2. /\ Kept /\ Common' = Common /\ \A n : IsLatestCommon(n)' = IsLatestCommon(n)
      /\ \A k \in Kind : PrevExists(k)' = PrevExists(k)
  BY <1>1, DiskSame, LatestSame DEF Kept
<1>3. PrevLead' /\ OneVersion'
  BY <1>1, <1>2, OneKept DEF IInv, PrevLead
<1> QED
  BY <1>1, <1>2, <1>3
     DEF ReplaceConf, IInv, ConfInv, CreateInv, FixInv, UpdateInv, SaveInv, TruncateInv,
         SuccessorIsNew, UpdateAllLinksTo, Loop

-----------------------------------------------------------------------------
(* Steps that change the previous_ links.  The first that goes after an    *)
(* update puts the new version into use.                                   *)

LEMMA FixUnlinkPrevInv ==
    ASSUME IInv, TypeOK', NEW k \in Kind, FixUnlinkPrev(k) PROVE IInv' /\ Kept
<1>1. /\ \A j \in Kind : Available(j)' = Available(j)
      /\ Common' = Common /\ \A n : IsLatestCommon(n)' = IsLatestCommon(n)
  BY FilesSame, LatestSame DEF FixUnlinkPrev
<1>2. \A j \in Kind : prev'[j] = IF j = k /\ PrevExists(k) THEN 0 ELSE prev[j]
  BY DEF FixUnlinkPrev, IInv, TypeOK
<1>3. \A n \in Version : n # 0
  BY DEF Version
<1>4. \A j \in Kind : PrevExists(j)' <=> PrevExists(j) /\ ~ (j = k)
  <2>1. 0 \notin Available(k)
    BY <1>3 DEF Available
  <2> QED
    BY <1>1, <1>2, <2>1 DEF PrevExists
<1>5. \A j \in Kind : live[j] = Taken(j) /\ live'[j] = live[j]
  BY DEF FixUnlinkPrev, IInv, FixInv
<1>6. \A j \in Kind : Taken(j)' = Taken(j)
  BY <1>4, <1>5 DEF Taken
<1>7. Kept
  BY <1>1, <1>6 DEF Kept, FixUnlinkPrev
<1>8. PrevLead'
  BY <1>2, <1>4 DEF PrevLead, IInv, FixUnlinkPrev
<1>9. OneVersion'
  BY <1>7, OneKept DEF IInv
<1>10. FixInv'
  <2>1. \A j \in Kind \ todo' : prev'[j] = 0
    BY <1>2, <1>8 DEF FixUnlinkPrev, IInv, FixInv, PrevLead, ConfInv
  <2> QED
    BY <1>5, <1>6, <2>1 DEF FixInv, FixUnlinkPrev
<1> QED
  BY <1>7, <1>8, <1>9, <1>10
     DEF FixUnlinkPrev, IInv, ConfInv, CreateInv, UpdateInv, SaveInv, TruncateInv,
         SuccessorIsNew

LEMMA PrevLinkInv == ASSUME IInv, TypeOK', NEW k \in Kind, PrevLink(k) PROVE IInv' /\ Kept
<1>1. /\ \A j \in Kind : Available(j)' = Available(j)
      /\ Common' = Common /\ \A n : IsLatestCommon(n)' = IsLatestCommon(n)
  BY FilesSame, LatestSame DEF PrevLink
<1>2. /\ \A j \in Kind : prev'[j] = IF j = k THEN live[k] ELSE prev[j]
      /\ \A j \in Kind : prev'[j] = IF j \in todo' THEN 0 ELSE live[j]
      /\ UNCHANGED live /\ conf = "saved" /\ prev[k] = 0
  BY DEF PrevLink, IInv, TypeOK, UpdateInv, ConfInv
<1>3. \A j \in Kind : \A n \in Available(j) : n # 0
  BY DEF Available, Version
<1>4. \A j \in Kind : Taken(j) = live[j]
  BY <1>2, <1>3 DEF Taken, PrevExists
<1>5. \A j \in Kind : live[j] \in Available(j)
  BY <1>2, <1>4 DEF IInv, OneVersion, Common
<1>6. \A j \in Kind : Taken(j)' = live[j]
  BY <1>1, <1>2, <1>3 DEF Taken, PrevExists
<1>7. Kept
  BY <1>1, <1>4, <1>6 DEF Kept, PrevLink
<1>8. PrevLead'
  BY <1>1, <1>2, <1>5 DEF PrevLead, PrevExists
<1>9. OneVersion'
  BY <1>7, OneKept DEF IInv
<1> QED
  BY <1>1, <1>2, <1>7, <1>8, <1>9
     DEF PrevLink, IInv, ConfInv, CreateInv, FixInv, UpdateInv, SaveInv, TruncateInv,
         SuccessorIsNew

LEMMA UnlinkPrevInv ==
    ASSUME IInv, TypeOK', NEW k \in Kind, UnlinkPrev(k)
    PROVE  /\ IInv' /\ Common' = Common
           /\ conf = "saved" /\ conf' = "saved"
           /\ IsLatestCommon(version) /\ \A j \in Kind : Taken(j)' = version
<1>1. /\ \A j \in Kind : Available(j)' = Available(j)
      /\ Common' = Common /\ \A n : IsLatestCommon(n)' = IsLatestCommon(n)
  BY FilesSame, LatestSame DEF UnlinkPrev
<1>2. /\ \A j \in Kind : prev'[j] = IF j = k THEN 0 ELSE prev[j]
      /\ UNCHANGED <<live, version>> /\ conf = "saved" /\ conf' = "saved"
      /\ IsLatestCommon(version) /\ \A j \in Kind : live[j] = version
  BY DEF UnlinkPrev, IInv, TypeOK, UpdateInv, ConfInv
<1>3. \A j \in Kind : \A n \in Available(j) : n # 0
  BY DEF Available, Version
<1>4. \A j \in Kind : Taken(j)' = version
  BY <1>1, <1>2, <1>3 DEF Taken, PrevExists
<1>5. version \in Common
  BY <1>2 DEF IsLatestCommon, Largest
<1>6. PrevLead'
  BY <1>1, <1>2 DEF PrevLead, PrevExists, IInv
<1>7. OneVersion'
  BY <1>1, <1>4, <1>5 DEF OneVersion
<1> QED
  BY <1>1, <1>2, <1>4, <1>6, <1>7
     DEF UnlinkPrev, IInv, ConfInv, CreateInv, FixInv, UpdateInv, SaveInv, TruncateInv,
         SuccessorIsNew

-----------------------------------------------------------------------------
(* Steps that change the files.                                            *)

(* The files of a new version are written: no other one appears, and the   *)
(* version in use stays.                                                   *)
FileWritten(k) ==
    /\ Writing /\ conf' = conf
    /\ \A j \in Kind : Available(j)' = Available(j) \cup (IF j = k THEN {version} ELSE {})
    /\ conf = "saved" => \A j \in Kind : Taken(j)' = Taken(j)

LEMMA WrittenInv ==
    ASSUME IInv, TypeOK', NEW k \in Kind, NEW text \in {"cut", "whole"}, Writing,
           archive' = [archive EXCEPT ![k][version] = text],
           UNCHANGED <<live, prev, conf>>
    PROVE  /\ FileWritten(k) /\ PrevLead' /\ OneVersion' /\ version \in Version
           /\ pc = "save" => \A j \in Kind : \A n \in Available(j)' : n <= version
<1>1. version \in Version
  BY DEF Writing, IInv, CreateInv, SaveInv, Version
<1>2. \A j \in Kind, n \in Version :
         archive'[j][n] = IF j = k /\ n = version THEN text ELSE archive[j][n]
  BY <1>1 DEF IInv, TypeOK
<1>3. \A j \in Kind : Available(j)' = Available(j) \cup (IF j = k THEN {version} ELSE {})
  BY <1>1, <1>2 DEF Available
<1>4. \A j \in Kind : \A n \in Available(j)' : n # 0
  BY DEF Available, Version
<1>5. \A j \in Kind : prev[j] = 0 /\ ~ PrevExists(j) /\ ~ PrevExists(j)'
  BY <1>3, <1>4 DEF Writing, IInv, CreateInv, FixInv, PrevExists
<1>6. \A j \in Kind : Taken(j)' = Taken(j)
  BY <1>5 DEF Taken
<1>7. PrevLead'
  BY <1>5 DEF PrevLead
<1>8. OneVersion'
  <2>1. Common \subseteq Common'
    BY <1>3 DEF Common
  <2> QED
    BY <1>6, <2>1 DEF OneVersion, IInv
<1>9. pc = "save" => \A j \in Kind : \A n \in Available(j)' : n <= version
  BY <1>1, <1>3 DEF IInv, SaveInv, Version
<1> QED
  BY <1>1, <1>3, <1>6, <1>7, <1>8, <1>9 DEF FileWritten

LEMMA OpenFileInv ==
    ASSUME IInv, TypeOK', NEW k \in Kind, OpenFile(k) PROVE IInv' /\ FileWritten(k)
<1>1. /\ FileWritten(k) /\ PrevLead' /\ OneVersion' /\ version \in Version
      /\ pc = "save" => \A j \in Kind : \A n \in Available(j)' : n <= version
  BY WrittenInv DEF OpenFile
<1>2. \A j \in Kind, n \in Version :
         archive'[j][n] = IF j = k /\ n = version THEN "cut" ELSE archive[j][n]
  BY <1>1 DEF OpenFile, IInv, TypeOK
<1>3. CreateInv'
  BY <1>1, <1>2 DEF OpenFile, Writing, IInv, CreateInv
<1>4. SuccessorIsNew'
  BY <1>1, <1>2 DEF OpenFile, IInv, SuccessorIsNew, TypeOK
<1> QED
  BY <1>1, <1>3, <1>4
     DEF OpenFile, Writing, IInv, ConfInv, FixInv, UpdateInv, SaveInv, TruncateInv

LEMMA WriteFileInv ==
    ASSUME IInv, TypeOK', NEW k \in Kind, WriteFile(k) PROVE IInv' /\ FileWritten(k)
<1>1. /\ FileWritten(k) /\ PrevLead' /\ OneVersion' /\ version \in Version
      /\ pc = "save" => \A j \in Kind : \A n \in Available(j)' : n <= version
  BY WrittenInv DEF WriteFile
<1>2. \A j \in Kind, n \in Version :
         archive'[j][n] = IF j = k /\ n = version THEN "whole" ELSE archive[j][n]
  BY <1>1 DEF WriteFile, IInv, TypeOK
<1>3. CreateInv'
  BY <1>1, <1>2 DEF WriteFile, Writing, IInv, CreateInv
<1>4. SuccessorIsNew'
  BY <1>1, <1>2 DEF WriteFile, IInv, SuccessorIsNew, TypeOK
<1> QED
  BY <1>1, <1>3, <1>4
     DEF WriteFile, Writing, IInv, ConfInv, FixInv, UpdateInv, SaveInv, TruncateInv

(* A file that truncate deletes is no part of the version in use or of the *)
(* last Keep before it.                                                    *)
LEMMA TruncateFileInv ==
    ASSUME IInv, TypeOK', NEW k \in Kind, NEW n \in Version, TruncateFile(k, n)
    PROVE  /\ IInv' /\ conf' = "saved" /\ conf = "saved"
           /\ \A j \in Kind : Taken(j)' = Taken(j)
           /\ Common' = Common \/ Common' = Common \ {n}
           /\ IsLatestCommon(Taken(Cert)) /\ n \notin KeptVersions(Taken(Cert))
<1> DEFINE u == live[Cert]
<1>1. /\ conf = "saved" /\ UNCHANGED <<live, prev, conf>>
      /\ \A j \in Kind : prev[j] = 0
      /\ IsLatestCommon(u) /\ n \notin KeptVersions(u)
  BY DEF TruncateFile, IInv, ConfInv, FixInv, TruncateInv
<1>2. \A j \in Kind : \/ Available(j)' = Available(j)
                      \/ Available(j)' = Available(j) \ {n} /\ j = k
  <2>1. CASE archive' = archive
    BY <2>1, FilesSame
  <2>2. CASE archive' = [archive EXCEPT ![k][n] = "none"]
    <3>1. \A j \in Kind, m \in Version :
             archive'[j][m] = IF j = k /\ m = n THEN "none" ELSE archive[j][m]
      BY <2>2 DEF IInv, TypeOK
    <3> QED
      BY <3>1 DEF Available
  <2> QED
    BY <2>1, <2>2 DEF TruncateFile
<1>3. \A j \in Kind : ~ PrevExists(j) /\ ~ PrevExists(j)'
  <2>1. \A j \in Kind : 0 \notin Available(j) /\ 0 \notin Available(j)'
    BY DEF Available, Version
  <2> QED
    BY <1>1, <2>1 DEF PrevExists
<1>4. \A j \in Kind : Taken(j)' = Taken(j) /\ Taken(j) = live[j]
  BY <1>1, <1>3 DEF Taken
<1>5. u \in Version /\ u \in Common /\ \A j \in Kind : live[j] = u
  <2>1. \A j \in Kind : live[j] = u
    BY <1>1, <1>4 DEF IInv, OneVersion
  <2> QED
    BY <1>1, <2>1 DEF IsLatestCommon, Largest, Common
<1>6. u # n
  BY <1>1, <1>5 DEF KeptVersions, Version
<1>7. Common' = Common \/ Common' = Common \ {n}
  BY <1>2 DEF Common
<1>8. IsLatestCommon(u)'
  BY <1>1, <1>5, <1>6, <1>7 DEF IsLatestCommon, Largest
<1>9. OneVersion' /\ PrevLead'
  BY <1>1, <1>4, <1>5, <1>6, <1>7 DEF OneVersion, PrevLead
<1>10. TruncateInv'
  BY <1>1, <1>8 DEF TruncateInv, TruncateFile, IInv, KeptVersions
<1>11. IInv'
  BY <1>1, <1>9, <1>10
     DEF TruncateFile, IInv, ConfInv, CreateInv, FixInv, UpdateInv, SaveInv, SuccessorIsNew
<1> QED
  BY <1>1, <1>4, <1>7, <1>11

LEMMA DeleteArchiveInv == ASSUME IInv, TypeOK', DeleteArchive PROVE IInv' /\ conf' = "none"
<1>1. conf' = "none" /\ pc' = "off"
  BY DEF DeleteArchive, Ends, IInv, ConfInv
<1> QED
  BY <1>1
     DEF IInv, ConfInv, CreateInv, PrevLead, FixInv, UpdateInv, SaveInv, TruncateInv,
         OneVersion, SuccessorIsNew

-----------------------------------------------------------------------------
(* Steps that change the configuration.                                    *)

LEMMA CreateBegunInv == ASSUME IInv, TypeOK', Create PROVE IInv' /\ conf' = "empty"
<1>1. conf' = "empty" /\ pc' \in {"off", "create"}
  BY DEF Create, Loop, Ends
<1>2. CreateInv'
  <2>1. CASE pc' = "off"
    BY <2>1 DEF CreateInv
  <2>2. CASE pc' = "create"
    <3>1. /\ \A k \in Kind : prev[k] = 0 /\ Available(k) = {}
          /\ version' = 1 /\ todo' = Kind /\ UNCHANGED <<archive, prev>>
      BY <2>2 DEF Create, Loop, Ends
    <3>2. \A k \in Kind, n \in Version : archive'[k][n] = "none"
      BY <3>1 DEF Available
    <3>3. 1 \in Version
      BY DEF Version
    <3> QED
      BY <2>2, <3>1, <3>2, <3>3 DEF CreateInv
  <2> QED
    BY <1>1, <2>1, <2>2
<1> QED
  BY <1>1, <1>2
     DEF IInv, ConfInv, PrevLead, FixInv, UpdateInv, SaveInv, TruncateInv, OneVersion,
         SuccessorIsNew

LEMMA CreateDoneInv ==
    ASSUME IInv, TypeOK', CreateDone
    PROVE  /\ IInv' /\ conf = "empty" /\ conf' = "saved"
           /\ Common' = {1} /\ \A k \in Kind : Taken(k)' = 1
<1>1. /\ \A k \in Kind : /\ live[k] = 1 /\ prev[k] = 0 /\ archive[k][1] = "whole"
                         /\ \A n \in Version : n # 1 => archive[k][n] = "none"
      /\ conf = "empty" /\ conf' = "saved" /\ UNCHANGED <<archive, live, prev>>
  BY DEF CreateDone, IInv, ConfInv, CreateInv
<1>2. 1 \in Version /\ 0 \notin Version
  BY DEF Version
<1>3. \A k \in Kind : Available(k)' = {1}
  BY <1>1, <1>2 DEF Available
<1>4. \A k \in Kind : ~ PrevExists(k) /\ ~ PrevExists(k)'
  BY <1>1, <1>2, <1>3 DEF PrevExists, Available
<1>5. \A k \in Kind : Taken(k)' = 1
  BY <1>1, <1>4 DEF Taken
<1>6. Common' = {1}
  BY <1>2, <1>3 DEF Common
<1>7. PrevLead' /\ OneVersion'
  BY <1>1, <1>5, <1>6 DEF PrevLead, OneVersion
<1>8. FixInv'
  BY <1>1, <1>4 DEF FixInv, CreateDone, FixSymlinks, Loop
<1> QED
  BY <1>1, <1>5, <1>6, <1>7, <1>8
     DEF CreateDone, FixSymlinks, Loop, IInv, ConfInv, CreateInv, UpdateInv, SaveInv,
         TruncateInv, SuccessorIsNew

LEMMA DeleteFilesInv == ASSUME IInv, TypeOK', DeleteFiles PROVE IInv' /\ conf' = "none"
<1>1. conf' = "none" /\ pc' \in {"off", "delete"}
  BY DEF DeleteFiles, Loop, Ends
<1> QED
  BY <1>1
     DEF IInv, ConfInv, CreateInv, PrevLead, FixInv, UpdateInv, SaveInv, TruncateInv,
         OneVersion, SuccessorIsNew

-----------------------------------------------------------------------------
LEMMA IInvInit == Init => IInv
<1> SUFFICES ASSUME Init PROVE IInv
  OBVIOUS
<1>1. TypeOK
  BY DEF Init, TypeOK
<1> QED
  BY <1>1 DEF Init, IInv, ConfInv, CreateInv, PrevLead, FixInv, UpdateInv, SaveInv,
              TruncateInv, OneVersion, SuccessorIsNew

LEMMA IInvNext == IInv /\ [Next]_vars => IInv'
<1> SUFFICES ASSUME IInv, [Next]_vars PROVE IInv'
  OBVIOUS
<1>1. CASE UNCHANGED vars
  BY <1>1, OneKept, DiskSame, LatestSame
     DEF vars, IInv, TypeOK, ConfInv, CreateInv, PrevLead, FixInv, UpdateInv, SaveInv,
         TruncateInv, SuccessorIsNew, Kept
<1>2. ASSUME Next PROVE IInv'
  <2>1. TypeOK'
    BY <1>2, TypeInv DEF IInv
  <2>2. ASSUME NEW k \in Kind,
               \/ CreateLink(k) \/ FixUnlink(k) \/ FixLink(k) \/ Unlink(k) \/ Symlink(k)
               \/ DeleteLink(k)
        PROVE  IInv'
    BY <2>1, <2>2, CreateLinkInv, FixUnlinkInv, FixLinkInv, UnlinkInv, SymlinkInv,
       DeleteLinkInv
  <2>3. ASSUME NEW k \in Kind,
               \/ FixUnlinkPrev(k) \/ PrevLink(k) \/ UnlinkPrev(k)
               \/ OpenFile(k) \/ WriteFile(k) \/ \E n \in Version : TruncateFile(k, n)
        PROVE  IInv'
    BY <2>1, <2>3, FixUnlinkPrevInv, PrevLinkInv, UnlinkPrevInv, OpenFileInv, WriteFileInv,
       TruncateFileInv
  <2>4. CASE Create \/ CreateLinked \/ CreateDone \/ Load \/ Fixed \/ Loaded \/ FixEnds
    BY <2>1, <2>4, CreateBegunInv, CreateLinkedInv, CreateDoneInv, LoadInv, FixedInv,
       LoadedInv, FixEndsInv
  <2>5. CASE \/ EnsureDeployed \/ NotEnsured \/ SaveSuccessor \/ Saved
             \/ SaveNewConfigValues \/ RemoveNewConf \/ WriteNewConf \/ ReplaceConf
    BY <2>1, <2>5, EnsureDeployedInv, NotEnsuredInv, SaveSuccessorInv, SavedInv,
       SaveNewConfigValuesInv, RemoveNewConfInv, WriteNewConfInv, ReplaceConfInv
  <2>6. CASE \/ PrevLinked \/ Updated \/ UpdateDone \/ UpdateFails \/ Truncated
             \/ DeleteFiles \/ DeleteArchive \/ Exit \/ Crash
    BY <2>1, <2>6, PrevLinkedInv, UpdatedInv, UpdateDoneInv, UpdateFailsInv, TruncatedInv,
       DeleteFilesInv, DeleteArchiveInv, ExitInv, CrashInv
  <2> QED
    BY <1>2, <2>2, <2>3, <2>4, <2>5, <2>6 DEF Next, Proceed
<1> QED
  BY <1>1, <1>2

-----------------------------------------------------------------------------
(* Wherever a process dies and whatever fails, a lineage comes back with   *)
(* four files of one version (_fix_symlinks after update_all_links_to).    *)
THEOREM OneVersionAlways == Spec => []OneVersion
<1>1. Init => IInv
  BY IInvInit
<1>2. IInv /\ [Next]_vars => IInv'
  BY IInvNext
<1>3. IInv => OneVersion
  BY DEF IInv
<1> QED
  BY <1>1, <1>2, <1>3, PTL DEF Spec

(* save_successor never writes into a file that was there before           *)
(* (next_free_version).                                                    *)
THEOREM SuccessorIsNewAlways == Spec => []SuccessorIsNew
<1>1. Init => IInv
  BY IInvInit
<1>2. IInv /\ [Next]_vars => IInv'
  BY IInvNext
<1>3. IInv => SuccessorIsNew
  BY DEF IInv
<1> QED
  BY <1>1, <1>2, <1>3, PTL DEF Spec

-----------------------------------------------------------------------------
(* The steps of Deployment.                                                *)
Issued == IF conf = "saved" THEN Common ELSE {}

LEMMA DeployedIs ==
    IInv /\ conf = "saved" =>
        Deployed \in Common /\ Common \subseteq Version /\ \A k \in Kind : Taken(k) = Deployed
<1> SUFFICES ASSUME IInv, conf = "saved"
             PROVE  /\ Deployed \in Common /\ Common \subseteq Version
                    /\ \A k \in Kind : Taken(k) = Deployed
  OBVIOUS
<1>1. PICK n \in Common : \A k \in Kind : Taken(k) = n
  BY DEF IInv, OneVersion
<1>2. n \in Version /\ Common \subseteq Version
  BY DEF Common
<1>3. \A m \in Version : (\A k \in Kind : Taken(k) = m) <=> m = n
  BY <1>1
<1>4. Deployed = n
  BY <1>2, <1>3 DEF Deployed
<1> QED
  BY <1>1, <1>2, <1>4

LEMMA DeployedIsNext ==
    (IInv /\ conf = "saved")' =>
        (/\ Deployed \in Common /\ Common \subseteq Version
         /\ \A k \in Kind : Taken(k) = Deployed)'
BY DeployedIs, PTL

(* Most steps change nothing for the servers.                              *)
LEMMA KeptStutters ==
    ASSUME IInv, IInv', Kept
    PROVE  Deployed' = Deployed /\ Issued' = Issued
<1>1. CASE conf = "saved"
  <2>1. Common' = Common /\ conf' = conf /\ Taken(Cert)' = Taken(Cert)
    BY <1>1, LatestSame DEF Kept
  <2>2. Deployed = Taken(Cert) /\ Deployed' = Taken(Cert)'
    BY <1>1, <2>1, DeployedIs, DeployedIsNext
  <2> QED
    BY <2>1, <2>2 DEF Issued
<1>2. CASE conf # "saved"
  BY <1>2 DEF Kept, Deployed, Issued
<1> QED
  BY <1>1, <1>2

AbstractStep == Abstract!Next \/ (Deployed' = Deployed /\ Issued' = Issued)

(* A file of the new version is written: the last one completes it.        *)
LEMMA WrittenIssues ==
    ASSUME IInv, IInv', NEW k \in Kind, FileWritten(k)
    PROVE  AbstractStep
<1>1. CASE conf = "saved"
  <2>1. conf' = "saved" /\ Taken(Cert)' = Taken(Cert) /\ pc = "save" /\ version \in Version
    BY <1>1 DEF FileWritten, Writing, IInv, ConfInv, SaveInv
  <2>2. Deployed' = Deployed /\ Deployed \in Common /\ Common \subseteq Version
    BY <1>1, <2>1, DeployedIs, DeployedIsNext
  <2>3. Common' = Common \/ Common' = Common \cup {version}
    BY <2>1 DEF FileWritten, Common
  <2>4. \A m \in Common : m <= version
    BY <2>1 DEF IInv, SaveInv, Common
  <2>5. Deployed # 0
    BY <2>2 DEF Version
  <2>6. CASE version \in Common \/ Common' = Common
    BY <1>1, <2>1, <2>2, <2>3, <2>6 DEF AbstractStep, Issued
  <2>7. CASE version \notin Common /\ Common' = Common \cup {version}
    <3>1. \A m \in Common : m < version
      BY <2>1, <2>2, <2>4, <2>7 DEF Version
    <3>2. Abstract!Issue
      BY <1>1, <2>1, <2>2, <2>5, <2>7, <3>1 DEF Abstract!Issue
    <3> QED
      BY <3>2 DEF AbstractStep, Abstract!Next
  <2> QED
    BY <2>3, <2>6, <2>7
<1>2. CASE conf # "saved"
  BY <1>2 DEF FileWritten, AbstractStep, Deployed, Issued
<1> QED
  BY <1>1, <1>2

(* The first previous_ link that goes.                                     *)
LEMMA UnlinkPrevDeploys ==
    ASSUME IInv, IInv', NEW k \in Kind, UnlinkPrev(k)
    PROVE  AbstractStep
<1>1. /\ Common' = Common /\ conf = "saved" /\ conf' = "saved"
      /\ IsLatestCommon(version) /\ \A j \in Kind : Taken(j)' = version
  BY UnlinkPrevInv DEF IInv
<1>2. Deployed' = version /\ Deployed \in Common /\ Common \subseteq Version
  BY <1>1, DeployedIs, DeployedIsNext
<1>3. version \in Common /\ \A m \in Common : m <= version
  BY <1>1 DEF IsLatestCommon, Largest
<1>4. Deployed # 0
  BY <1>2 DEF Version
<1>5. CASE Deployed = version
  BY <1>1, <1>2, <1>5 DEF AbstractStep, Issued
<1>6. CASE Deployed # version
  <2>1. Deployed < version
    BY <1>2, <1>3, <1>6 DEF Version
  <2>2. Abstract!Deploy
    BY <1>1, <1>2, <1>3, <1>4, <2>1 DEF Abstract!Deploy
  <2> QED
    BY <2>2 DEF AbstractStep, Abstract!Next
<1> QED
  BY <1>5, <1>6

(* The first file of a version that truncate deletes.                      *)
LEMMA TruncateForgets ==
    ASSUME IInv, IInv', NEW k \in Kind, NEW n \in Version, TruncateFile(k, n)
    PROVE  AbstractStep
<1>1. /\ conf' = "saved" /\ conf = "saved" /\ Taken(Cert)' = Taken(Cert)
      /\ Common' = Common \/ Common' = Common \ {n}
      /\ IsLatestCommon(Taken(Cert)) /\ n \notin KeptVersions(Taken(Cert))
  BY TruncateFileInv DEF IInv
<1>2. Deployed = Taken(Cert) /\ Deployed' = Deployed /\ Common \subseteq Version
  BY <1>1, DeployedIs, DeployedIsNext
<1>3. CASE n \notin Common \/ Common' = Common
  BY <1>1, <1>2, <1>3 DEF AbstractStep, Issued
<1>4. CASE n \in Common /\ Common' = Common \ {n}
  <2>1. Deployed \in Version /\ n <= Deployed
    BY <1>1, <1>2, <1>4 DEF IsLatestCommon, Largest
  <2>2. n + Keep < Deployed
    BY <1>1, <1>2, <2>1 DEF KeptVersions, Version
  <2>3. Abstract!Forget
    BY <1>1, <1>2, <1>4, <2>2 DEF Abstract!Forget
  <2> QED
    BY <2>3 DEF AbstractStep, Abstract!Next
<1> QED
  BY <1>1, <1>3, <1>4

LEMMA CreateDoneCreates ==
    ASSUME IInv, IInv', CreateDone
    PROVE  AbstractStep
<1>1. conf = "empty" /\ conf' = "saved" /\ Common' = {1} /\ Taken(Cert)' = 1
  BY CreateDoneInv DEF IInv
<1>2. Deployed' = 1 /\ Deployed = 0
  BY <1>1, DeployedIsNext DEF Deployed
<1>3. Abstract!Create
  BY <1>1, <1>2 DEF Abstract!Create
<1> QED
  BY <1>3 DEF AbstractStep, Abstract!Next

LEMMA GoneDeletes ==
    ASSUME conf' # "saved"
    PROVE  AbstractStep
<1>1. Deployed' = 0 /\ Issued' = {}
  BY DEF Deployed, Issued
<1>2. Abstract!Delete
  BY <1>1 DEF Abstract!Delete, Issued
<1> QED
  BY <1>2 DEF AbstractStep, Abstract!Next

LEMMA StepImplements == IInv /\ IInv' /\ [Next]_vars => [Abstract!Next]_(Abstract!vars)
<1> SUFFICES ASSUME IInv, IInv', [Next]_vars PROVE AbstractStep
  BY DEF AbstractStep, Abstract!vars, Issued
<1>1. ASSUME Kept PROVE AbstractStep
  BY <1>1, KeptStutters DEF AbstractStep
<1>2. CASE UNCHANGED vars
  BY <1>1, <1>2, DiskSame DEF vars
<1>3. ASSUME Next PROVE AbstractStep
  <2>1. TypeOK'
    BY DEF IInv
  <2>2. ASSUME NEW k \in Kind,
               \/ CreateLink(k) \/ FixUnlink(k) \/ FixLink(k) \/ Unlink(k) \/ Symlink(k)
               \/ DeleteLink(k) \/ FixUnlinkPrev(k) \/ PrevLink(k)
        PROVE  AbstractStep
    BY <1>1, <2>1, <2>2, CreateLinkInv, FixUnlinkInv, FixLinkInv, UnlinkInv, SymlinkInv,
       DeleteLinkInv, FixUnlinkPrevInv, PrevLinkInv
  <2>3. ASSUME NEW k \in Kind,
               UnlinkPrev(k) \/ \E n \in Version : TruncateFile(k, n)
        PROVE  AbstractStep
    BY <2>3, UnlinkPrevDeploys, TruncateForgets
  <2>4. ASSUME NEW k \in Kind, OpenFile(k) \/ WriteFile(k) PROVE AbstractStep
    BY <2>1, <2>4, OpenFileInv, WriteFileInv, WrittenIssues
  <2>5. CASE CreateLinked \/ Load \/ Fixed \/ Loaded \/ FixEnds
    BY <1>1, <2>1, <2>5, CreateLinkedInv, LoadInv, FixedInv, LoadedInv, FixEndsInv
  <2>6. CASE \/ EnsureDeployed \/ NotEnsured \/ SaveSuccessor \/ Saved
             \/ SaveNewConfigValues \/ RemoveNewConf \/ WriteNewConf \/ ReplaceConf
    BY <1>1, <2>1, <2>6, EnsureDeployedInv, NotEnsuredInv, SaveSuccessorInv, SavedInv,
       SaveNewConfigValuesInv, RemoveNewConfInv, WriteNewConfInv, ReplaceConfInv
  <2>7. CASE PrevLinked \/ Updated \/ UpdateDone \/ UpdateFails \/ Truncated \/ Exit \/ Crash
    BY <1>1, <2>1, <2>7, PrevLinkedInv, UpdatedInv, UpdateDoneInv, UpdateFailsInv,
       TruncatedInv, ExitInv, CrashInv
  <2>8. CASE Create \/ DeleteFiles \/ DeleteArchive
    BY <2>1, <2>8, CreateBegunInv, DeleteFilesInv, DeleteArchiveInv, GoneDeletes
  <2>9. CASE CreateDone
    BY <2>9, CreateDoneCreates
  <2> QED
    BY <1>3, <2>2, <2>3, <2>4, <2>5, <2>6, <2>7, <2>8, <2>9 DEF Next, Proceed
<1> QED
  BY <1>2, <1>3

(* For the servers, the four links of a lineage change at once, to the     *)
(* newest complete version, and truncate removes only what is more than    *)
(* Keep versions behind.                                                   *)
THEOREM LineageImplementsDeployment == Spec => DeploysAtOnce
<1>1. Init => IInv
  BY IInvInit
<1>2. IInv /\ [Next]_vars => IInv'
  BY IInvNext
<1>3. Init => Abstract!Init
  BY DEF Init, Abstract!Init, Deployed
<1>4. IInv /\ IInv' /\ [Next]_vars => [Abstract!Next]_(Abstract!vars)
  BY StepImplements
<1> QED
  BY <1>1, <1>2, <1>3, <1>4, PTL DEF Spec, DeploysAtOnce, Abstract!Spec
=============================================================================
