--------------------------- MODULE ReverterProofs ---------------------------
(***************************************************************************)
(* Theorems about Reverter, for every set of files, contents and modules,  *)
(* every number of checkpoints and every number of faults.                 *)
(***************************************************************************)
EXTENDS Reverter, WellFoundedInduction, TLAPS

-----------------------------------------------------------------------------
(* Types.  A call works on a directory that exists, or it would write to   *)
(* one that was never made.                                                *)
InCall == pc \in {"add", "undo", "restore", "remove"}

TypeInv == TypeOK /\ (InCall => cp[target].exists)

(* The locals, which most steps set together.                              *)
LocalsType ==
    /\ pc \in {"off", "idle", "add", "undo", "restore", "remove"}
    /\ goal \in {"none", "prepare", "recovery", "revert", "rollback"}
    /\ target \in Dir
    /\ left \in Nat
    /\ todo \subseteq File
    /\ lines \in Seq(File) /\ Len(lines) <= MaxIndex
    /\ idx \in 0..MaxIndex
    /\ granted \in [dir : Working, files : SUBSET File]

(* The directories.                                                        *)
CpType ==
    /\ cp \in [Dir -> Checkpoint]
    /\ \A d \in Dir : /\ Len(cp[d].paths) <= MaxIndex
                      /\ ~ cp[d].exists => cp[d] = NoCheckpoint

LEMMA NoneType ==
    /\ NoCheckpoint \in Checkpoint /\ Len(NoCheckpoint.paths) <= MaxIndex
    /\ ~ NoCheckpoint.exists
    /\ NoGrant \in [dir : Working, files : SUBSET File]
    /\ Working \subseteq Dir /\ Temp \in Working /\ InProgress \in Working
BY DirAssumption
DEF NoGrant, Working, NoCheckpoint, Checkpoint, Index, Content, Dir

LEMMA ReturnType ==
    ASSUME NEW g \in [dir : Working, files : SUBSET File], Return(g)
    PROVE  LocalsType' /\ ~ InCall'
BY DirAssumption DEF Return, CallOver, LocalsType, Dir, InCall

LEMMA DieType == Die => LocalsType' /\ ~ InCall'
BY DirAssumption, NoneType DEF Die, CallOver, LocalsType, Dir, InCall

LEMMA RaiseType == Raise => LocalsType' /\ ~ InCall'
BY DieType, ReturnType, NoneType DEF Raise

LEMMA UndoType ==
    ASSUME NEW g \in {"prepare", "recovery", "revert", "rollback"}, NEW d \in Dir,
           NEW n \in Nat, Undo(g, d, n)
    PROVE  LocalsType' /\ target' = d
BY DirAssumption, NoneType DEF Undo, LocalsType

LEMMA RecoverType ==
    ASSUME NEW g \in {"prepare", "recovery", "revert"}, Recover(g), TypeOK, cp' = cp
    PROVE  LocalsType' /\ (InCall' => cp'[target'].exists)
BY NoneType, UndoType, ReturnType DEF Recover

(* What TypeOK says of one directory.                                      *)
LEMMA DirType ==
    ASSUME TypeOK, NEW d \in Dir
    PROVE  /\ cp[d].paths \in Seq(File) /\ DOMAIN cp[d].paths = 1..Len(cp[d].paths)
           /\ Len(cp[d].paths) \in Nat /\ Len(cp[d].paths) <= MaxIndex
           /\ DOMAIN cp[d].paths \subseteq Index
           /\ cp[d].backup \in [Index -> Content]
           /\ cp[d].new \subseteq File /\ cp[d].exists \in BOOLEAN
<1>1. cp[d] \in Checkpoint /\ Len(cp[d].paths) <= MaxIndex
  BY DEF TypeOK
<1>2. cp[d].paths \in Seq(File) /\ cp[d].backup \in [Index -> Content]
      /\ cp[d].new \subseteq File /\ cp[d].exists \in BOOLEAN
  BY <1>1 DEF Checkpoint
<1>3. DOMAIN cp[d].paths = 1..Len(cp[d].paths) /\ Len(cp[d].paths) \in Nat
  BY <1>2
<1> QED
  BY <1>1, <1>2, <1>3, DirAssumption DEF Index

(* A directory that changes to a well-typed one leaves the others alone.   *)
LEMMA CpStep ==
    ASSUME TypeOK, NEW d \in Dir, NEW c \in Checkpoint, Len(c.paths) <= MaxIndex,
           ~ c.exists => c = NoCheckpoint,
           cp' = [cp EXCEPT ![d] = c]
    PROVE  CpType'
BY DEF TypeOK, CpType

THEOREM TypeInit == Init => TypeInv
<1> SUFFICES ASSUME Init PROVE TypeInv
  OBVIOUS
<1>1. CpType
  BY NoneType DEF Init, CpType
<1>2. LocalsType /\ ~ InCall
  BY DirAssumption, NoneType DEF Init, LocalsType, InCall
<1> QED
  BY <1>1, <1>2 DEF Init, TypeInv, TypeOK, CpType, LocalsType

THEOREM TypeStep == TypeInv /\ [Next]_vars => TypeInv'
<1> SUFFICES ASSUME TypeInv, [Next]_vars PROVE TypeInv'
  OBVIOUS
<1> USE DirAssumption, NoneType
<1> TypeOK
  BY DEF TypeInv
<1>t. ASSUME CpType', LocalsType', InCall' => cp'[target'].exists,
             disk' \in [File -> Content], enabled' \subseteq Module, faults' \in Nat,
             undoFailed' \subseteq Module, rmtreeCut' \in BOOLEAN
      PROVE  TypeInv'
  BY <1>t DEF TypeInv, TypeOK, CpType, LocalsType
<1>c. cp' = cp => CpType'
  BY DEF TypeOK, CpType
<1>1. CASE UNCHANGED vars
  BY <1>1 DEF vars, local, history, TypeInv, TypeOK, InCall
<1>2. ASSUME NEW d \in Working, NEW S \in (SUBSET File) \ {{}}, AddToCheckpoint(d, S)
      PROVE  TypeInv'
  <2> DEFINE c == [cp[d] EXCEPT !.exists = TRUE]
  <2>1. c \in Checkpoint /\ Len(c.paths) <= MaxIndex /\ c.exists
    BY DEF TypeOK, Checkpoint
  <2>2. cp' = [cp EXCEPT ![d] = c]
    BY <1>2 DEF AddToCheckpoint, DirMade
  <2>3. CpType'
    BY <2>1, <2>2, CpStep
  <2>4. LocalsType' /\ cp'[target'].exists
    BY <1>2, <2>1, <2>2 DEF AddToCheckpoint, LocalsType, TypeOK, Checkpoint
  <2> QED
    BY <1>2, <2>3, <2>4, <1>t DEF AddToCheckpoint, TypeOK, history
<1>3. ASSUME NEW d \in Working, NEW S \in (SUBSET File) \ {{}}, RefuseAdd(d, S)
      PROVE  TypeInv'
  BY <1>3, <1>t, <1>c, ReturnType DEF RefuseAdd, TypeOK, history
<1>4. ASSUME NEW d \in Working, NEW f \in File, RegisterFileCreation(d, f)
      PROVE  TypeInv'
  <2> DEFINE c == [cp[d] EXCEPT !.exists = TRUE, !.new = @ \cup {f}]
  <2>1. c \in Checkpoint /\ Len(c.paths) <= MaxIndex /\ c.exists
    BY DEF TypeOK, Checkpoint
  <2>2. cp' = [cp EXCEPT ![d] = c]
    BY <1>4 DEF RegisterFileCreation
  <2>3. CpType'
    BY <2>1, <2>2, CpStep
  <2>4. [dir |-> d, files |-> {f}] \in [dir : Working, files : SUBSET File]
    OBVIOUS
  <2> QED
    BY <1>4, <2>3, <2>4, <1>t, ReturnType DEF RegisterFileCreation, TypeOK, history
<1>5. ASSUME NEW d \in Working, NEW m \in Module, RegisterUndoCommand(d, m)
      PROVE  TypeInv'
  <2> DEFINE c == [cp[d] EXCEPT !.exists = TRUE, !.undo = @ \cup {m}]
  <2>1. c \in Checkpoint /\ Len(c.paths) <= MaxIndex /\ c.exists
    BY DEF TypeOK, Checkpoint
  <2>2. cp' = [cp EXCEPT ![d] = c]
    BY <1>5 DEF RegisterUndoCommand
  <2>3. CpType'
    BY <2>1, <2>2, CpStep
  <2> QED
    BY <1>5, <2>3, <1>t, ReturnType DEF RegisterUndoCommand, TypeOK, history
<1>6. ASSUME NEW f \in File, NEW v \in Data, PluginWrite(f, v)
      PROVE  TypeInv'
  BY <1>6, <1>t, <1>c DEF PluginWrite, TypeInv, TypeOK, history, local, LocalsType, InCall, Content
<1>7. ASSUME NEW m \in Module, PluginEnable(m)
      PROVE  TypeInv'
  BY <1>7, <1>t, <1>c DEF PluginEnable, TypeInv, TypeOK, history, local, LocalsType, InCall
<1>8. ASSUME NEW clock \in Stamp, FinalizeCheckpoint(clock)
      PROVE  TypeInv'
  <2> DEFINE s == Timestamp(clock)
  <2>1. s \in Stamp /\ s \in Dir /\ InProgress \in Dir
        /\ cp' = [cp EXCEPT ![s] = cp[InProgress], ![InProgress] = NoCheckpoint]
    BY <1>8 DEF FinalizeCheckpoint, Dir
  <2>2. CpType'
    BY <2>1 DEF TypeOK, CpType
  <2> QED
    BY <1>8, <2>2, <1>t, ReturnType DEF FinalizeCheckpoint, TypeOK, history
<1>9. CASE FinalizeFails
  BY <1>9, <1>t, <1>c, ReturnType DEF FinalizeFails, Fault, TypeOK
<1>10. CASE RecoveryRoutine \/ RevertTemporaryConfig \/ Start
  BY <1>10, <1>t, <1>c, RecoverType
     DEF RecoveryRoutine, RevertTemporaryConfig, Start, TypeOK, history
<1>11. ASSUME NEW n \in 1..MaxStamp, RollbackCheckpoints(n)
       PROVE  TypeInv'
  <2>1. PICK s \in Stamp : Newest(s, Finalized) /\ Undo("rollback", s, n)
    BY <1>11 DEF RollbackCheckpoints
  <2>2. s \in Dir /\ cp[s].exists /\ n \in Nat
    BY <2>1 DEF Dir, Newest, Finalized
  <2> QED
    BY <1>11, <2>1, <2>2, <1>t, <1>c, UndoType
       DEF RollbackCheckpoints, TypeOK, history
<1>12. ASSUME NEW f \in File, BackUp(f)
       PROVE  TypeInv'
  <2>1. CASE UNCHANGED <<cp, lines>>
    BY <1>12, <2>1, <1>t, <1>c DEF BackUp, TypeInv, TypeOK, history, LocalsType, InCall
  <2>2. CASE /\ disk[f] # Absent /\ Len(lines) < MaxIndex
             /\ lines' = Append(lines, f)
             /\ cp' = [cp EXCEPT ![target].backup[NextIndex] = disk[f]]
    <3> DEFINE c == [cp[target] EXCEPT !.backup[NextIndex] = disk[f]]
    <3>1. lines' \in Seq(File) /\ Len(lines') <= MaxIndex
      BY <2>2 DEF TypeOK
    <3>2. c \in Checkpoint /\ Len(c.paths) <= MaxIndex /\ c.exists
      BY <1>12, <2>2 DEF BackUp, TypeInv, TypeOK, Checkpoint, Index, NextIndex, InCall
    <3>3. CpType'
      BY <2>2, <3>2, CpStep DEF TypeOK
    <3>4. cp'[target'].exists /\ LocalsType'
      BY <1>12, <2>2, <3>1, <3>2 DEF BackUp, TypeOK, LocalsType
    <3> QED
      BY <1>12, <3>3, <3>4, <1>t DEF BackUp, TypeOK, history
  <2> QED
    BY <1>12, <2>1, <2>2 DEF BackUp
<1>13. ASSUME cp' = [cp EXCEPT ![target].paths = lines], pc = "add"
       PROVE  CpType'
  <2> DEFINE c == [cp[target] EXCEPT !.paths = lines]
  <2>1. c \in Checkpoint /\ Len(c.paths) <= MaxIndex /\ c.exists
    BY <1>13 DEF TypeInv, TypeOK, Checkpoint, InCall
  <2> QED
    BY <1>13, <2>1, CpStep DEF TypeOK
<1>14. ASSUME NEW f \in File, BackUpFails(f)
       PROVE  TypeInv'
  BY <1>13, <1>14, <1>t, ReturnType DEF BackUpFails, Fault, TypeOK
<1>15. CASE AddDone
  BY <1>13, <1>15, <1>t, ReturnType DEF AddDone, TypeOK, history
<1>16. ASSUME NEW failing \in SUBSET Module, RunUndoCommands(failing)
       PROVE  TypeInv'
  BY <1>16, <1>t, <1>c
     DEF RunUndoCommands, Fault, TypeInv, TypeOK, local, LocalsType, InCall, Commands
<1>17. CASE RestoreFile
  <2>1. /\ cp[target].paths \in Seq(File) /\ cp[target].backup \in [Index -> Content]
        /\ Len(cp[target].paths) <= MaxIndex
    BY DEF TypeOK, Checkpoint
  <2>2. idx + 1 \in Index /\ idx + 1 \in 1..Len(cp[target].paths)
        /\ idx + 1 \in 0..MaxIndex
    BY <1>17, <2>1 DEF RestoreFile, TypeOK, Index
  <2>3. cp[target].paths[idx + 1] \in File /\ cp[target].backup[idx + 1] \in Content
    BY <2>1, <2>2
  <2> QED
    BY <1>17, <2>2, <2>3, <1>t, <1>c
       DEF RestoreFile, TypeInv, TypeOK, history, LocalsType, InCall
<1>18. CASE RestoreFails
  BY <1>18, <1>t, <1>c, RaiseType DEF RestoreFails, TypeOK, history
<1>19. CASE RestoreDone
  BY <1>19, <1>t, <1>c
     DEF RestoreDone, TypeInv, TypeOK, Checkpoint, history, LocalsType, InCall
<1>20. ASSUME NEW f \in File, RemoveNewFile(f)
       PROVE  TypeInv'
  BY <1>20, <1>t, <1>c
     DEF RemoveNewFile, TypeInv, TypeOK, history, LocalsType, InCall, Content
<1>21. CASE RemoveCheckpoint
  <2>1. CpType'
    BY <1>21, CpStep DEF RemoveCheckpoint, TypeOK
  <2>2. LocalsType' /\ (InCall' => cp'[target'].exists)
    <3>1. CASE /\ goal \in {"prepare", "recovery"} /\ target = Temp /\ cp[InProgress].exists
               /\ Undo(goal, InProgress, 0)
      BY <1>21, <3>1, UndoType DEF RemoveCheckpoint, TypeOK
    <3>2. ASSUME goal = "rollback", left > 1, NEW s \in Stamp,
                 Newest(s, Finalized \ {target}), Undo(goal, s, left - 1)
          PROVE  LocalsType' /\ (InCall' => cp'[target'].exists)
      <4>1. s \in Dir /\ s # target /\ cp[s].exists /\ left - 1 \in Nat
        BY <3>2 DEF Dir, Newest, Finalized, TypeOK
      <4> QED
        BY <1>21, <3>2, <4>1, UndoType DEF RemoveCheckpoint, TypeOK
    <3>3. CASE Return(NoGrant)
      BY <3>3, ReturnType
    <3> QED
      BY <1>21, <3>1, <3>2, <3>3 DEF RemoveCheckpoint
  <2> QED
    BY <1>21, <2>1, <2>2, <1>t DEF RemoveCheckpoint, TypeOK, history
<1>22. CASE RmtreeStops
  <2>1. PICK paths \in {<< >>, cp[target].paths}, new \in {{}, cp[target].new},
             undo \in {{}, cp[target].undo},
             kept \in SUBSET {i \in Index : cp[target].backup[i] # Absent} :
        cp' = [cp EXCEPT ![target].paths = paths, ![target].new = new,
                         ![target].undo = undo,
                         ![target].backup = [i \in Index |-> IF i \in kept THEN @[i]
                                                              ELSE Absent]]
    BY <1>22 DEF RmtreeStops
  <2> DEFINE b == [i \in Index |-> IF i \in kept THEN cp[target].backup[i]
                                   ELSE Absent]
             c == [cp[target] EXCEPT !.paths = paths, !.new = new, !.undo = undo,
                                     !.backup = b]
  <2>2. c \in Checkpoint /\ Len(c.paths) <= MaxIndex /\ c.exists
    <3>1. cp[target] \in Checkpoint /\ cp[target].exists
          /\ Len(cp[target].paths) <= MaxIndex
      BY <1>22 DEF RmtreeStops, TypeInv, TypeOK, InCall
    <3>2. b \in [Index -> Content]
      BY <3>1 DEF Checkpoint, Content
    <3>3. paths \in Seq(File) /\ Len(paths) <= MaxIndex
      <4>1. CASE paths = << >>
        BY <4>1
      <4>2. CASE paths = cp[target].paths
        BY <3>1, <4>2 DEF Checkpoint
      <4> QED
        BY <4>1, <4>2
    <3>4. new \in SUBSET File /\ undo \in SUBSET Module
      BY <3>1 DEF Checkpoint
    <3> HIDE DEF b
    <3> QED
      BY <3>1, <3>2, <3>3, <3>4 DEF Checkpoint
  <2>3. cp' = [cp EXCEPT ![target] = c]
    BY <2>1
  <2>4. CpType'
    BY <2>2, <2>3, CpStep DEF TypeOK
  <2> QED
    BY <1>22, <2>4, <1>t, RaiseType DEF RmtreeStops, Fault, TypeOK
<1>23. CASE Exit
  BY <1>23, <1>t, <1>c, DieType DEF Exit, TypeOK, history
<1>24. CASE Crash
  <2>1. disk' \in [File -> Content]
    BY <1>24 DEF Crash, HalfRestored, TypeOK, Content
  <2> QED
    BY <1>24, <2>1, <1>t, <1>c, DieType DEF Crash, Fault, TypeOK
<1>25. CASE RecoveryFails
  <2>1. disk' \in [File -> Content]
    BY <1>25 DEF RecoveryFails, HalfRestored, TypeOK, Content
  <2> QED
    BY <1>25, <2>1, <1>t, <1>c, RaiseType DEF RecoveryFails, Fault, TypeOK
<1> QED
  BY <1>1, <1>2, <1>3, <1>4, <1>5, <1>6, <1>7, <1>8, <1>9, <1>10, <1>11, <1>12,
     <1>14, <1>15, <1>16, <1>17, <1>18, <1>19, <1>20, <1>21, <1>22, <1>23,
     <1>24, <1>25
     DEF Next, Plugin, Proceed, Environment

(* Every variable keeps its type, and no call works on a directory that    *)
(* was not made.                                                           *)
THEOREM TypeCorrect == Spec => []TypeOK
<1>1. TypeInv => TypeOK
  BY DEF TypeInv
<1> QED
  BY TypeInit, TypeStep, <1>1, PTL DEF Spec

-----------------------------------------------------------------------------
(* The inductive invariant behind BackupsComplete and StableKept.          *)

(* FILEPATHS names a file once.                                            *)
OneName(s) == \A i, j \in 1..Len(s) : s[i] = s[j] => i = j
NamesOnce == \A d \in Dir : OneName(cp[d].paths)

(* In add_to_checkpoint: the names to write extend FILEPATHS, and the new  *)
(* ones have a backup that is still what is on the disk.                   *)
Adding ==
    pc = "add" =>
        LET c == cp[target] IN
        /\ target \in Working /\ granted.dir = target
        /\ Len(c.paths) <= Len(lines)
        /\ \A i \in 1..Len(c.paths) : lines[i] = c.paths[i]
        /\ OneName(lines)
        /\ \A i \in 1..Len(lines) : i > Len(c.paths) =>
              /\ lines[i] \notin todo
              /\ c.backup[i] = disk[lines[i]] /\ c.backup[i] # Absent
              /\ target = InProgress => lines[i] \notin Recorded(cp[Temp])
        /\ target = InProgress => todo \cap Recorded(cp[Temp]) = {}
        /\ \A f \in granted.files : f \in todo \/ \E i \in 1..Len(lines) : lines[i] = f

(* What the plugin may write is recorded.                                  *)
GrantRecorded == pc = "idle" => granted.files \subseteq Recorded(cp[granted.dir])

(* In a recovery: what has been restored is on the disk, and IN_PROGRESS   *)
(* is recovered when there is no TEMP.                                     *)
Recovering ==
    /\ goal = "none" <=> pc \in {"off", "idle", "add"}
    /\ goal \in {"prepare", "recovery", "revert"} => target \in Working
    /\ goal # "none" /\ target = InProgress => cp[Temp] = NoCheckpoint
    /\ pc = "undo" => idx = 0
    /\ pc = "restore" =>
          /\ idx <= Len(cp[target].paths)
          /\ \A j \in 1..idx : disk[cp[target].paths[j]] = cp[target].backup[j]
    /\ pc = "remove" =>
          /\ todo \subseteq cp[target].new
          /\ \A f \in cp[target].new \ todo : disk[f] = Absent
          /\ \A j \in 1..Len(cp[target].paths) :
                \/ disk[cp[target].paths[j]] = cp[target].backup[j]
                \/ cp[target].paths[j] \in cp[target].new

Inv == TypeInv /\ BackupsComplete /\ NamesOnce /\ Adding /\ GrantRecorded /\ Recovering

LEMMA InvInit == Init => Inv
<1> SUFFICES ASSUME Init PROVE Inv
  OBVIOUS
<1>1. TypeInv
  BY TypeInit
<1>2. \A d \in Dir : cp[d].paths = << >>
  BY DEF Init, NoCheckpoint
<1>3. BackupsComplete /\ NamesOnce
  BY <1>2 DEF BackupsComplete, NamesOnce, OneName
<1> QED
  BY <1>1, <1>3, NoneType DEF Init, Inv, Adding, GrantRecorded, Recovering

LEMMA CpSame ==
    ASSUME Inv, cp' = cp, rmtreeCut' = rmtreeCut
    PROVE  BackupsComplete' /\ NamesOnce'
BY DEF Inv, BackupsComplete, NamesOnce

(* A step that leaves a directory's files and backups alone keeps them     *)
(* right.                                                                  *)
LEMMA PathsSame ==
    ASSUME Inv, rmtreeCut' = rmtreeCut,
           \A d \in Dir : cp'[d].paths = cp[d].paths /\ cp'[d].backup = cp[d].backup
    PROVE  BackupsComplete' /\ NamesOnce'
BY DEF Inv, BackupsComplete, NamesOnce

LEMMA Quiet ==
    ASSUME Return(NoGrant) \/ Die \/ Raise
    PROVE  Adding' /\ GrantRecorded' /\ Recovering'
BY DEF Raise, Return, Die, CallOver, NoGrant, Adding, GrantRecorded, Recovering

LEMMA UndoStarts ==
    ASSUME NEW g \in {"prepare", "recovery", "revert", "rollback"}, NEW d, NEW n, Undo(g, d, n),
           g # "rollback" => d \in Working,
           d = InProgress => cp'[Temp] = NoCheckpoint
    PROVE  Adding' /\ GrantRecorded' /\ Recovering'
BY DEF Undo, Adding, GrantRecorded, Recovering

LEMMA RecoverStarts ==
    ASSUME TypeInv, NEW g \in {"prepare", "recovery", "revert"}, Recover(g), cp' = cp
    PROVE  Adding' /\ GrantRecorded' /\ Recovering'
<1>1. ~ cp[Temp].exists => cp'[Temp] = NoCheckpoint
  BY NoneType DEF TypeInv, TypeOK
<1>2. CASE Undo(g, Temp, 0)
  BY <1>2, UndoStarts, NoneType, DirAssumption
<1>3. CASE ~ cp[Temp].exists /\ Undo(g, InProgress, 0)
  BY <1>1, <1>3, UndoStarts, NoneType
<1>4. CASE Return(NoGrant)
  BY <1>4, Quiet
<1> QED
  BY <1>2, <1>3, <1>4 DEF Recover

LEMMA InvAddToCheckpoint ==
    ASSUME Inv, TypeInv', NEW d \in Working, NEW S \in SUBSET File, AddToCheckpoint(d, S)
    PROVE  Inv'
<1> USE NoneType
<1>1. /\ cp'[d].paths = cp[d].paths /\ cp'[d].new = cp[d].new
      /\ \A e \in Dir : /\ cp'[e].paths = cp[e].paths /\ cp'[e].backup = cp[e].backup
                        /\ cp'[e].new = cp[e].new
  BY DEF AddToCheckpoint, DirMade, Inv, TypeInv, TypeOK, Checkpoint
<1>2. BackupsComplete' /\ NamesOnce'
  BY <1>1, PathsSame DEF AddToCheckpoint, history
<1>3. Recorded(cp[Temp])' = Recorded(cp[Temp])
  BY <1>1, NoneType DEF Recorded, Saved
<1>4. Adding'
  BY <1>1, <1>2, <1>3
     DEF AddToCheckpoint, Adding, Protected, NamesOnce, OneName, Working, Dir
<1> QED
  BY <1>2, <1>4 DEF AddToCheckpoint, Inv, GrantRecorded, Recovering

LEMMA InvBackUp ==
    ASSUME Inv, TypeInv', NEW f \in File, BackUp(f)
    PROVE  Inv'
<1> USE NoneType
<1>1. pc = "add" /\ pc' = "add" /\ target' = target /\ target \in Dir /\ f \in todo
      /\ todo' = todo \ {f} /\ granted' = granted /\ goal' = goal /\ disk' = disk
      /\ rmtreeCut' = rmtreeCut
  BY DEF BackUp, history, Inv, TypeInv, TypeOK
<1>2. GrantRecorded' /\ Recovering'
  BY <1>1 DEF Inv, GrantRecorded, Recovering
<1>3. ASSUME NEW i \in DOMAIN cp[target].paths, cp[target].paths[i] = f
      PROVE  Inv'
  <2>1. cp' = cp /\ lines' = lines
    BY <1>3 DEF BackUp
  <2>2. BackupsComplete' /\ NamesOnce'
    BY <1>1, <2>1, CpSame
  <2>3. i \in 1..Len(lines) /\ lines[i] = f
    <3>1. i \in 1..Len(cp[target].paths) /\ Len(cp[target].paths) \in Nat
      BY <1>1, <1>3, DirType DEF Inv, TypeInv
    <3>2. Len(lines) \in Nat
      BY DEF Inv, TypeInv, TypeOK
    <3> QED
      BY <1>1, <1>3, <3>1, <3>2 DEF Inv, Adding
  <2>4. Adding'
    BY <1>1, <2>1, <2>3 DEF Inv, Adding
  <2> QED
    BY <1>2, <2>2, <2>4 DEF Inv
<1>4. ASSUME ~ \E i \in DOMAIN cp[target].paths : cp[target].paths[i] = f
      PROVE  Inv'
  <2> DEFINE n == Len(lines) + 1
  <2>1. /\ disk[f] # Absent /\ Len(lines) < MaxIndex /\ lines' = Append(lines, f)
        /\ cp' = [cp EXCEPT ![target].backup[n] = disk[f]]
    BY <1>4 DEF BackUp, NextIndex
  <2>2. /\ Len(lines') = n /\ lines'[n] = f
        /\ \A i \in 1..Len(lines) : lines'[i] = lines[i]
        /\ n \in Nat /\ n \in Index /\ 1..n = 1..Len(lines) \cup {n}
    BY <2>1, DirAssumption DEF Inv, TypeInv, TypeOK, Index
  <2>3. /\ \A e \in Dir : cp'[e].paths = cp[e].paths /\ cp'[e].new = cp[e].new
        /\ \A e \in Dir : e # target => cp'[e].backup = cp[e].backup
        /\ \A i \in Index : i # n => cp'[target].backup[i] = cp[target].backup[i]
        /\ cp'[target].backup[n] = disk[f]
    BY <1>1, <2>1, <2>2 DEF Inv, TypeInv, TypeOK, Checkpoint
  <2>t. TypeOK
    BY DEF Inv, TypeInv
  <2>4. \A e \in Dir : /\ DOMAIN cp[e].paths = 1..Len(cp[e].paths)
                       /\ Len(cp[e].paths) \in Nat /\ Len(cp[e].paths) <= MaxIndex
                       /\ DOMAIN cp[e].paths \subseteq Index
    BY <2>t, DirType
  <2>5. NamesOnce'
    BY <2>3 DEF Inv, NamesOnce
  <2>6. Len(cp[target].paths) < n
    BY <1>1, <2>2, <2>4 DEF Inv, Adding, TypeInv, TypeOK
  <2>7. BackupsComplete'
    <3> SUFFICES ASSUME ~ rmtreeCut, NEW e \in Dir, NEW i \in DOMAIN cp[e].paths
                 PROVE  cp'[e].backup[i] # Absent
      BY <1>1, <2>3 DEF BackupsComplete
    <3>1. cp[e].backup[i] # Absent
      BY DEF Inv, BackupsComplete
    <3>2. CASE e = target
      <4>1. i \in Index /\ i # n
        BY <2>2, <2>4, <2>6, <3>2
      <4> QED
        BY <2>3, <3>1, <3>2, <4>1
    <3> QED
      BY <2>3, <3>1, <3>2
  <2>8. Recorded(cp[Temp])' = Recorded(cp[Temp])
    BY <2>3 DEF Recorded, Saved
  <2>9. Adding'
    <3>1. OneName(lines)'
      BY <1>1, <1>4, <2>2, <2>4 DEF Inv, Adding, OneName
    <3>2. \A i \in 1..Len(lines') : i > Len(cp'[target].paths) =>
            /\ lines'[i] \notin todo'
            /\ cp'[target].backup[i] = disk'[lines'[i]] /\ cp'[target].backup[i] # Absent
            /\ target = InProgress => lines'[i] \notin Recorded(cp[Temp])'
      <4> SUFFICES ASSUME NEW i \in 1..n, i > Len(cp[target].paths)
                   PROVE  /\ lines'[i] \notin todo'
                          /\ cp'[target].backup[i] = disk[lines'[i]]
                          /\ cp'[target].backup[i] # Absent
                          /\ target = InProgress => lines'[i] \notin Recorded(cp[Temp])
        BY <1>1, <2>2, <2>3, <2>8
      <4>1. CASE i = n
        BY <1>1, <2>1, <2>2, <2>3, <4>1 DEF Inv, Adding
      <4>2. CASE i # n
        <5>1. i \in 1..Len(lines) /\ i \in Index
          BY <4>2, <2>2, <2>1, <2>t, DirAssumption DEF Index, TypeOK
        <5> QED
          BY <1>1, <2>2, <2>3, <4>2, <5>1 DEF Inv, Adding
      <4> QED
        BY <4>1, <4>2
    <3>3. /\ target \in Working /\ granted.dir = target
          /\ Len(cp'[target].paths) <= Len(lines')
          /\ \A i \in 1..Len(cp'[target].paths) : lines'[i] = cp'[target].paths[i]
          /\ target = InProgress => todo' \cap Recorded(cp[Temp])' = {}
      <4>1. Len(lines) \in Nat
        BY <2>t DEF TypeOK
      <4>2. cp'[target].paths = cp[target].paths
        BY <1>1, <2>3
      <4>3. \A i \in 1..Len(cp[target].paths) : i \in 1..Len(lines)
                                              /\ lines[i] = cp[target].paths[i]
        BY <1>1, <2>4, <4>1 DEF Inv, Adding
      <4> QED
        BY <1>1, <2>2, <2>4, <2>6, <2>8, <4>1, <4>2, <4>3 DEF Inv, Adding
    <3>4. \A g \in granted.files : g \in todo' \/ \E i \in 1..Len(lines') : lines'[i] = g
      BY <1>1, <2>2 DEF Inv, Adding
    <3> QED
      BY <1>1, <3>1, <3>2, <3>3, <3>4 DEF Adding
  <2> QED
    BY <1>2, <2>5, <2>7, <2>9 DEF Inv
<1> QED
  BY <1>3, <1>4

(* FILEPATHS is closed, after the last file or after a failed one.         *)
LEMMA FilepathsClosed ==
    ASSUME Inv, pc = "add", cp' = [cp EXCEPT ![target].paths = lines],
           rmtreeCut' = rmtreeCut
    PROVE  BackupsComplete' /\ NamesOnce'
<1>1. target \in Dir
  BY DEF Inv, TypeInv, TypeOK
<1>2. /\ \A e \in Dir : cp'[e].backup = cp[e].backup
      /\ \A e \in Dir : e # target => cp'[e].paths = cp[e].paths
      /\ cp'[target].paths = lines
  BY <1>1 DEF Inv, TypeInv, TypeOK, Checkpoint
<1>3. NamesOnce'
  BY <1>2 DEF Inv, NamesOnce, Adding
<1>4. DOMAIN lines = 1..Len(lines) /\ Len(lines) \in Nat
      /\ DOMAIN cp[target].paths = 1..Len(cp[target].paths)
      /\ Len(cp[target].paths) \in Nat
  BY <1>1 DEF Inv, TypeInv, TypeOK, Checkpoint
<1>5. ASSUME ~ rmtreeCut, NEW i \in DOMAIN lines PROVE cp[target].backup[i] # Absent
  <2>1. CASE i <= Len(cp[target].paths)
    BY <1>1, <1>4, <1>5, <2>1 DEF Inv, BackupsComplete
  <2>2. CASE i > Len(cp[target].paths)
    BY <1>4, <1>5, <2>2 DEF Inv, Adding
  <2> QED
    BY <1>4, <2>1, <2>2
<1> QED
  BY <1>1, <1>2, <1>3, <1>5 DEF Inv, BackupsComplete

LEMMA InvAddEnds ==
    ASSUME Inv, TypeInv', AddDone \/ \E f \in File : BackUpFails(f)
    PROVE  Inv'
<1>1. pc = "add" /\ cp' = [cp EXCEPT ![target].paths = lines] /\ rmtreeCut' = rmtreeCut
  BY DEF AddDone, BackUpFails, history
<1>2. BackupsComplete' /\ NamesOnce'
  BY <1>1, FilepathsClosed
<1>3. CASE \E f \in File : BackUpFails(f)
  <2>1. Return(NoGrant)
    BY <1>3 DEF BackUpFails
  <2> QED
    BY <1>2, <2>1, Quiet DEF Inv
<1>4. CASE AddDone
  <2>1. Return(granted) /\ todo = {} /\ target \in Dir
    BY <1>4 DEF AddDone, Inv, TypeInv, TypeOK
  <2>2. cp'[target].paths = lines /\ DOMAIN lines = 1..Len(lines)
    BY <1>1, <2>1 DEF Inv, TypeInv, TypeOK, Checkpoint
  <2>3. granted.dir = target
        /\ \A f \in granted.files : \E i \in 1..Len(lines) : lines[i] = f
    BY <1>1, <2>1 DEF Inv, Adding
  <2>4. GrantRecorded'
    BY <2>1, <2>2, <2>3 DEF Return, GrantRecorded, Recorded, Saved
  <2> QED
    BY <1>2, <2>1, <2>4 DEF Inv, Return, CallOver, Adding, Recovering
<1> QED
  BY <1>3, <1>4

LEMMA InvRegister ==
    ASSUME Inv, TypeInv', NEW d \in Working,
           \/ \E f \in File : RegisterFileCreation(d, f)
           \/ \E m \in Module : RegisterUndoCommand(d, m)
    PROVE  Inv'
<1>1. d \in Dir /\ TypeOK
  BY NoneType DEF Inv, TypeInv
<1>2. rmtreeCut' = rmtreeCut
  BY DEF RegisterFileCreation, RegisterUndoCommand, history
<1>3. \A e \in Dir : cp'[e].paths = cp[e].paths /\ cp'[e].backup = cp[e].backup
  <2> SUFFICES ASSUME NEW c \in Checkpoint, cp' = [cp EXCEPT ![d] = c],
                      c.paths = cp[d].paths, c.backup = cp[d].backup
               PROVE  \A e \in Dir : /\ cp'[e].paths = cp[e].paths
                                     /\ cp'[e].backup = cp[e].backup
    <3>1. cp[d] \in Checkpoint
      BY <1>1 DEF TypeOK
    <3>2. ASSUME NEW f \in File, RegisterFileCreation(d, f)
          PROVE  \E c \in Checkpoint : /\ cp' = [cp EXCEPT ![d] = c]
                                       /\ c.paths = cp[d].paths /\ c.backup = cp[d].backup
      <4> DEFINE c == [cp[d] EXCEPT !.exists = TRUE, !.new = @ \cup {f}]
      <4>1. c \in Checkpoint /\ c.paths = cp[d].paths /\ c.backup = cp[d].backup
        BY <3>1 DEF Checkpoint
      <4>2. cp' = [cp EXCEPT ![d] = c]
        BY <3>2 DEF RegisterFileCreation
      <4> QED
        BY <4>1, <4>2
    <3>3. ASSUME NEW m \in Module, RegisterUndoCommand(d, m)
          PROVE  \E c \in Checkpoint : /\ cp' = [cp EXCEPT ![d] = c]
                                       /\ c.paths = cp[d].paths /\ c.backup = cp[d].backup
      <4> DEFINE c == [cp[d] EXCEPT !.exists = TRUE, !.undo = @ \cup {m}]
      <4>1. c \in Checkpoint /\ c.paths = cp[d].paths /\ c.backup = cp[d].backup
        BY <3>1 DEF Checkpoint
      <4>2. cp' = [cp EXCEPT ![d] = c]
        BY <3>3 DEF RegisterUndoCommand
      <4> QED
        BY <4>1, <4>2
    <3> QED
      BY <3>2, <3>3
  <2> QED
    BY <1>1 DEF TypeOK
<1>4. BackupsComplete' /\ NamesOnce'
  BY <1>2, <1>3, PathsSame
<1>5. CASE Return(NoGrant)
  BY <1>4, <1>5, Quiet DEF Inv
<1>6. ASSUME NEW f \in File, RegisterFileCreation(d, f)
      PROVE  Inv'
  <2>1. f \in cp'[d].new
    BY <1>1, <1>6 DEF RegisterFileCreation, TypeOK, Checkpoint
  <2>2. Return([dir |-> d, files |-> {f}])
    BY <1>6 DEF RegisterFileCreation
  <2> QED
    BY <1>4, <2>1, <2>2
       DEF Inv, Return, CallOver, Adding, GrantRecorded, Recovering, Recorded
<1> QED
  BY <1>5, <1>6 DEF RegisterUndoCommand

LEMMA InvPlugin ==
    ASSUME Inv, TypeInv',
           \/ \E f \in File, v \in Data : PluginWrite(f, v)
           \/ \E m \in Module : PluginEnable(m)
    PROVE  Inv'
<1>1. /\ pc = "idle" /\ pc' = pc /\ goal' = goal /\ target' = target /\ cp' = cp
      /\ granted' = granted /\ rmtreeCut' = rmtreeCut
  BY DEF PluginWrite, PluginEnable, local, history
<1>2. BackupsComplete' /\ NamesOnce'
  BY <1>1, CpSame
<1> QED
  BY <1>1, <1>2 DEF Inv, Adding, GrantRecorded, Recovering

LEMMA InvFinalize ==
    ASSUME Inv, TypeInv', NEW clock \in Stamp, FinalizeCheckpoint(clock)
    PROVE  Inv'
<1> DEFINE s == Timestamp(clock)
<1>1. /\ s \in Dir /\ InProgress \in Dir /\ TypeOK
      /\ cp' = [cp EXCEPT ![s] = cp[InProgress], ![InProgress] = NoCheckpoint]
      /\ rmtreeCut' = rmtreeCut
  BY DEF FinalizeCheckpoint, Dir, history, Inv, TypeInv
<1>2. \A e \in Dir : cp'[e] \in {cp[e], cp[InProgress], NoCheckpoint}
  BY <1>1 DEF TypeOK
<1>3. DOMAIN NoCheckpoint.paths = {} /\ Len(NoCheckpoint.paths) = 0
  BY DEF NoCheckpoint
<1>4. BackupsComplete'
  BY <1>1, <1>2, <1>3 DEF Inv, BackupsComplete
<1>5. NamesOnce'
  BY <1>1, <1>2, <1>3 DEF Inv, NamesOnce, OneName
<1>6. Return(NoGrant)
  BY DEF FinalizeCheckpoint
<1> QED
  BY <1>4, <1>5, <1>6, Quiet DEF Inv

LEMMA InvRecoverStarts ==
    ASSUME Inv, TypeInv',
           \/ RecoveryRoutine \/ RevertTemporaryConfig \/ Start
           \/ \E n \in 1..MaxStamp : RollbackCheckpoints(n)
    PROVE  Inv'
<1>1. cp' = cp /\ rmtreeCut' = rmtreeCut
  BY DEF RecoveryRoutine, RevertTemporaryConfig, Start, RollbackCheckpoints, history
<1>2. BackupsComplete' /\ NamesOnce'
  BY <1>1, CpSame
<1>3. CASE \E n \in 1..MaxStamp : RollbackCheckpoints(n)
  <2>1. PICK n \in 1..MaxStamp, s \in Stamp : Undo("rollback", s, n)
    BY <1>3 DEF RollbackCheckpoints
  <2>2. s # InProgress
    BY DirAssumption DEF Stamp
  <2> QED
    BY <1>2, <2>1, <2>2, UndoStarts DEF Inv
<1>4. ASSUME NEW g \in {"prepare", "recovery", "revert"}, Recover(g)
      PROVE  Inv'
  BY <1>1, <1>2, <1>4, RecoverStarts DEF Inv
<1> QED
  BY <1>3, <1>4 DEF RecoveryRoutine, RevertTemporaryConfig, Start

LEMMA InvRunUndoCommands ==
    ASSUME Inv, TypeInv', NEW failing \in SUBSET Module, RunUndoCommands(failing)
    PROVE  Inv'
<1>1. /\ pc = "undo" /\ pc' = "restore" /\ goal' = goal /\ target' = target /\ cp' = cp
      /\ idx' = idx /\ rmtreeCut' = rmtreeCut
  BY DEF RunUndoCommands, local
<1>3. target \in Dir /\ TypeOK
  BY DEF Inv, TypeInv, TypeOK
<1>4. 0 <= Len(cp[target].paths)
  BY <1>3, DirType
<1>2. BackupsComplete' /\ NamesOnce'
  BY <1>1, CpSame
<1> QED
  BY <1>1, <1>2, <1>4 DEF Inv, Adding, GrantRecorded, Recovering

LEMMA InvRestore ==
    ASSUME Inv, TypeInv', RestoreFile \/ RestoreDone
    PROVE  Inv'
<1>1. /\ pc = "restore" /\ pc' \in {"restore", "remove"} /\ goal' = goal
      /\ target' = target /\ cp' = cp /\ rmtreeCut' = rmtreeCut
  BY DEF RestoreFile, RestoreDone, history
<1>2. BackupsComplete' /\ NamesOnce'
  BY <1>1, CpSame
<1>3. Adding' /\ GrantRecorded'
  BY <1>1 DEF Adding, GrantRecorded
<1>4. target \in Dir /\ TypeOK /\ idx \in Nat
  BY DirAssumption DEF Inv, TypeInv, TypeOK
<1>5. /\ cp[target].paths \in Seq(File)
      /\ DOMAIN cp[target].paths = 1..Len(cp[target].paths)
      /\ Len(cp[target].paths) \in Nat
      /\ OneName(cp[target].paths)
  BY <1>4, DirType DEF Inv, NamesOnce
<1>6. /\ goal # "none"
      /\ goal \in {"prepare", "recovery", "revert"} => target \in Working
      /\ target = InProgress => cp[Temp] = NoCheckpoint
      /\ \A j \in 1..idx : disk[cp[target].paths[j]] = cp[target].backup[j]
  BY <1>1 DEF Inv, Recovering
<1>7. CASE RestoreFile
  <2>1. /\ pc' = "restore" /\ idx' = idx + 1 /\ idx < Len(cp[target].paths)
        /\ disk' = [disk EXCEPT ![cp[target].paths[idx + 1]] =
                                   cp[target].backup[idx + 1]]
    BY <1>7 DEF RestoreFile
  <2>2. cp[target].paths[idx + 1] \in File /\ disk \in [File -> Content]
    BY <1>4, <1>5, <2>1 DEF TypeOK
  <2>3. \A j \in 1..idx : cp[target].paths[j] # cp[target].paths[idx + 1]
    BY <1>4, <1>5, <2>1 DEF OneName
  <2>4. \A j \in 1..idx' : disk'[cp[target].paths[j]] = cp[target].backup[j]
    <3> SUFFICES ASSUME NEW j \in 1..(idx + 1)
                 PROVE  disk'[cp[target].paths[j]] = cp[target].backup[j]
      BY <2>1
    <3>1. CASE j = idx + 1
      BY <2>1, <2>2, <3>1
    <3>2. CASE j # idx + 1
      <4>1. j \in 1..idx
        BY <1>4, <3>2
      <4>2. cp[target].paths[j] \in File
        BY <1>4, <1>5, <2>1
      <4> QED
        BY <1>6, <2>1, <2>2, <2>3, <4>1, <4>2
    <3> QED
      BY <3>1, <3>2
  <2>5. Recovering'
    BY <1>1, <1>4, <1>5, <1>6, <2>1, <2>4 DEF Recovering
  <2> QED
    BY <1>2, <1>3, <2>5 DEF Inv
<1>8. CASE RestoreDone
  <2>1. /\ pc' = "remove" /\ idx = Len(cp[target].paths) /\ disk' = disk
        /\ todo' = cp[target].new
    BY <1>8 DEF RestoreDone
  <2>2. Recovering'
    BY <1>1, <1>6, <2>1 DEF Recovering
  <2> QED
    BY <1>2, <1>3, <2>2 DEF Inv
<1> QED
  BY <1>7, <1>8

LEMMA InvRemoveNewFile ==
    ASSUME Inv, TypeInv', NEW f \in File, RemoveNewFile(f)
    PROVE  Inv'
<1>1. /\ pc = "remove" /\ pc' = pc /\ goal' = goal /\ f \in todo /\ todo' = todo \ {f}
      /\ disk' = [disk EXCEPT ![f] = Absent]
      /\ target' = target /\ cp' = cp /\ rmtreeCut' = rmtreeCut
  BY DEF RemoveNewFile, history
<1>2. BackupsComplete' /\ NamesOnce'
  BY <1>1, CpSame
<1>3. Adding' /\ GrantRecorded'
  BY <1>1 DEF Adding, GrantRecorded
<1>4. target \in Dir /\ TypeOK /\ disk \in [File -> Content]
  BY DEF Inv, TypeInv, TypeOK
<1>5. /\ goal # "none"
      /\ goal \in {"prepare", "recovery", "revert"} => target \in Working
      /\ target = InProgress => cp[Temp] = NoCheckpoint
      /\ todo \subseteq cp[target].new
      /\ \A g \in cp[target].new \ todo : disk[g] = Absent
      /\ \A j \in 1..Len(cp[target].paths) :
                \/ disk[cp[target].paths[j]] = cp[target].backup[j]
                \/ cp[target].paths[j] \in cp[target].new
  BY <1>1 DEF Inv, Recovering
<1>6. \A g \in File : g # f => disk'[g] = disk[g]
  BY <1>1, <1>4
<1>7. disk'[f] = Absent
  BY <1>1, <1>4
<1>8. cp[target].new \subseteq File
  BY <1>4, DirType
<1>9. \A g \in cp[target].new \ todo' : disk'[g] = Absent
  BY <1>1, <1>5, <1>6, <1>7, <1>8
<1>10. \A j \in 1..Len(cp[target].paths) :
                \/ disk'[cp[target].paths[j]] = cp[target].backup[j]
                \/ cp[target].paths[j] \in cp[target].new
  <2> SUFFICES ASSUME NEW j \in 1..Len(cp[target].paths),
                      cp[target].paths[j] \notin cp[target].new
               PROVE  disk'[cp[target].paths[j]] = cp[target].backup[j]
    OBVIOUS
  <2>1. cp[target].paths[j] \in File /\ cp[target].paths[j] # f
    BY <1>1, <1>4, <1>5, DirType
  <2> QED
    BY <1>5, <1>6, <2>1
<1>11. Recovering'
  BY <1>1, <1>5, <1>9, <1>10 DEF Recovering
<1> QED
  BY <1>2, <1>3, <1>11 DEF Inv

LEMMA InvRemoveCheckpoint ==
    ASSUME Inv, TypeInv', RemoveCheckpoint
    PROVE  Inv'
<1>1. /\ TypeOK /\ target \in Dir /\ rmtreeCut' = rmtreeCut
      /\ cp' = [cp EXCEPT ![target] = NoCheckpoint]
      /\ goal # "none"
  BY DEF RemoveCheckpoint, history, Inv, TypeInv, TypeOK, Recovering
<1>2. \A e \in Dir : cp'[e] \in {cp[e], NoCheckpoint}
  BY <1>1 DEF TypeOK
<1>3. DOMAIN NoCheckpoint.paths = {} /\ Len(NoCheckpoint.paths) = 0
  BY DEF NoCheckpoint
<1>4. BackupsComplete' /\ NamesOnce'
  BY <1>1, <1>2, <1>3 DEF Inv, BackupsComplete, NamesOnce, OneName
<1>5. CASE goal \in {"prepare", "recovery"} /\ target = Temp /\ Undo(goal, InProgress, 0)
  BY <1>1, <1>4, <1>5, UndoStarts, NoneType DEF Inv, TypeOK
<1>6. ASSUME goal = "rollback", NEW s \in Stamp, Undo(goal, s, left - 1)
      PROVE  Inv'
  <2>1. s # InProgress
    BY DirAssumption DEF Stamp
  <2> QED
    BY <1>4, <1>6, <2>1, UndoStarts DEF Inv
<1>7. CASE Return(NoGrant)
  BY <1>4, <1>7, Quiet DEF Inv
<1> QED
  BY <1>5, <1>6, <1>7 DEF RemoveCheckpoint

LEMMA InvRmtreeStops ==
    ASSUME Inv, TypeInv', RmtreeStops
    PROVE  Inv'
<1>1. TypeOK /\ target \in Dir /\ rmtreeCut'
  BY DEF RmtreeStops, Inv, TypeInv, TypeOK
<1>2. \A e \in Dir : cp'[e].paths \in {cp[e].paths, << >>}
  BY <1>1 DEF RmtreeStops, TypeOK, Checkpoint
<1>3. NamesOnce'
  BY <1>2 DEF Inv, NamesOnce, OneName
<1>4. Raise
  BY DEF RmtreeStops
<1> QED
  BY <1>1, <1>3, <1>4, Quiet DEF Inv, BackupsComplete

(* A call that fails, or a process that ends, leaves the directories.      *)
LEMMA InvEnds ==
    ASSUME Inv, TypeInv',
           \/ \E d \in Working, S \in SUBSET File : RefuseAdd(d, S)
           \/ FinalizeFails \/ RestoreFails \/ Exit \/ Crash \/ RecoveryFails
    PROVE  Inv'
<1>1. cp' = cp /\ rmtreeCut' = rmtreeCut /\ (Return(NoGrant) \/ Die \/ Raise)
  BY DEF RefuseAdd, FinalizeFails, RestoreFails, Exit, Crash, RecoveryFails, history
<1> QED
  BY <1>1, CpSame, Quiet DEF Inv

LEMMA InvStep == Inv /\ [Next]_vars => Inv'
<1> SUFFICES ASSUME Inv, [Next]_vars PROVE Inv'
  OBVIOUS
<1>1. TypeInv'
  BY TypeStep DEF Inv
<1>2. CASE UNCHANGED vars
  BY <1>1, <1>2, CpSame
     DEF vars, local, history, Inv, Adding, GrantRecorded, Recovering
<1>3. CASE Next
  BY <1>1, <1>3, InvAddToCheckpoint, InvBackUp, InvAddEnds, InvRegister, InvPlugin,
     InvFinalize, InvRecoverStarts, InvRunUndoCommands, InvRestore, InvRemoveNewFile,
     InvRemoveCheckpoint, InvRmtreeStops, InvEnds
     DEF Next, Plugin, Proceed, Environment
<1> QED
  BY <1>2, <1>3

(* Every name of FILEPATHS has its backup, whatever fails and whenever the *)
(* process dies, as long as no rmtree was cut: recoveries find all they    *)
(* need.                                                                   *)
THEOREM BackupsAlwaysComplete == Spec => []BackupsComplete
<1>1. Inv => BackupsComplete
  BY DEF Inv
<1> QED
  BY InvInit, InvStep, <1>1, PTL DEF Spec


-----------------------------------------------------------------------------
(* What holds also when an rmtree was cut: a recovery that reaches the end *)
(* of FILEPATHS has found every backup, and a rollback begins with no      *)
(* working directory.                                                      *)
Complete(c) == \A i \in DOMAIN c.paths : c.backup[i] # Absent

CutInv ==
    /\ goal = "rollback" => \A d \in Working : cp[d] = NoCheckpoint
    /\ pc = "restore" => \A j \in 1..idx : cp[target].backup[j] # Absent
    /\ pc = "remove" => Complete(cp[target])

LEMMA CutInit == Init => CutInv
BY DEF Init, CutInv

(* The plugin has the floor, or the process is over.                       *)
LEMMA CutRest ==
    ASSUME Inv', pc' \in {"off", "idle", "add"}
    PROVE  CutInv'
<1>1. goal' = "none"
  BY DEF Inv, Recovering
<1> QED
  BY <1>1 DEF CutInv

LEMMA CutUndo ==
    ASSUME NEW g, NEW d, NEW n, Undo(g, d, n),
           g = "rollback" => \A e \in Working : cp'[e] = NoCheckpoint
    PROVE  CutInv'
BY DEF Undo, CutInv

(* The steps of a plugin, up to the calls that recover.                    *)
LEMMA CutPlugin ==
    ASSUME Inv',
           \/ \E d \in Working, S \in (SUBSET File) \ {{}} :
                    AddToCheckpoint(d, S) \/ RefuseAdd(d, S)
           \/ \E d \in Working, f \in File : RegisterFileCreation(d, f)
           \/ \E d \in Working, m \in Module : RegisterUndoCommand(d, m)
           \/ \E f \in File, c \in Data : PluginWrite(f, c)
           \/ \E m \in Module : PluginEnable(m)
           \/ \E clock \in Stamp : FinalizeCheckpoint(clock)
           \/ FinalizeFails
           \/ AddDone \/ \E f \in File : BackUp(f) \/ BackUpFails(f)
    PROVE  CutInv'
<1>1. pc' \in {"idle", "add"}
  BY DEF AddToCheckpoint, RefuseAdd, RegisterFileCreation, RegisterUndoCommand, PluginWrite,
         PluginEnable, FinalizeCheckpoint, FinalizeFails, AddDone, BackUp, BackUpFails, Return,
         local
<1> QED
  BY <1>1, CutRest

LEMMA FinalizeKeepsTemp ==
    ASSUME Inv, NEW clock \in Stamp, FinalizeCheckpoint(clock)
    PROVE  cp'[Temp] = cp[Temp]
<1> DEFINE s == Timestamp(clock)
<1>1. /\ s \in Stamp /\ TypeOK
      /\ cp' = [cp EXCEPT ![s] = cp[InProgress], ![InProgress] = NoCheckpoint]
  BY DEF FinalizeCheckpoint, Inv, TypeInv
<1>2. s # Temp /\ s \in Dir
  BY <1>1, DirAssumption DEF Stamp, Dir
<1> QED
  BY <1>1, <1>2, NoneType, DirAssumption DEF TypeOK

LEMMA CutRecoverStarts ==
    ASSUME Inv, Inv',
           \/ RecoveryRoutine \/ RevertTemporaryConfig \/ Start
           \/ \E n \in 1..MaxStamp : RollbackCheckpoints(n)
    PROVE  CutInv'
<1>1. /\ cp' = cp /\ TypeOK
      /\ \A d \in Working : ~ cp[d].exists => cp[d] = NoCheckpoint
  BY NoneType DEF RecoveryRoutine, RevertTemporaryConfig, Start, RollbackCheckpoints,
                  Inv, TypeInv, TypeOK
<1>2. CASE \E n \in 1..MaxStamp : RollbackCheckpoints(n)
  <2>1. PICK n \in 1..MaxStamp, s \in Stamp : Undo("rollback", s, n)
    BY <1>2 DEF RollbackCheckpoints
  <2>2. \A d \in Working : cp'[d] = NoCheckpoint
    BY <1>1, <1>2, NoneType DEF RollbackCheckpoints, Working
  <2> QED
    BY <2>1, <2>2, CutUndo
<1>3. CASE RecoveryRoutine \/ RevertTemporaryConfig \/ Start
  <2>1. \/ \E g \in {"prepare", "recovery", "revert"}, d \in Working : Undo(g, d, 0)
        \/ Return(NoGrant)
    BY <1>3, NoneType DEF RecoveryRoutine, RevertTemporaryConfig, Start, Recover
  <2>2. CASE Return(NoGrant)
    BY <2>2, CutRest DEF Return
  <2> QED
    BY <2>1, <2>2, CutUndo
<1> QED
  BY <1>2, <1>3

LEMMA CutRecovers ==
    ASSUME Inv, Inv', CutInv,
           \/ \E failing \in SUBSET Module : RunUndoCommands(failing)
           \/ RestoreFile \/ RestoreDone \/ \E f \in File : RemoveNewFile(f)
    PROVE  CutInv'
<1>1. /\ cp' = cp /\ goal' = goal /\ target' = target
      /\ pc \in {"undo", "restore", "remove"} /\ pc' \in {"restore", "remove"}
  BY DEF RunUndoCommands, RestoreFile, RestoreDone, RemoveNewFile, local
<1>2. pc' = "restore" => \A j \in 1..idx' : cp[target].backup[j] # Absent
  <2>1. CASE \E failing \in SUBSET Module : RunUndoCommands(failing)
    <3>1. idx' = 0
      BY <2>1 DEF RunUndoCommands, local, Inv, Recovering
    <3> QED
      BY <3>1
  <2>2. CASE RestoreFile
    <3>1. idx \in Nat /\ idx' = idx + 1 /\ cp[target].backup[idx + 1] # Absent
      BY <2>2, DirAssumption DEF RestoreFile, Inv, TypeInv, TypeOK
    <3>2. \A j \in 1..(idx + 1) : j \in 1..idx \/ j = idx + 1
      BY <3>1
    <3> QED
      BY <2>2, <3>1, <3>2 DEF RestoreFile, CutInv
  <2> QED
    BY <1>1, <2>1, <2>2 DEF RestoreDone, RemoveNewFile
<1>3. pc' = "remove" => Complete(cp[target])
  <2>1. CASE RestoreDone
    <3>1. target \in Dir /\ DOMAIN cp[target].paths = 1..idx
      BY <2>1, DirType DEF RestoreDone, Inv, TypeInv, TypeOK
    <3> QED
      BY <2>1, <3>1 DEF RestoreDone, CutInv, Complete
  <2> QED
    BY <1>1, <2>1 DEF RunUndoCommands, RestoreFile, RemoveNewFile, CutInv
<1> QED
  BY <1>1, <1>2, <1>3 DEF CutInv

LEMMA CutRemove ==
    ASSUME Inv, Inv', CutInv, RemoveCheckpoint PROVE CutInv'
<1>1. /\ TypeOK /\ target \in Dir
      /\ cp' = [cp EXCEPT ![target] = NoCheckpoint]
  BY DEF RemoveCheckpoint, Inv, TypeInv, TypeOK
<1>2. \A d \in Working : cp'[d] = IF d = target THEN NoCheckpoint ELSE cp[d]
  BY <1>1, NoneType DEF TypeOK
<1>3. CASE goal \in {"prepare", "recovery"} /\ Undo(goal, InProgress, 0)
  BY <1>3, CutUndo
<1>4. ASSUME goal = "rollback", NEW s \in Stamp, Undo(goal, s, left - 1) PROVE CutInv'
  BY <1>2, <1>4, CutUndo DEF CutInv
<1>5. CASE Return(NoGrant)
  BY <1>5, CutRest DEF Return
<1> QED
  BY <1>3, <1>4, <1>5 DEF RemoveCheckpoint

LEMMA CutStep == Inv /\ CutInv /\ [Next]_vars => CutInv'
<1> SUFFICES ASSUME Inv, CutInv, [Next]_vars PROVE CutInv'
  OBVIOUS
<1>1. Inv'
  BY InvStep
<1>2. CASE UNCHANGED vars
  BY <1>2 DEF vars, local, CutInv
<1>3. CASE RestoreFails \/ RmtreeStops \/ Exit \/ Crash \/ RecoveryFails
  BY <1>1, <1>3, CutRest DEF RestoreFails, RmtreeStops, Exit, Crash, RecoveryFails, Raise,
                             Return, Die
<1>4. CASE Next
  BY <1>1, <1>3, <1>4, CutPlugin, CutRecoverStarts, CutRecovers, CutRemove
     DEF Next, Plugin, Proceed, Environment
<1> QED
  BY <1>2, <1>4

LEMMA CutInvariant == Spec => [](Inv /\ CutInv)
<1> QED
  BY InvInit, InvStep, CutInit, CutStep, PTL DEF Spec
-----------------------------------------------------------------------------
(* What a recovery leads to.                                               *)

(* The content of file f after a recovery of c that finds v.               *)
After(c, f, v) ==
    IF f \in c.new THEN Absent
    ELSE IF \E i \in DOMAIN c.paths : c.paths[i] = f /\ c.backup[i] # Absent
         THEN c.backup[CHOOSE i \in DOMAIN c.paths :
                           c.paths[i] = f /\ c.backup[i] # Absent]
         ELSE v

LEMMA StableAt ==
    Stable = [f \in File |-> After(cp[InProgress], f, After(cp[Temp], f, disk[f]))]
BY DEF Stable, Permanent, Restored, After

LEMMA AfterNew == ASSUME NEW c, NEW f \in c.new, NEW v PROVE After(c, f, v) = Absent
BY DEF After

LEMMA AfterSaved ==
    ASSUME NEW c, NEW i \in DOMAIN c.paths, c.backup[i] # Absent,
           \A j \in DOMAIN c.paths : c.paths[j] = c.paths[i] => j = i,
           c.paths[i] \notin c.new, NEW v
    PROVE  After(c, c.paths[i], v) = c.backup[i]
<1> DEFINE P(j) == c.paths[j] = c.paths[i] /\ c.backup[j] # Absent
<1>1. \A j \in DOMAIN c.paths : P(j) => j = i
  OBVIOUS
<1>2. P(i)
  OBVIOUS
<1>3. (CHOOSE j \in DOMAIN c.paths : P(j)) = i
  BY <1>1, <1>2
<1> QED
  BY <1>2, <1>3 DEF After

LEMMA AfterOther ==
    ASSUME NEW c, NEW f, f \notin Recorded(c), NEW v PROVE After(c, f, v) = v
BY DEF After, Recorded, Saved

(* A name without its backup says nothing of the file.                     *)
LEMMA AfterLost ==
    ASSUME NEW c, NEW f, f \notin c.new,
           \A i \in DOMAIN c.paths : c.paths[i] = f => c.backup[i] = Absent,
           NEW v
    PROVE  After(c, f, v) = v
BY DEF After

(* A directory decides the content of the files it has a backup of, or     *)
(* registered, whatever is on the disk.                                    *)
LEMMA AfterRestorable ==
    ASSUME NEW c, NEW f,
           f \in c.new \/ \E i \in DOMAIN c.paths : c.paths[i] = f /\ c.backup[i] # Absent,
           NEW v, NEW w
    PROVE  After(c, f, v) = After(c, f, w)
BY DEF After

(* It does so by its files and backups only.                               *)
LEMMA AfterSame ==
    ASSUME NEW c, NEW e, c.paths = e.paths, c.backup = e.backup, c.new = e.new,
           NEW f, NEW v
    PROVE  After(c, f, v) = After(e, f, v)
BY DEF After

LEMMA StableSame ==
    ASSUME \A f \in File : After(cp'[InProgress], f, After(cp'[Temp], f, disk'[f]))
                          = After(cp[InProgress], f, After(cp[Temp], f, disk[f]))
    PROVE  Stable' = Stable
<1>1. Stable' = [f \in File |->
                    After(cp'[InProgress], f, After(cp'[Temp], f, disk'[f]))]
  BY DEF Stable, Permanent, Restored, After
<1> QED
  BY <1>1, StableAt

LEMMA PermanentSame ==
    ASSUME \A f \in File : After(cp'[Temp], f, disk'[f]) = After(cp[Temp], f, disk[f])
    PROVE  Permanent' = Permanent
<1>1. /\ Permanent = [f \in File |-> After(cp[Temp], f, disk[f])]
      /\ Permanent' = [f \in File |-> After(cp'[Temp], f, disk'[f])]
  BY DEF Permanent, Restored, After
<1> QED
  BY <1>1

LEMMA BothSame ==
    ASSUME disk' = disk,
           \A d \in Working : \A f \in File : \A v : After(cp'[d], f, v) = After(cp[d], f, v)
    PROVE  Stable' = Stable /\ Permanent' = Permanent
BY StableSame, PermanentSame, NoneType

(* Writes to files that a directory decides do not move it.                *)
LEMMA StableDisk ==
    ASSUME cp' = cp,
           \A f \in File : \/ disk'[f] = disk[f]
                          \/ \E d \in Working :
                                \A v, w : After(cp[d], f, v) = After(cp[d], f, w)
    PROVE  Stable' = Stable
<1>1. ASSUME NEW f \in File
      PROVE  After(cp[InProgress], f, After(cp[Temp], f, disk'[f]))
           = After(cp[InProgress], f, After(cp[Temp], f, disk[f]))
  <2>1. CASE \A v, w : After(cp[Temp], f, v) = After(cp[Temp], f, w)
    <3>1. After(cp[Temp], f, disk'[f]) = After(cp[Temp], f, disk[f])
      BY <2>1
    <3> QED
      BY <3>1
  <2>2. CASE \A v, w : After(cp[InProgress], f, v) = After(cp[InProgress], f, w)
    BY <2>2
  <2> QED
    BY <2>1, <2>2 DEF Working
<1> QED
  BY <1>1, StableSame

(* Nor does a step that changes no FILEPATHS, backup or NEW_FILES.         *)
LEMMA StableDirs ==
    ASSUME disk' = disk,
           \A d \in Working : /\ cp'[d].paths = cp[d].paths
                             /\ cp'[d].backup = cp[d].backup
                             /\ cp'[d].new = cp[d].new
    PROVE  Stable' = Stable /\ Permanent' = Permanent
<1>1. \A d \in Working : \A f, v : After(cp'[d], f, v) = After(cp[d], f, v)
  BY AfterSame
<1> QED
  BY <1>1, BothSame

LEMMA StableAdd ==
    ASSUME Inv, NEW d \in Working, NEW S, AddToCheckpoint(d, S)
    PROVE  Stable' = Stable /\ Permanent' = Permanent
<1>1. d \in Dir /\ Working \subseteq Dir
  BY NoneType
<1>2. \A e \in Working : /\ cp'[e].paths = cp[e].paths /\ cp'[e].backup = cp[e].backup
                        /\ cp'[e].new = cp[e].new
  BY <1>1 DEF AddToCheckpoint, DirMade, Inv, TypeInv, TypeOK, Checkpoint
<1> QED
  BY <1>2, StableDirs DEF AddToCheckpoint

LEMMA StableBackUp ==
    ASSUME Inv, NEW f \in File, BackUp(f)
    PROVE  Stable' = Stable /\ Permanent' = Permanent
<1>1. pc = "add" /\ target \in Dir /\ disk' = disk /\ TypeOK
  BY DEF BackUp, Inv, TypeInv, TypeOK
<1>2. CASE cp' = cp
  BY <1>1, <1>2, StableDirs
<1>3. CASE cp' # cp
  <2> DEFINE n == Len(lines) + 1
             c == cp[target]
             e == cp'[target]
  <2>1. cp' = [cp EXCEPT ![target].backup[n] = disk[f]]
    BY <1>3 DEF BackUp, NextIndex
  <2>2. /\ e.paths = c.paths /\ e.new = c.new
        /\ \A i \in Index : i # n => e.backup[i] = c.backup[i]
        /\ \A d \in Dir : d # target => cp'[d] = cp[d]
    BY <1>1, <2>1 DEF TypeOK, Checkpoint
  <2>3. \A i \in DOMAIN c.paths : i \in Index /\ i # n
    <3>1. Len(c.paths) <= Len(lines) /\ Len(lines) \in Nat
      BY <1>1 DEF Inv, Adding, TypeOK
    <3> QED
      BY <1>1, <3>1, DirType
  <2>5. \A i, j \in DOMAIN c.paths : c.paths[j] = c.paths[i] => j = i
    BY <1>1, DirType DEF Inv, NamesOnce, OneName
  <2>6. ASSUME NEW g, NEW v PROVE After(e, g, v) = After(c, g, v)
    <3>1. CASE g \in c.new
      BY <2>2, <3>1, AfterNew
    <3>2. CASE g \notin c.new /\ g \in Saved(c)
      <4>1. PICK i \in DOMAIN c.paths : c.paths[i] = g
        BY <3>2 DEF Saved
      <4>2. e.backup[i] = c.backup[i] /\ i \in DOMAIN e.paths /\ e.paths[i] = g
        BY <2>2, <2>3, <4>1
      <4>3. CASE c.backup[i] # Absent
        <5>1. After(c, g, v) = c.backup[i]
          BY <2>5, <3>2, <4>1, <4>3, AfterSaved
        <5>2. After(e, g, v) = e.backup[i]
          <6> HIDE DEF e, c
          <6>1. /\ e.backup[i] # Absent /\ e.paths[i] \notin e.new
                /\ \A j \in DOMAIN e.paths : e.paths[j] = e.paths[i] => j = i
            BY <2>2, <2>5, <3>2, <4>1, <4>2, <4>3
          <6> QED
            BY <4>2, <6>1, AfterSaved
        <5> QED
          BY <4>2, <5>1, <5>2
      <4>4. CASE c.backup[i] = Absent
        <5> HIDE DEF e, c
        <5>1. /\ \A j \in DOMAIN c.paths : c.paths[j] = g => c.backup[j] = Absent
              /\ \A j \in DOMAIN e.paths : e.paths[j] = g => e.backup[j] = Absent
              /\ g \notin e.new
          BY <2>2, <2>5, <3>2, <4>1, <4>2, <4>4
        <5> QED
          BY <3>2, <5>1, AfterLost
      <4> QED
        BY <4>3, <4>4
    <3>3. CASE g \notin Recorded(c)
      <4>1. g \notin Recorded(e)
        BY <2>2, <3>3 DEF Recorded, Saved
      <4> QED
        BY <3>3, <4>1, AfterOther
    <3> QED
      BY <3>1, <3>2, <3>3 DEF Recorded
  <2>7. \A d \in Working : \A g, v : After(cp'[d], g, v) = After(cp[d], g, v)
    BY <2>2, <2>6, NoneType
  <2> QED
    BY <1>1, <2>7, BothSame
<1> QED
  BY <1>2, <1>3

LEMMA StableClosed ==
    ASSUME Inv, pc = "add", cp' = [cp EXCEPT ![target].paths = lines],
           disk' = disk
    PROVE  Stable' = Stable /\ Permanent' = Permanent
<1> DEFINE c == cp[target]
           e == cp'[target]
<1>1. target \in Dir /\ target \in Working /\ TypeOK
  BY DEF Inv, TypeInv, TypeOK, Adding
<1>2. /\ e.paths = lines /\ e.new = c.new /\ e.backup = c.backup
      /\ \A d \in Dir : d # target => cp'[d] = cp[d]
  BY <1>1 DEF TypeOK, Checkpoint
<1>3. /\ DOMAIN lines = 1..Len(lines) /\ Len(lines) \in Nat
      /\ DOMAIN c.paths = 1..Len(c.paths) /\ Len(c.paths) \in Nat
  BY <1>1, DirType DEF TypeOK
<1>4. /\ Len(c.paths) <= Len(lines)
      /\ \A i \in 1..Len(c.paths) : lines[i] = c.paths[i]
      /\ \A i, j \in 1..Len(lines) : lines[j] = lines[i] => j = i
      /\ \A i \in 1..Len(lines) : i > Len(c.paths) =>
            /\ c.backup[i] = disk[lines[i]] /\ c.backup[i] # Absent
            /\ target = InProgress => lines[i] \notin Recorded(cp[Temp])
  BY DEF Inv, Adding, OneName
<1>7. ASSUME NEW g \in File, NEW v,
             \A i \in 1..Len(lines) : i > Len(c.paths) /\ lines[i] = g => v = disk[g]
      PROVE  After(e, g, v) = After(c, g, v)
  <2>1. CASE g \in c.new
    <3>1. g \in e.new
      BY <1>2, <2>1
    <3> HIDE DEF c, e
    <3> QED
      BY <2>1, <3>1, AfterNew
  <2>2. CASE g \notin c.new /\ \E i \in 1..Len(lines) : lines[i] = g
    <3>1. PICK i \in 1..Len(lines) : lines[i] = g
      BY <2>2
    <3>2. CASE c.backup[i] = Absent
      <4> HIDE DEF e, c
      <4>1. /\ \A j \in DOMAIN e.paths : e.paths[j] = g => e.backup[j] = Absent
            /\ g \notin e.new
        BY <1>2, <1>3, <1>4, <2>2, <3>1, <3>2
      <4>2. \A j \in DOMAIN c.paths : c.paths[j] = g => c.backup[j] = Absent
        BY <1>3, <1>4, <3>1, <3>2
      <4> QED
        BY <2>2, <4>1, <4>2, AfterLost
    <3>3. ASSUME c.backup[i] # Absent PROVE After(e, g, v) = c.backup[i]
      <4> HIDE DEF e, c
      <4>1. /\ i \in DOMAIN e.paths /\ e.backup[i] # Absent /\ e.paths[i] = g
            /\ \A j \in DOMAIN e.paths : e.paths[j] = e.paths[i] => j = i
            /\ e.paths[i] \notin e.new
        BY <1>2, <1>3, <1>4, <2>2, <3>1, <3>3
      <4>2. After(e, g, v) = e.backup[i]
        BY <4>1, AfterSaved
      <4> QED
        BY <1>2, <4>2
    <3>4. CASE c.backup[i] # Absent /\ i <= Len(c.paths)
      <4> HIDE DEF c
      <4>1. /\ i \in DOMAIN c.paths /\ c.backup[i] # Absent /\ c.paths[i] = g
            /\ \A j \in DOMAIN c.paths : c.paths[j] = c.paths[i] => j = i
            /\ c.paths[i] \notin c.new
        BY <1>3, <1>4, <2>2, <3>1, <3>4
      <4>2. After(e, g, v) = c.backup[i]
        BY <3>3, <3>4
      <4> QED
        BY <4>1, <4>2, AfterSaved
    <3>5. CASE c.backup[i] # Absent /\ i > Len(c.paths)
      <4>1. g \notin Recorded(c)
        BY <1>3, <1>4, <2>2, <3>1, <3>5 DEF Recorded, Saved
      <4>2. v = c.backup[i]
        BY <1>4, <1>7, <3>1, <3>5
      <4> QED
        BY <3>3, <3>5, <4>1, <4>2, AfterOther
    <3> QED
      BY <1>3, <3>2, <3>4, <3>5
  <2>3. CASE g \notin c.new /\ ~ \E i \in 1..Len(lines) : lines[i] = g
    <3>1. g \notin Recorded(e)
      BY <1>2, <1>3, <2>3 DEF Recorded, Saved
    <3>2. g \notin Recorded(c)
      <4> HIDE DEF c
      <4> QED
        BY <1>3, <1>4, <2>3 DEF Recorded, Saved
    <3> QED
      BY <3>1, <3>2, AfterOther
  <2> QED
    BY <2>1, <2>2, <2>3
<1>8. ASSUME NEW g \in File
      PROVE  After(cp'[InProgress], g, After(cp'[Temp], g, disk'[g]))
           = After(cp[InProgress], g, After(cp[Temp], g, disk[g]))
  <2>1. CASE target = Temp
    <3>1. After(e, g, disk[g]) = After(c, g, disk[g])
      BY <1>7
    <3> QED
      BY <1>2, <2>1, <3>1, NoneType, DirAssumption
  <2>2. CASE target = InProgress
    <3>1. \A i \in 1..Len(lines) : i > Len(c.paths) /\ lines[i] = g =>
              After(cp[Temp], g, disk[g]) = disk[g]
      BY <1>4, <2>2, AfterOther
    <3>2. After(e, g, After(cp[Temp], g, disk[g])) = After(c, g, After(cp[Temp], g, disk[g]))
      BY <1>7, <3>1
    <3> QED
      BY <1>2, <2>2, <3>2, NoneType, DirAssumption
  <2> QED
    BY <1>1, <2>1, <2>2 DEF Working
<1>9. \A g \in File : After(cp'[Temp], g, disk'[g]) = After(cp[Temp], g, disk[g])
  <2>1. CASE target = Temp
    BY <1>7, <2>1
  <2>2. CASE target # Temp
    BY <1>2, <2>2, NoneType
  <2> QED
    BY <2>1, <2>2
<1> QED
  BY <1>8, <1>9, StableSame, PermanentSame

(* The file registered does not exist and no directory records it, or it   *)
(* was registered before.                                                  *)
LEMMA StableRegister ==
    ASSUME Inv, NEW d \in Working, NEW f \in File, RegisterFileCreation(d, f)
    PROVE  Stable' = Stable /\ Permanent' = Permanent
<1> DEFINE c == cp[d]
           e == cp'[d]
<1>1. /\ d \in Dir /\ d \in Working /\ TypeOK /\ disk' = disk
      /\ disk[f] = Absent \/ f \in c.new
      /\ d = InProgress => f \notin Recorded(cp[Temp])
      /\ f \notin Saved(c)
  BY NoneType DEF RegisterFileCreation, Inv, TypeInv
<1>2. /\ e.paths = c.paths /\ e.backup = c.backup /\ e.new = c.new \cup {f}
      /\ \A x \in Dir : x # d => cp'[x] = cp[x]
  BY <1>1 DEF RegisterFileCreation, TypeOK, Checkpoint
<1>3. ASSUME NEW g, NEW v, g = f => v = Absent \/ f \in c.new
      PROVE  After(e, g, v) = After(c, g, v)
  <2>1. CASE g = f /\ f \in c.new
    BY <1>2, <2>1, AfterNew
  <2>2. CASE g = f /\ f \notin c.new
    <3>1. After(e, g, v) = Absent
      BY <1>2, <2>2, AfterNew
    <3>2. After(c, g, v) = v
      <4> HIDE DEF c, e
      <4> QED
        BY <1>1, <2>2, AfterOther DEF Recorded
    <3> QED
      BY <1>3, <2>2, <3>1, <3>2
  <2>3. CASE g # f
    BY <1>2, <2>3 DEF After
  <2> QED
    BY <2>1, <2>2, <2>3
<1>4. ASSUME NEW g \in File
      PROVE  After(cp'[InProgress], g, After(cp'[Temp], g, disk'[g]))
           = After(cp[InProgress], g, After(cp[Temp], g, disk[g]))
  <2>1. CASE d = Temp
    <3>1. After(e, g, disk[g]) = After(c, g, disk[g])
      BY <1>1, <1>3
    <3> QED
      BY <1>1, <1>2, <2>1, <3>1, NoneType, DirAssumption
  <2>2. CASE d = InProgress
    <3>1. g = f => After(cp[Temp], g, disk[g]) = disk[g]
      BY <1>1, <2>2, AfterOther
    <3>2. After(e, g, After(cp[Temp], g, disk[g])) = After(c, g, After(cp[Temp], g, disk[g]))
      BY <1>1, <1>3, <3>1
    <3> QED
      BY <1>1, <1>2, <2>2, <3>2, NoneType, DirAssumption
  <2> QED
    BY <1>1, <2>1, <2>2 DEF Working
<1>5. \A g \in File : After(cp'[Temp], g, disk'[g]) = After(cp[Temp], g, disk[g])
  <2>1. CASE d = Temp
    BY <1>1, <1>3, <2>1
  <2>2. CASE d # Temp
    BY <1>1, <1>2, <2>2, NoneType
  <2> QED
    BY <2>1, <2>2
<1> QED
  BY <1>4, <1>5, StableSame, PermanentSame

LEMMA StableUndoCommand ==
    ASSUME Inv, NEW d \in Working, NEW m \in Module, RegisterUndoCommand(d, m)
    PROVE  Stable' = Stable /\ Permanent' = Permanent
<1>1. d \in Dir /\ Working \subseteq Dir
  BY NoneType
<1>2. \A e \in Working : /\ cp'[e].paths = cp[e].paths /\ cp'[e].backup = cp[e].backup
                        /\ cp'[e].new = cp[e].new
  BY <1>1 DEF RegisterUndoCommand, Inv, TypeInv, TypeOK, Checkpoint
<1> QED
  BY <1>2, StableDirs DEF RegisterUndoCommand

(* A write moves it only where the backup of the file was lost, and then   *)
(* that file only.                                                         *)
LEMMA StableWrite ==
    ASSUME Inv, NEW f \in File, NEW c \in Data, PluginWrite(f, c)
    PROVE  /\ ~ Unbacked(granted.dir, f) =>
                 Stable' = Stable /\ (granted.dir = Temp => Permanent' = Permanent)
           /\ \A g \in File : g # f => Stable'[g] = Stable[g]
<1>1. /\ granted.dir \in Working /\ f \in Recorded(cp[granted.dir])
      /\ cp' = cp /\ \A g \in File : disk'[g] = disk[g] \/ g = f
  BY DEF PluginWrite, Inv, GrantRecorded, TypeInv, TypeOK
<1>2. ASSUME ~ Unbacked(granted.dir, f)
      PROVE  \A v, w : After(cp[granted.dir], f, v) = After(cp[granted.dir], f, w)
  <2> DEFINE e == cp[granted.dir]
  <2>1. f \in e.new \/ \E i \in DOMAIN e.paths : e.paths[i] = f /\ e.backup[i] # Absent
    BY <1>1, <1>2 DEF Unbacked, Recorded, Saved
  <2> HIDE DEF e
  <2>2. \A v, w : After(e, f, v) = After(e, f, w)
    BY <2>1, AfterRestorable
  <2> QED
    BY <2>2 DEF e
<1>3. ASSUME ~ Unbacked(granted.dir, f) PROVE Stable' = Stable
  BY <1>1, <1>2, <1>3, StableDisk
<1>4. ASSUME ~ Unbacked(granted.dir, f), granted.dir = Temp PROVE Permanent' = Permanent
  <2>1. \A g \in File : After(cp'[Temp], g, disk'[g]) = After(cp[Temp], g, disk[g])
    BY <1>1, <1>2, <1>4
  <2> QED
    BY <2>1, PermanentSame
<1>5. ASSUME NEW g \in File, g # f PROVE Stable'[g] = Stable[g]
  <2>1. Stable'[g] = After(cp'[InProgress], g, After(cp'[Temp], g, disk'[g]))
    BY DEF Stable, Permanent, Restored, After
  <2>2. Stable[g] = After(cp[InProgress], g, After(cp[Temp], g, disk[g]))
    BY StableAt
  <2>3. disk'[g] = disk[g]
    BY <1>1, <1>5
  <2> QED
    BY <1>1, <2>1, <2>2, <2>3
<1> QED
  BY <1>3, <1>4, <1>5

(* The files that a recovery writes are those it restores.                 *)
LEMMA Overwrites ==
    ASSUME Inv, RestoreFile \/ (\E f \in File : RemoveNewFile(f)) \/ Crash \/ RecoveryFails
    PROVE  \A g \in File : \/ disk'[g] = disk[g]
                           \/ \A v, w : After(cp[target], g, v) = After(cp[target], g, w)
<1> DEFINE c == cp[target]
<1>1. TypeOK /\ target \in Dir
  BY DEF Inv, TypeInv, TypeOK
<1>2. \A g \in File : \/ disk'[g] = disk[g]
                      \/ g \in c.new
                      \/ \E i \in DOMAIN c.paths : c.paths[i] = g /\ c.backup[i] # Absent
  <2>1. CASE \/ RestoreFile
             \/ (Crash \/ RecoveryFails) /\ disk' # disk
    <3>1. PICK v : /\ disk' = [disk EXCEPT ![c.paths[idx + 1]] = v]
                   /\ idx < Len(c.paths) /\ c.backup[idx + 1] # Absent
      BY <2>1 DEF RestoreFile, Crash, RecoveryFails, HalfRestored
    <3>2. idx + 1 \in DOMAIN c.paths
      BY <1>1, <3>1, DirType DEF TypeOK
    <3> QED
      BY <1>1, <3>1, <3>2 DEF TypeOK
  <2>2. CASE \E f \in File : RemoveNewFile(f)
    BY <1>1, <2>2 DEF RemoveNewFile, Inv, Recovering, TypeOK
  <2>3. CASE disk' = disk
    BY <2>3
  <2> QED
    BY <2>1, <2>2, <2>3
<1> HIDE DEF c
<1>3. \A g \in File : \/ disk'[g] = disk[g]
                      \/ \A v, w : After(c, g, v) = After(c, g, w)
  BY <1>2, AfterRestorable
<1> QED
  BY <1>3 DEF c

LEMMA StableRecovers ==
    ASSUME Inv, target \in Working,
           RestoreFile \/ (\E f \in File : RemoveNewFile(f)) \/ Crash \/ RecoveryFails
    PROVE  Stable' = Stable /\ (target = Temp => Permanent' = Permanent)
<1> DEFINE c == cp[target]
<1>1. cp' = cp /\ TypeOK /\ target \in Dir
  BY DEF RestoreFile, RemoveNewFile, Crash, RecoveryFails, Inv, TypeInv, TypeOK
<1>3. \A g \in File : After(c, g, disk'[g]) = After(c, g, disk[g])
  BY Overwrites
<1>4. CASE target = Temp
  <2>1. \A g \in File : After(cp'[Temp], g, disk'[g]) = After(cp[Temp], g, disk[g])
    BY <1>1, <1>3, <1>4
  <2> QED
    BY <1>1, <2>1, StableSame, PermanentSame
<1>5. CASE target = InProgress
  <2>1. cp[Temp] = NoCheckpoint \/ disk' = disk
    BY <1>5 DEF RestoreFile, RemoveNewFile, Crash, RecoveryFails, HalfRestored, Inv, Recovering
  <2>2. \A g, v : After(NoCheckpoint, g, v) = v
    BY DEF After, NoCheckpoint
  <2>3. CASE disk' = disk
    BY <1>1, <2>3, BothSame
  <2>4. CASE cp[Temp] = NoCheckpoint
    BY <1>1, <1>3, <1>5, <2>2, <2>4, StableSame, DirAssumption
  <2> QED
    BY <1>5, <2>1, <2>3, <2>4, DirAssumption
<1> QED
  BY <1>4, <1>5 DEF Working

(* When the directory is about to go, the disk is what it leads to.        *)
LEMMA RecoveredDisk ==
    ASSUME Inv, CutInv, pc = "remove", todo = {}
    PROVE  /\ \A g \in File : After(cp[target], g, disk[g]) = disk[g]
           /\ \A g \in cp[target].new : disk[g] = Absent
           /\ \A i \in DOMAIN cp[target].paths :
                 /\ cp[target].backup[i] # Absent
                 /\ \A j \in DOMAIN cp[target].paths :
                       cp[target].paths[j] = cp[target].paths[i] => j = i
                 /\ \/ disk[cp[target].paths[i]] = cp[target].backup[i]
                    \/ cp[target].paths[i] \in cp[target].new
<1> DEFINE c == cp[target]
<1>1. TypeOK /\ target \in Dir
  BY DEF Inv, TypeInv, TypeOK
<1>2. \A i \in DOMAIN c.paths : /\ c.backup[i] # Absent
                                /\ \A j \in DOMAIN c.paths : c.paths[j] = c.paths[i] => j = i
                                /\ \/ disk[c.paths[i]] = c.backup[i]
                                   \/ c.paths[i] \in c.new
  BY <1>1, DirType DEF Inv, NamesOnce, OneName, Recovering, CutInv, Complete
<1>3. \A g \in c.new : disk[g] = Absent
  BY DEF Inv, Recovering
<1>4. ASSUME NEW g \in File PROVE After(c, g, disk[g]) = disk[g]
  <2> HIDE DEF c
  <2>1. CASE g \in c.new
    BY <1>3, <2>1, AfterNew
  <2>2. CASE g \notin c.new /\ g \in Saved(c)
    <3>1. PICK i \in DOMAIN c.paths : c.paths[i] = g
      BY <2>2 DEF Saved
    <3>2. After(c, c.paths[i], disk[g]) = c.backup[i]
      BY <1>2, <2>2, <3>1, AfterSaved
    <3> QED
      BY <1>2, <2>2, <3>1, <3>2
  <2>3. CASE g \notin Recorded(c)
    BY <2>3, AfterOther
  <2> QED
    BY <2>1, <2>2, <2>3 DEF Recorded
<1> QED
  BY <1>2, <1>3, <1>4

LEMMA StableRemove ==
    ASSUME Inv, CutInv, target \in Working, RemoveCheckpoint
    PROVE  Stable' = Stable /\ Permanent' = Permanent
<1> DEFINE c == cp[target]
<1>1. /\ pc = "remove" /\ todo = {} /\ disk' = disk /\ TypeOK /\ target \in Dir
      /\ cp' = [cp EXCEPT ![target] = NoCheckpoint]
  BY DEF RemoveCheckpoint, Inv, TypeInv, TypeOK
<1>2. target = InProgress => cp[Temp] = NoCheckpoint
  BY <1>1 DEF Inv, Recovering
<1>3. \A g \in File : After(c, g, disk[g]) = disk[g]
  BY <1>1, RecoveredDisk
<1>4. \A g, v : After(NoCheckpoint, g, v) = v
  BY DEF After, NoCheckpoint
<1>5. cp'[target] = NoCheckpoint /\ \A d \in Dir : d # target => cp'[d] = cp[d]
  BY <1>1 DEF TypeOK
<1>6. \A g \in File : /\ After(cp'[InProgress], g, After(cp'[Temp], g, disk'[g]))
                           = After(cp[InProgress], g, After(cp[Temp], g, disk[g]))
                      /\ After(cp'[Temp], g, disk'[g]) = After(cp[Temp], g, disk[g])
  <2> HIDE DEF c
  <2>1. CASE target = Temp
    BY <1>1, <1>3, <1>4, <1>5, <2>1, NoneType, DirAssumption DEF c
  <2>2. CASE target = InProgress
    BY <1>1, <1>2, <1>3, <1>4, <1>5, <2>2, NoneType, DirAssumption DEF c
  <2> QED
    BY <2>1, <2>2 DEF Working
<1> QED
  BY <1>6, StableSame, PermanentSame

(* An rmtree that stops leaves the files that FILEPATHS and NEW_FILES are  *)
(* about as they were restored: what is left of the directory can at worst *)
(* bring back a file that would have been removed.                         *)
LEMMA RmtreeLeaves ==
    ASSUME Inv, CutInv, RmtreeStops
    PROVE  \A f \in File : Stable[f] # Absent => Stable'[f] = Stable[f]
<1> DEFINE c == cp[target]
           e == cp'[target]
<1>1. pc = "remove" /\ todo = {} /\ disk' = disk /\ TypeOK /\ target \in Dir
  BY DEF RmtreeStops, Inv, TypeInv, TypeOK
<1>2. /\ e.paths \in {<< >>, c.paths} /\ e.new \subseteq c.new
      /\ \A i \in Index : e.backup[i] \in {c.backup[i], Absent}
      /\ \A d \in Dir : d # target => cp'[d] = cp[d]
  BY <1>1 DEF RmtreeStops, TypeOK, Checkpoint
<1>3. /\ \A g \in File : After(c, g, disk[g]) = disk[g]
      /\ \A g \in c.new : disk[g] = Absent
      /\ \A i \in DOMAIN c.paths : disk[c.paths[i]] = c.backup[i] \/ c.paths[i] \in c.new
  BY <1>1, RecoveredDisk
<1>4. DOMAIN c.paths \subseteq Index
  BY <1>1, DirType
<1>5. ASSUME NEW g \in File, g \notin c.new PROVE After(e, g, disk[g]) = disk[g]
  <2>1. \A i \in DOMAIN e.paths :
           e.paths[i] = g /\ e.backup[i] # Absent => e.backup[i] = disk[g]
    <3> HIDE DEF c, e
    <3>1. \A i \in DOMAIN e.paths : i \in DOMAIN c.paths /\ c.paths[i] = e.paths[i]
      BY <1>2
    <3> QED
      BY <1>2, <1>3, <1>4, <1>5, <3>1
  <2>2. g \notin e.new
    BY <1>2, <1>5
  <2> HIDE DEF c, e
  <2> QED
    BY <2>1, <2>2 DEF After
<1>6. ASSUME NEW g \in File, g \in c.new
      PROVE  After(c, g, disk[g]) = Absent
  BY <1>6, AfterNew
<1>7. \A g \in File : Stable[g] = After(cp[InProgress], g, After(cp[Temp], g, disk[g]))
  BY StableAt
<1>8. \A g \in File : Stable'[g] = After(cp'[InProgress], g, After(cp'[Temp], g, disk'[g]))
  BY DEF Stable, Permanent, Restored, After
<1>9. CASE target \notin Working
  <2>1. cp'[Temp] = cp[Temp] /\ cp'[InProgress] = cp[InProgress]
    BY <1>2, <1>9, NoneType
  <2> QED
    BY <1>1, <1>7, <1>8, <2>1
<1>10. CASE target = Temp
  <2>1. cp'[InProgress] = cp[InProgress]
    BY <1>2, <1>10, NoneType, DirAssumption
  <2> SUFFICES ASSUME NEW g \in File, Stable[g] # Absent PROVE Stable'[g] = Stable[g]
    OBVIOUS
  <2>2. CASE g \notin c.new
    BY <1>1, <1>3, <1>5, <1>7, <1>8, <1>10, <2>1, <2>2
  <2>3. CASE g \in c.new
    <3>1. After(cp[InProgress], g, Absent) # Absent
      BY <1>6, <1>7, <1>10, <2>3
    <3>2. \A v, w : After(cp[InProgress], g, v) = After(cp[InProgress], g, w)
      BY <3>1 DEF After
    <3> QED
      BY <1>7, <1>8, <2>1, <3>2
  <2> QED
    BY <2>2, <2>3
<1>11. CASE target = InProgress
  <2>1. cp[Temp] = NoCheckpoint /\ cp'[Temp] = cp[Temp]
    BY <1>1, <1>2, <1>11, NoneType, DirAssumption DEF Inv, Recovering
  <2>2. \A g, v : After(NoCheckpoint, g, v) = v
    BY DEF After, NoCheckpoint
  <2> SUFFICES ASSUME NEW g \in File, Stable[g] # Absent PROVE Stable'[g] = Stable[g]
    OBVIOUS
  <2>3. g \notin c.new
    BY <1>6, <1>7, <1>11, <2>1, <2>2
  <2> QED
    BY <1>1, <1>3, <1>5, <1>7, <1>8, <1>11, <2>1, <2>2, <2>3
<1> QED
  BY <1>9, <1>10, <1>11 DEF Working

(* The finalization that succeeds ends IN_PROGRESS.                        *)
LEMMA FinalizeEnds ==
    ASSUME Inv, NEW clock \in Stamp, FinalizeCheckpoint(clock)
    PROVE  Finalizing /\ Permanent' = Permanent
<1>1. cp'[InProgress] = NoCheckpoint
  BY NoneType DEF FinalizeCheckpoint, Inv, TypeInv, TypeOK
<1>2. cp'[Temp] = cp[Temp] /\ disk' = disk
  BY FinalizeKeepsTemp DEF FinalizeCheckpoint
<1>3. Permanent' = Permanent
  BY <1>2, PermanentSame
<1> QED
  BY <1>1, <1>3, NoneType DEF FinalizeCheckpoint, Finalizing

(* The write that OriginalsKept excepts.                                   *)
Loses(f) == pc = "idle" /\ f \in granted.files /\ Unbacked(granted.dir, f)

(* What each step does to both: only writes of the plugin, recoveries and  *)
(* finalizations move either.                                              *)
LEMMA StepMoves ==
    ASSUME Inv, CutInv, Next, ~ RmtreeStops
    PROVE  /\ \/ Stable' = Stable \/ Finalizing \/ goal = "rollback"
              \/ rmtreeCut' /\ \A f \in File : Stable'[f] = Stable[f] \/ Loses(f)
           /\ \/ Permanent' = Permanent \/ rmtreeCut'
              \/ pc = "idle" /\ granted.dir # Temp
              \/ pc # "idle" /\ target # Temp
<1>1. ASSUME NEW d \in Working, NEW S \in SUBSET File,
             AddToCheckpoint(d, S) \/ RefuseAdd(d, S)
      PROVE  Stable' = Stable /\ Permanent' = Permanent
  <2>1. CASE AddToCheckpoint(d, S)
    BY <2>1, StableAdd
  <2>2. CASE RefuseAdd(d, S)
    BY <2>2, StableDirs DEF RefuseAdd
  <2> QED
    BY <1>1, <2>1, <2>2
<1>2. CASE \E f \in File : BackUp(f)
  BY <1>2, StableBackUp
<1>3. CASE AddDone \/ \E f \in File : BackUpFails(f)
  BY <1>3, StableClosed DEF AddDone, BackUpFails
<1>4. CASE \E d \in Working, f \in File : RegisterFileCreation(d, f)
  BY <1>4, StableRegister
<1>5. CASE \E d \in Working, m \in Module : RegisterUndoCommand(d, m)
  BY <1>5, StableUndoCommand
<1>6. CASE \E f \in File, c \in Data : PluginWrite(f, c)
  <2>1. PICK f \in File, c \in Data : PluginWrite(f, c)
    BY <1>6
  <2>2. pc = "idle" /\ f \in granted.files /\ rmtreeCut' = rmtreeCut
    BY <2>1 DEF PluginWrite, history
  <2>3. CASE ~ Unbacked(granted.dir, f)
    BY <2>1, <2>2, <2>3, StableWrite
  <2>4. CASE Unbacked(granted.dir, f)
    <3>1. rmtreeCut
      BY <2>4, NoneType DEF Unbacked, Inv, BackupsComplete, TypeInv, TypeOK
    <3> QED
      BY <2>1, <2>2, <2>4, <3>1, StableWrite DEF Loses
  <2> QED
    BY <2>3, <2>4
<1>7. CASE \E clock \in Stamp : FinalizeCheckpoint(clock)
  BY <1>7, FinalizeEnds
<1>8. CASE \/ Start \/ RecoveryRoutine \/ RevertTemporaryConfig
           \/ \E n \in 1..MaxStamp : RollbackCheckpoints(n)
           \/ \E m \in Module : PluginEnable(m)
           \/ FinalizeFails \/ RestoreFails \/ RestoreDone \/ Exit
           \/ \E failing \in SUBSET Module : RunUndoCommands(failing)
  <2>1. cp' = cp /\ disk' = disk
    BY <1>8 DEF Start, RecoveryRoutine, RevertTemporaryConfig, RollbackCheckpoints,
                PluginEnable, FinalizeFails, RestoreFails, RestoreDone, Exit,
                RunUndoCommands
  <2> QED
    BY <2>1, StableDirs
<1>9. CASE RestoreFile \/ (\E f \in File : RemoveNewFile(f)) \/ Crash \/ RecoveryFails
  <2>1. CASE target \in Working
    <3>1. Stable' = Stable /\ (target = Temp => Permanent' = Permanent)
      BY <1>9, <2>1, StableRecovers
    <3>2. pc = "idle" => cp' = cp /\ disk' = disk
      BY <1>9 DEF RestoreFile, RemoveNewFile, Crash, RecoveryFails, HalfRestored
    <3> QED
      BY <3>1, <3>2, StableDirs
  <2>2. CASE target \notin Working
    <3>1. target # Temp /\ (goal = "rollback" \/ pc \in {"off", "idle", "add"})
      BY <2>2, NoneType DEF Inv, Recovering, TypeInv, TypeOK
    <3>2. pc \in {"off", "idle", "add"} => cp' = cp /\ disk' = disk
      BY <1>9 DEF RestoreFile, RemoveNewFile, Crash, RecoveryFails, HalfRestored
    <3> QED
      BY <3>1, <3>2, StableDirs
  <2> QED
    BY <2>1, <2>2
<1>10. CASE RemoveCheckpoint
  <2>1. CASE target \in Working
    BY <1>10, <2>1, StableRemove
  <2>2. CASE target \notin Working
    BY <1>10, <2>2, NoneType DEF RemoveCheckpoint, Inv, Recovering, TypeInv, TypeOK
  <2> QED
    BY <2>1, <2>2
<1> QED
  BY <1>1, <1>2, <1>3, <1>4, <1>5, <1>6, <1>7, <1>8, <1>9, <1>10
     DEF Next, Plugin, Proceed, Environment

(* What a recovery leads to is moved by finalizations and rollbacks only:  *)
(* the user gets back the configuration of before the changes, wherever    *)
(* the program died, if no rmtree was cut.                                 *)
THEOREM StableIsKept == Spec => StableKept
<1>1. Inv /\ CutInv /\ [Next]_vars
      => [\/ Stable' = Stable \/ Finalizing \/ goal = "rollback" \/ rmtreeCut']_vars
  <2> SUFFICES ASSUME Inv, CutInv, Next
               PROVE  Stable' = Stable \/ Finalizing \/ goal = "rollback" \/ rmtreeCut'
    OBVIOUS
  <2> QED
    BY StepMoves DEF RmtreeStops
<1> QED
  BY <1>1, CutInvariant, PTL DEF Spec, StableKept

(* And if one was cut, still every file that a recovery gives back to the  *)
(* user, while processes go on or die: a stop of rmtree loses at most what *)
(* would have removed a file, until a process that goes on writes the file *)
(* whose name it kept and whose backup it lost (_recover_checkpoint,       *)
(* _add_to_checkpoint_dir).                                                *)
THEOREM OriginalsAreKept == Spec => OriginalsKept
<1> DEFINE Kept == \A f \in File :
                      \/ Stable[f] # Absent => Stable'[f] = Stable[f]
                      \/ pc = "idle" /\ f \in granted.files /\ Unbacked(granted.dir, f)
<1>1. Inv /\ CutInv /\ [Next]_vars => [Kept \/ Finalizing \/ goal = "rollback"]_vars
  <2> SUFFICES ASSUME Inv, CutInv, Next
               PROVE  Kept \/ Finalizing \/ goal = "rollback"
    OBVIOUS
  <2>1. CASE RmtreeStops
    BY <2>1, RmtreeLeaves
  <2>2. CASE ~ RmtreeStops
    BY <2>2, StepMoves DEF Loses
  <2> QED
    BY <2>1, <2>2
<1> QED
  BY <1>1, CutInvariant, PTL DEF Spec, OriginalsKept

-----------------------------------------------------------------------------
(* Temporary and permanent changes.  What the plugin may write of the      *)
(* latter is recorded nowhere in TEMP, where add_to_checkpoint looks.      *)
GrantApart == granted.dir = InProgress => granted.files \cap Recorded(cp[Temp]) = {}

LEMMA GrantApartInit == Init => GrantApart
BY DirAssumption DEF Init, GrantApart, NoGrant

LEMMA GrantApartStep == Inv /\ GrantApart /\ [Next]_vars => GrantApart'
<1> SUFFICES ASSUME Inv, GrantApart, [Next]_vars PROVE GrantApart'
  OBVIOUS
<1>1. ASSUME granted' = NoGrant PROVE GrantApart'
  BY <1>1, DirAssumption DEF GrantApart, NoGrant
<1>2. ASSUME granted' = granted, granted.dir = InProgress => cp'[Temp] = cp[Temp]
      PROVE  GrantApart'
  BY <1>2 DEF GrantApart
<1>3. TypeOK
  BY DEF Inv, TypeInv
<1>4. ASSUME NEW d \in Working, NEW S \in (SUBSET File) \ {{}}, AddToCheckpoint(d, S)
      PROVE  GrantApart'
  <2>1. CASE d = InProgress
    <3>1. cp'[Temp] = cp[Temp] /\ granted'.files = S
      BY <1>3, <1>4, <2>1, NoneType, DirAssumption DEF AddToCheckpoint, DirMade, TypeOK
    <3>2. S \cap Recorded(cp[Temp]) = {}
      BY <1>4, <2>1 DEF AddToCheckpoint, Protected
    <3> QED
      BY <3>1, <3>2 DEF GrantApart
  <2>2. CASE d # InProgress
    BY <1>4, <2>2 DEF AddToCheckpoint, GrantApart
  <2> QED
    BY <2>1, <2>2
<1>5. ASSUME NEW d \in Working, NEW f \in File, RegisterFileCreation(d, f)
      PROVE  GrantApart'
  <2>1. granted' = [dir |-> d, files |-> {f}]
    BY <1>5 DEF RegisterFileCreation, Return
  <2>2. CASE d = InProgress
    <3>1. cp'[Temp] = cp[Temp] /\ f \notin Recorded(cp[Temp])
      BY <1>3, <1>5, <2>2, NoneType, DirAssumption DEF RegisterFileCreation, TypeOK
    <3> QED
      BY <2>1, <3>1 DEF GrantApart
  <2>3. CASE d # InProgress
    BY <2>1, <2>3 DEF GrantApart
  <2> QED
    BY <2>2, <2>3
<1>6. ASSUME NEW f \in File, BackUp(f) PROVE GrantApart'
  <2>1. target = granted.dir /\ target \in Dir /\ granted' = granted
    BY <1>3, <1>6 DEF BackUp, Inv, Adding, TypeOK
  <2>2. granted.dir = InProgress => cp'[Temp] = cp[Temp]
    BY <1>3, <1>6, <2>1, NoneType, DirAssumption DEF BackUp, TypeOK
  <2> QED
    BY <1>2, <2>1, <2>2
<1>7. CASE AddDone
  <2>1. target = granted.dir /\ target \in Dir /\ granted' = granted
    BY <1>3, <1>7 DEF AddDone, Return, Inv, Adding, TypeOK
  <2>2. granted.dir = InProgress => cp'[Temp] = cp[Temp]
    BY <1>3, <1>7, <2>1, NoneType, DirAssumption DEF AddDone, TypeOK
  <2> QED
    BY <1>2, <2>1, <2>2
<1>8. CASE \/ \E d \in Working, S \in (SUBSET File) \ {{}} : RefuseAdd(d, S)
           \/ \E d \in Working, m \in Module : RegisterUndoCommand(d, m)
           \/ \E clock \in Stamp : FinalizeCheckpoint(clock)
           \/ FinalizeFails \/ RecoveryRoutine \/ RevertTemporaryConfig \/ Start
           \/ \E n \in 1..MaxStamp : RollbackCheckpoints(n)
           \/ \E f \in File : BackUpFails(f)
           \/ RemoveCheckpoint \/ RestoreFails \/ RmtreeStops \/ Exit \/ Crash \/ RecoveryFails
  <2>1. granted' = NoGrant
    BY <1>8 DEF RefuseAdd, RegisterUndoCommand, FinalizeCheckpoint, FinalizeFails, Recover,
                RecoveryRoutine, RevertTemporaryConfig, Start, RollbackCheckpoints, BackUpFails,
                RemoveCheckpoint, RestoreFails, RmtreeStops, Exit, Crash, RecoveryFails,
                Raise, Return, Undo, Die
  <2> QED
    BY <1>1, <2>1
<1>9. CASE \/ \E f \in File, c \in Data : PluginWrite(f, c)
           \/ \E m \in Module : PluginEnable(m)
           \/ \E failing \in SUBSET Module : RunUndoCommands(failing)
           \/ RestoreFile \/ RestoreDone \/ \E f \in File : RemoveNewFile(f)
           \/ UNCHANGED vars
  <2>1. granted' = granted /\ cp' = cp
    BY <1>9 DEF PluginWrite, PluginEnable, RunUndoCommands, RestoreFile, RestoreDone,
                RemoveNewFile, local, vars
  <2> QED
    BY <1>2, <2>1
<1> QED
  BY <1>4, <1>5, <1>6, <1>7, <1>8, <1>9 DEF Next, Plugin, Proceed, Environment

(* A permanent write.                                                      *)
LEMMA WriteIsPermanent ==
    ASSUME Inv, GrantApart, pc = "idle", granted.dir = InProgress, Next
    PROVE  \A f \in File : disk'[f] # disk[f] => Permanent'[f] = disk'[f]
<1>1. ASSUME NEW f \in File, NEW v \in Data, PluginWrite(f, v), NEW g \in File,
             disk'[g] # disk[g]
      PROVE  Permanent'[g] = disk'[g]
  <2>1. cp' = cp /\ g = f /\ f \notin Recorded(cp[Temp])
    BY <1>1 DEF PluginWrite, GrantApart, Inv, TypeInv, TypeOK
  <2>2. Permanent'[g] = After(cp'[Temp], g, disk'[g])
    BY DEF Permanent, Restored, After
  <2> QED
    BY <2>1, <2>2, AfterOther
<1>2. disk' = disk \/ \E f \in File, v \in Data : PluginWrite(f, v)
  BY DEF Next, Start, Plugin, AddToCheckpoint, RefuseAdd, RegisterFileCreation,
         RegisterUndoCommand, PluginEnable, FinalizeCheckpoint,
         FinalizeFails, RecoveryRoutine, RevertTemporaryConfig, RollbackCheckpoints,
         Proceed, BackUp, BackUpFails, AddDone, RunUndoCommands, RestoreFile,
         RestoreFails, RestoreDone, RemoveNewFile, RemoveCheckpoint, Environment,
         RmtreeStops, Exit, Crash, RecoveryFails, HalfRestored
<1> QED
  BY <1>1, <1>2

(* revert_temporary_config takes back the temporary changes, all of them   *)
(* and no others, at every point of the calls that make and revert them.   *)
THEOREM TemporaryApart == Spec => TemporaryIsApart
<1>1. Inv /\ CutInv /\ GrantApart /\ [Next]_vars
      => [/\ pc = "idle" /\ granted.dir = InProgress =>
                \A f \in File : disk'[f] # disk[f] => Permanent'[f] = disk'[f]
          /\ \/ pc = "idle" /\ granted.dir = Temp
             \/ pc # "idle" /\ target = Temp
             => Permanent' = Permanent \/ rmtreeCut']_vars
  <2> SUFFICES ASSUME Inv, CutInv, GrantApart, Next
               PROVE  /\ pc = "idle" /\ granted.dir = InProgress =>
                            \A f \in File : disk'[f] # disk[f] => Permanent'[f] = disk'[f]
                      /\ \/ pc = "idle" /\ granted.dir = Temp
                         \/ pc # "idle" /\ target = Temp
                         => Permanent' = Permanent \/ rmtreeCut'
    OBVIOUS
  <2>1. RmtreeStops => rmtreeCut'
    BY DEF RmtreeStops
  <2> QED
    BY <2>1, WriteIsPermanent, StepMoves
<1> QED
  BY <1>1, CutInvariant, GrantApartInit, GrantApartStep, PTL DEF Spec, TemporaryIsApart

-----------------------------------------------------------------------------
(* Modules.  After the undo commands of a directory nothing they undo is   *)
(* enabled, until the directory that lists them goes.                      *)
Undone ==
    pc \in {"restore", "remove"} => enabled \cap cp[target].undo \subseteq undoFailed

LEMMA UndoneInit == Init => Undone
BY DEF Init, Undone

LEMMA UndoneStep == Undone /\ [Next]_vars => Undone'
<1> SUFFICES ASSUME Undone, [Next]_vars PROVE Undone'
  OBVIOUS
<1>1. CASE pc' \notin {"restore", "remove"}
  BY <1>1 DEF Undone
<1>2. CASE \E failing \in SUBSET Module : RunUndoCommands(failing)
  BY <1>2 DEF RunUndoCommands, Commands, Undone, local
<1>3. CASE RestoreFile \/ RestoreDone \/ \E f \in File : RemoveNewFile(f)
  BY <1>3 DEF RestoreFile, RestoreDone, RemoveNewFile, Undone, history
<1>4. CASE UNCHANGED vars
  BY <1>4 DEF vars, local, history, Undone
<1>5. ASSUME \/ Start \/ RecoveryRoutine \/ RevertTemporaryConfig
             \/ \E n \in 1..MaxStamp : RollbackCheckpoints(n)
             \/ RemoveCheckpoint
      PROVE  pc' \notin {"restore", "remove"}
  BY <1>5 DEF Start, RecoveryRoutine, RevertTemporaryConfig, RollbackCheckpoints,
              RemoveCheckpoint, Recover, Undo, Return
<1>6. ASSUME \/ \E d \in Working, S \in (SUBSET File) \ {{}} :
                    AddToCheckpoint(d, S) \/ RefuseAdd(d, S)
             \/ \E d \in Working, f \in File : RegisterFileCreation(d, f)
             \/ \E d \in Working, m \in Module : RegisterUndoCommand(d, m)
             \/ \E f \in File, c \in Data : PluginWrite(f, c)
             \/ \E m \in Module : PluginEnable(m)
             \/ \E clock \in Stamp : FinalizeCheckpoint(clock)
             \/ FinalizeFails \/ AddDone \/ \E f \in File : BackUp(f) \/ BackUpFails(f)
             \/ RestoreFails \/ RmtreeStops \/ Exit \/ Crash \/ RecoveryFails
      PROVE  pc' \notin {"restore", "remove"}
  BY <1>6 DEF AddToCheckpoint, RefuseAdd, RegisterFileCreation, RegisterUndoCommand,
              PluginWrite, PluginEnable, FinalizeCheckpoint, FinalizeFails, AddDone, BackUp,
              BackUpFails, RestoreFails, RmtreeStops, Exit, Crash, RecoveryFails, Raise,
              Return, Die, local
<1> QED
  BY <1>1, <1>2, <1>3, <1>4, <1>5, <1>6 DEF Next, Plugin, Proceed, Environment

LEMMA ModulesStep ==
    ASSUME Inv, Undone, Next
    PROVE  StableModules' \ undoFailed' \subseteq StableModules \/ Finalizing
<1>1. TypeOK /\ Temp \in Dir /\ InProgress \in Dir
  BY NoneType DEF Inv, TypeInv
<1>2. ASSUME enabled' \subseteq enabled,
             \A d \in Working : (cp[d].undo \cap enabled) \ undoFailed' \subseteq cp'[d].undo
      PROVE  StableModules' \ undoFailed' \subseteq StableModules
  BY <1>2, NoneType DEF StableModules
<1>3. ASSUME NEW d \in Working, NEW S, AddToCheckpoint(d, S)
      PROVE  StableModules' \ undoFailed' \subseteq StableModules
  <2>1. \A e \in Working : cp'[e].undo = cp[e].undo /\ enabled' = enabled
    BY <1>1, <1>3, NoneType DEF AddToCheckpoint, DirMade, TypeOK, Checkpoint
  <2> QED
    BY <1>2, <2>1, NoneType
<1>4. ASSUME NEW d \in Working, NEW f, RegisterFileCreation(d, f)
      PROVE  StableModules' \ undoFailed' \subseteq StableModules
  <2>1. \A e \in Working : cp'[e].undo = cp[e].undo /\ enabled' = enabled
    BY <1>1, <1>4, NoneType DEF RegisterFileCreation, TypeOK, Checkpoint
  <2> QED
    BY <1>2, <2>1, NoneType
<1>5. ASSUME NEW d \in Working, NEW m \in Module, RegisterUndoCommand(d, m)
      PROVE  StableModules' \ undoFailed' \subseteq StableModules
  <2>1. \A e \in Working : cp[e].undo \subseteq cp'[e].undo /\ enabled' = enabled
    BY <1>1, <1>5, NoneType DEF RegisterUndoCommand, TypeOK, Checkpoint
  <2> QED
    BY <1>2, <2>1, NoneType
<1>6. ASSUME NEW m \in Module, PluginEnable(m)
      PROVE  StableModules' \ undoFailed' \subseteq StableModules
  BY <1>6 DEF PluginEnable, StableModules
<1>7. ASSUME NEW f \in File, BackUp(f) \/ BackUpFails(f)
      PROVE  StableModules' \ undoFailed' \subseteq StableModules
  <2>1. target \in Dir
    BY <1>1 DEF TypeOK
  <2>2. \A e \in Working : cp'[e].undo = cp[e].undo /\ enabled' = enabled
    <3>1. CASE cp' = cp
      BY <1>7, <3>1 DEF BackUp, BackUpFails
    <3>2. CASE cp' = [cp EXCEPT ![target].backup[NextIndex] = disk[f]]
      BY <1>1, <1>7, <2>1, <3>2, NoneType DEF BackUp, BackUpFails, TypeOK, Checkpoint
    <3>3. CASE cp' = [cp EXCEPT ![target].paths = lines]
      BY <1>1, <1>7, <2>1, <3>3, NoneType DEF BackUp, BackUpFails, TypeOK, Checkpoint
    <3> QED
      BY <1>7, <3>1, <3>2, <3>3 DEF BackUp, BackUpFails
  <2> QED
    BY <1>2, <2>2, NoneType
<1>8. ASSUME AddDone PROVE StableModules' \ undoFailed' \subseteq StableModules
  <2>1. target \in Dir
    BY <1>1 DEF TypeOK
  <2>2. \A e \in Working : cp'[e].undo = cp[e].undo /\ enabled' = enabled
    BY <1>1, <1>8, <2>1, NoneType DEF AddDone, TypeOK, Checkpoint
  <2> QED
    BY <1>2, <2>2, NoneType
<1>9. ASSUME NEW clock \in Stamp, FinalizeCheckpoint(clock) PROVE Finalizing
  <2>1. cp'[InProgress] = NoCheckpoint
    BY <1>9, NoneType DEF FinalizeCheckpoint, Inv, TypeInv, TypeOK
  <2> QED
    BY <1>9, <2>1, NoneType DEF FinalizeCheckpoint, Finalizing
<1>10. CASE RemoveCheckpoint \/ RmtreeStops
  <2>1. /\ pc = "remove" /\ enabled' = enabled /\ undoFailed' = undoFailed /\ target \in Dir
        /\ \A d \in Dir : d # target => cp'[d] = cp[d]
    BY <1>1, <1>10 DEF RemoveCheckpoint, RmtreeStops, history, TypeOK
  <2>2. enabled \cap cp[target].undo \subseteq undoFailed
    BY <2>1 DEF Undone
  <2>3. \A d \in Working : (cp[d].undo \cap enabled) \ undoFailed' \subseteq cp'[d].undo
    BY <2>1, <2>2, NoneType
  <2> QED
    BY <1>2, <2>1, <2>3
<1>11. CASE \/ \E d \in Working, S \in (SUBSET File) \ {{}} : RefuseAdd(d, S)
            \/ \E f \in File, c \in Data : PluginWrite(f, c)
            \/ FinalizeFails \/ Start \/ RecoveryRoutine \/ RevertTemporaryConfig
            \/ \E n \in 1..MaxStamp : RollbackCheckpoints(n)
            \/ \E failing \in SUBSET Module : RunUndoCommands(failing)
            \/ RestoreFile \/ RestoreFails \/ RestoreDone \/ \E f \in File : RemoveNewFile(f)
            \/ Exit \/ Crash \/ RecoveryFails
  <2>1. cp' = cp /\ enabled' \subseteq enabled
    BY <1>11 DEF RefuseAdd, PluginWrite, FinalizeFails, Start, RecoveryRoutine,
                 RevertTemporaryConfig, RollbackCheckpoints, RunUndoCommands, RestoreFile,
                 RestoreFails, RestoreDone, RemoveNewFile, Exit, Crash, RecoveryFails
  <2> QED
    BY <1>2, <2>1
<1> QED
  BY <1>3, <1>4, <1>5, <1>6, <1>7, <1>8, <1>9, <1>10, <1>11
     DEF Next, Plugin, Proceed, Environment

(* A module that was enabled for changes which were not finalized is       *)
(* always listed in a directory that a recovery will work on, or not       *)
(* enabled any more, unless its own command failed (_run_undo_commands     *)
(* before rmtree).                                                         *)
THEOREM ModulesAlwaysGoBack == Spec => ModulesGoBack
<1>1. Inv /\ Undone /\ [Next]_vars
      => [StableModules' \ undoFailed' \subseteq StableModules \/ Finalizing]_vars
  <2> SUFFICES ASSUME Inv, Undone, Next
               PROVE  StableModules' \ undoFailed' \subseteq StableModules \/ Finalizing
    OBVIOUS
  <2> QED
    BY ModulesStep
<1> QED
  BY <1>1, InvInit, InvStep, UndoneInit, UndoneStep, PTL DEF Spec, ModulesGoBack

-----------------------------------------------------------------------------
(* The history.  A rollback to one checkpoint starts from the files that   *)
(* the rollback to the next newer one leads to; Point follows them down    *)
(* from the newest.                                                        *)

LEMMA LeastOf ==
    ASSUME NEW S \in SUBSET Nat, S # {}
    PROVE  \E m \in S : \A k \in S : m <= k
<1> DEFINE R == {x \in Nat \X Nat : x[1] < x[2]}
<1>1. IsWellFoundedOn(R, Nat)
  BY NatLessThanWellFounded DEF OpToRel
<1>2. \E m \in S : \A k \in S : ~ (<<k, m>> \in R)
  BY <1>1, WFMin
<1>3. \A k, m \in Nat : <<k, m>> \in R \/ m <= k
  OBVIOUS
<1>4. \A k \in S : k \in Nat
  OBVIOUS
<1> HIDE DEF R
<1> QED
  BY <1>2, <1>3, <1>4

LEMMA GreatestOf ==
    ASSUME NEW n \in Nat, NEW S \in SUBSET (1..n), S # {}
    PROVE  \E m \in S : \A k \in S : k <= m
<1> DEFINE D == {k \in 0..n : n - k \in S}
<1>1. D \in SUBSET Nat
  OBVIOUS
<1>2. \A k \in S : n - k \in D /\ n - (n - k) = k
  OBVIOUS
<1>3. \A k \in D : k \in 0..n /\ n - k \in S
  OBVIOUS
<1>4. D # {}
  BY <1>2
<1> HIDE DEF D
<1>5. PICK m \in D : \A k \in D : m <= k
  BY <1>1, <1>4, LeastOf
<1>6. \A k \in S : k <= n - m
  BY <1>2, <1>3, <1>5
<1> QED
  BY <1>3, <1>5, <1>6

Above(F, s) == {t \in F : t > s}
NextUp(F, s) == CHOOSE t \in Above(F, s) : \A u \in Above(F, s) : t <= u
Base(F, st, p, s) == IF Above(F, s) = {} THEN st ELSE p[NextUp(F, s)]
ArePoints(p, c, F, st) == p = [s \in F |-> Restored(c[s], Base(F, st, p, s))]
Points(c, F, st) == CHOOSE p : ArePoints(p, c, F, st)

LEMMA PointIs ==
    /\ Point = Points(cp, Finalized, Stable)
    /\ Point' = Points(cp', Finalized', Stable')
BY DEF Point, Points, ArePoints, Base, NextUp, Above

LEMMA NextUpIs ==
    ASSUME NEW F \in SUBSET Nat, NEW s, Above(F, s) # {}
    PROVE  NextUp(F, s) \in Above(F, s) /\ \A u \in Above(F, s) : NextUp(F, s) <= u
<1>1. Above(F, s) \in SUBSET Nat
  BY DEF Above
<1>2. \E t \in Above(F, s) : \A u \in Above(F, s) : t <= u
  BY <1>1, LeastOf
<1> QED
  BY <1>2 DEF NextUp

(* One more checkpoint, older than all others.                             *)
LEMMA OneMorePoint ==
    ASSUME NEW F \in SUBSET Nat, NEW s \in Nat, \A t \in F : s < t, NEW c, NEW st, NEW p,
           ArePoints(p, c, F, st)
    PROVE  \E q : ArePoints(q, c, F \cup {s}, st)
<1> DEFINE G == F \cup {s}
           q == [t \in G |-> IF t = s THEN Restored(c[s], Base(F, st, p, s)) ELSE p[t]]
<1>1. \A t \in G : Above(G, t) = Above(F, t)
  BY DEF Above
<1>2. \A t \in G : NextUp(G, t) = NextUp(F, t)
  BY <1>1 DEF NextUp
<1>3. ASSUME NEW t \in G PROVE Base(G, st, q, t) = Base(F, st, p, t)
  <2>1. CASE Above(F, t) = {}
    BY <1>1, <2>1 DEF Base
  <2>2. CASE Above(F, t) # {}
    <3>1. NextUp(F, t) \in F /\ NextUp(F, t) # s
      BY <2>2, NextUpIs DEF Above
    <3> QED
      BY <1>1, <1>2, <2>2, <3>1 DEF Base
  <2> QED
    BY <2>1, <2>2
<1>4. \A t \in F : p[t] = Restored(c[t], Base(F, st, p, t))
  BY DEF ArePoints
<1> HIDE DEF q
<1>5. q = [t \in G |-> Restored(c[t], Base(G, st, q, t))]
  <2>1. \A t \in G : q[t] = Restored(c[t], Base(F, st, p, t))
    BY <1>4 DEF q
  <2>2. \A t \in G : q[t] = Restored(c[t], Base(G, st, q, t))
    BY <1>3, <2>1 DEF q
  <2>3. q = [t \in G |-> q[t]]
    BY DEF q
  <2> HIDE DEF G
  <2> QED
    BY <2>2, <2>3
<1> QED
  BY <1>5 DEF ArePoints

LEMMA PointsAre ==
    ASSUME NEW n \in Nat, NEW F \in SUBSET (1..n), NEW c, NEW st
    PROVE  ArePoints(Points(c, F, st), c, F, st)
<1> DEFINE G(k) == {t \in F : k <= t}
           Has(k) == \E p : ArePoints(p, c, G(k), st)
           S == {k \in 1..n + 1 : ~ Has(k)}
<1>0. \A t \in F : t \in Nat /\ 1 <= t /\ t <= n
  OBVIOUS
<1>1. Has(n + 1)
  <2>1. \A t \in F : ~ (n + 1 <= t)
    BY <1>0
  <2>2. G(n + 1) = {}
    BY <2>1
  <2>3. ArePoints([s \in {} |-> st], c, {}, st)
    BY DEF ArePoints
  <2> QED
    BY <2>2, <2>3
<1>2. ASSUME NEW k \in 1..n, Has(k + 1) PROVE Has(k)
  <2>1. PICK p : ArePoints(p, c, G(k + 1), st)
    BY <1>2
  <2>2. \A t \in F : (k + 1 <= t <=> k < t) /\ (k <= t <=> k < t \/ t = k)
    BY <1>0
  <2>3. CASE k \in F
    <3>1. G(k) = G(k + 1) \cup {k}
      BY <2>2, <2>3
    <3>2. G(k + 1) \in SUBSET Nat /\ \A t \in G(k + 1) : k < t
      BY <1>0, <2>2
    <3> HIDE DEF G
    <3>3. \E q : ArePoints(q, c, G(k + 1) \cup {k}, st)
      <4>1. k \in Nat
        OBVIOUS
      <4> QED
        BY <2>1, <3>2, <4>1, OneMorePoint
    <3> QED
      BY <3>1, <3>3
  <2>4. CASE k \notin F
    <3>1. G(k) = G(k + 1)
      BY <2>2, <2>4
    <3> HIDE DEF G
    <3> QED
      BY <2>1, <3>1
  <2> QED
    BY <2>3, <2>4
<1>3. Has(1)
  <2> HIDE DEF Has
  <2> SUFFICES ASSUME ~ Has(1) PROVE FALSE
    OBVIOUS
  <2>1. S \in SUBSET (1..n + 1) /\ S # {}
    OBVIOUS
  <2>2. PICK k \in S : \A i \in S : i <= k
    <3> HIDE DEF S
    <3>1. n + 1 \in Nat
      OBVIOUS
    <3> QED
      BY <2>1, <3>1, GreatestOf
  <2>3. k \in 1..n + 1 /\ ~ Has(k)
    OBVIOUS
  <2>4. k \in 1..n
    BY <1>1, <2>3
  <2>5. ~ Has(k + 1)
    BY <1>2, <2>3, <2>4
  <2>6. k + 1 \in S
    BY <2>4, <2>5
  <2> QED
    BY <2>2, <2>4, <2>6
<1>4. G(1) = F
  BY <1>0
<1>5. \E p : ArePoints(p, c, F, st)
  BY <1>3, <1>4
<1> QED
  BY <1>5 DEF Points

LEMMA PointsAt ==
    ASSUME NEW n \in Nat, NEW F \in SUBSET (1..n), NEW c, NEW st
    PROVE  LET p == Points(c, F, st) IN
           /\ p = [t \in F |-> p[t]]
           /\ \A t \in F : p[t] = Restored(c[t], Base(F, st, p, t))
<1> DEFINE p == Points(c, F, st)
<1>1. ArePoints(p, c, F, st)
  BY PointsAre
<1> HIDE DEF p
<1>2. p = [s \in F |-> Restored(c[s], Base(F, st, p, s))]
  BY <1>1 DEF ArePoints
<1>3. p = [t \in F |-> p[t]] /\ \A t \in F : p[t] = Restored(c[t], Base(F, st, p, t))
  BY <1>2
<1> QED
  BY <1>3 DEF p

(* The points depend on the finalized directories and, at the newest of    *)
(* them, on what a recovery leads to.                                      *)
LEMMA PointsSame ==
    ASSUME NEW n \in Nat, NEW F \in SUBSET (1..n), NEW c, NEW d, \A t \in F : d[t] = c[t],
           NEW st, NEW su,
           \A t \in F : Above(F, t) = {} => Restored(c[t], su) = Restored(c[t], st)
    PROVE  Points(d, F, su) = Points(c, F, st)
<1> DEFINE p == Points(c, F, st)
           q == Points(d, F, su)
<1>1. /\ p = [t \in F |-> p[t]] /\ q = [t \in F |-> q[t]]
      /\ \A t \in F : p[t] = Restored(c[t], Base(F, st, p, t))
      /\ \A t \in F : q[t] = Restored(c[t], Base(F, su, q, t))
  BY PointsAt
<1> HIDE DEF p, q
<1>2. ASSUME NEW t \in F, \A u \in F : u > t => q[u] = p[u] PROVE q[t] = p[t]
  <2>1. CASE Above(F, t) = {}
    BY <1>1, <2>1 DEF Base
  <2>2. CASE Above(F, t) # {}
    <3>1. NextUp(F, t) \in F /\ NextUp(F, t) > t
      BY <2>2, NextUpIs DEF Above
    <3>2. Base(F, su, q, t) = Base(F, st, p, t)
      BY <1>2, <2>2, <3>1 DEF Base
    <3> QED
      BY <1>1, <3>2
  <2> QED
    BY <2>1, <2>2
<1>3. \A t \in F : q[t] = p[t]
  <2> DEFINE B == {t \in F : q[t] # p[t]}
  <2> SUFFICES ASSUME B # {} PROVE FALSE
    OBVIOUS
  <2>1. B \in SUBSET (1..n)
    OBVIOUS
  <2>2. PICK m \in B : \A k \in B : k <= m
    <3> HIDE DEF B
    <3> QED
      BY <2>1, GreatestOf
  <2>3. \A u \in F : u > m => q[u] = p[u]
    BY <2>2
  <2> QED
    BY <1>2, <2>3
<1>4. q = p
  BY <1>1, <1>3
<1> QED
  BY <1>4 DEF p, q

(* A new entry at the end: the rollback to it leads to st, the rollbacks   *)
(* to the others to where they led before.                                 *)
Appends(s, n, F, c, st, G, d, su) ==
    /\ n \in Nat /\ F \in SUBSET (1..n) /\ s \in 1..n
    /\ \A t \in F : t < s /\ d[t] = c[t]
    /\ G = F \cup {s} /\ Restored(d[s], su) = st

LEMMA PointsCommit ==
    ASSUME NEW s, NEW n, NEW F, NEW c, NEW st, NEW G, NEW d, NEW su,
           Appends(s, n, F, c, st, G, d, su)
    PROVE  LET q == Points(d, G, su) IN
           /\ q = [t \in G |-> q[t]] /\ q[s] = st
           /\ \A t \in F : q[t] = Points(c, F, st)[t]
<1> USE DEF Appends
<1> DEFINE p == Points(c, F, st)
           q == Points(d, G, su)
<1>1. /\ p = [t \in F |-> p[t]] /\ \A t \in F : p[t] = Restored(c[t], Base(F, st, p, t))
  BY PointsAt
<1>2. q = [t \in G |-> q[t]] /\ \A t \in G : q[t] = Restored(d[t], Base(G, su, q, t))
  <2>1. G \in SUBSET (1..n)
    OBVIOUS
  <2> QED
    BY <2>1, PointsAt
<1> HIDE DEF p, q
<1>0. \A t \in G : t \in Nat /\ ~ (t > s)
  OBVIOUS
<1>3. Above(G, s) = {}
  BY <1>0 DEF Above
<1>4. q[s] = st
  BY <1>2, <1>3 DEF Base
<1>5. ASSUME NEW t \in F, \A u \in F : u > t => q[u] = p[u] PROVE q[t] = p[t]
  <2>1. s \in Above(G, t) /\ t \in G
    BY DEF Above
  <2>2. /\ NextUp(G, t) \in Above(G, t) /\ NextUp(G, t) <= s
        /\ \A u \in Above(G, t) : NextUp(G, t) <= u
    BY <2>1, NextUpIs
  <2>3. CASE Above(F, t) = {}
    <3>1. Above(G, t) = {s}
      BY <2>1, <2>3 DEF Above
    <3>2. Base(G, su, q, t) = st /\ Base(F, st, p, t) = st
      BY <1>4, <2>2, <2>3, <3>1 DEF Base
    <3> QED
      BY <1>1, <1>2, <2>1, <3>2
  <2>4. CASE Above(F, t) # {}
    <3>1. /\ NextUp(F, t) \in Above(F, t)
          /\ \A u \in Above(F, t) : NextUp(F, t) <= u
      BY <2>4, NextUpIs
    <3>2. NextUp(F, t) \in F /\ NextUp(F, t) > t /\ NextUp(F, t) \in Above(G, t)
      BY <3>1 DEF Above
    <3>3. /\ NextUp(G, t) \in Nat /\ NextUp(F, t) \in Nat /\ NextUp(F, t) < s
          /\ NextUp(G, t) <= NextUp(F, t)
      BY <1>0, <2>2, <3>2 DEF Above
    <3>4. NextUp(G, t) # s
      BY <1>0, <3>3
    <3>5. NextUp(G, t) \in Above(F, t)
      BY <2>2, <3>4 DEF Above
    <3>6. NextUp(G, t) = NextUp(F, t)
      BY <3>1, <3>3, <3>5
    <3>7. Base(G, su, q, t) = Base(F, st, p, t)
      BY <1>5, <2>1, <2>4, <3>2, <3>6 DEF Base
    <3> QED
      BY <1>1, <1>2, <2>1, <3>7
  <2> QED
    BY <2>3, <2>4
<1>6. \A t \in F : q[t] = p[t]
  <2> DEFINE B == {t \in F : q[t] # p[t]}
  <2> SUFFICES ASSUME B # {} PROVE FALSE
    OBVIOUS
  <2>1. B \in SUBSET (1..n)
    OBVIOUS
  <2>2. PICK m \in B : \A k \in B : k <= m
    <3> HIDE DEF B
    <3> QED
      BY <2>1, GreatestOf
  <2>3. \A u \in F : u > m => q[u] = p[u]
    BY <1>0, <2>2
  <2> QED
    BY <1>5, <2>3
<1> QED
  BY <1>2, <1>4, <1>6 DEF p, q

(* A rollback works on the newest of the finalized checkpoints.            *)
RollbackInv == goal = "rollback" => target \in Stamp /\ Newest(target, Finalized)

LEMMA RollbackInit == Init => RollbackInv
BY DEF Init, RollbackInv

LEMMA RollbackStep == Inv /\ RollbackInv /\ [Next]_vars => RollbackInv'
<1> SUFFICES ASSUME Inv, RollbackInv, [Next]_vars, goal' = "rollback" PROVE RollbackInv'
  BY DEF RollbackInv
<1>1. CASE \E n \in 1..MaxStamp : RollbackCheckpoints(n)
  <2>1. PICK s \in Stamp : Newest(s, Finalized) /\ target' = s
    BY <1>1 DEF RollbackCheckpoints, Undo
  <2>2. Finalized' = Finalized
    BY <1>1 DEF RollbackCheckpoints, Finalized
  <2> QED
    BY <2>1, <2>2 DEF RollbackInv
<1>2. CASE RemoveCheckpoint
  <2>1. PICK s \in Stamp : Newest(s, Finalized \ {target}) /\ target' = s
    BY <1>2 DEF RemoveCheckpoint, Undo, Return, CallOver
  <2>2. Finalized' = Finalized \ {target}
    <3>1. /\ cp'[target] = NoCheckpoint
          /\ \A t \in Stamp : t # target => cp'[t] = cp[t]
      BY <1>2 DEF RemoveCheckpoint, Inv, TypeInv, TypeOK, Dir
    <3> QED
      BY <3>1, NoneType DEF Finalized
  <2> QED
    BY <2>1, <2>2 DEF RollbackInv
<1>3. CASE \/ \E failing \in SUBSET Module : RunUndoCommands(failing)
           \/ RestoreFile \/ RestoreDone \/ \E f \in File : RemoveNewFile(f)
           \/ UNCHANGED vars
  <2>1. goal' = goal /\ target' = target /\ cp' = cp
    BY <1>3 DEF RunUndoCommands, RestoreFile, RestoreDone, RemoveNewFile, local, vars
  <2>2. Finalized' = Finalized
    BY <2>1 DEF Finalized
  <2> QED
    BY <2>1, <2>2 DEF RollbackInv
<1>4. CASE \/ \E d \in Working, S \in (SUBSET File) \ {{}} : AddToCheckpoint(d, S)
           \/ \E f \in File, c \in Data : PluginWrite(f, c)
           \/ \E m \in Module : PluginEnable(m)
           \/ \E f \in File : BackUp(f)
  <2>1. goal' = goal /\ pc \in {"idle", "add"}
    BY <1>4 DEF AddToCheckpoint, PluginWrite, PluginEnable, BackUp, local
  <2> QED
    BY <2>1 DEF Inv, Recovering
<1>5. CASE \/ \E d \in Working, S \in (SUBSET File) \ {{}} : RefuseAdd(d, S)
           \/ \E d \in Working, f \in File : RegisterFileCreation(d, f)
           \/ \E d \in Working, m \in Module : RegisterUndoCommand(d, m)
           \/ \E clock \in Stamp : FinalizeCheckpoint(clock)
           \/ FinalizeFails \/ RecoveryRoutine \/ RevertTemporaryConfig \/ Start
           \/ AddDone \/ \E f \in File : BackUpFails(f)
           \/ RestoreFails \/ RmtreeStops \/ Exit \/ Crash \/ RecoveryFails
  <2>1. goal' # "rollback"
    BY <1>5 DEF RefuseAdd, RegisterFileCreation, RegisterUndoCommand, FinalizeCheckpoint,
                FinalizeFails, RecoveryRoutine, RevertTemporaryConfig, Start, Recover, AddDone,
                BackUpFails, RestoreFails, RmtreeStops, Exit, Crash, RecoveryFails, Raise,
                Return, Undo, Die, CallOver
  <2> QED
    BY <2>1
<1> QED
  BY <1>1, <1>2, <1>3, <1>4, <1>5 DEF Next, Plugin, Proceed, Environment

LEMMA RestoredIs ==
    ASSUME NEW c, NEW v
    PROVE  Restored(c, v) = [f \in File |-> After(c, f, v[f])]
BY DEF Restored, After

LEMMA RestoredNone ==
    ASSUME NEW v \in [File -> Content] PROVE Restored(NoCheckpoint, v) = v
<1>1. \A f : After(NoCheckpoint, f, v[f]) = v[f]
  BY DEF After, NoCheckpoint
<1> QED
  BY <1>1, RestoredIs

LEMMA RestoredType ==
    ASSUME TypeOK, NEW d \in Dir, NEW v \in [File -> Content]
    PROVE  Restored(cp[d], v) \in [File -> Content]
<1> DEFINE c == cp[d]
<1>1. \A i \in DOMAIN c.paths : c.backup[i] \in Content
  BY DirType
<1>2. \A f \in File : After(c, f, v[f]) \in Content
  <2> HIDE DEF c
  <2> TAKE f \in File
  <2>1. CASE f \in c.new
    BY <2>1 DEF After, Content
  <2>2. CASE f \notin c.new
    <3> DEFINE P(i) == c.paths[i] = f /\ c.backup[i] # Absent
    <3>1. CASE \E i \in DOMAIN c.paths : P(i)
      <4>1. (CHOOSE i \in DOMAIN c.paths : P(i)) \in DOMAIN c.paths
        BY <3>1
      <4> QED
        BY <1>1, <2>2, <3>1, <4>1 DEF After
    <3>2. CASE ~ \E i \in DOMAIN c.paths : P(i)
      BY <2>2, <3>2 DEF After
    <3> QED
      BY <3>1, <3>2
  <2> QED
    BY <2>1, <2>2
<1> QED
  BY <1>2, RestoredIs

LEMMA StableType ==
    ASSUME TypeOK
    PROVE  Permanent \in [File -> Content] /\ Stable \in [File -> Content]
<1>1. Permanent \in [File -> Content]
  BY RestoredType, NoneType DEF Permanent, TypeOK
<1> QED
  BY <1>1, RestoredType, NoneType DEF Stable

LEMMA FinalizedStamps == MaxStamp \in Nat /\ Finalized \in SUBSET (1..MaxStamp)
BY DirAssumption DEF Finalized, Stamp

(* _checkpoint_timestamp: a new checkpoint is newer than all others.       *)
LEMMA TimestampNew ==
    ASSUME NEW clock \in Stamp PROVE \A t \in Finalized : t < Timestamp(clock)
<1> DEFINE newest == CHOOSE s \in Finalized : Newest(s, Finalized)
<1> SUFFICES ASSUME Finalized # {} PROVE \A t \in Finalized : t < Timestamp(clock)
  OBVIOUS
<1>1. \E s \in Finalized : Newest(s, Finalized)
  BY FinalizedStamps, GreatestOf DEF Newest
<1>2. newest \in Finalized /\ Newest(newest, Finalized)
  BY <1>1
<1>3. Timestamp(clock) = IF clock > newest THEN clock
                         ELSE IF clock < newest THEN newest + Second ELSE newest + 1
  BY DEF Timestamp
<1> HIDE DEF newest
<1>4. clock \in Nat /\ newest \in Nat /\ Second \in Nat \ {0}
      /\ \A t \in Finalized : t \in Nat /\ t <= newest
  BY <1>2, FinalizedStamps, DirAssumption DEF Newest, Stamp
<1>5. newest < Timestamp(clock) /\ Timestamp(clock) \in Nat
  BY <1>3, <1>4
<1> QED
  BY <1>4, <1>5

(* What the history consists of.                                           *)
LEMMA HistorySame ==
    ASSUME Stable' = Stable, \A s \in Stamp : cp'[s] = cp[s]
    PROVE  Point' = Point
<1>1. Finalized' = Finalized
  BY DEF Finalized
<1>2. \A t \in Finalized : cp'[t] = cp[t]
  BY DEF Finalized
<1>3. Points(cp', Finalized, Stable) = Points(cp, Finalized, Stable)
  BY <1>2, FinalizedStamps, PointsSame
<1> QED
  BY <1>1, <1>3, PointIs

LEMMA PointDomain == Point = [t \in Finalized |-> Point[t]] /\ DOMAIN Point = Finalized
<1> DEFINE F == Finalized  c == cp  st == Stable  p == Points(c, F, st)
<1>1. F \in SUBSET (1..MaxStamp) /\ MaxStamp \in Nat
  BY FinalizedStamps
<1> HIDE DEF F, c, st
<1>2. p = [t \in F |-> p[t]]
  BY <1>1, PointsAt
<1>3. Point = [t \in Finalized |-> Point[t]]
  BY <1>2, PointIs DEF F, c, st
<1> QED
  BY <1>3

LEMMA StampDirs ==
    /\ Stamp \subseteq Dir
    /\ \A s \in Stamp : s \notin Working /\ s # Temp /\ s # InProgress
BY DirAssumption DEF Stamp, Dir, Working

HistoryStep == History!Next \/ UNCHANGED <<Stable, Point, goal = "rollback">>

(* Outside of rollbacks only finalize_checkpoint touches the history.      *)
LEMMA QuietCalls ==
    ASSUME Inv, ~ rmtreeCut',
           \/ \E d \in Working, S \in (SUBSET File) \ {{}} :
                    AddToCheckpoint(d, S) \/ RefuseAdd(d, S)
           \/ \E d \in Working, f \in File : RegisterFileCreation(d, f)
           \/ \E d \in Working, m \in Module : RegisterUndoCommand(d, m)
           \/ \E f \in File, c \in Data : PluginWrite(f, c)
           \/ \E m \in Module : PluginEnable(m)
           \/ \E f \in File : BackUp(f) \/ BackUpFails(f)
           \/ AddDone \/ FinalizeFails
           \/ RecoveryRoutine \/ RevertTemporaryConfig \/ Start \/ Exit
    PROVE  HistoryStep
<1>1. TypeOK /\ pc \in {"off", "idle", "add"} /\ goal = "none"
  BY DEF Inv, TypeInv, Recovering, AddToCheckpoint, RefuseAdd, RegisterFileCreation,
         RegisterUndoCommand, PluginWrite, PluginEnable, BackUp, BackUpFails, AddDone,
         FinalizeFails, RecoveryRoutine, RevertTemporaryConfig, Start, Exit
<1>2. goal' # "rollback"
  BY <1>1 DEF AddToCheckpoint, RefuseAdd, RegisterFileCreation, RegisterUndoCommand,
              PluginWrite, PluginEnable, BackUp, BackUpFails, AddDone, FinalizeFails,
              RecoveryRoutine, RevertTemporaryConfig, Start, Recover, Exit, Return, Undo, Die,
              CallOver, local
<1>3. \A s \in Stamp : cp'[s] = cp[s]
  <2>1. pc = "add" => target \in Working
    BY DEF Inv, Adding
  <2>2. CASE \E d \in Working, S \in (SUBSET File) \ {{}} :
                  AddToCheckpoint(d, S) \/ RefuseAdd(d, S)
    BY <1>1, <2>2, StampDirs DEF AddToCheckpoint, DirMade, RefuseAdd, TypeOK
  <2>3. CASE \E d \in Working, f \in File : RegisterFileCreation(d, f)
    BY <1>1, <2>3, StampDirs DEF RegisterFileCreation, TypeOK
  <2>4. CASE \E d \in Working, m \in Module : RegisterUndoCommand(d, m)
    BY <1>1, <2>4, StampDirs DEF RegisterUndoCommand, TypeOK
  <2>5. CASE AddDone \/ \E f \in File : BackUp(f) \/ BackUpFails(f)
    BY <1>1, <2>1, <2>5, StampDirs DEF AddDone, BackUp, BackUpFails, TypeOK
  <2>6. CASE \/ \E f \in File, c \in Data : PluginWrite(f, c)
             \/ \E m \in Module : PluginEnable(m)
             \/ FinalizeFails \/ RecoveryRoutine \/ RevertTemporaryConfig \/ Start \/ Exit
    BY <2>6 DEF PluginWrite, PluginEnable, FinalizeFails, RecoveryRoutine,
                RevertTemporaryConfig, Start, Exit
  <2> QED
    BY <2>2, <2>3, <2>4, <2>5, <2>6
<1>4. Stable' = Stable
  <2>1. CASE \/ \E d \in Working, S \in (SUBSET File) \ {{}} :
                    AddToCheckpoint(d, S) \/ RefuseAdd(d, S)
    BY <2>1, StableAdd, StableDirs DEF RefuseAdd
  <2>2. CASE \E d \in Working, f \in File : RegisterFileCreation(d, f)
    BY <2>2, StableRegister
  <2>3. CASE \E d \in Working, m \in Module : RegisterUndoCommand(d, m)
    BY <2>3, StableUndoCommand
  <2>4. CASE \E f \in File, c \in Data : PluginWrite(f, c)
    <3>1. \A d \in Working, f \in File : ~ Unbacked(d, f)
      BY <2>4, NoneType DEF PluginWrite, history, Unbacked, Inv, BackupsComplete
    <3>2. granted.dir \in Working
      BY <1>1 DEF TypeOK
    <3> QED
      BY <2>4, <3>1, <3>2, StableWrite
  <2>5. CASE \E f \in File : BackUp(f)
    BY <2>5, StableBackUp
  <2>6. CASE AddDone \/ \E f \in File : BackUpFails(f)
    BY <2>6, StableClosed DEF AddDone, BackUpFails
  <2>7. CASE \/ \E m \in Module : PluginEnable(m)
             \/ FinalizeFails \/ RecoveryRoutine \/ RevertTemporaryConfig \/ Start \/ Exit
    BY <2>7, StableDirs DEF PluginEnable, FinalizeFails, RecoveryRoutine,
                            RevertTemporaryConfig, Start, Exit
  <2> QED
    BY <2>1, <2>2, <2>3, <2>4, <2>5, <2>6, <2>7
<1>5. Point' = Point
  BY <1>3, <1>4, HistorySame
<1> QED
  BY <1>1, <1>2, <1>4, <1>5 DEF HistoryStep

(* FinalizeCheckpoint commits.                                             *)
LEMMA FinalizeCommits ==
    ASSUME Inv, CutInv, TypeOK', NEW clock \in Stamp, FinalizeCheckpoint(clock)
    PROVE  HistoryStep
<1> DEFINE s == Timestamp(clock)
<1>1. /\ s \in Stamp /\ TypeOK /\ goal = "none" /\ goal' = "none" /\ disk' = disk
      /\ cp[InProgress].exists
      /\ cp' = [cp EXCEPT ![s] = cp[InProgress], ![InProgress] = NoCheckpoint]
  BY DEF FinalizeCheckpoint, Return, CallOver, Inv, TypeInv, Recovering
<1>2. \A t \in Finalized : t < s
  BY TimestampNew
<1> HIDE DEF s
<1>3. /\ s \in Dir /\ cp'[s] = cp[InProgress] /\ cp'[Temp] = cp[Temp]
      /\ cp'[InProgress] = NoCheckpoint
      /\ \A t \in Stamp : t # s => cp'[t] = cp[t]
  BY <1>1, StampDirs, NoneType, DirAssumption DEF TypeOK
<1>4. Finalized' = Finalized \cup {s}
  BY <1>1, <1>3 DEF Finalized
<1>5. Permanent' = Permanent /\ Stable' = Permanent
  <2>1. Permanent' = Permanent
    BY <1>1, <1>3, PermanentSame
  <2>2. Stable' = Restored(cp'[InProgress], Permanent')
    BY DEF Stable
  <2> QED
    BY <1>1, <1>3, <2>1, <2>2, StableType, RestoredNone
<1>6. Restored(cp'[s], Stable') = Stable
  BY <1>3, <1>5 DEF Stable
<1>7. s \in 1..MaxStamp /\ \A t \in Finalized : cp'[t] = cp[t]
  <2>1. \A t \in Finalized : t # s
    BY <1>1, <1>2, FinalizedStamps DEF Stamp
  <2> QED
    BY <1>1, <1>3, <2>1 DEF Finalized, Stamp
<1>8. /\ Point' = [t \in Finalized' |-> Point'[t]] /\ Point'[s] = Stable
      /\ \A t \in Finalized : Point'[t] = Point[t]
  <2> DEFINE c == cp  d == cp'  st == Stable  su == Stable'  F == Finalized  G == Finalized'
             p == Points(c, F, st)
             q == Points(d, G, su)
  <2>1. Appends(s, MaxStamp, F, c, st, G, d, su)
    BY <1>2, <1>4, <1>6, <1>7, FinalizedStamps DEF Appends
  <2> HIDE DEF c, d, st, su, F, G
  <2>2. q = [t \in G |-> q[t]] /\ q[s] = st /\ \A t \in F : q[t] = p[t]
    BY <2>1, PointsCommit
  <2> QED
    BY <2>2, PointIs DEF c, d, st, su, F, G
<1>9. Point' = [t \in Finalized \cup {s} |-> IF t = s THEN Stable ELSE Point[t]]
  BY <1>4, <1>8
<1>10. s \notin Finalized
  BY <1>1, <1>2, FinalizedStamps DEF Stamp
<1>11. s \in DOMAIN Point' \ DOMAIN Point
  BY <1>9, <1>10, PointDomain
<1>12. Stable' \in [File -> Content]
  BY <1>1, <1>5, StableType
<1>13. History!Commit
  BY <1>1, <1>2, <1>9, <1>11, <1>12, PointDomain DEF History!Commit
<1> QED
  BY <1>13 DEF HistoryStep, History!Next

(* In a rollback, stable is the disk: no other change is pending.          *)
LEMMA RollbackDisk ==
    ASSUME Inv, CutInv, goal = "rollback"
    PROVE  /\ Stable = disk
           /\ disk' \in [File -> Content] /\ (\A d \in Working : cp'[d] = cp[d]) => Stable' = disk'
<1>1. cp[Temp] = NoCheckpoint /\ cp[InProgress] = NoCheckpoint
  BY NoneType DEF CutInv
<1>2. disk \in [File -> Content]
  BY DEF Inv, TypeInv, TypeOK
<1>3. /\ Stable = Restored(cp[InProgress], Restored(cp[Temp], disk))
      /\ Stable' = Restored(cp'[InProgress], Restored(cp'[Temp], disk'))
  BY DEF Stable, Permanent
<1> QED
  BY <1>1, <1>2, <1>3, NoneType, RestoredNone

(* The files that the rollback writes do not count for the entry that it   *)
(* goes to.                                                                *)
LEMMA RollbackMoves ==
    ASSUME Inv, CutInv, RollbackInv, TypeOK', goal = "rollback",
           RestoreFile \/ (\E f \in File : RemoveNewFile(f)) \/ Crash \/ RecoveryFails
    PROVE  /\ Point' = Point
           /\ History!OneFileMoves \/ UNCHANGED Stable
<1>1. TypeOK /\ target \in Stamp /\ Newest(target, Finalized) /\ cp' = cp
  BY DEF Inv, TypeInv, RollbackInv, RestoreFile, RemoveNewFile, Crash, RecoveryFails
<1>2. Stable = disk /\ Stable' = disk'
  BY <1>1, RollbackDisk DEF TypeOK
<1>3. Restored(cp[target], disk') = Restored(cp[target], disk)
  <2>1. \A g \in File : After(cp[target], g, disk'[g]) = After(cp[target], g, disk[g])
    BY Overwrites
  <2> QED
    BY <2>1, RestoredIs
<1>4. \A t \in Finalized : Above(Finalized, t) = {} => t = target
  BY <1>1, FinalizedStamps DEF Above, Newest
<1>5. Points(cp, Finalized, Stable') = Points(cp, Finalized, Stable)
  BY <1>2, <1>3, <1>4, FinalizedStamps, PointsSame
<1>6. Point' = Point
  BY <1>1, <1>5, PointIs DEF Finalized
<1>7. History!OneFileMoves \/ disk' = disk
  <2>1. CASE RestoreFile
    <3>1. idx + 1 \in DOMAIN cp[target].paths /\ target \in Dir
      BY <1>1, <2>1, StampDirs, DirType DEF RestoreFile, TypeOK
    <3>2. cp[target].paths[idx + 1] \in File /\ cp[target].backup[idx + 1] \in Content
      BY <1>1, <3>1, DirType
    <3> QED
      BY <1>2, <2>1, <3>2 DEF RestoreFile, History!OneFileMoves
  <2>2. CASE (Crash \/ RecoveryFails) /\ disk' # disk
    <3>1. idx + 1 \in DOMAIN cp[target].paths /\ target \in Dir
      BY <1>1, <2>2, StampDirs, DirType DEF Crash, RecoveryFails, HalfRestored, TypeOK
    <3>2. cp[target].paths[idx + 1] \in File
      BY <1>1, <3>1, DirType
    <3> QED
      BY <1>2, <2>2, <3>2 DEF Crash, RecoveryFails, HalfRestored, History!OneFileMoves, Content
  <2>3. CASE \E f \in File : RemoveNewFile(f)
    BY <1>2, <2>3 DEF RemoveNewFile, History!OneFileMoves, Content
  <2> QED
    BY <2>1, <2>2, <2>3
<1> QED
  BY <1>2, <1>6, <1>7

(* The directory of the newest entry goes.                                 *)
LEMMA RollbackFinishes ==
    ASSUME Inv, CutInv, RollbackInv, TypeOK', goal = "rollback", RemoveCheckpoint
    PROVE  HistoryStep
<1>1. /\ TypeOK /\ target \in Stamp /\ Newest(target, Finalized) /\ disk' = disk
      /\ pc = "remove" /\ todo = {} /\ cp' = [cp EXCEPT ![target] = NoCheckpoint]
  BY DEF Inv, TypeInv, RollbackInv, RemoveCheckpoint
<1>2. /\ cp'[target] = NoCheckpoint
      /\ \A t \in Stamp : t # target => cp'[t] = cp[t]
      /\ \A d \in Working : cp'[d] = cp[d]
  BY <1>1, StampDirs, NoneType DEF TypeOK
<1>3. Stable = disk /\ Stable' = disk
  BY <1>1, <1>2, RollbackDisk DEF TypeOK
<1>4. Restored(cp[target], Stable) = Stable
  <2>1. \A g \in File : After(cp[target], g, disk[g]) = disk[g]
    BY <1>1, RecoveredDisk
  <2>2. disk = [g \in File |-> disk[g]]
    BY <1>1 DEF TypeOK
  <2> QED
    BY <1>3, <2>1, <2>2, RestoredIs
<1>5. Finalized' = Finalized \ {target}
  BY <1>2, NoneType DEF Finalized
<1>6. /\ Point = [t \in Finalized |-> Point[t]] /\ Point[target] = Stable
      /\ \A t \in Finalized' : Point[t] = Point'[t]
  <2> DEFINE c == cp'  d == cp  st == Stable'  su == Stable  F == Finalized'  G == Finalized
             p == Points(c, F, st)
             q == Points(d, G, su)
  <2>1. Appends(target, MaxStamp, F, c, st, G, d, su)
    <3>1. G = F \cup {target} /\ target \in 1..MaxStamp
      BY <1>1, <1>5 DEF Newest, Stamp
    <3>2. \A t \in F : t < target
      BY <1>1, <1>5, <3>1, FinalizedStamps DEF Newest
    <3>3. \A t \in F : d[t] = c[t]
      BY <1>2, <1>5, FinalizedStamps DEF Stamp
    <3>4. F \in SUBSET (1..MaxStamp) /\ MaxStamp \in Nat
      BY <1>5, FinalizedStamps
    <3> QED
      BY <1>3, <1>4, <3>1, <3>2, <3>3, <3>4 DEF Appends
  <2> HIDE DEF c, d, st, su, F, G
  <2>2. q = [t \in G |-> q[t]] /\ q[target] = st /\ \A t \in F : q[t] = p[t]
    BY <2>1, PointsCommit
  <2> QED
    BY <1>3, <2>2, PointIs DEF c, d, st, su, F, G
<1>7. Point' = [t \in Finalized' |-> Point'[t]]
  <2>1. Finalized' \in SUBSET (1..MaxStamp) /\ MaxStamp \in Nat
    BY <1>5, FinalizedStamps
  <2> DEFINE c == cp'  st == Stable'  F == Finalized'
             p == Points(c, F, st)
  <2> HIDE DEF c, st, F
  <2>2. p = [t \in F |-> p[t]]
    BY <2>1, PointsAt DEF F
  <2> QED
    BY <2>2, PointIs DEF c, st, F
<1>8. Point' = [t \in Finalized \ {target} |-> Point[t]]
  BY <1>5, <1>6, <1>7
<1>9. History!Newest(target) /\ target \in DOMAIN Point
  BY <1>1, PointDomain DEF History!Newest, Newest
<1>10. History!Finish
  BY <1>3, <1>6, <1>8, <1>9, PointDomain DEF History!Finish
<1> QED
  BY <1>10 DEF HistoryStep, History!Next

LEMMA HistoryNext ==
    ASSUME Inv, CutInv, RollbackInv, TypeOK', Next, ~ rmtreeCut'
    PROVE  HistoryStep
<1>1. /\ TypeOK /\ (goal # "none" <=> pc \in {"undo", "restore", "remove"})
      /\ goal \notin {"none", "rollback"} => target \in Working
  BY DEF Inv, TypeInv, Recovering, TypeOK
<1>2. ~ RmtreeStops
  BY DEF RmtreeStops
<1>3. ASSUME cp' = cp, disk' = disk
      PROVE  Stable' = Stable /\ Point' = Point
  BY <1>3, StableDirs, HistorySame
<1>4. CASE \E n \in 1..MaxStamp : RollbackCheckpoints(n)
  <2>1. /\ goal = "none" /\ goal' = "rollback" /\ cp' = cp /\ disk' = disk
        /\ Finalized # {}
    BY <1>1, <1>4 DEF RollbackCheckpoints, Undo, Newest
  <2>2. History!Begin
    BY <1>3, <2>1, PointDomain DEF History!Begin
  <2> QED
    BY <2>2 DEF HistoryStep, History!Next
<1>5. CASE RestoreDone \/ \E failing \in SUBSET Module : RunUndoCommands(failing)
  <2>1. goal' = goal /\ cp' = cp /\ disk' = disk
    BY <1>5 DEF RestoreDone, RunUndoCommands, local
  <2> QED
    BY <1>3, <2>1 DEF HistoryStep
<1>6. CASE RestoreFile \/ \E f \in File : RemoveNewFile(f)
  <2>1. goal' = goal /\ cp' = cp
    BY <1>6 DEF RestoreFile, RemoveNewFile
  <2>2. CASE goal = "rollback"
    <3>1. History!Move \/ (UNCHANGED Stable /\ Point' = Point)
      BY <1>6, <2>1, <2>2, RollbackMoves DEF History!Move
    <3> QED
      BY <2>1, <3>1 DEF HistoryStep, History!Next
  <2>3. CASE goal # "rollback"
    <3>1. target \in Working
      BY <1>1, <1>6, <2>3 DEF RestoreFile, RemoveNewFile
    <3>2. Stable' = Stable /\ Point' = Point
      BY <1>6, <2>1, <3>1, StableRecovers, HistorySame
    <3> QED
      BY <2>1, <3>2 DEF HistoryStep
  <2> QED
    BY <2>2, <2>3
<1>7. CASE RestoreFails \/ Crash \/ RecoveryFails
  <2>1. goal' = "none" /\ cp' = cp
    BY <1>7 DEF RestoreFails, Crash, RecoveryFails, Raise, Return, Die,
              CallOver
  <2>2. CASE goal = "rollback"
    <3>1. (History!OneFileMoves \/ UNCHANGED Stable) /\ Point' = Point
      BY <1>3, <1>7, <2>1, <2>2, RollbackMoves DEF RestoreFails
    <3>2. History!Abort
      BY <2>1, <2>2, <3>1 DEF History!Abort
    <3> QED
      BY <3>2 DEF HistoryStep, History!Next
  <2>3. CASE goal # "rollback"
    <3>1. disk' = disk \/ ((Crash \/ RecoveryFails) /\ target \in Working)
      <4>1. disk' = disk \/ ((Crash \/ RecoveryFails) /\ pc = "restore")
        BY <1>7 DEF RestoreFails, Crash, RecoveryFails, HalfRestored
      <4> QED
        BY <1>1, <2>3, <4>1
    <3>2. Stable' = Stable /\ Point' = Point
      BY <1>3, <2>1, <3>1, StableRecovers, HistorySame
    <3> QED
      BY <2>1, <2>3, <3>2 DEF HistoryStep
  <2> QED
    BY <2>2, <2>3
<1>8. CASE RemoveCheckpoint
  <2>1. CASE goal = "rollback"
    BY <1>8, <2>1, RollbackFinishes
  <2>2. CASE goal # "rollback"
    <3>1. target \in Working /\ goal' # "rollback"
      BY <1>1, <1>8, <2>2 DEF RemoveCheckpoint, Undo, Return, CallOver
    <3>2. \A s \in Stamp : cp'[s] = cp[s]
      BY <1>1, <1>8, <3>1, StampDirs DEF RemoveCheckpoint, TypeOK
    <3>3. Stable' = Stable /\ Point' = Point
      BY <1>8, <3>1, <3>2, StableRemove, HistorySame
    <3> QED
      BY <2>2, <3>1, <3>3 DEF HistoryStep
  <2> QED
    BY <2>1, <2>2
<1>9. CASE \E clock \in Stamp : FinalizeCheckpoint(clock)
  BY <1>9, FinalizeCommits
<1> QED
  BY <1>2, <1>4, <1>5, <1>6, <1>7, <1>8, <1>9, QuietCalls DEF Next, Plugin, Proceed, Environment

LEMMA HistoryInit == Init => History!Init
<1> SUFFICES ASSUME Init PROVE History!Init
  OBVIOUS
<1>1. Finalized = {}
  BY NoneType, StampDirs DEF Init, Finalized
<1>2. Stable \in [File -> Content]
  BY TypeInit, StableType DEF TypeInv
<1>3. Point = [s \in {} |-> Point[s]]
  BY <1>1, PointDomain
<1>4. Point = [s \in {} |-> Stable]
  BY <1>3
<1> QED
  BY <1>2, <1>4 DEF Init, History!Init

(* The Reverter implements ConfigHistory as long as no rmtree is cut: the  *)
(* finalized checkpoints are a history that grows at its end and is taken  *)
(* back from its end, and every interrupted call leaves it whole.          *)
THEOREM HistoryIsKept == Spec /\ [](~ rmtreeCut) => KeepsHistory
<1>1. /\ Inv /\ CutInv /\ RollbackInv /\ TypeOK' /\ (~ rmtreeCut)'
      /\ [Next]_vars
      => [History!Next]_(History!vars)
  <2> SUFFICES ASSUME Inv, CutInv, RollbackInv, TypeOK', ~ rmtreeCut', [Next]_vars
               PROVE  [History!Next]_(History!vars)
    OBVIOUS
  <2>1. CASE Next
    BY <2>1, HistoryNext DEF HistoryStep, History!vars
  <2>2. CASE UNCHANGED vars
    <3>1. Stable' = Stable /\ Point' = Point
      BY <2>2, StableDirs, HistorySame DEF vars
    <3> QED
      BY <2>2, <3>1 DEF History!vars, vars, local
  <2> QED
    BY <2>1, <2>2
<1>2. Inv => TypeOK
  BY DEF Inv, TypeInv
<1> QED
  BY <1>1, <1>2, HistoryInit, CutInvariant, RollbackInit, RollbackStep, PTL
     DEF Spec, KeepsHistory, History!Spec
=============================================================================
