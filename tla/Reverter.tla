------------------------------ MODULE Reverter ------------------------------
(***************************************************************************)
(* The configuration checkpoints of certbot (certbot/reverter.py) with the *)
(* plugin that uses them.  A plugin announces a change to the Reverter     *)
(* before it makes it; the announcement goes to one of two working         *)
(* checkpoint directories, TEMP (challenge configuration) or IN_PROGRESS   *)
(* (changes not finalized yet), and finalize_checkpoint turns IN_PROGRESS  *)
(* into a time-stamped directory of its own.  Every directory is read      *)
(* again by a later process, so everything here but pc and the locals of a *)
(* call survives a crash, and a crash may fall between any two steps.      *)
(***************************************************************************)
EXTENDS Naturals, Sequences, FiniteSets

CONSTANTS
    File,             \* configuration files that plugins create or modify
    Data,             \* what such a file can contain
    Absent,           \* the "content" of a file that does not exist
    Module,           \* server modules a plugin enables by a command
    Temp, InProgress, \* the two working checkpoint directories
    MaxStamp,         \* bound: time stamps are ticks 1..MaxStamp
    Second,           \* ticks in the second a time-travelling stamp skips
    MaxIndex,         \* bound: files backed up in one checkpoint
    MaxFaults,        \* bound: crashes and failed system calls
    RmtreeMayStop     \* a fault may hit in the middle of shutil.rmtree

ASSUME DataAssumption == Absent \notin Data
ASSUME DirAssumption ==
    /\ MaxStamp \in Nat /\ Second \in Nat \ {0} /\ MaxIndex \in Nat
    /\ Temp # InProgress
    /\ Temp \notin Nat /\ InProgress \notin Nat

VARIABLES
    disk,       \* the content of every configuration file
    enabled,    \* the server modules that are enabled
    cp,         \* the checkpoint directories, working and finalized
    pc,         \* what the running process does, "off" when none runs
    goal,       \* the call that recovers ("prepare", "recovery", "revert",
                \* "rollback")
    target,     \* the checkpoint directory the current call works on
    left,       \* rollback_checkpoints: checkpoints still to roll back
    todo,       \* the save_files (or NEW_FILES) the loop has not treated
    lines,      \* names read from FILEPATHS and written to its buffer
    idx,        \* _recover_checkpoint: entries of FILEPATHS restored
    granted,    \* [dir, files] the last successful call lets the plugin write
    faults,     \* crashes and failed calls so far
    undoFailed, \* the modules an undo command of which failed (the code logs
                \* it and goes on)
    rmtreeCut   \* some rmtree stopped half-way

local == <<goal, target, left, todo, lines, idx, granted>>
history == <<faults, undoFailed, rmtreeCut>>
vars == <<disk, enabled, cp, pc, local, history>>

Content == Data \cup {Absent}
Stamp == 1..MaxStamp
Index == 1..MaxIndex
Dir == {Temp, InProgress} \cup Stamp

Working == {Temp, InProgress}

(* A checkpoint directory: FILEPATHS, the backups by index (Absent where   *)
(* there is none: only files that exist are backed up), NEW_FILES and      *)
(* COMMANDS.                                                               *)
Checkpoint == [exists : BOOLEAN, paths : Seq(File), backup : [Index -> Content],
               new : SUBSET File, undo : SUBSET Module]
NoCheckpoint == [exists |-> FALSE, paths |-> << >>,
                 backup |-> [i \in Index |-> Absent], new |-> {}, undo |-> {}]

Saved(c) == {c.paths[i] : i \in DOMAIN c.paths}
Recorded(c) == Saved(c) \cup c.new
NoGrant == [dir |-> Temp, files |-> {}]
Finalized == {s \in Stamp : cp[s].exists}
Newest(s, S) == s \in S /\ \A t \in S : t <= s

-----------------------------------------------------------------------------
(* What the checkpoints promise, read off the directories.                 *)

(* The files after a recovery of checkpoint c that starts from d.          *)
Restored(c, d) ==
    [f \in File |->
        IF f \in c.new THEN Absent
        ELSE IF \E i \in DOMAIN c.paths : c.paths[i] = f /\ c.backup[i] # Absent
             THEN c.backup[CHOOSE i \in DOMAIN c.paths :
                               c.paths[i] = f /\ c.backup[i] # Absent]
             ELSE d[f]]

(* The files without the challenge configuration, and without anything     *)
(* that was not finalized.                                                 *)
Permanent == Restored(cp[Temp], disk)
Stable == Restored(cp[InProgress], Permanent)

(* The files the rollback of finalized checkpoint s leads to.              *)
Point ==
    LET Above(s) == {t \in Finalized : t > s}
        point[s \in Finalized] ==
            Restored(cp[s],
                IF Above(s) = {} THEN Stable
                ELSE point[CHOOSE t \in Above(s) : \A u \in Above(s) : t <= u])
    IN point
-----------------------------------------------------------------------------
Init ==
    /\ disk \in [File -> Content]
    /\ enabled = {}
    /\ cp = [d \in Dir |-> NoCheckpoint]
    /\ pc = "off"
    /\ goal = "none" /\ target = Temp /\ left = 0
    /\ todo = {} /\ lines = << >> /\ idx = 0
    /\ granted = NoGrant
    /\ faults = 0
    /\ undoFailed = {} /\ rmtreeCut = FALSE

Fault == faults < MaxFaults /\ faults' = faults + 1

(* The locals of a call that is over.                                      *)
CallOver ==
    /\ goal' = "none" /\ target' = Temp /\ left' = 0
    /\ todo' = {} /\ lines' = << >> /\ idx' = 0

(* Back in the plugin, by a return (grant) or by an exception (NoGrant).   *)
Return(grant) == pc' = "idle" /\ granted' = grant /\ CallOver

(* The process ends: by itself, by an error the plugin does not handle, or *)
(* by a crash.  The directories stay as they are.                          *)
Die == pc' = "off" /\ granted' = NoGrant /\ CallOver

(* What becomes of the error of a recovery: the program ends, or, where an *)
(* authenticator called it to clean up, ErrorHandler logs the error and    *)
(* the process goes on with what is left.                                  *)
Raise == Die \/ (goal \in {"recovery", "revert"} /\ Return(NoGrant))

-----------------------------------------------------------------------------
(* add_to_checkpoint and add_to_temp_checkpoint.                           *)

(* make_or_verify_dir.                                                     *)
DirNotMade(d) == cp
DirMade(d) == [cp EXCEPT ![d].exists = TRUE]

(* _check_tempfile_saves lets no permanent save touch a TEMP file.         *)
NothingProtected(d, S) == FALSE
Protected(d, S) == d = InProgress /\ S \cap Recorded(cp[Temp]) # {}

AddToCheckpoint(d, S) ==
    /\ pc = "idle"
    /\ ~ Protected(d, S)
    /\ cp' = DirMade(d)
    /\ pc' = "add"
    /\ target' = d
    /\ todo' = S
    /\ lines' = cp[d].paths
    /\ granted' = [dir |-> d, files |-> S]
    /\ UNCHANGED <<disk, enabled, goal, left, idx, history>>

(* A protected save raises before anything is written.                     *)
RefuseAdd(d, S) ==
    /\ pc = "idle"
    /\ Protected(d, S)
    /\ Return(NoGrant)
    /\ UNCHANGED <<disk, enabled, cp, history>>

(* The index of the next backup.                                           *)
IndexNotMoved == Len(cp[target].paths) + 1
NextIndex == Len(lines) + 1

(* One turn of the loop: a file not in FILEPATHS yet is copied to          *)
(* <basename>_<idx> and its name goes to the buffer of FILEPATHS.          *)
BackUp(f) ==
    /\ pc = "add" /\ f \in todo
    /\ todo' = todo \ {f}
    /\ IF \E i \in DOMAIN cp[target].paths : cp[target].paths[i] = f
       THEN UNCHANGED <<cp, lines>>
       ELSE /\ disk[f] # Absent /\ Len(lines) < MaxIndex
            /\ lines' = Append(lines, f)
            /\ cp' = [cp EXCEPT ![target].backup[NextIndex] = disk[f]]
    /\ UNCHANGED <<disk, enabled, pc, goal, target, left, idx, granted, history>>

(* The copy fails, because there is no such file or by a fault: FILEPATHS  *)
(* is closed, which writes the names of the files copied so far, and the   *)
(* plugin gets an error.                                                   *)
BackUpFails(f) ==
    /\ pc = "add" /\ f \in todo
    /\ \A i \in DOMAIN cp[target].paths : cp[target].paths[i] # f
    /\ \/ disk[f] = Absent /\ UNCHANGED faults
       \/ disk[f] # Absent /\ Fault
    /\ cp' = [cp EXCEPT ![target].paths = lines]
    /\ Return(NoGrant)
    /\ UNCHANGED <<disk, enabled, undoFailed, rmtreeCut>>

(* FILEPATHS is closed: only now are the names on the disk.                *)
AddDone ==
    /\ pc = "add" /\ todo = {}
    /\ cp' = [cp EXCEPT ![target].paths = lines]
    /\ Return(granted)
    /\ UNCHANGED <<disk, enabled, history>>

-----------------------------------------------------------------------------
(* register_file_creation and register_undo_command.  A plugin registers a *)
(* file that does not exist, or that it created itself in the same         *)
(* checkpoint; the names of challenge files are used for nothing else,     *)
(* which here, unlike in add_to_checkpoint, the Reverter does not check.   *)
RegisterFileCreation(d, f) ==
    /\ pc = "idle"
    /\ disk[f] = Absent \/ f \in cp[d].new
    /\ d = InProgress => f \notin Recorded(cp[Temp])
    /\ f \notin Saved(cp[d])
    /\ cp' = [cp EXCEPT ![d].exists = TRUE, ![d].new = @ \cup {f}]
    /\ Return([dir |-> d, files |-> {f}])
    /\ UNCHANGED <<disk, enabled, history>>

(* enable_mod registers the undo command of a module that is not enabled.  *)
RegisterUndoCommand(d, m) ==
    /\ pc = "idle"
    /\ m \notin enabled
    /\ cp' = [cp EXCEPT ![d].exists = TRUE, ![d].undo = @ \cup {m}]
    /\ Return(NoGrant)
    /\ UNCHANGED <<disk, enabled, history>>

-----------------------------------------------------------------------------
(* The plugin changes what it has announced.  It never deletes a file.     *)
PluginWrite(f, c) ==
    /\ pc = "idle" /\ f \in granted.files
    /\ disk' = [disk EXCEPT ![f] = c]
    /\ UNCHANGED <<enabled, cp, pc, local, history>>

PluginEnable(m) ==
    /\ pc = "idle"
    /\ m \in cp[Temp].undo \cup cp[InProgress].undo
    /\ enabled' = enabled \cup {m}
    /\ UNCHANGED <<disk, cp, pc, local, history>>

-----------------------------------------------------------------------------
(* finalize_checkpoint.                                                    *)

(* _checkpoint_timestamp: the clock's time, moved past the newest          *)
(* checkpoint when the clock is not ahead of it.                           *)
ClockTime(clock) == clock
Timestamp(clock) ==
    LET newest == CHOOSE s \in Finalized : Newest(s, Finalized)
    IN IF Finalized = {} \/ clock > newest THEN clock
       ELSE IF clock < newest THEN newest + Second
       ELSE newest + 1

FinalizeCheckpoint(clock) ==
    /\ pc = "idle" /\ cp[InProgress].exists
    /\ LET s == Timestamp(clock) IN
        /\ s \in Stamp
        /\ cp' = [cp EXCEPT ![s] = cp[InProgress], ![InProgress] = NoCheckpoint]
    /\ Return(NoGrant)
    /\ UNCHANGED <<disk, enabled, history>>

(* The title is not written, or the rename fails twice: IN_PROGRESS stays. *)
FinalizeFails ==
    /\ pc = "idle" /\ cp[InProgress].exists
    /\ Fault
    /\ Return(NoGrant)
    /\ UNCHANGED <<disk, enabled, cp, undoFailed, rmtreeCut>>

-----------------------------------------------------------------------------
(* recovery_routine, revert_temporary_config, rollback_checkpoints: each   *)
(* runs _recover_checkpoint on one directory after the other.              *)

Undo(g, d, n) ==
    /\ pc' = "undo" /\ goal' = g /\ target' = d /\ left' = n
    /\ todo' = {} /\ lines' = << >> /\ idx' = 0
    /\ granted' = NoGrant

InProgressFirst(g) ==
    CASE g # "revert" /\ cp[InProgress].exists -> Undo(g, InProgress, 0)
      [] ~ (g # "revert" /\ cp[InProgress].exists) /\ cp[Temp].exists ->
            Undo(g, Temp, 0)
      [] OTHER -> Return(NoGrant)

TempOnly(g) ==
    IF cp[Temp].exists THEN Undo(g, Temp, 0) ELSE Return(NoGrant)

(* Where recovery_routine and revert_temporary_config begin.               *)
Recover(g) ==
    CASE cp[Temp].exists -> Undo(g, Temp, 0)
      [] ~ cp[Temp].exists /\ g # "revert" /\ cp[InProgress].exists ->
            Undo(g, InProgress, 0)
      [] OTHER -> Return(NoGrant)

RecoveryRoutine ==
    /\ pc = "idle"
    /\ Recover("recovery")
    /\ UNCHANGED <<disk, enabled, cp, history>>

RevertTemporaryConfig ==
    /\ pc = "idle"
    /\ Recover("revert")
    /\ UNCHANGED <<disk, enabled, cp, history>>

(* A plugin is prepared: both configurators recover before anything else,  *)
(* and cannot be used when that fails.                                     *)
Start ==
    /\ pc = "off"
    /\ Recover("prepare")
    /\ UNCHANGED <<disk, enabled, cp, history>>

(* Rollbacks are called with no change pending.                            *)
RollbackCheckpoints(n) ==
    /\ pc = "idle"
    /\ ~ cp[Temp].exists /\ ~ cp[InProgress].exists
    /\ \E s \in Stamp : Newest(s, Finalized) /\ Undo("rollback", s, n)
    /\ UNCHANGED <<disk, enabled, cp, history>>

TempCommands(d) == cp[Temp].undo
Commands(d) == cp[d].undo

(* _run_undo_commands: a command that fails is logged and passed over.     *)
RunUndoCommands(failing) ==
    /\ pc = "undo"
    /\ failing \subseteq Commands(target) \cap enabled
    /\ IF failing = {} THEN UNCHANGED faults ELSE Fault
    /\ enabled' = enabled \ (Commands(target) \ failing)
    /\ undoFailed' = undoFailed \cup failing
    /\ pc' = "restore"
    /\ UNCHANGED <<disk, cp, local, rmtreeCut>>

(* The next file of FILEPATHS is copied back.                              *)
RestoreFile ==
    /\ pc = "restore" /\ idx < Len(cp[target].paths)
    /\ cp[target].backup[idx + 1] # Absent
    /\ disk' = [disk EXCEPT ![cp[target].paths[idx + 1]] =
                                cp[target].backup[idx + 1]]
    /\ idx' = idx + 1
    /\ UNCHANGED <<enabled, cp, pc, goal, target, left, todo, lines, granted, history>>

(* The backup is not there: ReverterError.                                 *)
RestoreFails ==
    /\ pc = "restore" /\ idx < Len(cp[target].paths)
    /\ cp[target].backup[idx + 1] = Absent
    /\ Raise
    /\ UNCHANGED <<disk, enabled, cp, history>>

RestoreDone ==
    /\ pc = "restore" /\ idx = Len(cp[target].paths)
    /\ pc' = "remove"
    /\ todo' = cp[target].new
    /\ UNCHANGED <<disk, enabled, cp, goal, target, left, lines, idx, granted, history>>

(* _remove_contained_files; a file that is not there is passed over.       *)
RemoveNewFile(f) ==
    /\ pc = "remove" /\ f \in todo
    /\ disk' = [disk EXCEPT ![f] = Absent]
    /\ todo' = todo \ {f}
    /\ UNCHANGED <<enabled, cp, pc, goal, target, left, lines, idx, granted, history>>

(* shutil.rmtree has removed the directory: go on with IN_PROGRESS after   *)
(* TEMP, with the next checkpoint of a rollback, or return.                *)
RemoveCheckpoint ==
    /\ pc = "remove" /\ todo = {}
    /\ cp' = [cp EXCEPT ![target] = NoCheckpoint]
    /\ CASE goal \in {"prepare", "recovery"} /\ target = Temp /\ cp[InProgress].exists ->
                Undo(goal, InProgress, 0)
         [] goal = "rollback" /\ left > 1 /\ Finalized # {target} ->
                \E s \in Stamp : /\ Newest(s, Finalized \ {target})
                                 /\ Undo(goal, s, left - 1)
         [] OTHER -> Return(NoGrant)
    /\ UNCHANGED <<disk, enabled, history>>

(* rmtree removes the entries of the directory in no particular order; a   *)
(* crash, or an error, leaves some of them.                                *)
RmtreeStops ==
    /\ RmtreeMayStop
    /\ pc = "remove" /\ todo = {}
    /\ Fault
    /\ \E paths \in {<< >>, cp[target].paths}, new \in {{}, cp[target].new},
          undo \in {{}, cp[target].undo},
          kept \in SUBSET {i \in Index : cp[target].backup[i] # Absent} :
        cp' = [cp EXCEPT ![target].paths = paths, ![target].new = new,
                         ![target].undo = undo,
                         ![target].backup = [i \in Index |-> IF i \in kept THEN @[i]
                                                              ELSE Absent]]
    /\ Raise
    /\ rmtreeCut' = TRUE
    /\ UNCHANGED <<disk, enabled, undoFailed>>

-----------------------------------------------------------------------------
(* The program ends with whatever is pending.                              *)
Exit ==
    /\ pc = "idle"
    /\ Die
    /\ UNCHANGED <<disk, enabled, cp, history>>

(* A file that is being copied back may be cut short.                      *)
HalfRestored ==
    \/ UNCHANGED disk
    \/ /\ pc = "restore" /\ idx < Len(cp[target].paths)
       /\ cp[target].backup[idx + 1] # Absent
       /\ \E c \in Data : disk' = [disk EXCEPT ![cp[target].paths[idx + 1]] = c]

(* The process is killed.                                                  *)
Crash ==
    /\ pc # "off"
    /\ Fault
    /\ HalfRestored
    /\ Die
    /\ UNCHANGED <<enabled, cp, undoFailed, rmtreeCut>>

(* A system call of a recovery fails.                                      *)
RecoveryFails ==
    /\ pc \in {"undo", "restore", "remove"}
    /\ Fault
    /\ HalfRestored
    /\ Raise
    /\ UNCHANGED <<enabled, cp, undoFailed, rmtreeCut>>

-----------------------------------------------------------------------------
Plugin ==
    \/ \E d \in Working, S \in (SUBSET File) \ {{}} :
            AddToCheckpoint(d, S) \/ RefuseAdd(d, S)
    \/ \E d \in Working, f \in File : RegisterFileCreation(d, f)
    \/ \E d \in Working, m \in Module : RegisterUndoCommand(d, m)
    \/ \E f \in File, c \in Data : PluginWrite(f, c)
    \/ \E m \in Module : PluginEnable(m)
    \/ \E clock \in Stamp : FinalizeCheckpoint(clock)
    \/ FinalizeFails
    \/ RecoveryRoutine
    \/ RevertTemporaryConfig
    \/ \E n \in 1..MaxStamp : RollbackCheckpoints(n)

(* The steps of a call that is under way.                                  *)
Proceed ==
    \/ \E f \in File : BackUp(f) \/ BackUpFails(f)
    \/ AddDone
    \/ \E failing \in SUBSET Module : RunUndoCommands(failing)
    \/ RestoreFile \/ RestoreFails \/ RestoreDone
    \/ \E f \in File : RemoveNewFile(f)
    \/ RemoveCheckpoint

Environment == RmtreeStops \/ Exit \/ Crash \/ RecoveryFails

Next == Start \/ Plugin \/ Proceed \/ Environment

(* A call runs on until it returns, and certbot is run again (certbot      *)
(* renew is a cron job or a timer).                                        *)
Fairness == WF_vars(Start) /\ WF_vars(Proceed)

Spec == Init /\ [][Next]_vars
FairSpec == Spec /\ Fairness
-----------------------------------------------------------------------------
(* The type invariant: what the variables can hold, and that a directory   *)
(* that does not exist holds nothing.                                      *)
TypeOK ==
    /\ disk \in [File -> Content]
    /\ enabled \subseteq Module
    /\ cp \in [Dir -> Checkpoint]
    /\ \A d \in Dir : /\ Len(cp[d].paths) <= MaxIndex
                      /\ ~ cp[d].exists => cp[d] = NoCheckpoint
    /\ pc \in {"off", "idle", "add", "undo", "restore", "remove"}
    /\ goal \in {"none", "prepare", "recovery", "revert", "rollback"}
    /\ target \in Dir
    /\ left \in Nat
    /\ todo \subseteq File
    /\ lines \in Seq(File) /\ Len(lines) <= MaxIndex
    /\ idx \in 0..MaxIndex
    /\ granted \in [dir : Working, files : SUBSET File]
    /\ faults \in Nat
    /\ undoFailed \subseteq Module /\ rmtreeCut \in BOOLEAN

(* The step is one of finalize_checkpoint that succeeds.                   *)
Finalizing == pc = "idle" /\ cp[InProgress].exists /\ ~ cp'[InProgress].exists

(* What a recovery leads to is moved by nothing but the finalization of a  *)
(* checkpoint and a rollback: not by any write of a plugin, temporary or   *)
(* not, nor by a fault at any point of any call, recoveries included (but  *)
(* for a fault in the middle of rmtree).                                   *)
StableKept ==
    [][\/ Stable' = Stable
       \/ Finalizing
       \/ goal = "rollback"
       \/ rmtreeCut']_vars

(* FILEPATHS of d names f and has no backup of it, so that the next save   *)
(* passes f over: an rmtree was cut.                                       *)
Unbacked(d, f) ==
    \E i \in DOMAIN cp[d].paths : cp[d].paths[i] = f /\ cp[d].backup[i] = Absent

(* Not even a stop in the middle of rmtree moves a file that a recovery    *)
(* gives back to the user, whether the process ends or goes on, but for    *)
(* one thing: a process that goes on may write f once more after its own   *)
(* rmtree lost the backup of f and left the name in FILEPATHS.             *)
OriginalsKept ==
    [][\/ \A f \in File : \/ Stable[f] # Absent => Stable'[f] = Stable[f]
                          \/ pc = "idle" /\ f \in granted.files /\ Unbacked(granted.dir, f)
       \/ Finalizing
       \/ goal = "rollback"]_vars

(* revert_temporary_config takes back the temporary changes and only them: *)
(* what it leads to is moved by no temporary write, and every permanent    *)
(* write moves it to what was written.                                     *)
TemporaryIsApart ==
    [][/\ pc = "idle" /\ granted.dir = InProgress =>
             \A f \in File : disk'[f] # disk[f] => Permanent'[f] = disk'[f]
       /\ \/ pc = "idle" /\ granted.dir = Temp
          \/ pc # "idle" /\ target = Temp
          => Permanent' = Permanent \/ rmtreeCut']_vars

(* A module certbot enabled for a change that was not finalized does not   *)
(* stay enabled, unless its own undo command failed: one that fails keeps  *)
(* no other module enabled.                                                *)
StableModules == enabled \ (cp[Temp].undo \cup cp[InProgress].undo)
ModulesGoBack ==
    [][StableModules' \ undoFailed' \subseteq StableModules \/ Finalizing]_vars

(* Every name of FILEPATHS has its backup: _recover_checkpoint calls it    *)
(* "required in all checkpoints" and raises without it.                    *)
BackupsComplete ==
    ~ rmtreeCut => \A d \in Dir  :
        \A i \in DOMAIN cp[d].paths : cp[d].backup[i] # Absent

(* Once certbot runs again and nothing fails any more, no working          *)
(* checkpoint of a dead process is left (recovery_routine, "useful to      *)
(* protect against crashes and other execution interruptions").            *)
Pending == cp[Temp].exists \/ cp[InProgress].exists
CrashesAreRecovered == (pc = "off" /\ Pending) ~> ~ Pending

(* The finalized checkpoints are a history that only grows at its end and  *)
(* is only taken back from its end.                                        *)
History == INSTANCE ConfigHistory WITH
    stable <- Stable, points <- Point, rolling <- goal = "rollback"
KeepsHistory == History!Spec
=============================================================================
