------------------------------ MODULE LockFile ------------------------------
(***************************************************************************)
(* The directory locks that keep two certbot processes apart               *)
(* (certbot/_internal/lock.py on a POSIX system, with lock_dir_until_exit  *)
(* and _release_locks of certbot/util.py).  A lock is a record lock        *)
(* (fcntl.lockf) on the file .certbot.lock of the directory, and the file  *)
(* is deleted when the lock is released: a process can lock a file that    *)
(* somebody has just unlinked, so it compares what it has locked with what *)
(* the path names now.                                                     *)
(*                                                                         *)
(* The kernel is modelled by what lock.py uses of it: paths name inodes, a *)
(* record lock belongs to a process and an inode, closing a descriptor     *)
(* gives up the process's lock on its inode, and an inode nothing refers   *)
(* to may be used again for a new file.                                    *)
(***************************************************************************)
EXTENDS Naturals, FiniteSets

CONSTANTS
    Process,    \* certbot processes
    Dir,        \* directories they lock (logs, configuration, work, plugins')
    Inode,      \* inodes of the file system
    None        \* no inode, no process

ASSUME NoneAssumption == None \notin Inode /\ None \notin Process

VARIABLES
    link,       \* the inode .certbot.lock names in each directory
    owner,      \* the process that has the record lock on each inode
    fd,         \* the inode each process has open for each directory
    locks,      \* util._LOCKS of each process
    pc,         \* what each process does
    cur         \* the directory it acquires or releases

vars == <<link, owner, fd, locks, pc, cur>>

Init ==
    /\ link \in [Dir -> {None}]
    /\ owner \in [Inode -> {None}]
    /\ fd \in [Process -> [Dir -> {None}]]
    /\ locks \in [Process -> {{}}]
    /\ pc \in [Process -> {"off"}]
    /\ cur \in [Process -> Dir]

(* No path and no descriptor refers to the inode.                          *)
Free(i) == /\ \A d \in Dir : link[d] # i
           /\ \A p \in Process, d \in Dir : fd[p][d] # i

GoTo(p, label) == pc' = [pc EXCEPT ![p] = label]

(* close(2) on the descriptor p has for d.                                 *)
CloseFd(p, d) ==
    /\ fd' = [fd EXCEPT ![p][d] = None]
    /\ owner' = [i \in Inode |-> IF i = fd[p][d] /\ owner[i] = p THEN None
                                 ELSE owner[i]]

-----------------------------------------------------------------------------
Start(p) ==
    /\ pc[p] = "off"
    /\ GoTo(p, "run")
    /\ UNCHANGED <<link, owner, fd, locks, cur>>

(* lock_dir_until_exit: a directory this process has locked is passed over.*)
LockDir(p, d) ==
    /\ pc[p] = "run" /\ d \notin locks[p]
    /\ cur' = [cur EXCEPT ![p] = d]
    /\ GoTo(p, "acquire")
    /\ UNCHANGED <<link, owner, fd, locks>>

(* The loop of acquire: open with O_CREAT.                                 *)
Open(p) ==
    /\ pc[p] = "acquire"
    /\ LET d == cur[p] IN
        \E i \in Inode :
            /\ IF link[d] # None THEN i = link[d] ELSE Free(i)
            /\ link' = [link EXCEPT ![d] = i]
            /\ fd' = [fd EXCEPT ![p][d] = i]
    /\ GoTo(p, "opened")
    /\ UNCHANGED <<owner, locks, cur>>

(* _try_lock, which does not block.                                        *)
SharedLock(p) ==
    /\ pc[p] = "opened"
    /\ owner' = [owner EXCEPT ![fd[p][cur[p]]] = p]
    /\ GoTo(p, "locked")
    /\ UNCHANGED <<link, fd, locks, cur>>
TryLock(p) ==
    /\ pc[p] = "opened"
    /\ LET i == fd[p][cur[p]] IN
        /\ owner[i] = None
        /\ owner' = [owner EXCEPT ![i] = p]
    /\ GoTo(p, "locked")
    /\ UNCHANGED <<link, fd, locks, cur>>

(* Another process has the lock: LockError, and the program ends.          *)
HeldIsRetried(p) ==
    /\ pc[p] = "opened" /\ owner[fd[p][cur[p]]] # None
    /\ CloseFd(p, cur[p])
    /\ GoTo(p, "acquire")
    /\ UNCHANGED <<link, locks, cur>>
HeldIsLeaked(p) ==
    /\ pc[p] = "opened" /\ owner[fd[p][cur[p]]] # None
    /\ GoTo(p, "exit")
    /\ UNCHANGED <<link, owner, fd, locks, cur>>
LockHeld(p) ==
    /\ pc[p] = "opened" /\ owner[fd[p][cur[p]]] # None
    /\ CloseFd(p, cur[p])
    /\ GoTo(p, "exit")
    /\ UNCHANGED <<link, locks, cur>>

(* _lock_success: the path still names the inode that was locked.          *)
PathExists(p) == link[cur[p]] # None
SamePath(p) == link[cur[p]] = fd[p][cur[p]]

LockSuccess(p) ==
    /\ pc[p] = "locked" /\ SamePath(p)
    /\ locks' = [locks EXCEPT ![p] = @ \cup {cur[p]}]
    /\ GoTo(p, "run")
    /\ UNCHANGED <<link, owner, fd, cur>>

(* It does not: the file is closed and the loop opens the path again.      *)
LockStale(p) ==
    /\ pc[p] = "locked" /\ ~ SamePath(p)
    /\ CloseFd(p, cur[p])
    /\ GoTo(p, "acquire")
    /\ UNCHANGED <<link, locks, cur>>

-----------------------------------------------------------------------------
(* The program ends: _release_locks runs at exit.                          *)
Exit(p) ==
    /\ pc[p] = "run"
    /\ GoTo(p, "exit")
    /\ UNCHANGED <<link, owner, fd, locks, cur>>

(* release: the path is removed, or that fails, and then the descriptor is *)
(* closed.                                                                 *)
Remove(p, d) ==
    /\ pc[p] = "exit" /\ d \in locks[p]
    /\ cur' = [cur EXCEPT ![p] = d]
    /\ \/ link' = [link EXCEPT ![d] = None]
       \/ UNCHANGED link
    /\ GoTo(p, "removed")
    /\ UNCHANGED <<owner, fd, locks>>

NotClosed(p) ==
    /\ pc[p] = "removed"
    /\ locks' = [locks EXCEPT ![p] = @ \ {cur[p]}]
    /\ GoTo(p, "exit")
    /\ UNCHANGED <<link, owner, fd, cur>>
Close(p) ==
    /\ pc[p] = "removed"
    /\ CloseFd(p, cur[p])
    /\ locks' = [locks EXCEPT ![p] = @ \ {cur[p]}]
    /\ GoTo(p, "exit")
    /\ UNCHANGED <<link, cur>>

Exited(p) ==
    /\ pc[p] = "exit" /\ locks[p] = {}
    /\ GoTo(p, "off")
    /\ UNCHANGED <<link, owner, fd, locks, cur>>

(* A process that dies releases its locks, and leaves the files.           *)
Crash(p) ==
    /\ pc[p] # "off"
    /\ fd' = [fd EXCEPT ![p] = [d \in Dir |-> None]]
    /\ owner' = [i \in Inode |-> IF owner[i] = p THEN None ELSE owner[i]]
    /\ locks' = [locks EXCEPT ![p] = {}]
    /\ GoTo(p, "off")
    /\ UNCHANGED <<link, cur>>

-----------------------------------------------------------------------------
(* The steps of an acquire or a release that is under way.                 *)
Proceed(p) ==
    \/ Open(p) \/ TryLock(p) \/ LockHeld(p) \/ LockSuccess(p) \/ LockStale(p)
    \/ \E d \in Dir : Remove(p, d)
    \/ Close(p) \/ Exited(p)

Next == \E p \in Process :
    \/ Start(p) \/ (\E d \in Dir : LockDir(p, d)) \/ Exit(p)
    \/ Proceed(p)
    \/ Crash(p)

(* The system goes on scheduling a process that can run.                   *)
Spec == Init /\ [][Next]_vars
FairSpec == Spec /\ \A p \in Process : WF_vars(Proceed(p))
-----------------------------------------------------------------------------
Label == {"off", "run", "acquire", "opened", "locked", "exit", "removed"}

(* The type invariant: what the variables can hold, and that a process has *)
(* a descriptor open for the directories it has locked and for the one it  *)
(* is about to lock, and no other: acquire closes the files it gives up.   *)
TypeOK ==
    /\ link \in [Dir -> Inode \cup {None}]
    /\ owner \in [Inode -> Process \cup {None}]
    /\ fd \in [Process -> [Dir -> Inode \cup {None}]]
    /\ locks \in [Process -> SUBSET Dir]
    /\ pc \in [Process -> Label]
    /\ cur \in [Process -> Dir]
    /\ \A p \in Process, d \in Dir : fd[p][d] # None <=>
          d \in locks[p] \/ (cur[p] = d /\ pc[p] \in {"opened", "locked"})

(* p has the lock of d, and has not begun to release it.                   *)
Holds(p, d) == d \in locks[p] /\ ~ (pc[p] = "removed" /\ cur[p] = d)

(* "Forbidding any other Certbot instance to acquire it": no directory has *)
(* two holders, wherever processes die and whoever unlinks the file.       *)
MutualExclusion ==
    \A p, q \in Process : p # q => \A d \in Dir : ~ (Holds(p, d) /\ Holds(q, d))

(* The lock file is unlinked by nobody but the process that has its lock   *)
(* and is releasing it: to unlink another's would let a third one in.      *)
RemovesItsOwn ==
    [][\A d \in Dir : link[d] # None /\ link'[d] # link[d] =>
          \E p \in Process : Holds(p, d) /\ ~ Holds(p, d)' /\ owner[link[d]] = p]_vars

(* A process is refused only because another one, that is alive, is at     *)
(* that moment holding the lock or getting it: no lock file left by a dead *)
(* process keeps anybody out.                                              *)
RefusedByTheLiving ==
    [][\A p \in Process : LockHeld(p) =>
          \E q \in Process \ {p} : pc[q] # "off" /\ fd[q][cur[p]] = fd[p][cur[p]]]_vars

(* Another process unlinks the lock file p is trying to lock.              *)
RemovedByOthers(p) ==
    /\ \E q \in Process \ {p} : Remove(q, cur[p])
    /\ link'[cur[p]] # link[cur[p]]

(* acquire ends, with the lock or without it, unless other processes take  *)
(* and release this lock without end: no round of the loop is lost to a    *)
(* holder that keeps its lock, to a file left by the dead or to an inode   *)
(* used again, so that where one process goes round others get through.    *)
AcquireEnds ==
    \A p \in Process :
        \/ []<><<RemovedByOthers(p)>>_vars
        \/ pc[p] = "acquire" ~> pc[p] \in {"run", "exit", "off"}

(* The files and record locks implement one holder for each directory.     *)
Locks == INSTANCE DirLocks WITH
    holders <- [d \in Dir |-> {p \in Process : Holds(p, d)}]
KeepsOneHolder == Locks!Spec
=============================================================================
