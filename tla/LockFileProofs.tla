--------------------------- MODULE LockFileProofs ---------------------------
(***************************************************************************)
(* Theorems about LockFile, for every set of processes, directories and    *)
(* inodes.                                                                 *)
(***************************************************************************)
EXTENDS LockFile, TLAPS

(* An inode serves one directory only.                                     *)
Apart ==
    \A d, e \in Dir : d # e =>
        /\ link[d] # None => link[d] # link[e] /\ \A q \in Process : fd[q][e] # link[d]
        /\ \A p, q \in Process : fd[p][d] # None => fd[p][d] # fd[q][e]

(* A record lock belongs to a process that has the inode open, and has     *)
(* locked it or is about to check what it has locked.                      *)
OwnerOpen ==
    \A i \in Inode : owner[i] # None =>
        \E d \in Dir : /\ fd[owner[i]][d] = i
                       /\ \/ d \in locks[owner[i]]
                          \/ pc[owner[i]] = "locked" /\ cur[owner[i]] = d

LockedOwn == \A p \in Process : pc[p] = "locked" => owner[fd[p][cur[p]]] = p

(* The holder of a directory has locked the very inode its path names.     *)
HoldersOwn ==
    \A p \in Process, d \in Dir :
        Holds(p, d) => link[d] = fd[p][d] /\ owner[link[d]] = p

(* No process acquires a directory it has locked, and it is done with the  *)
(* release of one before the next.                                         *)
CurOpen ==
    \A p \in Process :
        /\ pc[p] \in {"acquire", "opened", "locked"} => cur[p] \notin locks[p]
        /\ pc[p] = "removed" => cur[p] \in locks[p]
        /\ pc[p] = "off" => locks[p] = {}

Inv == TypeOK /\ Apart /\ OwnerOpen /\ LockedOwn /\ HoldersOwn /\ CurOpen

LEMMA InvInit == Init => Inv
<1> SUFFICES ASSUME Init PROVE Inv
  OBVIOUS
<1>1. /\ \A d \in Dir : link[d] = None
      /\ \A i \in Inode : owner[i] = None
      /\ \A p \in Process, d \in Dir : fd[p][d] = None
      /\ \A p \in Process : locks[p] = {} /\ pc[p] = "off"
  BY DEF Init
<1>2. TypeOK
  BY <1>1 DEF Init, TypeOK, Label
<1> QED
  BY <1>1, <1>2, NoneAssumption
     DEF Inv, Apart, OwnerOpen, LockedOwn, HoldersOwn, CurOpen, Holds

(* The holder of a directory is the owner of the record lock, and a record *)
(* lock has one owner.                                                     *)
LEMMA OneHolder == Inv => MutualExclusion
BY DEF Inv, HoldersOwn, MutualExclusion

(* A step that moves pc and cur only, between labels that mean nothing to  *)
(* the descriptors.                                                        *)
LEMMA InvPc ==
    ASSUME Inv, NEW p \in Process, Start(p) \/ Exit(p) \/ Exited(p)
           \/ \E d \in Dir : LockDir(p, d)
    PROVE  Inv'
<1>1. /\ link' = link /\ owner' = owner /\ fd' = fd /\ locks' = locks
      /\ \A q \in Process : q # p => pc'[q] = pc[q] /\ cur'[q] = cur[q]
      /\ pc[p] \in {"off", "run", "exit"} /\ pc'[p] \in {"off", "run", "exit", "acquire"}
      /\ pc'[p] = "acquire" => cur'[p] \notin locks[p]
      /\ pc'[p] = "off" => locks[p] = {}
  BY DEF Start, Exit, Exited, LockDir, GoTo, Inv, TypeOK
<1>2. pc' \in [Process -> Label] /\ cur' \in [Process -> Dir]
  <2> pc \in [Process -> Label] /\ cur \in [Process -> Dir]
    BY DEF Inv, TypeOK
  <2>1. CASE Start(p)
    BY <2>1 DEF Start, GoTo, Label
  <2>2. CASE Exit(p)
    BY <2>2 DEF Exit, GoTo, Label
  <2>3. CASE Exited(p)
    BY <2>3 DEF Exited, GoTo, Label
  <2>4. CASE \E d \in Dir : LockDir(p, d)
    BY <2>4 DEF LockDir, GoTo, Label
  <2> QED
    BY <2>1, <2>2, <2>3, <2>4
<1>t. TypeOK /\ pc'[p] \notin {"opened", "locked", "removed"}
  BY <1>1 DEF Inv
<1>3. TypeOK'
  <2>1. ASSUME NEW q \in Process, NEW e \in Dir
        PROVE  fd[q][e] # None <=>
                 e \in locks[q] \/ (cur'[q] = e /\ pc'[q] \in {"opened", "locked"})
    <3>1. CASE q = p
      BY <1>1, <1>t, <3>1 DEF TypeOK
    <3>2. CASE q # p
      BY <1>1, <1>t, <3>2 DEF TypeOK
    <3> QED
      BY <3>1, <3>2
  <2> QED
    BY <1>1, <1>2, <1>t, <2>1 DEF TypeOK
<1>4. Apart'
  BY <1>1 DEF Inv, Apart
<1>5. CurOpen'
  <2>1. ASSUME NEW q \in Process
        PROVE  /\ pc'[q] \in {"acquire", "opened", "locked"} => cur'[q] \notin locks[q]
               /\ pc'[q] = "removed" => cur'[q] \in locks[q]
               /\ pc'[q] = "off" => locks[q] = {}
    <3>1. CASE q = p
      BY <1>1, <1>t, <3>1
    <3>2. CASE q # p
      BY <1>1, <3>2 DEF Inv, CurOpen
    <3> QED
      BY <3>1, <3>2
  <2> QED
    BY <1>1, <2>1 DEF CurOpen
<1>7. OwnerOpen'
  <2> SUFFICES ASSUME NEW j \in Inode, owner[j] # None
               PROVE  \E e \in Dir : /\ fd[owner[j]][e] = j
                                     /\ \/ e \in locks[owner[j]]
                                        \/ pc'[owner[j]] = "locked" /\ cur'[owner[j]] = e
    BY <1>1 DEF OwnerOpen
  <2>1. owner[j] \in Process
    BY <1>t DEF TypeOK
  <2>2. PICK e \in Dir : /\ fd[owner[j]][e] = j
                         /\ \/ e \in locks[owner[j]]
                            \/ pc[owner[j]] = "locked" /\ cur[owner[j]] = e
    BY DEF Inv, OwnerOpen
  <2>3. CASE owner[j] = p
    BY <1>1, <2>2, <2>3
  <2>4. CASE owner[j] # p
    BY <1>1, <2>1, <2>2, <2>4
  <2> QED
    BY <2>3, <2>4
<1>8. LockedOwn'
  BY <1>1, <1>t DEF Inv, LockedOwn
<1>6. HoldersOwn'
  <2> SUFFICES ASSUME NEW q \in Process, NEW e \in Dir, Holds(q, e)'
               PROVE  Holds(q, e)
    BY <1>1 DEF Inv, HoldersOwn
  <2>1. CASE q = p
    BY <1>1, <2>1 DEF Holds
  <2>2. CASE q # p
    BY <1>1, <2>2 DEF Holds
  <2> QED
    BY <2>1, <2>2
<1> QED
  BY <1>3, <1>4, <1>5, <1>6, <1>7, <1>8 DEF Inv

LEMMA InvOpen ==
    ASSUME Inv, NEW p \in Process, Open(p)
    PROVE  Inv'
<1> DEFINE d == cur[p]
<1>1. PICK i \in Inode : /\ IF link[d] # None THEN i = link[d] ELSE Free(i)
                         /\ link' = [link EXCEPT ![d] = i]
                         /\ fd' = [fd EXCEPT ![p][d] = i]
  BY DEF Open
<1>2. /\ pc[p] = "acquire" /\ pc' = [pc EXCEPT ![p] = "opened"] /\ d \in Dir
      /\ owner' = owner /\ locks' = locks /\ cur' = cur
      /\ d \notin locks[p] /\ TypeOK /\ fd[p][d] = None /\ i # None
  BY NoneAssumption DEF Open, GoTo, Inv, TypeOK, CurOpen
<1>3. /\ link'[d] = i /\ \A e \in Dir : e # d => link'[e] = link[e]
      /\ fd'[p][d] = i
      /\ \A q \in Process, e \in Dir : q # p \/ e # d => fd'[q][e] = fd[q][e]
      /\ pc'[p] = "opened" /\ \A q \in Process : q # p => pc'[q] = pc[q]
      /\ link' \in [Dir -> Inode \cup {None}] /\ pc' \in [Process -> Label]
      /\ fd' \in [Process -> [Dir -> Inode \cup {None}]]
  BY <1>1, <1>2 DEF TypeOK, Label
<1>4. TypeOK'
  <2>1. ASSUME NEW q \in Process, NEW e \in Dir
        PROVE  fd'[q][e] # None <=>
                 e \in locks[q] \/ (cur[q] = e /\ pc'[q] \in {"opened", "locked"})
    <3>1. CASE q = p /\ e = d
      BY <1>2, <1>3, <3>1
    <3>2. CASE q = p /\ e # d
      BY <1>2, <1>3, <3>2 DEF TypeOK
    <3>3. CASE q # p
      BY <1>2, <1>3, <3>3 DEF TypeOK
    <3> QED
      BY <3>1, <3>2, <3>3
  <2> QED
    BY <1>2, <1>3, <2>1 DEF TypeOK
<1>5. \A e \in Dir : e # d => link[e] # i /\ \A q \in Process : fd[q][e] # i
  BY <1>1, <1>2 DEF Free, Inv, Apart
<1>6. Apart'
  <2> SUFFICES ASSUME NEW b \in Dir, NEW e \in Dir, b # e, NEW q \in Process
               PROVE  /\ link'[b] # None => link'[b] # link'[e] /\ fd'[q][e] # link'[b]
                      /\ \A r \in Process : fd'[r][b] # None => fd'[r][b] # fd'[q][e]
    BY DEF Apart
  <2>1. /\ link[b] # None => link[b] # link[e] /\ fd[q][e] # link[b]
        /\ \A r \in Process : fd[r][b] # None => fd[r][b] # fd[q][e]
    BY DEF Inv, Apart
  <2>2. CASE b = d
    <3>1. link'[e] # i /\ fd'[q][e] = fd[q][e] /\ fd[q][e] # i
      BY <1>3, <1>5, <2>2
    <3>2. \A r \in Process : r # p => fd'[r][b] = fd[r][b]
      BY <1>3
    <3> QED
      BY <1>3, <2>1, <2>2, <3>1, <3>2
  <2>3. CASE e = d
    <3>1. link'[b] = link[b] /\ link[b] # i /\ fd'[q][e] \in {i, fd[q][e]}
      BY <1>3, <1>5, <2>3
    <3>2. \A r \in Process : fd'[r][b] = fd[r][b] /\ fd[r][b] # i
      BY <1>3, <1>5, <2>3
    <3> QED
      BY <1>3, <2>1, <2>3, <3>1, <3>2
  <2>4. CASE b # d /\ e # d
    BY <1>3, <2>1, <2>4
  <2> QED
    BY <2>2, <2>3, <2>4
<1>7. OwnerOpen'
  <2> SUFFICES ASSUME NEW j \in Inode, owner[j] # None
               PROVE  \E e \in Dir : /\ fd'[owner[j]][e] = j
                                     /\ \/ e \in locks[owner[j]]
                                        \/ pc'[owner[j]] = "locked" /\ cur[owner[j]] = e
    BY <1>2 DEF OwnerOpen
  <2>1. owner[j] \in Process
    BY <1>2 DEF TypeOK
  <2>2. PICK e \in Dir : /\ fd[owner[j]][e] = j
                         /\ \/ e \in locks[owner[j]]
                            \/ pc[owner[j]] = "locked" /\ cur[owner[j]] = e
    BY DEF Inv, OwnerOpen
  <2> QED
    BY <1>2, <1>3, <2>1, <2>2
<1>8. LockedOwn'
  BY <1>2, <1>3 DEF Inv, LockedOwn, TypeOK
<1>9. HoldersOwn'
  <2> SUFFICES ASSUME NEW q \in Process, NEW e \in Dir, Holds(q, e)'
               PROVE  link'[e] = fd'[q][e] /\ owner[link'[e]] = q
    BY <1>2 DEF HoldersOwn
  <2>1. Holds(q, e) /\ (q # p \/ e # d)
    BY <1>2, <1>3 DEF Holds
  <2>2. link[e] = fd[q][e] /\ owner[link[e]] = q /\ fd[q][e] # None
    BY <1>2, <2>1 DEF Inv, HoldersOwn, Holds, TypeOK
  <2>3. link'[e] = link[e]
    BY <1>1, <1>3, <2>2
  <2> QED
    BY <1>3, <2>1, <2>2, <2>3
<1>10. CurOpen'
  BY <1>2, <1>3 DEF Inv, CurOpen
<1> QED
  BY <1>4, <1>6, <1>7, <1>8, <1>9, <1>10 DEF Inv

LEMMA InvTryLock ==
    ASSUME Inv, NEW p \in Process, TryLock(p)
    PROVE  Inv'
<1> DEFINE i == fd[p][cur[p]]
<1>1. /\ pc[p] = "opened" /\ pc' = [pc EXCEPT ![p] = "locked"] /\ owner[i] = None
      /\ owner' = [owner EXCEPT ![i] = p] /\ TypeOK /\ cur[p] \in Dir
      /\ link' = link /\ fd' = fd /\ locks' = locks /\ cur' = cur
  BY DEF TryLock, GoTo, Inv, TypeOK
<1>2. i \in Inode
  BY <1>1 DEF TypeOK
<1>3. /\ owner'[i] = p /\ \A j \in Inode : j # i => owner'[j] = owner[j]
      /\ owner' \in [Inode -> Process \cup {None}]
      /\ pc'[p] = "locked" /\ \A q \in Process : q # p => pc'[q] = pc[q]
      /\ pc' \in [Process -> Label]
  BY <1>1, <1>2 DEF TypeOK, Label
<1>4. TypeOK'
  BY <1>1, <1>3 DEF TypeOK
<1>5. Apart' /\ CurOpen'
  BY <1>1, <1>3 DEF Inv, Apart, CurOpen
<1>6. OwnerOpen'
  <2> SUFFICES ASSUME NEW j \in Inode, owner'[j] # None
               PROVE  \E e \in Dir : /\ fd[owner'[j]][e] = j
                                     /\ \/ e \in locks[owner'[j]]
                                        \/ pc'[owner'[j]] = "locked" /\ cur[owner'[j]] = e
    BY <1>1 DEF OwnerOpen
  <2>1. CASE j = i
    BY <1>1, <1>3, <2>1
  <2>2. CASE j # i
    <3>1. owner'[j] = owner[j] /\ owner[j] \in Process
      BY <1>1, <1>3, <2>2 DEF TypeOK
    <3>2. PICK e \in Dir : /\ fd[owner[j]][e] = j
                           /\ \/ e \in locks[owner[j]]
                              \/ pc[owner[j]] = "locked" /\ cur[owner[j]] = e
      BY <3>1 DEF Inv, OwnerOpen
    <3> QED
      BY <1>1, <1>3, <3>1, <3>2
  <2> QED
    BY <2>1, <2>2
<1>7. LockedOwn'
  <2> SUFFICES ASSUME NEW q \in Process, pc'[q] = "locked"
               PROVE  owner'[fd[q][cur[q]]] = q
    BY <1>1 DEF LockedOwn
  <2>1. CASE q = p
    BY <1>3, <2>1
  <2>2. CASE q # p
    <3>1. owner[fd[q][cur[q]]] = q
      BY <1>3, <2>2 DEF Inv, LockedOwn
    <3>2. fd[q][cur[q]] \in Inode
      BY <1>1, <1>3, <2>2 DEF TypeOK
    <3> QED
      BY <1>1, <1>3, <3>1, <3>2, NoneAssumption
  <2> QED
    BY <2>1, <2>2
<1>8. HoldersOwn'
  <2> SUFFICES ASSUME NEW q \in Process, NEW e \in Dir, Holds(q, e)'
               PROVE  link[e] = fd[q][e] /\ owner'[link[e]] = q
    BY <1>1 DEF HoldersOwn
  <2>1. Holds(q, e)
    BY <1>1, <1>3 DEF Holds
  <2>2. link[e] = fd[q][e] /\ owner[link[e]] = q /\ fd[q][e] \in Inode
    BY <1>1, <2>1 DEF Inv, HoldersOwn, Holds, TypeOK
  <2> QED
    BY <1>1, <1>3, <2>2, NoneAssumption
<1> QED
  BY <1>4, <1>5, <1>6, <1>7, <1>8 DEF Inv

(* The descriptor of cur is closed: after a refusal, a stale file, or at   *)
(* the end of a release.                                                   *)
LEMMA InvCloses ==
    ASSUME Inv, NEW p \in Process, LockHeld(p) \/ LockStale(p) \/ Close(p)
    PROVE  Inv'
<1> DEFINE d == cur[p]
<1>1. /\ pc[p] \in {"opened", "locked", "removed"}
      /\ CloseFd(p, d) /\ TypeOK /\ d \in Dir
      /\ \E l \in {"acquire", "exit"} : pc' = [pc EXCEPT ![p] = l]
      /\ locks' = [locks EXCEPT ![p] = @ \ {d}]
      /\ link' = link /\ cur' = cur
      /\ pc'[p] = "acquire" => d \notin locks'[p]
  BY DEF LockHeld, LockStale, Close, GoTo, Inv, TypeOK, CurOpen
<1>2. /\ pc'[p] \in {"acquire", "exit"} /\ \A q \in Process : q # p => pc'[q] = pc[q]
      /\ pc' \in [Process -> Label]
      /\ locks'[p] = locks[p] \ {d} /\ \A q \in Process : q # p => locks'[q] = locks[q]
      /\ locks' \in [Process -> SUBSET Dir]
  BY <1>1 DEF TypeOK, Label
<1>3. /\ fd'[p][d] = None
      /\ \A q \in Process, e \in Dir : q # p \/ e # d => fd'[q][e] = fd[q][e]
      /\ fd' \in [Process -> [Dir -> Inode \cup {None}]]
  BY <1>1 DEF CloseFd, TypeOK
<1>4. /\ \A i \in Inode : owner'[i] = IF i = fd[p][d] /\ owner[i] = p THEN None ELSE owner[i]
      /\ owner' \in [Inode -> Process \cup {None}]
  BY <1>1 DEF CloseFd, TypeOK
<1>5. TypeOK'
  <2>1. ASSUME NEW q \in Process, NEW e \in Dir
        PROVE  fd'[q][e] # None <=>
                 e \in locks'[q] \/ (cur[q] = e /\ pc'[q] \in {"opened", "locked"})
    <3>1. CASE q = p /\ e = d
      BY <1>2, <1>3, <3>1
    <3>2. CASE q = p /\ e # d
      BY <1>1, <1>2, <1>3, <3>2 DEF TypeOK
    <3>3. CASE q # p
      BY <1>1, <1>2, <1>3, <3>3 DEF TypeOK
    <3> QED
      BY <3>1, <3>2, <3>3
  <2> QED
    BY <1>1, <1>2, <1>3, <1>4, <2>1 DEF TypeOK
<1>6. Apart'
  BY <1>1, <1>3 DEF Inv, Apart
<1>7. OwnerOpen'
  <2> SUFFICES ASSUME NEW j \in Inode, owner'[j] # None
               PROVE  \E e \in Dir : /\ fd'[owner'[j]][e] = j
                                     /\ \/ e \in locks'[owner'[j]]
                                        \/ pc'[owner'[j]] = "locked" /\ cur[owner'[j]] = e
    BY <1>1 DEF OwnerOpen
  <2>1. owner'[j] = owner[j] /\ owner[j] \in Process /\ ~ (j = fd[p][d] /\ owner[j] = p)
    BY <1>1, <1>4 DEF TypeOK
  <2>2. PICK e \in Dir : /\ fd[owner[j]][e] = j
                         /\ \/ e \in locks[owner[j]]
                            \/ pc[owner[j]] = "locked" /\ cur[owner[j]] = e
    BY <2>1 DEF Inv, OwnerOpen
  <2>3. owner[j] # p \/ e # d
    BY <2>1, <2>2
  <2> QED
    BY <1>2, <1>3, <2>1, <2>2, <2>3
<1>8. LockedOwn'
  <2> SUFFICES ASSUME NEW q \in Process, pc'[q] = "locked"
               PROVE  owner'[fd'[q][cur[q]]] = q
    BY <1>1 DEF LockedOwn
  <2>1. q # p /\ cur[q] \in Dir
    BY <1>1, <1>2 DEF TypeOK
  <2>2. owner[fd[q][cur[q]]] = q /\ fd[q][cur[q]] \in Inode
    BY <1>1, <1>2, <2>1 DEF Inv, LockedOwn, TypeOK
  <2> QED
    BY <1>3, <1>4, <2>1, <2>2
<1>9. HoldersOwn'
  <2> SUFFICES ASSUME NEW q \in Process, NEW e \in Dir, Holds(q, e)'
               PROVE  link[e] = fd'[q][e] /\ owner'[link[e]] = q
    BY <1>1 DEF HoldersOwn
  <2>1. Holds(q, e) /\ (q # p \/ e # d)
    BY <1>1, <1>2 DEF Holds
  <2>2. link[e] = fd[q][e] /\ owner[link[e]] = q /\ fd[q][e] \in Inode
    BY <1>1, <2>1 DEF Inv, HoldersOwn, Holds, TypeOK
  <2>3. ~ (link[e] = fd[p][d] /\ q = p)
    BY <1>1, <2>1, <2>2, NoneAssumption DEF Inv, Apart
  <2> QED
    BY <1>3, <1>4, <2>1, <2>2, <2>3
<1>10. CurOpen'
  BY <1>1, <1>2 DEF Inv, CurOpen
<1> QED
  BY <1>5, <1>6, <1>7, <1>8, <1>9, <1>10 DEF Inv

LEMMA InvLockSuccess ==
    ASSUME Inv, NEW p \in Process, LockSuccess(p)
    PROVE  Inv'
<1> DEFINE d == cur[p]
<1>1. /\ pc[p] = "locked" /\ pc' = [pc EXCEPT ![p] = "run"] /\ link[d] = fd[p][d]
      /\ locks' = [locks EXCEPT ![p] = @ \cup {d}] /\ TypeOK /\ d \in Dir
      /\ link' = link /\ fd' = fd /\ owner' = owner /\ cur' = cur
  BY DEF LockSuccess, SamePath, GoTo, Inv, TypeOK
<1>2. /\ pc'[p] = "run" /\ \A q \in Process : q # p => pc'[q] = pc[q]
      /\ pc' \in [Process -> Label]
      /\ locks'[p] = locks[p] \cup {d} /\ \A q \in Process : q # p => locks'[q] = locks[q]
      /\ locks' \in [Process -> SUBSET Dir]
  BY <1>1 DEF TypeOK, Label
<1>3. TypeOK'
  BY <1>1, <1>2 DEF TypeOK
<1>4. Apart' /\ CurOpen' /\ LockedOwn'
  BY <1>1, <1>2 DEF Inv, Apart, CurOpen, LockedOwn
<1>5. OwnerOpen'
  <2> SUFFICES ASSUME NEW j \in Inode, owner[j] # None
               PROVE  \E e \in Dir : /\ fd[owner[j]][e] = j
                                     /\ \/ e \in locks'[owner[j]]
                                        \/ pc'[owner[j]] = "locked" /\ cur[owner[j]] = e
    BY <1>1 DEF OwnerOpen
  <2>1. owner[j] \in Process
    BY <1>1 DEF TypeOK
  <2>2. PICK e \in Dir : /\ fd[owner[j]][e] = j
                         /\ \/ e \in locks[owner[j]]
                            \/ pc[owner[j]] = "locked" /\ cur[owner[j]] = e
    BY DEF Inv, OwnerOpen
  <2> QED
    BY <1>2, <2>1, <2>2
<1>6. HoldersOwn'
  <2> SUFFICES ASSUME NEW q \in Process, NEW e \in Dir, Holds(q, e)'
               PROVE  link[e] = fd[q][e] /\ owner[link[e]] = q
    BY <1>1 DEF HoldersOwn
  <2>1. CASE q = p /\ e = d
    BY <1>1, <2>1 DEF Inv, LockedOwn
  <2>2. CASE q # p \/ e # d
    <3>1. Holds(q, e)
      BY <1>1, <1>2, <2>2 DEF Holds
    <3> QED
      BY <3>1 DEF Inv, HoldersOwn
  <2> QED
    BY <2>1, <2>2
<1> QED
  BY <1>3, <1>4, <1>5, <1>6 DEF Inv

LEMMA InvRemove ==
    ASSUME Inv, NEW p \in Process, NEW d \in Dir, Remove(p, d)
    PROVE  Inv'
<1>1. /\ pc[p] = "exit" /\ pc' = [pc EXCEPT ![p] = "removed"] /\ d \in locks[p]
      /\ cur' = [cur EXCEPT ![p] = d] /\ TypeOK
      /\ link' = [link EXCEPT ![d] = None] \/ link' = link
      /\ fd' = fd /\ owner' = owner /\ locks' = locks
  BY DEF Remove, GoTo, Inv
<1>2. /\ pc'[p] = "removed" /\ cur'[p] = d
      /\ \A q \in Process : q # p => pc'[q] = pc[q] /\ cur'[q] = cur[q]
      /\ pc' \in [Process -> Label] /\ cur' \in [Process -> Dir]
      /\ \A e \in Dir : e # d => link'[e] = link[e]
      /\ link'[d] \in {None, link[d]}
      /\ link' \in [Dir -> Inode \cup {None}]
  BY <1>1 DEF TypeOK, Label
<1>3. TypeOK'
  BY <1>1, <1>2 DEF TypeOK
<1>4. Apart' /\ CurOpen' /\ LockedOwn'
  BY <1>1, <1>2 DEF Inv, Apart, CurOpen, LockedOwn
<1>5. OwnerOpen'
  <2> SUFFICES ASSUME NEW j \in Inode, owner[j] # None
               PROVE  \E e \in Dir : /\ fd[owner[j]][e] = j
                                     /\ \/ e \in locks[owner[j]]
                                        \/ pc'[owner[j]] = "locked" /\ cur'[owner[j]] = e
    BY <1>1 DEF OwnerOpen
  <2>1. owner[j] \in Process
    BY <1>1 DEF TypeOK
  <2>2. PICK e \in Dir : /\ fd[owner[j]][e] = j
                         /\ \/ e \in locks[owner[j]]
                            \/ pc[owner[j]] = "locked" /\ cur[owner[j]] = e
    BY DEF Inv, OwnerOpen
  <2> QED
    BY <1>1, <1>2, <2>1, <2>2
<1>6. HoldersOwn'
  <2> SUFFICES ASSUME NEW q \in Process, NEW e \in Dir, Holds(q, e)'
               PROVE  link'[e] = fd[q][e] /\ owner[link'[e]] = q
    BY <1>1 DEF HoldersOwn
  <2>1. Holds(q, e) /\ Holds(p, d)
    BY <1>1, <1>2 DEF Holds
  <2>2. e # d
    <3>1. q = p => e # d
      BY <1>1, <1>2 DEF Holds
    <3> QED
      BY <2>1, <3>1, OneHolder DEF MutualExclusion
  <2> QED
    BY <1>2, <2>1, <2>2 DEF Inv, HoldersOwn
<1> QED
  BY <1>3, <1>4, <1>5, <1>6 DEF Inv

LEMMA InvCrash ==
    ASSUME Inv, NEW p \in Process, Crash(p)
    PROVE  Inv'
<1>1. /\ pc' = [pc EXCEPT ![p] = "off"] /\ locks' = [locks EXCEPT ![p] = {}] /\ TypeOK
      /\ fd' = [fd EXCEPT ![p] = [d \in Dir |-> None]]
      /\ owner' = [i \in Inode |-> IF owner[i] = p THEN None ELSE owner[i]]
      /\ link' = link /\ cur' = cur
  BY DEF Crash, GoTo, Inv
<1>2. /\ pc'[p] = "off" /\ \A q \in Process : q # p => pc'[q] = pc[q]
      /\ pc' \in [Process -> Label]
      /\ locks'[p] = {} /\ \A q \in Process : q # p => locks'[q] = locks[q]
      /\ locks' \in [Process -> SUBSET Dir]
  BY <1>1 DEF TypeOK, Label
<1>3. /\ \A e \in Dir : fd'[p][e] = None
      /\ \A q \in Process : q # p => fd'[q] = fd[q]
      /\ fd' \in [Process -> [Dir -> Inode \cup {None}]]
      /\ \A i \in Inode : owner'[i] = IF owner[i] = p THEN None ELSE owner[i]
      /\ owner' \in [Inode -> Process \cup {None}]
  BY <1>1 DEF TypeOK
<1>4. TypeOK'
  <2>1. ASSUME NEW q \in Process, NEW e \in Dir
        PROVE  fd'[q][e] # None <=>
                 e \in locks'[q] \/ (cur[q] = e /\ pc'[q] \in {"opened", "locked"})
    <3>1. CASE q = p
      BY <1>2, <1>3, <3>1
    <3>2. CASE q # p
      BY <1>1, <1>2, <1>3, <3>2 DEF TypeOK
    <3> QED
      BY <3>1, <3>2
  <2> QED
    BY <1>1, <1>2, <1>3, <2>1 DEF TypeOK
<1>5. Apart' /\ CurOpen'
  BY <1>1, <1>2, <1>3 DEF Inv, Apart, CurOpen
<1>6. OwnerOpen'
  <2> SUFFICES ASSUME NEW j \in Inode, owner'[j] # None
               PROVE  \E e \in Dir : /\ fd'[owner'[j]][e] = j
                                     /\ \/ e \in locks'[owner'[j]]
                                        \/ pc'[owner'[j]] = "locked" /\ cur[owner'[j]] = e
    BY <1>1 DEF OwnerOpen
  <2>1. owner'[j] = owner[j] /\ owner[j] \in Process /\ owner[j] # p
    BY <1>1, <1>3 DEF TypeOK
  <2>2. PICK e \in Dir : /\ fd[owner[j]][e] = j
                         /\ \/ e \in locks[owner[j]]
                            \/ pc[owner[j]] = "locked" /\ cur[owner[j]] = e
    BY <2>1 DEF Inv, OwnerOpen
  <2> QED
    BY <1>2, <1>3, <2>1, <2>2
<1>7. LockedOwn'
  <2> SUFFICES ASSUME NEW q \in Process, pc'[q] = "locked"
               PROVE  owner'[fd'[q][cur[q]]] = q
    BY <1>1 DEF LockedOwn
  <2>1. q # p /\ cur[q] \in Dir
    BY <1>1, <1>2 DEF TypeOK
  <2>2. owner[fd[q][cur[q]]] = q /\ fd[q][cur[q]] \in Inode
    BY <1>1, <1>2, <2>1 DEF Inv, LockedOwn, TypeOK
  <2> QED
    BY <1>3, <2>1, <2>2
<1>8. HoldersOwn'
  <2> SUFFICES ASSUME NEW q \in Process, NEW e \in Dir, Holds(q, e)'
               PROVE  link[e] = fd'[q][e] /\ owner'[link[e]] = q
    BY <1>1 DEF HoldersOwn
  <2>1. Holds(q, e) /\ q # p
    BY <1>1, <1>2 DEF Holds
  <2>2. link[e] = fd[q][e] /\ owner[link[e]] = q /\ fd[q][e] \in Inode
    BY <1>1, <2>1 DEF Inv, HoldersOwn, Holds, TypeOK
  <2> QED
    BY <1>3, <2>1, <2>2
<1> QED
  BY <1>4, <1>5, <1>6, <1>7, <1>8 DEF Inv

LEMMA InvStep == Inv /\ [Next]_vars => Inv'
<1> SUFFICES ASSUME Inv, [Next]_vars PROVE Inv'
  OBVIOUS
<1>1. CASE UNCHANGED vars
  BY <1>1 DEF vars, Inv, TypeOK, Apart, OwnerOpen, LockedOwn, HoldersOwn, CurOpen, Holds
<1>2. CASE Next
  BY <1>2, InvPc, InvOpen, InvTryLock, InvCloses, InvLockSuccess, InvRemove, InvCrash
     DEF Next, Proceed
<1> QED
  BY <1>1, <1>2

(* The type invariant, with the descriptors a process has open.            *)
THEOREM TypeCorrect == Spec => []TypeOK
<1>1. Inv => TypeOK
  BY DEF Inv
<1> QED
  BY InvInit, InvStep, <1>1, PTL DEF Spec

(* No directory has two holders.                                           *)
THEOREM LocksExclude == Spec => []MutualExclusion
BY InvInit, InvStep, OneHolder, PTL DEF Spec

(* A process is refused by one that is alive and has the lock file open:   *)
(* the file a dead process leaves keeps nobody out.                        *)
THEOREM NoneRefusedByTheDead == Spec => RefusedByTheLiving
<1>1. ASSUME Inv, NEW p \in Process, LockHeld(p)
      PROVE  \E q \in Process \ {p} : pc[q] # "off" /\ fd[q][cur[p]] = fd[p][cur[p]]
  <2> DEFINE d == cur[p]
             i == fd[p][d]
  <2>1. /\ pc[p] = "opened" /\ owner[i] # None /\ TypeOK /\ d \in Dir
        /\ d \notin locks[p]
    BY <1>1 DEF LockHeld, Inv, TypeOK, CurOpen
  <2>2. i \in Inode /\ i # None /\ owner[i] \in Process
    BY <2>1, NoneAssumption DEF TypeOK
  <2>3. PICK e \in Dir : /\ fd[owner[i]][e] = i
                         /\ \/ e \in locks[owner[i]]
                            \/ pc[owner[i]] = "locked" /\ cur[owner[i]] = e
    BY <1>1, <2>1, <2>2 DEF Inv, OwnerOpen
  <2>4. e = d
    BY <1>1, <2>1, <2>2, <2>3 DEF Inv, Apart
  <2>5. owner[i] # p
    BY <2>1, <2>3, <2>4
  <2>6. pc[owner[i]] # "off"
    BY <1>1, <2>2, <2>3 DEF Inv, CurOpen
  <2> QED
    BY <2>2, <2>3, <2>4, <2>5, <2>6
<1>2. Inv /\ [Next]_vars =>
        [\A p \in Process : LockHeld(p) =>
            \E q \in Process \ {p} : pc[q] # "off" /\ fd[q][cur[p]] = fd[p][cur[p]]]_vars
  BY <1>1
<1> QED
  BY InvInit, InvStep, <1>2, PTL DEF Spec, RefusedByTheLiving

(* Only the holder of a lock unlinks its file.                             *)
THEOREM OnlyTheHolderRemoves == Spec => RemovesItsOwn
<1>1. ASSUME Inv, Next, NEW d \in Dir, link[d] # None, link'[d] # link[d]
      PROVE  \E p \in Process : Holds(p, d) /\ ~ Holds(p, d)' /\ owner[link[d]] = p
  <2>1. PICK p \in Process : Open(p) \/ \E e \in Dir : Remove(p, e)
    BY <1>1 DEF Next, Start, LockDir, Exit, Proceed, TryLock, LockHeld, LockSuccess,
                LockStale, Close, Exited, Crash
  <2>2. CASE Open(p)
    BY <1>1, <2>2 DEF Open, Inv, TypeOK
  <2>3. CASE \E e \in Dir : Remove(p, e)
    <3>0. PICK e \in Dir : Remove(p, e)
      BY <2>3
    <3>3. e = d
      BY <1>1, <3>0 DEF Remove, Inv, TypeOK
    <3>1. Remove(p, d)
      BY <3>0, <3>3
    <3>2. Holds(p, d) /\ ~ Holds(p, d)'
      BY <1>1, <3>1 DEF Remove, GoTo, Holds, Inv, TypeOK
    <3> QED
      BY <1>1, <3>2 DEF Inv, HoldersOwn
  <2> QED
    BY <2>1, <2>2, <2>3
<1>2. Inv /\ [Next]_vars =>
        [\A d \in Dir : link[d] # None /\ link'[d] # link[d] =>
            \E p \in Process : Holds(p, d) /\ ~ Holds(p, d)' /\ owner[link[d]] = p]_vars
  BY <1>1
<1> QED
  BY InvInit, InvStep, <1>2, PTL DEF Spec, RemovesItsOwn

-----------------------------------------------------------------------------
(* The refinement of DirLocks: a lock is taken when it has been checked,   *)
(* and given up when the path is removed.                                  *)
LEMMA LocksInit == Init => Locks!Init
BY DEF Init, Locks!Init, Holds

LEMMA LocksSame ==
    ASSUME \A p \in Process, d \in Dir : Holds(p, d)' <=> Holds(p, d)
    PROVE  UNCHANGED [d \in Dir |-> {p \in Process : Holds(p, d)}]
OBVIOUS

LEMMA LocksStep ==
    ASSUME Inv, Next
    PROVE  [Locks!Next]_[d \in Dir |-> {p \in Process : Holds(p, d)}]
<1> DEFINE h == [d \in Dir |-> {p \in Process : Holds(p, d)}]
<1>t. TypeOK
  BY DEF Inv
<1>1. PICK p \in Process :
        \/ Start(p) \/ (\E d \in Dir : LockDir(p, d)) \/ Exit(p)
        \/ Proceed(p)
        \/ Crash(p)
  BY DEF Next
<1>2. CASE Start(p) \/ (\E d \in Dir : LockDir(p, d)) \/ Exit(p) \/ Open(p) \/ TryLock(p)
           \/ LockHeld(p) \/ LockStale(p) \/ Close(p) \/ Exited(p)
  <2>1. \A q \in Process, d \in Dir : Holds(q, d)' <=> Holds(q, d)
    <3> TAKE q \in Process, d \in Dir
    <3>1. CASE Start(p) \/ (\E e \in Dir : LockDir(p, e)) \/ Exit(p) \/ Open(p) \/ TryLock(p)
           \/ LockHeld(p) \/ LockStale(p) \/ Exited(p)
      <4>1. /\ locks' = locks /\ \E l \in Label \ {"removed"} : pc' = [pc EXCEPT ![p] = l]
            /\ pc[p] # "removed" /\ (q # p => cur'[q] = cur[q])
        BY <1>t, <3>1 DEF Start, LockDir, Exit, Open, TryLock, LockHeld, LockStale, Exited,
                     GoTo, Label, TypeOK
      <4> QED
        BY <1>t, <4>1 DEF Holds, TypeOK
    <3>2. CASE Close(p)
      BY <1>t, <3>2 DEF Close, GoTo, Holds, TypeOK
    <3> QED
      BY <1>2, <3>1, <3>2
  <2> QED
    BY <2>1, LocksSame
<1>3. CASE LockSuccess(p)
  <2> DEFINE d == cur[p]
  <2>1. d \in Dir /\ \A e \in Dir, q \in Process :
          Holds(q, e)' <=> Holds(q, e) \/ (q = p /\ e = d)
    BY <1>t, <1>3 DEF LockSuccess, GoTo, Holds, TypeOK
  <2>2. ASSUME NEW q \in Process, Holds(q, d) PROVE FALSE
    <3>1. owner[fd[p][d]] = p /\ owner[link[d]] = q /\ link[d] = fd[p][d] /\ d \notin locks[p]
      BY <1>3, <2>1, <2>2 DEF LockSuccess, SamePath, Inv, LockedOwn, HoldersOwn, CurOpen
    <3> QED
      BY <2>2, <3>1 DEF Holds
  <2>3. h[d] = {} /\ h' = [h EXCEPT ![d] = {p}]
    BY <2>1, <2>2
  <2> QED
    BY <2>1, <2>3 DEF Locks!Next, Locks!Acquire
<1>4. CASE \E d \in Dir : Remove(p, d)
  <2>1. PICK d \in Dir : Remove(p, d)
    BY <1>4
  <2>2. Holds(p, d) /\ \A e \in Dir, q \in Process :
          Holds(q, e)' <=> Holds(q, e) /\ ~ (q = p /\ e = d)
    BY <1>t, <2>1 DEF Remove, GoTo, Holds, TypeOK
  <2>3. p \in h[d] /\ h' = [h EXCEPT ![d] = @ \ {p}]
    BY <2>2
  <2> QED
    BY <2>3 DEF Locks!Next, Locks!Release
<1>5. CASE Crash(p)
  <2>1. \A e \in Dir, q \in Process : Holds(q, e)' <=> Holds(q, e) /\ q # p
    BY <1>t, <1>5 DEF Crash, GoTo, Holds, TypeOK
  <2>2. h' = [d \in Dir |-> h[d] \ {p}]
    BY <2>1
  <2> QED
    BY <2>2 DEF Locks!Next, Locks!Crash
<1> QED
  BY <1>1, <1>2, <1>3, <1>4, <1>5 DEF Proceed

(* Lock files and record locks implement one holder for each directory.    *)
THEOREM LockFilesImplementLocks == Spec => KeepsOneHolder
<1>1. Inv /\ [Next]_vars => [Locks!Next]_[d \in Dir |-> {p \in Process : Holds(p, d)}]
  BY LocksStep DEF vars, Holds
<1> QED
  BY InvInit, InvStep, LocksInit, <1>1, PTL DEF Spec, KeepsOneHolder, Locks!Spec
=============================================================================
