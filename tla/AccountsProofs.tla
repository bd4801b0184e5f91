---------------------------- MODULE AccountsProofs ----------------------------
(***************************************************************************)
(* For any accounts and any numbers of processes and kills: the types of   *)
(* Accounts, that every link on the disk leads to an account or to a       *)
(* directory of accounts, and that no account is lost; and, as long as no  *)
(* process is killed, that disk and CA agree and nobody registers twice.   *)
(***************************************************************************)
EXTENDS Accounts, TLAPS

(* What the process that runs has already seen to: the directory it works  *)
(* in is there, and links to what it removes are gone.                     *)
StepReady ==
    /\ pc \in {"register", "prepare"} => dir[server] # "none"
    /\ pc \in {"find", "determine"} /\ dir[server] = "none" => Upgrading
    /\ pc = "rmtree" => entry["v02"][acc] # "link"
    /\ pc = "rmdir" => dir["v02"] # "link" /\ \A a \in Account : entry[target][a] = "none"
    /\ pc \notin {"off", "find", "determine", "register"} => acc \in Account
    /\ pc = "write" => todo # <<>>

IInv == TypeOK /\ LinksLead /\ StepReady

-----------------------------------------------------------------------------
(* Most steps leave the disk alone, and many are the last one.             *)
LEMMA DiskKept == ASSUME LinksLead, UNCHANGED disk PROVE LinksLead'
BY DEF LinksLead, disk

LEMMA ReadyWhenOff == ASSUME pc' = "off" PROVE StepReady'
BY DEF StepReady

LEMMA GoneIInv == ASSUME IInv, Gone, UNCHANGED <<disk, ca>> PROVE IInv'
<1>1. TypeOK'
  BY DEF IInv, TypeOK, Gone, disk, ca, Server
<1>2. LinksLead' /\ StepReady'
  BY DiskKept, ReadyWhenOff DEF IInv, Gone
<1> QED
  BY <1>1, <1>2 DEF IInv

LEMMA TodoType ==
    /\ <<>> \in Seq(File) /\ <<"meta">> \in Seq(File) /\ <<"regr">> \in Seq(File)
    /\ <<"regr", "meta">> \in Seq(File) /\ <<"key", "meta", "regr">> \in Seq(File)
    /\ <<"key", "meta", "regr", "meta">> \in Seq(File)
BY DEF File

(* Paths depend on which directories are links, not on which exist.        *)
LEMMA SamePlaces ==
    ASSUME UNCHANGED <<entry, file>>,
           \A s \in Server : (dir'[s] = "link") <=> (dir[s] = "link")
    PROVE  \A s \in Server :
              /\ Listed(s)' = Listed(s) /\ OwnAccounts(s)' = OwnAccounts(s)
              /\ \A a \in Account : /\ Broken(s, a)' <=> Broken(s, a)
                                    /\ Loadable(s, a)' <=> Loadable(s, a)
<1> SUFFICES ASSUME NEW s \in Server
             PROVE  /\ Listed(s)' = Listed(s) /\ OwnAccounts(s)' = OwnAccounts(s)
                    /\ \A a \in Account : /\ Broken(s, a)' <=> Broken(s, a)
                                          /\ Loadable(s, a)' <=> Loadable(s, a)
  OBVIOUS
<1>1. Behind(s)' = Behind(s)
  BY DEF Behind
<1>2. \A a \in Account : Place(s, a)' = Place(s, a)
  BY <1>1 DEF Place
<1>3. \A a \in Account : IsDir(s, a)' = IsDir(s, a)
  BY <1>2 DEF IsDir
<1>4. \A a \in Account : Complete(s, a)' = Complete(s, a)
  BY <1>2, <1>3 DEF Complete
<1>5. \A a \in Account : Broken(s, a)' <=> Broken(s, a)
  BY <1>2, <1>3 DEF Broken
<1>6. \A a \in Account : Complete("v01", a)' = Complete("v01", a)
  BY DEF Complete, IsDir, Place, Behind
<1>7. \A a \in Account : Loadable(s, a)' <=> Loadable(s, a)
  BY <1>3, <1>4, <1>6 DEF Loadable
<1> QED
  BY <1>1, <1>4, <1>5, <1>7 DEF Listed, OwnAccounts

(* So what makes a process raise or replace a directory does so too.       *)
LEMMA SameUpgrade ==
    ASSUME acc \in Account \cup {None}, server \in Server,
           UNCHANGED <<entry, file, pc, acc, server>>,
           \A s \in Server : (dir'[s] = "link") <=> (dir[s] = "link")
    PROVE  Upgrading' <=> Upgrading
<1>1. \A s \in Server :
         /\ Listed(s)' = Listed(s) /\ OwnAccounts(s)' = OwnAccounts(s)
         /\ \A a \in Account : Broken(s, a)' <=> Broken(s, a)
  BY SamePlaces
<1>2. FindRaises(server)' <=> FindRaises(server)
  BY <1>1 DEF FindRaises, Server
<1>3. ASSUME acc # None PROVE LoadRaises(server, acc)' <=> LoadRaises(server, acc)
  <2>1. Broken(server, acc)' <=> Broken(server, acc)
    BY <1>1, <1>3
  <2>2. Broken("v01", acc)' <=> Broken("v01", acc)
    BY <1>1, <1>3 DEF Server
  <2>3. IsDir(server, acc)' <=> IsDir(server, acc)
    BY DEF IsDir, Place, Behind
  <2> QED
    BY <2>1, <2>2, <2>3 DEF LoadRaises
<1>4. Raises' <=> Raises
  BY <1>2, <1>3 DEF Raises, Finding
<1>5. Upgraded(server)' <=> Upgraded(server)
  BY <1>1 DEF Upgraded, Server
<1> QED
  BY <1>1, <1>4, <1>5 DEF Upgrading, Finding, Server

-----------------------------------------------------------------------------
LEMMA InitIInv == Init => IInv
<1> SUFFICES ASSUME Init PROVE IInv
  OBVIOUS
<1>1. TypeOK
  BY DEF Init, TypeOK, Server, File
<1>2. LinksLead /\ StepReady
  BY DEF Init, LinksLead, StepReady, Server
<1> QED
  BY <1>1, <1>2 DEF IInv

LEMMA StartIInv ==
    ASSUME IInv, NEW v, NEW s \in Server, NEW a \in Account \cup {None}, Start(v, s, a)
    PROVE  IInv'
<1>1. TypeOK'
  BY DEF IInv, TypeOK, Start, ca
<1>2. LinksLead'
  BY DEF IInv, TypeOK, LinksLead, Start, Server
<1>3. StepReady'
  <2>1. dir'[server'] # "none"
    BY DEF IInv, TypeOK, Start
  <2>2. pc' \in {"find", "determine"}
    BY DEF Start, Go
  <2> QED
    BY <2>1, <2>2 DEF StepReady
<1> QED
  BY <1>1, <1>2, <1>3 DEF IInv

(* The directory is gone for a moment only: what made the process replace  *)
(* it still holds, and the link comes next.                                *)
LEMMA RemoveEmptyDirIInv == ASSUME IInv, RemoveEmptyDir PROVE IInv'
<1>1. TypeOK'
  BY DEF IInv, TypeOK, RemoveEmptyDir, ca, command
<1>2. server = "v02" /\ Listed("v02") = {} /\ Behind("v02") = "v02"
  BY DEF IInv, RemoveEmptyDir, Upgrading, Upgraded, Behind
<1>3. \A a \in Account : entry["v02"][a] = "none"
  BY <1>2 DEF Listed
<1>4. LinksLead'
  BY <1>2, <1>3 DEF IInv, TypeOK, LinksLead, RemoveEmptyDir, Server
<1>5. StepReady'
  <2>1. \A t \in Server : (dir'[t] = "link") <=> (dir[t] = "link")
    BY <1>2 DEF IInv, TypeOK, RemoveEmptyDir, Server
  <2>2. UNCHANGED <<entry, file>>
    BY DEF RemoveEmptyDir
  <2>3. Upgrading'
    BY <2>1, <2>2, SameUpgrade DEF IInv, TypeOK, RemoveEmptyDir, command
  <2>4. pc' \in {"find", "determine"}
    BY DEF RemoveEmptyDir, Upgrading, Finding, command
  <2> QED
    BY <2>3, <2>4 DEF StepReady
<1> QED
  BY <1>1, <1>4, <1>5 DEF IInv

LEMMA SymlinkToAccountsDirIInv == ASSUME IInv, SymlinkToAccountsDir PROVE IInv'
<1>1. TypeOK'
  BY DEF IInv, TypeOK, SymlinkToAccountsDir, ca, command
<1>2. server = "v02"
  BY DEF SymlinkToAccountsDir, Upgrading, Upgraded
<1>3. \E a \in Account : entry["v01"][a] # "none"
  <2>1. PICK a \in Account : Complete("v01", a)
    BY DEF SymlinkToAccountsDir, Upgrading, OwnAccounts
  <2> QED
    BY <2>1 DEF Complete, IsDir, Place, Behind, IInv, LinksLead
<1>4. LinksLead'
  BY <1>2, <1>3 DEF IInv, TypeOK, LinksLead, SymlinkToAccountsDir, Server
<1>5. StepReady'
  <2>1. dir'[server'] = "link"
    BY DEF IInv, TypeOK, SymlinkToAccountsDir, command
  <2>2. pc' \in {"find", "determine"}
    BY DEF SymlinkToAccountsDir, Upgrading, Finding
  <2> QED
    BY <2>1, <2>2 DEF StepReady
<1> QED
  BY <1>1, <1>4, <1>5 DEF IInv

(* Other accounts are listed in the directory, or it would be replaced:    *)
(* so it is there, and the account linked to is one of v01.                *)
LEMMA SymlinkToAccountDirIInv == ASSUME IInv, SymlinkToAccountDir PROVE IInv'
<1>1. acc \in Account /\ server = "v02" /\ pc = "determine"
  BY DEF IInv, TypeOK, SymlinkToAccountDir
<1>2. entry["v01"][acc] = "dir"
  BY <1>1 DEF SymlinkToAccountDir, Complete, IsDir, Place, Behind, IInv, LinksLead
<1>3. dir["v02"] # "link"
  BY <1>1, <1>2 DEF SymlinkToAccountDir, IsDir, Place, Behind
<1>4. Listed("v02") # {}
  BY <1>1, <1>3 DEF SymlinkToAccountDir, Upgrading, Upgraded, OwnAccounts
<1>5. dir["v02"] = "dir"
  BY <1>3, <1>4 DEF Listed, Behind, IInv, LinksLead, Server
<1>6. TypeOK'
  BY <1>1 DEF IInv, TypeOK, SymlinkToAccountDir, ca, command
<1>7. LinksLead'
  BY <1>1, <1>2, <1>5 DEF IInv, TypeOK, LinksLead, SymlinkToAccountDir, Server
<1>8. StepReady'
  BY <1>1, <1>5 DEF StepReady, SymlinkToAccountDir, command
<1> QED
  BY <1>6, <1>7, <1>8 DEF IInv

LEMMA FindIInv == ASSUME IInv, Find PROVE IInv'
<1>1. CASE Gone
  BY <1>1, GoneIInv DEF Find
<1>2. CASE Go("determine") /\ Same
  <2>1. TypeOK'
    BY <1>2 DEF IInv, TypeOK, Find, Same, disk, ca, command
  <2>2. LinksLead'
    BY DiskKept DEF IInv, Find
  <2>3. dir[server] # "none"
    BY DEF IInv, StepReady, Find, Settled
  <2>4. StepReady'
    BY <1>2, <2>3 DEF Find, Go, Same, StepReady, disk, command
  <2> QED
    BY <2>1, <2>2, <2>4 DEF IInv
<1> QED
  BY <1>1, <1>2 DEF Find

LEMMA DetermineIInv == ASSUME IInv, Determine PROVE IInv'
<1>1. LinksLead'
  BY DiskKept DEF IInv, Determine
<1>2. CASE Gone
  BY <1>2, GoneIInv DEF Determine
<1>3. CASE Go("register") /\ Same
  <2>1. dir[server] # "none"
    BY DEF IInv, StepReady, Determine, Settled
  <2>2. StepReady'
    BY <1>3, <2>1 DEF Determine, Go, Same, StepReady, disk, command
  <2>3. TypeOK'
    BY <1>3 DEF IInv, TypeOK, Determine, Same, disk, ca, command
  <2> QED
    BY <1>1, <2>2, <2>3 DEF IInv
<1>4. ASSUME NEW a \in Account, Determined(a) PROVE IInv'
  <2>1. /\ acc' = a /\ UNCHANGED <<server, target>>
        /\ \/ pc' \in {"update", "deactivate"} /\ todo' = todo
           \/ pc' = "save" /\ todo' \in {<<>>, <<"meta">>}
    BY <1>4 DEF Determined, Go, command
  <2>2. TypeOK'
    BY <2>1, TodoType DEF IInv, TypeOK, Determine, disk, ca
  <2>3. StepReady'
    BY <2>1 DEF StepReady
  <2> QED
    BY <1>1, <2>2, <2>3 DEF IInv
<1>5. FindAll(server) \subseteq Account /\ (acc # None => acc \in Account)
  BY DEF FindAll, OwnAccounts, IInv, TypeOK
<1> QED
  BY <1>2, <1>3, <1>4, <1>5 DEF Determine

LEMMA RegisterIInv == ASSUME IInv, Register PROVE IInv'
<1>1. LinksLead'
  BY DiskKept DEF IInv, Register
<1>2. CASE Gone /\ UNCHANGED ca
  BY <1>2, GoneIInv DEF Register
<1>3. CASE pc' = "prepare"
  <2>1. TypeOK'
    <3>1. todo' \in Seq(File)
      BY <1>3, TodoType DEF Register, Gone
    <3>2. /\ at_ca' \in [Account -> {"unknown", "valid", "deactivated"}]
          /\ home' \in [Account -> Server] /\ acc' \in Account
      <4>1. PICK a \in Account :
               /\ at_ca' = [at_ca EXCEPT ![a] = "valid"]
               /\ home' = [home EXCEPT ![a] = server] /\ acc' = a
        BY <1>3 DEF Register, Gone
      <4>2. /\ at_ca \in [Account -> {"unknown", "valid", "deactivated"}]
            /\ home \in [Account -> Server] /\ server \in Server
        BY DEF IInv, TypeOK
      <4> QED
        BY <4>1, <4>2
    <3> QED
      BY <1>3, <3>1, <3>2 DEF IInv, TypeOK, Register, Gone, disk, command
  <2>2. acc' \in Account /\ dir'[server'] # "none"
    BY <1>3 DEF Register, Gone, IInv, StepReady, disk, command
  <2>3. StepReady'
    BY <1>3, <2>2 DEF StepReady
  <2> QED
    BY <1>1, <2>1, <2>3 DEF IInv
<1> QED
  BY <1>2, <1>3 DEF Register, Go

LEMMA PrepareIInv == ASSUME IInv, Prepare PROVE IInv'
<1>1. acc \in Account /\ Behind(server) \in Server /\ dir[server] # "none"
  BY DEF IInv, TypeOK, StepReady, Prepare, Behind, Server
<1>2. TypeOK'
  BY <1>1 DEF IInv, TypeOK, Prepare, ca, command
<1>3. dir[Behind(server)] = "dir"
  BY <1>1 DEF IInv, TypeOK, LinksLead, Behind, Server
<1>4. LinksLead'
  BY <1>1, <1>3 DEF IInv, TypeOK, LinksLead, Prepare, Server
<1>5. StepReady'
  BY <1>1 DEF StepReady, Prepare, Go
<1> QED
  BY <1>2, <1>4, <1>5 DEF IInv

(* Files are written and removed in directories that stay.                 *)
LEMMA OpenIInv == ASSUME IInv, Open PROVE IInv'
<1>1. acc \in Account /\ Place(server, acc) \in Server /\ Head(todo) \in File
  BY DEF IInv, TypeOK, StepReady, Open, Place, Behind, Server
<1>2. TypeOK'
  BY <1>1 DEF IInv, TypeOK, Open, ca, command
<1>3. LinksLead'
  BY DEF IInv, LinksLead, Open
<1>4. StepReady'
  BY <1>1 DEF StepReady, Open, Go
<1> QED
  BY <1>2, <1>3, <1>4 DEF IInv

LEMMA WriteIInv == ASSUME IInv, Write PROVE IInv'
<1>1. acc \in Account /\ todo # <<>>
  BY DEF IInv, StepReady, Write
<1>2. Place(server, acc) \in Server /\ Head(todo) \in File /\ Tail(todo) \in Seq(File)
  BY <1>1 DEF IInv, TypeOK, Place, Behind, Server
<1>3. TypeOK'
  BY <1>1, <1>2 DEF IInv, TypeOK, Write, ca, command
<1>4. LinksLead'
  BY DEF IInv, LinksLead, Write
<1>5. StepReady'
  BY <1>1 DEF StepReady, Write, Go
<1> QED
  BY <1>3, <1>4, <1>5 DEF IInv

LEMMA UpdateAccountIInv == ASSUME IInv, UpdateAccount PROVE IInv'
<1>1. CASE Gone
  BY <1>1, GoneIInv DEF UpdateAccount
<1>2. CASE at_ca[acc] = "valid"
  <2>1. acc \in Account
    BY DEF IInv, StepReady, UpdateAccount
  <2>2. TypeOK'
    BY <1>2, TodoType DEF IInv, TypeOK, UpdateAccount, disk, ca, command
  <2>3. LinksLead'
    BY DiskKept DEF IInv, UpdateAccount
  <2>4. StepReady'
    BY <1>2, <2>1 DEF StepReady, UpdateAccount, Go
  <2> QED
    BY <2>2, <2>3, <2>4 DEF IInv
<1> QED
  BY <1>1, <1>2 DEF UpdateAccount

-----------------------------------------------------------------------------
LEMMA DeactivateIInv == ASSUME IInv, Deactivate PROVE IInv'
<1>1. acc \in Account /\ Place(server, acc) \in Server
  BY DEF IInv, TypeOK, StepReady, Deactivate, Place, Behind, Server
<1>2. LinksLead'
  BY DiskKept DEF IInv, Deactivate
<1>3. CASE Gone /\ UNCHANGED at_ca
  BY <1>3, GoneIInv DEF Deactivate, ca
<1>4. CASE at_ca[acc] = "valid"
  <2>1. TypeOK'
    BY <1>1, <1>4 DEF IInv, TypeOK, Deactivate, disk, command
  <2>2. StepReady'
    BY <1>1, <1>4 DEF StepReady, Deactivate, Go
  <2> QED
    BY <1>2, <2>1, <2>2 DEF IInv
<1> QED
  BY <1>3, <1>4 DEF Deactivate

LEMMA UnlinkAccountIInv == ASSUME IInv, UnlinkAccount PROVE IInv'
<1>1. acc \in Account
  BY DEF IInv, StepReady, UnlinkAccount
<1>2. TypeOK'
  BY <1>1 DEF IInv, TypeOK, UnlinkAccount, ca, command, Server
<1>3. LinksLead'
  BY <1>1 DEF IInv, TypeOK, LinksLead, UnlinkAccount, Server
<1>4. StepReady'
  BY <1>1 DEF IInv, TypeOK, StepReady, UnlinkAccount, Go, Server
<1> QED
  BY <1>2, <1>3, <1>4 DEF IInv

LEMMA RemoveFileIInv == ASSUME IInv, NEW f \in File, RemoveFile(f) PROVE IInv'
<1>1. acc \in Account
  BY DEF IInv, StepReady, RemoveFile
<1>2. TypeOK'
  BY <1>1 DEF IInv, TypeOK, RemoveFile, ca, command
<1>3. LinksLead'
  BY DEF IInv, LinksLead, RemoveFile
<1>4. StepReady'
  BY <1>1 DEF IInv, StepReady, RemoveFile
<1> QED
  BY <1>2, <1>3, <1>4 DEF IInv

(* No link of v02 leads to the account any more when its directory goes.   *)
LEMMA RemoveAccountDirIInv == ASSUME IInv, RemoveAccountDir PROVE IInv'
<1>1. acc \in Account /\ entry["v02"][acc] # "link"
  BY DEF IInv, StepReady, RemoveAccountDir
<1>2. TypeOK'
  BY <1>1 DEF IInv, TypeOK, RemoveAccountDir, ca, command
<1>3. LinksLead'
  BY <1>1 DEF IInv, TypeOK, LinksLead, RemoveAccountDir, Server
<1>4. StepReady'
  BY <1>1 DEF StepReady, RemoveAccountDir, Go
<1> QED
  BY <1>2, <1>3, <1>4 DEF IInv

LEMMA UnlinkAccountsDirIInv == ASSUME IInv, UnlinkAccountsDir PROVE IInv'
<1>1. acc \in Account /\ Behind(server) \in Server
  BY DEF IInv, TypeOK, StepReady, UnlinkAccountsDir, Behind, Server
<1>2. CASE Gone /\ UNCHANGED dir
  BY <1>2, GoneIInv DEF UnlinkAccountsDir, disk
<1>3. CASE Listed(server) = {}
  <2>1. TypeOK'
    BY <1>1, <1>3 DEF IInv, TypeOK, UnlinkAccountsDir, ca, command, Server
  <2>2. LinksLead'
    BY <1>1, <1>3 DEF IInv, TypeOK, LinksLead, UnlinkAccountsDir, Server
  <2>3. \A a \in Account : entry[Behind(server)][a] = "none"
    BY <1>3 DEF Listed
  <2>4. StepReady'
    BY <1>1, <1>3, <2>3 DEF IInv, TypeOK, StepReady, UnlinkAccountsDir, Go, Server
  <2> QED
    BY <2>1, <2>2, <2>4 DEF IInv
<1> QED
  BY <1>2, <1>3 DEF UnlinkAccountsDir

LEMMA RemoveAccountsDirIInv == ASSUME IInv, RemoveAccountsDir PROVE IInv'
<1>1. dir["v02"] # "link" /\ \A a \in Account : entry[target][a] = "none"
  BY DEF IInv, StepReady, RemoveAccountsDir
<1>2. TypeOK'
  BY DEF IInv, TypeOK, RemoveAccountsDir, Gone, ca, Server
<1>3. LinksLead'
  BY <1>1 DEF IInv, TypeOK, LinksLead, RemoveAccountsDir, Server
<1>4. StepReady'
  BY ReadyWhenOff DEF RemoveAccountsDir, Gone
<1> QED
  BY <1>2, <1>3, <1>4 DEF IInv

-----------------------------------------------------------------------------
LEMMA NextIInv == IInv /\ [Next]_vars => IInv'
<1> SUFFICES ASSUME IInv, [Next]_vars PROVE IInv'
  OBVIOUS
<1>1. CASE \E s \in Server, a \in Account \cup {None} :
              \E v \in {"use", "update", "unregister"} : Start(v, s, a)
  BY <1>1, StartIInv
<1>2. CASE \E s \in Server : Start("register", s, None)
  BY <1>2, StartIInv
<1>3. CASE Raise \/ Decline \/ Saved \/ Kill
  BY <1>3, GoneIInv DEF Raise, Decline, Saved, Kill, ca
<1>4. CASE RemoveEmptyDir \/ SymlinkToAccountsDir \/ SymlinkToAccountDir
  BY <1>4, RemoveEmptyDirIInv, SymlinkToAccountsDirIInv, SymlinkToAccountDirIInv
<1>5. CASE Find \/ Determine \/ Register \/ Prepare \/ Open \/ Write
  BY <1>5, FindIInv, DetermineIInv, RegisterIInv, PrepareIInv, OpenIInv, WriteIInv
<1>6. CASE UpdateAccount \/ Deactivate \/ UnlinkAccount
  BY <1>6, UpdateAccountIInv, DeactivateIInv, UnlinkAccountIInv
<1>7. CASE \E f \in File : RemoveFile(f)
  BY <1>7, RemoveFileIInv
<1>8. CASE RemoveAccountDir \/ UnlinkAccountsDir \/ RemoveAccountsDir
  BY <1>8, RemoveAccountDirIInv, UnlinkAccountsDirIInv, RemoveAccountsDirIInv
<1>9. CASE UNCHANGED vars
  <2>1. TypeOK'
    BY <1>9 DEF IInv, TypeOK, vars, disk, ca, history, command
  <2>2. LinksLead'
    BY <1>9, DiskKept DEF IInv, vars
  <2>3. StepReady'
    <3>1. Upgrading' <=> Upgrading
      BY <1>9, SameUpgrade DEF IInv, TypeOK, vars, disk, command
    <3> QED
      BY <1>9, <3>1 DEF IInv, StepReady, vars, disk, command
  <2> QED
    BY <2>1, <2>2, <2>3 DEF IInv
<1> QED
  BY <1>1, <1>2, <1>3, <1>4, <1>5, <1>6, <1>7, <1>8, <1>9 DEF Next

LEMMA Invariant == Spec => []IInv
<1>1. Init => IInv
  BY InitIInv
<1>2. IInv /\ [Next]_vars => IInv'
  BY NextIInv
<1> QED
  BY <1>1, <1>2, PTL DEF Spec

-----------------------------------------------------------------------------
(* What the CA knows of what is on the disk: no account that it does not   *)
(* know has a directory, and what is deleted was deactivated.              *)
CaInv ==
    /\ \A a \in Account : at_ca[a] = "unknown" => \A s \in Server : entry[s][a] = "none"
    /\ pc = "prepare" => /\ at_ca[acc] # "unknown"
                         /\ \A s \in Server : entry[s][acc] = "none"
    /\ pc \in {"unlink", "rmtree", "empty", "rmdir"} => at_ca[acc] = "deactivated"

LEMMA CaKept ==
    ASSUME CaInv, UNCHANGED <<entry, at_ca>>,
           pc' \notin {"prepare", "unlink", "rmtree", "empty", "rmdir"}
    PROVE  CaInv'
BY DEF CaInv

LEMMA NextCaInv == IInv /\ CaInv /\ [Next]_vars => CaInv'
<1> SUFFICES ASSUME IInv, CaInv, [Next]_vars PROVE CaInv'
  OBVIOUS
<1>1. ASSUME NEW v, NEW s, NEW a, Start(v, s, a) PROVE CaInv'
  BY <1>1, CaKept DEF Start, Go, ca
<1>2. CASE Raise \/ Decline \/ Saved \/ Kill
  BY <1>2, CaKept DEF Raise, Decline, Saved, Kill, Gone, disk, ca
<1>3. CASE RemoveEmptyDir \/ SymlinkToAccountsDir
  BY <1>3, CaKept DEF RemoveEmptyDir, SymlinkToAccountsDir, Upgrading, Finding, ca
<1>4. CASE SymlinkToAccountDir
  <2>1. acc \in Account /\ pc' = "determine" /\ UNCHANGED <<at_ca, acc>>
    BY <1>4 DEF IInv, TypeOK, SymlinkToAccountDir, ca
  <2>2. entry["v01"][acc] = "dir"
    BY <1>4, <2>1 DEF SymlinkToAccountDir, Complete, IsDir, Place, Behind, IInv, LinksLead
  <2>3. at_ca[acc] # "unknown"
    BY <2>1, <2>2 DEF CaInv, Server
  <2> QED
    BY <1>4, <2>1, <2>3 DEF CaInv, SymlinkToAccountDir, IInv, TypeOK
<1>5. CASE Find \/ Determine \/ UpdateAccount \/ Open \/ Write
  <2>1. CASE Determine
    <3>1. UNCHANGED <<entry, at_ca>>
      BY <2>1 DEF Determine, disk, ca
    <3>2. ASSUME NEW a, Determined(a) PROVE pc' \in {"update", "deactivate", "save"}
      BY <3>2 DEF Determined, Go
    <3>3. pc' \in {"off", "register", "update", "deactivate", "save"}
      BY <2>1, <3>2 DEF Determine, Go, Gone
    <3> QED
      BY <3>1, <3>3, CaKept
  <2> QED
    BY <1>5, <2>1, CaKept DEF Find, UpdateAccount, Open, Write, Go, Gone, disk, ca
<1>6. CASE Register
  <2>1. CASE Gone /\ UNCHANGED ca
    BY <1>6, <2>1, CaKept DEF Register, Gone, disk, ca
  <2>2. CASE pc' = "prepare"
    <3>1. PICK a \in Account : /\ at_ca[a] = "unknown" /\ acc' = a
                               /\ at_ca' = [at_ca EXCEPT ![a] = "valid"]
      BY <1>6, <2>2 DEF Register, Gone
    <3>2. \A s \in Server : entry'[s][a] = "none"
      BY <1>6, <3>1 DEF Register, disk, CaInv
    <3> QED
      BY <1>6, <2>2, <3>1, <3>2 DEF CaInv, IInv, TypeOK, Register, disk
  <2> QED
    BY <1>6, <2>1, <2>2 DEF Register, Go
<1>7. CASE Prepare
  <2>1. acc \in Account /\ at_ca[acc] # "unknown"
    BY <1>7 DEF IInv, StepReady, CaInv, Prepare
  <2> QED
    BY <1>7, <2>1 DEF CaInv, IInv, TypeOK, Prepare, Go, ca
<1>8. CASE Deactivate
  <2>1. acc \in Account
    BY <1>8 DEF IInv, StepReady, Deactivate
  <2>2. CASE Gone /\ UNCHANGED at_ca
    BY <1>8, <2>2, CaKept DEF Deactivate, Gone, disk
  <2>3. CASE at_ca[acc] = "valid"
    BY <1>8, <2>1, <2>3 DEF CaInv, IInv, TypeOK, Deactivate, Go, disk
  <2> QED
    BY <1>8, <2>2, <2>3 DEF Deactivate
<1>9. CASE UnlinkAccount \/ RemoveAccountDir
  <2>1. acc \in Account
    BY <1>9 DEF IInv, StepReady, UnlinkAccount, RemoveAccountDir
  <2> QED
    BY <1>9, <2>1 DEF CaInv, IInv, TypeOK, UnlinkAccount, RemoveAccountDir, Go, ca, Server
<1>10. ASSUME NEW f \in File, RemoveFile(f) PROVE CaInv'
  BY <1>10 DEF CaInv, RemoveFile, ca
<1>11. CASE UnlinkAccountsDir \/ RemoveAccountsDir
  BY <1>11, CaKept DEF CaInv, UnlinkAccountsDir, RemoveAccountsDir, Go, Gone, ca
<1>12. CASE UNCHANGED vars
  BY <1>12 DEF CaInv, vars, disk, ca
<1> QED
  BY <1>1, <1>2, <1>3, <1>4, <1>5, <1>6, <1>7, <1>8, <1>9, <1>10, <1>11, <1>12 DEF Next

LEMMA CaInvariant == Spec => []CaInv
<1>1. Init => CaInv
  BY DEF Init, CaInv, Server
<1>2. IInv /\ CaInv /\ [Next]_vars => CaInv'
  BY NextCaInv
<1> QED
  BY <1>1, <1>2, Invariant, PTL DEF Spec

-----------------------------------------------------------------------------
(* What a step may do to an account that could be loaded.                  *)
Kept(s, a) ==
    Loadable(s, a) /\ ~ Loadable(s, a)'
    => at_ca[a] = "deactivated" \/ (pc = "save" /\ acc = a)

LEMMA KeptWithDisk ==
    ASSUME UNCHANGED disk, NEW s \in Server, NEW a \in Account PROVE Kept(s, a)
BY SamePlaces DEF Kept, disk

(* Links and files of other accounts have no part in whether one loads.    *)
LEMMA LoadableOfOthers ==
    ASSUME UNCHANGED dir, NEW a \in Account,
           \A t \in Server : entry'[t][a] = entry[t][a] /\ file'[t][a] = file[t][a]
    PROVE  \A s \in Server : Loadable(s, a)' <=> Loadable(s, a)
<1> SUFFICES ASSUME NEW s \in Server PROVE Loadable(s, a)' <=> Loadable(s, a)
  OBVIOUS
<1>1. \A t \in Server : Behind(t)' = Behind(t) /\ Behind(t) \in Server
  BY DEF Behind, Server
<1>2. \A t \in Server : Place(t, a)' = Place(t, a) /\ Place(t, a) \in Server
  BY <1>1 DEF Place, Server
<1>3. \A t \in Server : IsDir(t, a)' = IsDir(t, a)
  BY <1>2 DEF IsDir
<1>4. \A t \in Server : Complete(t, a)' = Complete(t, a)
  BY <1>2, <1>3 DEF Complete
<1> QED
  BY <1>3, <1>4 DEF Loadable, Server

(* A link takes the place of a directory with nothing in it, so at v02     *)
(* accounts of v01 were loaded before and are loaded now.                  *)
LEMMA SymlinkToAccountsDirKept ==
    ASSUME IInv, SymlinkToAccountsDir, NEW s \in Server, NEW a \in Account PROVE Kept(s, a)
<1>1. server = "v02" /\ dir["v02"] = "none" /\ dir' = [dir EXCEPT !["v02"] = "link"]
  BY DEF SymlinkToAccountsDir, Upgrading, Upgraded
<1>2. entry["v02"][a] = "none" /\ entry["v01"][a] # "link" /\ dir["v01"] # "link"
  BY <1>1 DEF IInv, LinksLead, Server
<1>3. dir'["v01"] = dir["v01"] /\ dir'["v02"] = "link"
  BY <1>1 DEF IInv, TypeOK, Server
<1>4. ~ Complete("v02", a)
  BY <1>1, <1>2 DEF Complete, IsDir, Place, Behind
<1>5. Complete("v01", a)' <=> Complete("v01", a)
  BY <1>2, <1>3 DEF SymlinkToAccountsDir, Complete, IsDir, Place, Behind
<1>6. Complete("v02", a)' <=> Complete("v01", a)
  BY <1>2, <1>3 DEF SymlinkToAccountsDir, Complete, IsDir, Place, Behind
<1> QED
  BY <1>4, <1>5, <1>6 DEF Kept, Loadable, Server

LEMMA SymlinkToAccountDirKept ==
    ASSUME IInv, SymlinkToAccountDir, NEW s \in Server, NEW a \in Account PROVE Kept(s, a)
<1>1. acc \in Account /\ Complete("v01", acc)
      /\ entry' = [entry EXCEPT !["v02"][acc] = "link"] /\ UNCHANGED <<dir, file>>
  BY DEF IInv, TypeOK, SymlinkToAccountDir
<1>2. CASE a # acc
  <2>1. \A t \in Server : entry'[t][a] = entry[t][a]
    BY <1>1, <1>2 DEF IInv, TypeOK, Server
  <2> QED
    BY <1>1, <2>1, LoadableOfOthers DEF Kept
<1>3. CASE a = acc
  <2>1. dir["v01"] # "link" /\ entry["v01"][a] # "link"
    BY DEF IInv, LinksLead
  <2>2. entry'["v01"][a] = entry["v01"][a] /\ entry'["v02"][a] = "link"
    BY <1>1, <1>3 DEF IInv, TypeOK, Server
  <2>3. Complete("v01", a)' /\ Complete("v02", a)'
    BY <1>1, <1>3, <2>1, <2>2 DEF Complete, IsDir, Place, Behind
  <2> QED
    BY <2>3 DEF Kept, Loadable, Server
<1> QED
  BY <1>2, <1>3

(* A directory is made for an account that has none yet.                   *)
LEMMA PrepareKept ==
    ASSUME IInv, CaInv, Prepare, NEW s \in Server, NEW a \in Account PROVE Kept(s, a)
<1>1. acc \in Account /\ Behind(server) \in Server
  BY DEF IInv, TypeOK, StepReady, Prepare, Behind, Server
<1>2. CASE a # acc
  <2>1. \A t \in Server : entry'[t][a] = entry[t][a]
    BY <1>1, <1>2 DEF Prepare, IInv, TypeOK
  <2> QED
    BY <2>1, LoadableOfOthers DEF Kept, Prepare
<1>3. CASE a = acc
  <2>1. \A t \in Server : entry[t][a] = "none"
    BY <1>3 DEF Prepare, CaInv
  <2>2. \A t \in Server : ~ Complete(t, a)
    BY <2>1 DEF Complete, IsDir, Place, Behind, Server
  <2> QED
    BY <2>2 DEF Kept, Loadable, Server
<1> QED
  BY <1>2, <1>3

(* While a file is written, its account is the one of the process; when it *)
(* is complete, so is what was.                                            *)
LEMMA OpenKept ==
    ASSUME IInv, Open, NEW s \in Server, NEW a \in Account PROVE Kept(s, a)
<1>1. acc \in Account /\ Place(server, acc) \in Server /\ Head(todo) \in File
  BY DEF IInv, TypeOK, StepReady, Open, Place, Behind, Server
<1>2. CASE a # acc
  <2>1. \A t \in Server : file'[t][a] = file[t][a]
    BY <1>1, <1>2 DEF Open, IInv, TypeOK
  <2> QED
    BY <2>1, LoadableOfOthers DEF Kept, Open
<1> QED
  BY <1>2 DEF Kept, Open

LEMMA WriteKept ==
    ASSUME IInv, Write, NEW s \in Server, NEW a \in Account PROVE Kept(s, a)
<1>1. acc \in Account /\ Place(server, acc) \in Server /\ Head(todo) \in File
  BY DEF IInv, TypeOK, StepReady, Write, Place, Behind, Server
<1>2. CASE a # acc
  <2>1. \A t \in Server : file'[t][a] = file[t][a]
    BY <1>1, <1>2 DEF Write, IInv, TypeOK
  <2> QED
    BY <2>1, LoadableOfOthers DEF Kept, Write
<1>3. CASE a = acc
  <2>1. \A t \in Server, f \in File : file[t][a][f] = "whole" => file'[t][a][f] = "whole"
    BY <1>1, <1>3 DEF Write, IInv, TypeOK
  <2>2. \A t \in Server : Place(t, a)' = Place(t, a) /\ Place(t, a) \in Server
    BY DEF Write, Place, Behind, Server
  <2>3. \A t \in Server : IsDir(t, a)' = IsDir(t, a)
    BY <2>2 DEF Write, IsDir
  <2>4. \A t \in Server : Complete(t, a) => Complete(t, a)'
    BY <2>1, <2>2, <2>3 DEF Complete
  <2> QED
    BY <2>3, <2>4 DEF Kept, Loadable, Server
<1> QED
  BY <1>2, <1>3

(* What is deleted was deactivated, and the rest is as it was.             *)
LEMMA DeleteKept ==
    ASSUME IInv, CaInv, NEW f \in File,
           UnlinkAccount \/ RemoveFile(f) \/ RemoveAccountDir,
           NEW s \in Server, NEW a \in Account
    PROVE  Kept(s, a)
<1>1. acc \in Account /\ at_ca[acc] = "deactivated"
  BY DEF IInv, StepReady, CaInv, UnlinkAccount, RemoveFile, RemoveAccountDir
<1>2. CASE a # acc
  <2>1. \A t \in Server : entry'[t][a] = entry[t][a] /\ file'[t][a] = file[t][a]
    <3>1. target \in Server /\ "v02" \in Server
      BY DEF IInv, TypeOK, Server
    <3>2. CASE UnlinkAccount
      BY <1>1, <1>2, <3>1, <3>2 DEF IInv, TypeOK, UnlinkAccount
    <3>3. CASE RemoveFile(f)
      BY <1>1, <1>2, <3>1, <3>3 DEF IInv, TypeOK, RemoveFile
    <3>4. CASE RemoveAccountDir
      BY <1>1, <1>2, <3>1, <3>4 DEF IInv, TypeOK, RemoveAccountDir
    <3> QED
      BY <3>2, <3>3, <3>4
  <2>2. UNCHANGED dir
    BY DEF UnlinkAccount, RemoveFile, RemoveAccountDir
  <2> QED
    BY <2>1, <2>2, LoadableOfOthers DEF Kept
<1> QED
  BY <1>1, <1>2 DEF Kept

(* The link to a directory goes when no account is in it, so v02 had none  *)
(* of its own through the link and v01 has none either.                    *)
LEMMA UnlinkAccountsDirKept ==
    ASSUME IInv, UnlinkAccountsDir, NEW s \in Server, NEW a \in Account PROVE Kept(s, a)
<1>1. CASE UNCHANGED dir
  BY <1>1, KeptWithDisk DEF UnlinkAccountsDir, disk
<1>2. CASE Listed(server) = {} /\ dir["v02"] = "link"
  <2>1. Behind(server) = "v01" /\ dir["v01"] # "link"
    BY <1>2 DEF IInv, TypeOK, LinksLead, Behind, Server
  <2>2. entry["v01"][a] = "none" /\ entry["v02"][a] = "none"
    BY <1>2, <2>1 DEF Listed, IInv, LinksLead, Server
  <2>3. ~ Complete("v01", a) /\ ~ Complete("v02", a)
    BY <2>2 DEF Complete, IsDir, Place, Behind
  <2> QED
    BY <2>3 DEF Kept, Loadable, Server
<1>3. CASE Listed(server) = {} /\ dir["v02"] # "link"
  <2>1. dir' = dir
    BY <1>3 DEF UnlinkAccountsDir, IInv, TypeOK, Server
  <2> QED
    BY <2>1, <1>1
<1> QED
  BY <1>1, <1>2, <1>3 DEF UnlinkAccountsDir

LEMMA NextKept ==
    ASSUME IInv, CaInv, [Next]_vars, NEW s \in Server, NEW a \in Account PROVE Kept(s, a)
<1>1. ASSUME NEW v, NEW t \in Server, NEW b, Start(v, t, b) PROVE Kept(s, a)
  <2>1. \A u \in Server : (dir'[u] = "link") <=> (dir[u] = "link")
    BY <1>1 DEF Start, IInv, TypeOK
  <2> QED
    BY <1>1, <2>1, SamePlaces DEF Start, Kept
<1>2. CASE Raise \/ Find \/ Decline \/ Determine \/ Register \/ Saved \/ UpdateAccount
           \/ Deactivate \/ Kill
  BY <1>2, KeptWithDisk DEF Raise, Find, Decline, Determine, Register, Saved, UpdateAccount,
                            Deactivate, Kill
<1>3. CASE RemoveEmptyDir
  <2>1. \A u \in Server : (dir'[u] = "link") <=> (dir[u] = "link")
    BY <1>3 DEF RemoveEmptyDir, IInv, TypeOK
  <2> QED
    BY <1>3, <2>1, SamePlaces DEF RemoveEmptyDir, Kept
<1>4. CASE SymlinkToAccountsDir \/ SymlinkToAccountDir
  BY <1>4, SymlinkToAccountsDirKept, SymlinkToAccountDirKept
<1>5. CASE Prepare \/ Open \/ Write
  BY <1>5, PrepareKept, OpenKept, WriteKept
<1>6. ASSUME NEW f \in File, UnlinkAccount \/ RemoveFile(f) \/ RemoveAccountDir PROVE Kept(s, a)
  BY <1>6, DeleteKept
<1>7. CASE UnlinkAccountsDir
  BY <1>7, UnlinkAccountsDirKept
<1>8. CASE RemoveAccountsDir
  <2>1. dir["v02"] # "link" /\ dir["v01"] # "link"
    BY <1>8 DEF IInv, StepReady, LinksLead, RemoveAccountsDir
  <2>2. \A u \in Server : (dir'[u] = "link") <=> (dir[u] = "link")
    BY <1>8, <2>1 DEF RemoveAccountsDir, IInv, TypeOK, Server
  <2> QED
    BY <1>8, <2>2, SamePlaces DEF RemoveAccountsDir, Kept
<1>9. CASE UNCHANGED vars
  <2>1. UNCHANGED disk
    BY <1>9 DEF vars
  <2> QED
    BY <2>1, KeptWithDisk
<1>10. "regr" \in File
  BY DEF File
<1> QED
  BY <1>1, <1>2, <1>3, <1>4, <1>5, <1>6, <1>7, <1>8, <1>9, <1>10 DEF Next

-----------------------------------------------------------------------------
(* As long as no process is killed.  The files the process has yet to      *)
(* write, and the account it has registered and made no directory for.     *)
Pending == {todo[n] : n \in 1..Len(todo)}
Unborn(a) == pc = "prepare" /\ acc = a
Saving(a) == pc \in {"save", "write"} /\ acc = a
Deleting(a) == pc \in {"unlink", "rmtree"} /\ acc = a

OneDir == \A a \in Account : ~ (entry["v01"][a] = "dir" /\ entry["v02"][a] = "dir")

(* The directory of a valid account is where its server looks for it, and  *)
(* its files are there.                                                    *)
HasDir == \A a \in Account : at_ca[a] = "valid" /\ ~ Unborn(a) => IsDir(home[a], a)
HasFiles ==
    \A a \in Account : \A s \in Server : \A f \in File :
        at_ca[a] = "valid" /\ entry[s][a] = "dir"
        => file[s][a][f] = "whole" \/ (Saving(a) /\ f \in Pending)

(* Of one that was deactivated nothing is left when it has been deleted.   *)
NothingOfGone ==
    \A a \in Account :
        at_ca[a] = "deactivated" => Deleting(a) \/ \A s \in Server : entry[s][a] = "none"

(* The process works in the directory of its account.                      *)
AtWork ==
    /\ pc = "prepare" => home[acc] = server /\ at_ca[acc] = "valid" /\ File \subseteq Pending
    /\ pc \in {"update", "deactivate", "save", "write"} => IsDir(server, acc)
    /\ pc \in {"unlink", "rmtree"} => entry[target][acc] = "dir"
    /\ pc = "register" => FindAll(server) = {}

Sound == OneDir /\ HasDir /\ HasFiles /\ NothingOfGone /\ AtWork
SoundInv == kills \in Nat /\ (kills = 0 => Sound)

LEMMA SoundInit == Init => SoundInv
<1> SUFFICES ASSUME Init PROVE SoundInv
  OBVIOUS
<1>1. /\ kills = 0 /\ pc = "off"
      /\ \A a \in Account : at_ca[a] = "unknown"
      /\ \A s \in Server, a \in Account : entry[s][a] = "none"
  BY DEF Init
<1> QED
  BY <1>1 DEF SoundInv, Sound, OneDir, HasDir, HasFiles, NothingOfGone, AtWork, Server

LEMMA SameDirs ==
    ASSUME UNCHANGED entry, \A s \in Server : (dir'[s] = "link") <=> (dir[s] = "link")
    PROVE  \A s \in Server, a \in Account : IsDir(s, a)' <=> IsDir(s, a)
<1>1. \A s \in Server, a \in Account : Place(s, a)' = Place(s, a)
  BY DEF Place, Behind
<1> QED
  BY <1>1 DEF IsDir

(* In a directory that is an account's there is the account.               *)
LEMMA WhereDir ==
    ASSUME IInv, OneDir, NEW s \in Server, NEW a \in Account, IsDir(s, a)
    PROVE  /\ Place(s, a) \in Server /\ entry[Place(s, a)][a] = "dir"
           /\ \A t \in Server : entry[t][a] = "dir" => t = Place(s, a)
BY DEF IsDir, Place, Behind, OneDir, Server, IInv, LinksLead

(* Between two pieces of work nothing is exempted, so nothing depends on   *)
(* what comes next.                                                        *)
Resting ==
    \/ pc \in {"off", "find", "determine", "register", "update", "deactivate", "empty", "rmdir"}
    \/ pc = "save" /\ todo = <<>>

LEMMA RestKept ==
    ASSUME Sound, Resting, UNCHANGED <<entry, file, at_ca, home>>,
           \A s \in Server : (dir'[s] = "link") <=> (dir[s] = "link"),
           home \in [Account -> Server]
    PROVE  (OneDir /\ HasDir /\ HasFiles /\ NothingOfGone)'
<1>1. \A a \in Account : /\ at_ca[a] = "valid" => IsDir(home[a], a)
                         /\ at_ca[a] = "deactivated" => \A s \in Server : entry[s][a] = "none"
  BY DEF Sound, HasDir, NothingOfGone, Resting, Unborn, Deleting
<1>2. \A a \in Account, s \in Server, f \in File :
         at_ca[a] = "valid" /\ entry[s][a] = "dir" => file[s][a][f] = "whole"
  BY DEF Sound, HasFiles, Resting, Saving, Pending
<1>3. OneDir'
  BY DEF Sound, OneDir
<1>4. HasDir'
  BY <1>1, SameDirs DEF HasDir
<1>5. HasFiles'
  BY <1>2 DEF HasFiles
<1>6. NothingOfGone'
  BY <1>1 DEF NothingOfGone
<1> QED
  BY <1>3, <1>4, <1>5, <1>6

LEMMA RestSound ==
    ASSUME Sound, Resting, UNCHANGED <<entry, file, at_ca, home>>,
           \A s \in Server : (dir'[s] = "link") <=> (dir[s] = "link"),
           home \in [Account -> Server],
           pc' \in {"off", "find", "determine", "empty", "rmdir"}
    PROVE  Sound'
<1>1. AtWork'
  BY DEF AtWork
<1> QED
  BY <1>1, RestKept DEF Sound

-----------------------------------------------------------------------------
(* When an account is found it is one of the server itself: one of the     *)
(* previous server would have been linked to first.                        *)
LEMMA FoundIsOwn ==
    ASSUME Settled, Finding, server \in Server
    PROVE  FindAll(server) \subseteq OwnAccounts(server)
<1>1. CASE Upgraded(server)
  <2>1. OwnAccounts("v01") = {}
    BY <1>1 DEF Settled, Upgrading
  <2> QED
    BY <1>1, <2>1 DEF FindAll
<1>2. CASE ~ Upgraded(server)
  BY <1>2 DEF FindAll
<1> QED
  BY <1>1, <1>2

LEMMA DetermineSound == ASSUME IInv, Sound, Determine PROVE Sound'
<1>1. (OneDir /\ HasDir /\ HasFiles /\ NothingOfGone)'
  BY RestKept DEF Determine, Resting, disk, ca, IInv, TypeOK
<1>2. \A s \in Server, a \in Account : IsDir(s, a)' <=> IsDir(s, a)
  BY SameDirs DEF Determine, disk
<1>3. CASE Gone
  BY <1>3, <1>1 DEF Gone, Sound, AtWork
<1>4. CASE FindAll(server) = {} /\ acc = None /\ Go("register") /\ Same
  <2>1. FindAll(server)' = {}
    BY <1>4, SamePlaces DEF Determine, Same, disk, command, FindAll, Upgraded, IInv, TypeOK,
                            Server
  <2> QED
    BY <1>1, <1>4, <2>1 DEF Sound, AtWork, Go
<1>5. ASSUME NEW a \in Account, Complete(server, a), Determined(a) PROVE Sound'
  <2>1. IsDir(server, a) /\ server' = server /\ acc' = a /\ server \in Server
    BY <1>5 DEF Complete, Determined, command, IInv, TypeOK
  <2>2. IsDir(server, acc)'
    BY <1>2, <2>1 DEF IsDir
  <2>3. pc' \in {"update", "deactivate", "save"}
    BY <1>5 DEF Determined, Go
  <2> QED
    BY <1>1, <2>2, <2>3 DEF Sound, AtWork
<1>6. CASE acc = None
  <2>1. \A a \in FindAll(server) : a \in Account /\ Complete(server, a)
    BY <1>6, FoundIsOwn DEF Determine, Finding, IInv, TypeOK, OwnAccounts
  <2> QED
    BY <1>4, <1>5, <1>6, <2>1 DEF Determine
<1>7. CASE acc # None
  <2>1. acc \in Account
    BY <1>7 DEF IInv, TypeOK
  <2> QED
    BY <1>3, <1>5, <1>7, <2>1 DEF Determine
<1> QED
  BY <1>6, <1>7

LEMMA RegisterSound == ASSUME IInv, CaInv, Sound, Register PROVE Sound'
<1>1. CASE Gone /\ UNCHANGED ca
  BY <1>1, RestSound DEF Register, Resting, disk, ca, Gone, IInv, TypeOK
<1>2. ASSUME NEW a \in Account,
             at_ca[a] = "unknown", at_ca' = [at_ca EXCEPT ![a] = "valid"],
             home' = [home EXCEPT ![a] = server], acc' = a,
             todo' \in {<<"key", "meta", "regr">>, <<"key", "meta", "regr", "meta">>},
             Go("prepare"), UNCHANGED <<command, target>>
      PROVE  Sound'
  <2>1. /\ at_ca'[a] = "valid" /\ home'[a] = server
        /\ \A b \in Account \ {a} : at_ca'[b] = at_ca[b] /\ home'[b] = home[b]
    BY <1>2 DEF IInv, TypeOK
  <2>2. \A s \in Server : entry[s][a] = "none"
    BY <1>2 DEF CaInv
  <2>3. \A s \in Server, b \in Account : IsDir(s, b)' <=> IsDir(s, b)
    BY SameDirs DEF Register, disk
  <2>4. UNCHANGED <<entry, file>> /\ pc = "register" /\ pc' = "prepare"
    BY <1>2 DEF Register, disk, Go
  <2>5. OneDir'
    BY <2>4 DEF Sound, OneDir
  <2>6. HasDir'
    BY <1>2, <2>1, <2>3, <2>4 DEF Sound, HasDir, Unborn, IInv, TypeOK
  <2>7. HasFiles'
    BY <2>1, <2>2, <2>4 DEF Sound, HasFiles, Saving
  <2>8. NothingOfGone'
    BY <2>1, <2>4 DEF Sound, NothingOfGone, Deleting
  <2>9. File \subseteq Pending'
    <3>1. CASE todo' = <<"key", "meta", "regr">>
      <4>1. todo'[1] = "key" /\ todo'[2] = "meta" /\ todo'[3] = "regr" /\ Len(todo') = 3
        BY <3>1
      <4> QED
        BY <4>1 DEF File, Pending
    <3>2. CASE todo' = <<"key", "meta", "regr", "meta">>
      <4>1. todo'[1] = "key" /\ todo'[2] = "meta" /\ todo'[3] = "regr" /\ Len(todo') = 4
        BY <3>2
      <4> QED
        BY <4>1 DEF File, Pending
    <3> QED
      BY <1>2, <3>1, <3>2
  <2>10. AtWork'
    BY <1>2, <2>1, <2>4, <2>9 DEF AtWork, command
  <2> QED
    BY <2>5, <2>6, <2>7, <2>8, <2>10 DEF Sound
<1> QED
  BY <1>1, <1>2 DEF Register

(* The directory is made where the server of the account looks.            *)
LEMMA PrepareSound == ASSUME IInv, CaInv, Sound, Prepare PROVE Sound'
<1> DEFINE b == Behind(server)
<1>1. /\ acc \in Account /\ server \in Server /\ b \in Server
      /\ home[acc] = server /\ at_ca[acc] = "valid" /\ File \subseteq Pending
      /\ \A s \in Server : entry[s][acc] = "none"
  BY DEF IInv, TypeOK, StepReady, CaInv, Sound, AtWork, Prepare, Behind, Server
<1>2. \A s \in Server, a \in Account :
         entry'[s][a] = IF s = b /\ a = acc THEN "dir" ELSE entry[s][a]
  BY <1>1 DEF Prepare, IInv, TypeOK
<1>3. UNCHANGED <<dir, file, at_ca, home, server, acc, todo>> /\ pc' = "save" /\ pc = "prepare"
  BY DEF Prepare, ca, command, Go
<1>4. \A s \in Server : Behind(s)' = Behind(s) /\ Behind(s) \in Server
  BY <1>3 DEF Behind, Server
<1>5. \A s \in Server, a \in Account : a # acc => (IsDir(s, a)' <=> IsDir(s, a))
  BY <1>2, <1>4 DEF IsDir, Place, Server
<1>6. IsDir(server, acc)'
  BY <1>1, <1>2, <1>3, <1>4 DEF IsDir, Place
<1>7. OneDir'
  BY <1>1, <1>2 DEF Sound, OneDir, Server
<1>8. HasDir'
  BY <1>1, <1>3, <1>5, <1>6 DEF Sound, HasDir, Unborn, IInv, TypeOK
<1>9. HasFiles'
  <2>1. Pending' = Pending
    BY <1>3 DEF Pending
  <2> QED
    BY <1>1, <1>2, <1>3, <2>1 DEF Sound, HasFiles, Saving
<1>10. NothingOfGone'
  BY <1>1, <1>2, <1>3 DEF Sound, NothingOfGone, Deleting
<1>11. AtWork'
  BY <1>3, <1>6 DEF AtWork
<1> QED
  BY <1>7, <1>8, <1>9, <1>10, <1>11 DEF Sound

LEMMA OpenSound == ASSUME IInv, Sound, Open PROVE Sound'
<1> DEFINE p == Place(server, acc)
<1>1. /\ acc \in Account /\ server \in Server /\ IsDir(server, acc)
      /\ pc = "save" /\ pc' = "write" /\ todo # <<>> /\ todo \in Seq(File)
      /\ UNCHANGED <<dir, entry, at_ca, home, server, acc, todo>>
  BY DEF IInv, TypeOK, StepReady, Sound, AtWork, Open, Go, ca, command
<1>2. Head(todo) \in File /\ Head(todo) \in Pending
  BY <1>1 DEF Pending
<1>3. /\ p \in Server /\ entry[p][acc] = "dir"
      /\ \A t \in Server : entry[t][acc] = "dir" => t = p
  BY <1>1, WhereDir DEF Sound
<1>4. \A t \in Server, a \in Account, f \in File :
         file'[t][a][f] = IF t = p /\ a = acc /\ f = Head(todo) THEN "cut" ELSE file[t][a][f]
  BY <1>2, <1>3 DEF Open, IInv, TypeOK
<1>5. \A s \in Server, a \in Account : IsDir(s, a)' <=> IsDir(s, a)
  BY <1>1, SameDirs
<1>6. OneDir' /\ NothingOfGone'
  BY <1>1 DEF Sound, OneDir, NothingOfGone, Deleting
<1>7. HasDir'
  BY <1>1, <1>5 DEF Sound, HasDir, Unborn, IInv, TypeOK
<1>8. HasFiles'
  <2>1. Pending' = Pending
    BY <1>1 DEF Pending
  <2> QED
    BY <1>1, <1>2, <1>4, <2>1 DEF Sound, HasFiles, Saving
<1>9. AtWork'
  BY <1>1, <1>5 DEF AtWork
<1> QED
  BY <1>6, <1>7, <1>8, <1>9 DEF Sound

LEMMA WriteSound == ASSUME IInv, Sound, Write PROVE Sound'
<1> DEFINE p == Place(server, acc)
<1>1. /\ acc \in Account /\ server \in Server /\ IsDir(server, acc)
      /\ pc = "write" /\ pc' = "save" /\ todo # <<>> /\ todo \in Seq(File)
      /\ UNCHANGED <<dir, entry, at_ca, home, server, acc>> /\ todo' = Tail(todo)
  BY DEF IInv, TypeOK, StepReady, Sound, AtWork, Write, Go, ca, command
<1>2. Head(todo) \in File
  BY <1>1
<1>3. /\ p \in Server /\ entry[p][acc] = "dir"
      /\ \A t \in Server : entry[t][acc] = "dir" => t = p
  BY <1>1, WhereDir DEF Sound
<1>4. \A t \in Server, a \in Account, f \in File :
         file'[t][a][f] = IF t = p /\ a = acc /\ f = Head(todo) THEN "whole" ELSE file[t][a][f]
  BY <1>2, <1>3 DEF Write, IInv, TypeOK
<1>5. \A s \in Server, a \in Account : IsDir(s, a)' <=> IsDir(s, a)
  BY <1>1, SameDirs
<1>6. OneDir' /\ NothingOfGone'
  BY <1>1 DEF Sound, OneDir, NothingOfGone, Deleting
<1>7. HasDir'
  BY <1>1, <1>5 DEF Sound, HasDir, Unborn, IInv, TypeOK
<1>8. HasFiles'
  <2>1. \A f \in Pending : f = Head(todo) \/ f \in Pending'
    <3>1. SUFFICES ASSUME NEW n \in 1..Len(todo), n # 1
                   PROVE  todo[n] \in Pending'
      BY <1>1 DEF Pending
    <3>2. n - 1 \in 1..Len(Tail(todo)) /\ Tail(todo)[n - 1] = todo[n]
      BY <1>1, <3>1
    <3> QED
      BY <1>1, <3>2 DEF Pending
  <2> QED
    BY <1>1, <1>3, <1>4, <2>1 DEF Sound, HasFiles, Saving
<1>9. AtWork'
  BY <1>1, <1>5 DEF AtWork
<1> QED
  BY <1>6, <1>7, <1>8, <1>9 DEF Sound

LEMMA UpdateAccountSound == ASSUME IInv, Sound, UpdateAccount PROVE Sound'
<1>1. (OneDir /\ HasDir /\ HasFiles /\ NothingOfGone)'
  BY RestKept DEF UpdateAccount, Resting, disk, ca, IInv, TypeOK
<1>2. \A s \in Server, a \in Account : IsDir(s, a)' <=> IsDir(s, a)
  BY SameDirs DEF UpdateAccount, disk
<1>3. CASE pc' = "off"
  BY <1>1, <1>3 DEF Sound, AtWork
<1>4. CASE pc' = "save" /\ UNCHANGED <<server, acc>>
  <2>1. acc \in Account /\ server \in Server /\ IsDir(server, acc)
    BY DEF IInv, TypeOK, StepReady, Sound, AtWork, UpdateAccount
  <2>2. IsDir(server, acc)'
    BY <1>2, <1>4, <2>1
  <2> QED
    BY <1>1, <1>4, <2>2 DEF Sound, AtWork
<1> QED
  BY <1>3, <1>4 DEF UpdateAccount, Gone, Go, command

-----------------------------------------------------------------------------
(* What is to be deleted is the one directory of the account.              *)
LEMMA DeactivateSound == ASSUME IInv, Sound, Deactivate PROVE Sound'
<1>1. CASE Gone /\ UNCHANGED at_ca
  BY <1>1, RestSound DEF Deactivate, Resting, disk, Gone, IInv, TypeOK
<1>2. CASE pc' = "unlink" /\ at_ca' = [at_ca EXCEPT ![acc] = "deactivated"]
           /\ target' = Place(server, acc) /\ UNCHANGED <<server, acc, todo>>
  <2>1. acc \in Account /\ server \in Server /\ IsDir(server, acc)
    BY DEF IInv, TypeOK, StepReady, Sound, AtWork, Deactivate
  <2>2. entry[target'][acc] = "dir"
    BY <1>2, <2>1 DEF IsDir
  <2>3. /\ UNCHANGED <<dir, entry, file, home>>
        /\ \A a \in Account : at_ca'[a] = IF a = acc THEN "deactivated" ELSE at_ca[a]
    BY <1>2, <2>1 DEF Deactivate, disk, IInv, TypeOK
  <2>4. \A s \in Server, a \in Account : IsDir(s, a)' <=> IsDir(s, a)
    BY <2>3, SameDirs
  <2>5. pc = "deactivate"
    BY DEF Deactivate
  <2>6. OneDir' /\ HasFiles' /\ NothingOfGone'
    BY <1>2, <2>3, <2>5
       DEF Sound, OneDir, HasFiles, NothingOfGone, Saving, Deleting
  <2>7. HasDir'
    BY <1>2, <2>3, <2>4, <2>5 DEF Sound, HasDir, Unborn, IInv, TypeOK
  <2>8. AtWork'
    BY <1>2, <2>2, <2>3 DEF AtWork
  <2> QED
    BY <2>6, <2>7, <2>8 DEF Sound
<1> QED
  BY <1>1, <1>2 DEF Deactivate, Go, command

(* The entries of the account that is deleted change, and no other.        *)
LEMMA DeletingKept ==
    ASSUME IInv, CaInv, Sound, acc \in Account, pc \in {"unlink", "rmtree"},
           pc' \in {"rmtree", "empty"}, pc' = "empty" => \A s \in Server : entry'[s][acc] = "none",
           UNCHANGED <<dir, at_ca, home, acc, target>>,
           \A s \in Server : entry'[s][acc] = "dir" => entry[s][acc] = "dir",
           \A s \in Server, a \in Account :
              a # acc => entry'[s][a] = entry[s][a] /\ file'[s][a] = file[s][a],
           pc' = "rmtree" => entry'[target][acc] = "dir"
    PROVE  Sound'
<1>1. at_ca[acc] = "deactivated"
  BY DEF CaInv
<1>2. \A s \in Server : Behind(s)' = Behind(s) /\ Behind(s) \in Server
  BY DEF Behind, Server
<1>3. \A s \in Server, a \in Account : a # acc => (IsDir(s, a)' <=> IsDir(s, a))
  BY <1>2 DEF IsDir, Place, Server
<1>4. OneDir'
  BY DEF Sound, OneDir, Server
<1>5. HasDir'
  BY <1>1, <1>3 DEF Sound, HasDir, Unborn, IInv, TypeOK
<1>6. HasFiles'
  BY <1>1 DEF Sound, HasFiles, Saving
<1>7. NothingOfGone'
  BY <1>1 DEF Sound, NothingOfGone, Deleting
<1>8. AtWork'
  BY DEF AtWork
<1> QED
  BY <1>4, <1>5, <1>6, <1>7, <1>8 DEF Sound

LEMMA UnlinkAccountSound == ASSUME IInv, CaInv, Sound, UnlinkAccount PROVE Sound'
<1>1. /\ acc \in Account /\ pc = "unlink" /\ pc' = "rmtree" /\ target \in Server
      /\ UNCHANGED <<dir, file, at_ca, home, acc, target>> /\ entry[target][acc] = "dir"
  BY DEF UnlinkAccount, Go, ca, IInv, TypeOK, StepReady, Sound, AtWork
<1>2. \A s \in Server, a \in Account :
         entry'[s][a] = IF s = "v02" /\ a = acc /\ entry[s][a] = "link" THEN "none" ELSE entry[s][a]
  BY <1>1 DEF UnlinkAccount, IInv, TypeOK, Server
<1> QED
  BY <1>1, <1>2, DeletingKept

LEMMA RemoveFileSound ==
    ASSUME IInv, CaInv, Sound, NEW f \in File, RemoveFile(f) PROVE Sound'
<1>1. /\ acc \in Account /\ pc = "rmtree" /\ pc' = "rmtree" /\ target \in Server
      /\ UNCHANGED <<dir, entry, at_ca, home, acc, target>> /\ entry[target][acc] = "dir"
  BY DEF RemoveFile, ca, IInv, TypeOK, StepReady, Sound, AtWork
<1>2. \A s \in Server, a \in Account : a # acc => file'[s][a] = file[s][a]
  BY <1>1 DEF RemoveFile, IInv, TypeOK
<1> QED
  BY <1>1, <1>2, DeletingKept

LEMMA RemoveAccountDirSound == ASSUME IInv, CaInv, Sound, RemoveAccountDir PROVE Sound'
<1>1. /\ acc \in Account /\ pc = "rmtree" /\ pc' = "empty" /\ target \in Server
      /\ UNCHANGED <<dir, file, at_ca, home, acc, target>> /\ entry[target][acc] = "dir"
      /\ entry["v02"][acc] # "link" /\ entry["v01"][acc] # "link"
  BY DEF RemoveAccountDir, Go, ca, IInv, TypeOK, StepReady, LinksLead, Sound, AtWork
<1>2. \A s \in Server, a \in Account :
         entry'[s][a] = IF s = target /\ a = acc THEN "none" ELSE entry[s][a]
  BY <1>1 DEF RemoveAccountDir, IInv, TypeOK
<1>3. \A s \in Server : entry'[s][acc] = "none"
  BY <1>1, <1>2 DEF Sound, OneDir, IInv, TypeOK, Server
<1> QED
  BY <1>1, <1>2, <1>3, DeletingKept

(* A link to a directory of accounts is made when v02 has none of its own, *)
(* and removed when v01 has none either.                                   *)
LEMMA SymlinkToAccountsDirSound == ASSUME IInv, Sound, SymlinkToAccountsDir PROVE Sound'
<1>1. /\ server = "v02" /\ dir["v02"] = "none" /\ dir["v01"] # "link"
      /\ dir' = [dir EXCEPT !["v02"] = "link"] /\ dir'["v01"] = dir["v01"]
      /\ pc \in {"find", "determine"}
      /\ UNCHANGED <<entry, file, at_ca, home, pc, acc>>
  BY DEF SymlinkToAccountsDir, Upgrading, Upgraded, Finding, ca, IInv, TypeOK, LinksLead, Server
<1>2. \A a \in Account : ~ IsDir("v02", a)
  BY <1>1 DEF IInv, LinksLead, IsDir, Place, Behind, Server
<1>3. \A a \in Account : IsDir("v01", a)' <=> IsDir("v01", a)
  BY <1>1 DEF IsDir, Place, Behind
<1>4. HasDir'
  BY <1>1, <1>2, <1>3 DEF Sound, HasDir, Unborn, IInv, TypeOK, Server
<1>5. OneDir' /\ HasFiles' /\ NothingOfGone' /\ AtWork'
  BY <1>1 DEF Sound, OneDir, HasFiles, NothingOfGone, AtWork, Saving, Deleting
<1> QED
  BY <1>4, <1>5 DEF Sound

LEMMA SymlinkToAccountDirSound == ASSUME IInv, CaInv, Sound, SymlinkToAccountDir PROVE Sound'
<1>1. /\ acc \in Account /\ server = "v02" /\ pc = "determine" /\ pc' = "determine"
      /\ ~ IsDir("v02", acc) /\ Complete("v01", acc)
      /\ UNCHANGED <<dir, file, at_ca, home, acc>>
  BY DEF SymlinkToAccountDir, ca, IInv, TypeOK
<1>2. /\ entry["v01"][acc] = "dir" /\ entry["v02"][acc] # "dir" /\ dir["v01"] # "link"
      /\ entry["v01"][acc] # "link"
  BY <1>1 DEF Complete, IsDir, Place, Behind, IInv, LinksLead
<1>3. \A s \in Server, a \in Account :
         entry'[s][a] = IF s = "v02" /\ a = acc THEN "link" ELSE entry[s][a]
  BY <1>1 DEF SymlinkToAccountDir, IInv, TypeOK, Server
<1>4. \A s \in Server : Behind(s)' = Behind(s) /\ Behind(s) \in Server
  BY <1>1 DEF Behind, Server
<1>5. \A s \in Server, a \in Account : a # acc => (IsDir(s, a)' <=> IsDir(s, a))
  BY <1>3, <1>4 DEF IsDir, Place, Server
<1>6. \A s \in Server : IsDir(s, acc)'
  BY <1>1, <1>2, <1>3, <1>4 DEF IsDir, Place, Behind, Server
<1>7. OneDir'
  BY <1>2, <1>3 DEF Sound, OneDir, Server
<1>8. HasDir'
  BY <1>1, <1>5, <1>6 DEF Sound, HasDir, Unborn, IInv, TypeOK
<1>9. HasFiles'
  BY <1>1, <1>3 DEF Sound, HasFiles, Saving, Server
<1>10. NothingOfGone'
  <2>1. at_ca[acc] # "deactivated"
    BY <1>1, <1>2 DEF Sound, NothingOfGone, Deleting, Server
  <2> QED
    BY <1>1, <1>3, <2>1 DEF Sound, NothingOfGone, Deleting
<1>11. AtWork'
  BY <1>1 DEF AtWork
<1> QED
  BY <1>7, <1>8, <1>9, <1>10, <1>11 DEF Sound

LEMMA UnlinkAccountsDirSound == ASSUME IInv, Sound, UnlinkAccountsDir PROVE Sound'
<1>1. /\ UNCHANGED <<entry, file, at_ca, home>> /\ pc = "empty" /\ pc' \in {"off", "rmdir"}
  BY DEF UnlinkAccountsDir, ca, Gone, Go
<1>2. CASE \A s \in Server : (dir'[s] = "link") <=> (dir[s] = "link")
  BY <1>1, <1>2, RestSound DEF Resting, IInv, TypeOK
<1>3. CASE Listed(server) = {} /\ dir["v02"] = "link"
  <2>1. Behind(server) = "v01"
    BY <1>3 DEF IInv, TypeOK, Behind, Server
  <2>2. \A s \in Server, a \in Account : entry[s][a] = "none"
    BY <1>3, <2>1 DEF Listed, IInv, LinksLead, Server
  <2>3. \A s \in Server, a \in Account : ~ IsDir(s, a)
    BY <2>2 DEF IsDir, Place, Behind, Server
  <2>4. \A a \in Account : at_ca[a] # "valid"
    BY <1>1, <2>3 DEF Sound, HasDir, Unborn, IInv, TypeOK
  <2> QED
    BY <1>1, <2>2, <2>4 DEF Sound, OneDir, HasDir, HasFiles, NothingOfGone, AtWork, Server
<1> QED
  BY <1>2, <1>3 DEF UnlinkAccountsDir, IInv, TypeOK, Server

-----------------------------------------------------------------------------
LEMMA NextSound ==
    ASSUME IInv, CaInv, Sound, [Next]_vars, kills \in Nat, kills' = kills PROVE Sound'
<1> USE DEF Resting
<1>1. home \in [Account -> Server]
  BY DEF IInv, TypeOK
<1>2. ASSUME NEW v, NEW t \in Server, NEW b, Start(v, t, b) PROVE Sound'
  <2>1. \A u \in Server : (dir'[u] = "link") <=> (dir[u] = "link")
    BY <1>2 DEF Start, IInv, TypeOK
  <2> QED
    BY <1>1, <1>2, <2>1, RestSound DEF Start, Go, ca
<1>3. CASE Raise
  BY <1>1, <1>3, RestSound DEF Raise, Raises, Finding, Gone, disk, ca
<1>4. CASE Find
  BY <1>1, <1>4, RestSound DEF Find, Go, Gone, disk, ca
<1>5. CASE Decline \/ Saved
  BY <1>1, <1>5, RestSound DEF Decline, Saved, Gone, disk, ca
<1>6. CASE RemoveEmptyDir
  <2>1. \A u \in Server : (dir'[u] = "link") <=> (dir[u] = "link")
    BY <1>6 DEF RemoveEmptyDir, IInv, TypeOK
  <2> QED
    BY <1>1, <1>6, <2>1, RestSound DEF RemoveEmptyDir, Upgrading, Finding, ca
<1>7. CASE SymlinkToAccountsDir \/ SymlinkToAccountDir
  BY <1>7, SymlinkToAccountsDirSound, SymlinkToAccountDirSound
<1>8. CASE Determine \/ Register \/ Prepare \/ Open \/ Write \/ UpdateAccount
  BY <1>8, DetermineSound, RegisterSound, PrepareSound, OpenSound, WriteSound,
     UpdateAccountSound
<1>9. CASE Deactivate \/ UnlinkAccount \/ (\E f \in File : RemoveFile(f)) \/ RemoveAccountDir
  BY <1>9, DeactivateSound, UnlinkAccountSound, RemoveFileSound, RemoveAccountDirSound
<1>10. CASE UnlinkAccountsDir
  BY <1>10, UnlinkAccountsDirSound
<1>11. CASE RemoveAccountsDir
  <2>1. dir["v02"] # "link" /\ dir["v01"] # "link"
    BY <1>11 DEF IInv, StepReady, LinksLead, RemoveAccountsDir
  <2>2. \A u \in Server : (dir'[u] = "link") <=> (dir[u] = "link")
    BY <1>11, <2>1 DEF RemoveAccountsDir, IInv, TypeOK, Server
  <2> QED
    BY <1>1, <1>11, <2>2, RestSound DEF RemoveAccountsDir, Gone, ca
<1>12. CASE UNCHANGED vars
  <2>1. \A s \in Server, a \in Account : IsDir(s, a)' <=> IsDir(s, a)
    BY <1>12, SameDirs DEF vars, disk
  <2>2. HasDir'
    BY <1>1, <1>12, <2>1 DEF Sound, HasDir, Unborn, vars, disk, ca
  <2>3. (OneDir /\ HasFiles /\ NothingOfGone)'
    BY <1>12 DEF Sound, OneDir, HasFiles, NothingOfGone, Saving, Deleting, Pending, vars, disk, ca
  <2>4. AtWork'
    BY <1>12 DEF Sound, AtWork, IsDir, Place, Behind, FindAll, Upgraded, OwnAccounts, Listed,
                 Complete, Pending, vars, disk, ca, command
  <2> QED
    BY <2>2, <2>3, <2>4 DEF Sound
<1>13. CASE Kill
  BY <1>13 DEF Kill
<1> QED
  BY <1>2, <1>3, <1>4, <1>5, <1>6, <1>7, <1>8, <1>9, <1>10, <1>11, <1>12, <1>13 DEF Next

LEMMA SoundInvariant == Spec => []SoundInv
<1>1. Init => SoundInv
  BY SoundInit
<1>2. IInv /\ CaInv /\ SoundInv /\ [Next]_vars => SoundInv'
  <2> SUFFICES ASSUME IInv, CaInv, SoundInv, [Next]_vars PROVE SoundInv'
    OBVIOUS
  <2>1. kills' = kills \/ kills' = kills + 1
    BY DEF Next, Start, Raise, RemoveEmptyDir, SymlinkToAccountsDir, SymlinkToAccountDir, Find,
           Decline, Determine, Register, Prepare, Open, Write, Saved, UpdateAccount, Deactivate,
           UnlinkAccount, RemoveFile, RemoveAccountDir, UnlinkAccountsDir, RemoveAccountsDir,
           Kill, history, vars
  <2>2. kills' \in Nat /\ (kills' = 0 => kills' = kills)
    BY <2>1 DEF SoundInv
  <2>3. kills' = 0 => Sound'
    BY <2>2, NextSound DEF SoundInv
  <2> QED
    BY <2>2, <2>3 DEF SoundInv
<1> QED
  BY <1>1, <1>2, Invariant, CaInvariant, PTL DEF Spec

-----------------------------------------------------------------------------
(* A valid account whose files are written is found where it belongs, and  *)
(* at v02.                                                                 *)
LEMMA ValidIsComplete ==
    ASSUME IInv, Sound, Resting, NEW a \in Account, at_ca[a] = "valid"
    PROVE  /\ Complete(home[a], a)
           /\ \A s \in Server : IsDir(s, a) => Complete(s, a)
           /\ Loadable("v02", a)
<1>1. IsDir(home[a], a) /\ home[a] \in Server
  BY DEF Sound, HasDir, Resting, Unborn, IInv, TypeOK
<1>2. \A s \in Server : \A f \in File : entry[s][a] = "dir" => file[s][a][f] = "whole"
  BY DEF Sound, HasFiles, Resting, Saving, Pending
<1>3. \A s \in Server : IsDir(s, a) => Complete(s, a)
  BY <1>2, WhereDir DEF Complete, Sound
<1>4. Loadable("v02", a)
  BY <1>1, <1>3 DEF Loadable, Server
<1> QED
  BY <1>1, <1>3, <1>4

LEMMA SoundAgrees == IInv /\ CaInv /\ SoundInv => Agrees
<1> SUFFICES ASSUME IInv, CaInv, Sound, pc = "off", NEW a \in Account
             PROVE  /\ at_ca[a] = "valid" => Complete(home[a], a) /\ Loadable("v02", a)
                    /\ at_ca[a] # "valid" => \A s \in Server : entry[s][a] = "none"
  BY DEF SoundInv, Agrees
<1>1. CASE at_ca[a] = "valid"
  BY <1>1, ValidIsComplete DEF Resting
<1>2. CASE at_ca[a] = "unknown"
  BY <1>2 DEF CaInv
<1>3. CASE at_ca[a] = "deactivated"
  BY <1>3 DEF Sound, NothingOfGone, Deleting
<1> QED
  BY <1>1, <1>2, <1>3 DEF IInv, TypeOK

(* When nothing is found at v02, there is no account in its directory, so  *)
(* that v01 has been looked through too.                                   *)
LEMMA NothingFound ==
    ASSUME IInv, CaInv, Sound, pc = "register", server = "v02", NEW b \in Account
    PROVE  at_ca[b] # "valid"
<1> SUFFICES ASSUME at_ca[b] = "valid" PROVE FALSE
  OBVIOUS
<1>1. FindAll("v02") = {}
  BY DEF Sound, AtWork
<1>2. Loadable("v02", b)
  BY ValidIsComplete DEF Resting
<1>3. CASE Upgraded("v02")
  <2>1. ~ Complete("v01", b)
    BY <1>1, <1>3 DEF FindAll, OwnAccounts
  <2>2. Behind("v02") = "v02" /\ entry["v02"][b] = "none"
    BY <1>3 DEF Upgraded, Listed, Behind
  <2> QED
    BY <1>2, <2>1, <2>2 DEF Loadable, Complete, IsDir, Place
<1>4. CASE dir["v02"] = "link"
  <2>1. \A a \in Account : ~ Complete("v02", a)
    BY <1>1, <1>4 DEF FindAll, Upgraded, OwnAccounts
  <2>2. ~ Complete("v01", b)
    BY <1>4, <2>1 DEF Complete, IsDir, Place, Behind, IInv, LinksLead
  <2> QED
    BY <1>2, <2>1, <2>2 DEF Loadable
<1>5. CASE dir["v02"] # "link" /\ Listed("v02") # {}
  <2>1. \A a \in Account : ~ Complete("v02", a)
    BY <1>1, <1>5 DEF FindAll, Upgraded, OwnAccounts
  <2>2. PICK a \in Account : entry["v02"][a] # "none"
    BY <1>5 DEF Listed, Behind
  <2>3. at_ca[a] = "valid"
    BY <2>2 DEF CaInv, Sound, NothingOfGone, Deleting, IInv, TypeOK, Server
  <2>4. IsDir("v02", a)
    BY <1>5, <2>2 DEF IsDir, Place, Behind, IInv, TypeOK, LinksLead, Server
  <2> QED
    BY <2>1, <2>3, <2>4, ValidIsComplete DEF Resting, Server
<1> QED
  BY <1>3, <1>4, <1>5 DEF Upgraded

LEMMA RegistersWhenNone ==
    ASSUME IInv, CaInv, SoundInv, [Next]_vars,
           NEW a \in Account, at_ca[a] = "unknown", at_ca'[a] = "valid", kills = 0,
           NEW b \in Account, at_ca[b] = "valid"
    PROVE  home[b] = "v02" /\ home'[a] = "v01"
<1>1. Sound
  BY DEF SoundInv
<1>2. Register
  <2>1. \/ at_ca' = at_ca \/ Register
        \/ pc = "deactivate" /\ at_ca' = [at_ca EXCEPT ![acc] = "deactivated"]
    BY DEF Next, Start, Raise, RemoveEmptyDir, SymlinkToAccountsDir, SymlinkToAccountDir, Find,
           Decline, Determine, Prepare, Open, Write, Saved, UpdateAccount, Deactivate,
           UnlinkAccount, RemoveFile, RemoveAccountDir, UnlinkAccountsDir, RemoveAccountsDir,
           Kill, ca, vars
  <2>2. at_ca' # at_ca
    OBVIOUS
  <2>3. at_ca' # [at_ca EXCEPT ![acc] = "deactivated"]
    BY DEF IInv, TypeOK
  <2> QED
    BY <2>1, <2>2, <2>3
<1>3. pc = "register" /\ home'[a] = server /\ server \in Server
  BY <1>2 DEF Register, ca, IInv, TypeOK
<1>4. server = "v01"
  BY <1>1, <1>3, NothingFound DEF Server
<1>5. home[b] # "v01"
  <2>1. OwnAccounts("v01") = {}
    BY <1>1, <1>3, <1>4 DEF Sound, AtWork, FindAll, Upgraded
  <2>2. Complete(home[b], b)
    BY <1>1, <1>3, ValidIsComplete DEF Resting
  <2> QED
    BY <2>1, <2>2 DEF OwnAccounts
<1> QED
  BY <1>3, <1>4, <1>5 DEF IInv, TypeOK, Server
-----------------------------------------------------------------------------
(* Every variable keeps its type: what is on the disk, at the CA and in    *)
(* the process (account.py, main.py).                                      *)
THEOREM TypeCorrect == Spec => []TypeOK
<1>1. IInv => TypeOK
  BY DEF IInv
<1> QED
  BY <1>1, Invariant, PTL

(* At no point of an upgrade or of a deletion, finished or killed, does a  *)
(* link lead nowhere (_symlink_to_accounts_dir and                         *)
(* _delete_links_and_find_target_dir of account.py).                       *)
THEOREM LinksAlwaysLead == Spec => []LinksLead
<1>1. IInv => LinksLead
  BY DEF IInv
<1> QED
  BY <1>1, Invariant, PTL

(* Whatever is upgraded, linked or deleted, an account that a command of   *)
(* either server could load stays so until it is deactivated, but while a  *)
(* file of it is written (find_all, load, save and delete of account.py).  *)
THEOREM AccountsAlwaysKept == Spec => AccountsKept
<1>1. IInv /\ CaInv /\ [Next]_vars
      => [\A s \in Server, a \in Account :
             Loadable(s, a) /\ ~ Loadable(s, a)'
             => at_ca[a] = "deactivated" \/ (pc = "save" /\ acc = a)]_vars
  BY NextKept DEF Kept
<1> QED
  BY <1>1, Invariant, CaInvariant, PTL DEF Spec, AccountsKept

(* As long as no process is killed, what was registered can be loaded by   *)
(* the commands of its server and of v02, and what was deactivated is gone *)
(* (client.register, save, load and delete).                               *)
THEOREM AlwaysAgrees == Spec => []Agrees
<1>1. IInv /\ CaInv /\ SoundInv => Agrees
  BY SoundAgrees
<1> QED
  BY <1>1, Invariant, CaInvariant, SoundInvariant, PTL

(* As long as no process is killed, none registers while its server, or at *)
(* v02 also v01, has a valid account (find_all and _determine_account).    *)
THEOREM NeverNeedless == Spec => NoneNeeded
<1>1. IInv /\ CaInv /\ SoundInv /\ [Next]_vars
      => [\A a \in Account :
             at_ca[a] = "unknown" /\ at_ca'[a] = "valid" /\ kills = 0
             => \A b \in Account :
                   at_ca[b] = "valid" => home[b] = "v02" /\ home'[a] = "v01"]_vars
  BY RegistersWhenNone
<1> QED
  BY <1>1, Invariant, CaInvariant, SoundInvariant, PTL DEF Spec, NoneNeeded
=============================================================================
