------------------------------- MODULE Accounts -------------------------------
(***************************************************************************)
(* Accounts at the CA and on the disk: AccountFileStorage of               *)
(* certbot/_internal/account.py, register of certbot/_internal/client.py,  *)
(* the subscription of eff.py and the commands of certbot/_internal/main.py*)
(* that need an account.  Each server has a directory of accounts; that of *)
(* "v02" can be a link to the one of "v01", or hold links to accounts      *)
(* there, for v02 reuses the accounts of v01 (LE_REUSE_SERVERS).  One      *)
(* process runs at a time (LockFile).  It may be killed between any two    *)
(* steps.                                                                  *)
(***************************************************************************)
EXTENDS Naturals, Sequences, FiniteSets

CONSTANTS
    Account,    \* accounts that may be registered, known by their keys
    None,       \* no account
    MaxStarts,  \* bound: processes
    MaxKills    \* bound: of these, how many are killed

ASSUME NoneAssumption == None \notin Account
ASSUME BoundAssumption == MaxStarts \in Nat /\ MaxKills \in Nat

Server == {"v01", "v02"}
File == {"regr", "key", "meta"}

VARIABLES
    dir,        \* of each server: "none", a "dir" or a "link" to that of v01
    entry,      \* in it, for each account: "none", a "dir" or a "link" to the one of v01
    file,       \* in a directory of an account: each file is "none", "cut" or "whole"
    at_ca,      \* each account at the CA: "unknown", "valid" or "deactivated"
    home,       \* the server it was registered at
    starts, kills,
    verb, server,   \* the command, and its --server
    pc,         \* what the process does, "off" when there is none
    acc,        \* config.account
    todo,       \* the files to be written
    target      \* where what is deleted really is

disk == <<dir, entry, file>>
ca == <<at_ca, home>>
history == <<starts, kills>>
command == <<verb, server>>
vars == <<disk, ca, history, command, pc, acc, todo, target>>

Init ==
    /\ dir = [s \in Server |-> "none"]
    /\ entry = [s \in Server |-> [a \in Account |-> "none"]]
    /\ file = [s \in Server |-> [a \in Account |-> [f \in File |-> "none"]]]
    /\ at_ca = [a \in Account |-> "unknown"] /\ home = [a \in Account |-> "v02"]
    /\ starts = 0 /\ kills = 0
    /\ verb = "use" /\ server = "v02" /\ pc = "off"
    /\ acc = None /\ todo = <<>> /\ target = "v01"

-----------------------------------------------------------------------------
(* What paths lead to: the directory of a server, that of an account.      *)
Behind(s) == IF dir[s] = "link" THEN "v01" ELSE s
Place(s, a) == IF entry[Behind(s)][a] = "link" THEN "v01" ELSE Behind(s)
IsDir(s, a) == entry[Place(s, a)][a] = "dir"
Listed(s) == {a \in Account : entry[Behind(s)][a] # "none"}

(* _load_for_server_path reads three files.  One that is missing is an     *)
(* AccountStorageError, one that is cut raises something else.             *)
Read == <<"regr", "key", "meta">>
Complete(s, a) == IsDir(s, a) /\ \A f \in File : file[Place(s, a)][a][f] = "whole"
Broken(s, a) ==
    /\ IsDir(s, a)
    /\ \E n \in 1..3 : /\ file[Place(s, a)][a][Read[n]] = "cut"
                       /\ \A m \in 1..(n - 1) : file[Place(s, a)][a][Read[m]] = "whole"

(* What find_all returns: of the previous server when there is none here   *)
(* and the directory can be replaced by a link, that is when it is empty.  *)
OwnAccounts(s) == {a \in Account : Complete(s, a)}
NotUpgraded(s) == s = "v02" /\ dir[s] = "none"
UpgradedOverOthers(s) == s = "v02" /\ dir[s] # "link"
Upgraded(s) == s = "v02" /\ Listed(s) = {} /\ dir[s] # "link"
FindAll(s) == IF Upgraded(s) THEN OwnAccounts("v01") ELSE OwnAccounts(s)

(* What load finds, by the id.                                             *)
Loadable(s, a) == Complete(s, a) \/ (s = "v02" /\ ~ IsDir(s, a) /\ Complete("v01", a))

(* Whether the call raises an exception that nobody catches.  The accounts *)
(* of the previous server are looked at when none is found here.           *)
FindRaises(s) ==
    \/ \E a \in Account : Broken(s, a)
    \/ s = "v02" /\ OwnAccounts(s) = {} /\ \E a \in Account : Broken("v01", a)
LoadRaises(s, a) == Broken(s, a) \/ (s = "v02" /\ ~ IsDir(s, a) /\ Broken("v01", a))

-----------------------------------------------------------------------------
Go(label) == pc' = label
Gone == pc' = "off" /\ acc' = None /\ todo' = <<>> /\ target' = "v01"
            /\ verb' = "use" /\ server' = "v02"
Same == UNCHANGED <<command, acc, todo, target>>

(* A command with --server, and with --account or the one a renewal        *)
(* configuration names; __init__ makes the directory.                      *)
Start(v, s, a) ==
    /\ pc = "off" /\ starts < MaxStarts
    /\ starts' = starts + 1
    /\ verb' = v /\ server' = s /\ acc' = a
    /\ dir' = [dir EXCEPT ![s] = IF @ = "none" THEN "dir" ELSE @]
    /\ Go(IF v = "use" THEN "determine" ELSE "find")
    /\ UNCHANGED <<entry, file, ca, kills, todo, target>>

Kill ==
    /\ pc # "off" /\ kills < MaxKills
    /\ kills' = kills + 1 /\ Gone
    /\ UNCHANGED <<disk, ca, starts>>

Finding == pc = "find" \/ (pc = "determine" /\ acc = None)
Raises ==
    \/ Finding /\ FindRaises(server)
    \/ pc = "determine" /\ acc # None /\ LoadRaises(server, acc)

Raise == Raises /\ Gone /\ UNCHANGED <<disk, ca, history>>

(* _symlink_to_accounts_dir, of find_all and of load: the directory is     *)
(* removed and a link made.  What is found afterwards is the same.         *)
Upgrading ==
    /\ ~ Raises /\ Upgraded(server)
    /\ \/ Finding /\ OwnAccounts("v01") # {}
       \/ pc = "determine" /\ acc \in OwnAccounts("v01")

RemoveEmptyDir ==
    /\ Upgrading /\ dir[server] = "dir"
    /\ dir' = [dir EXCEPT ![server] = "none"]
    /\ UNCHANGED <<entry, file, ca, history, command, pc, acc, todo, target>>
SymlinkToAccountsDir ==
    /\ Upgrading /\ dir[server] = "none"
    /\ dir' = [dir EXCEPT ![server] = "link"]
    /\ UNCHANGED <<entry, file, ca, history, command, pc, acc, todo, target>>

(* _symlink_to_account_dir, of load, when other accounts are here.         *)
SymlinkToAccountDir ==
    /\ pc = "determine" /\ acc # None /\ ~ Raises /\ ~ Upgrading
    /\ server = "v02" /\ ~ IsDir(server, acc) /\ Complete("v01", acc)
    /\ entry' = [entry EXCEPT ![server][acc] = "link"]
    /\ UNCHANGED <<dir, file, ca, history, command, pc, acc, todo, target>>

-----------------------------------------------------------------------------
Settled == ~ Raises /\ ~ Upgrading

(* register stops when there is an account, the others when there is none. *)
Find ==
    /\ pc = "find" /\ Settled
    /\ IF (verb = "register") = (FindAll(server) = {})
       THEN Go("determine") /\ Same ELSE Gone
    /\ UNCHANGED <<disk, ca, history>>

(* _determine_account: the one given, one found - chosen from a menu when  *)
(* there are several - or a new one.                                       *)
Determined(a) ==
    /\ acc' = a /\ UNCHANGED <<command, target>>
    /\ \/ verb = "update" /\ Go("update") /\ UNCHANGED todo
       \/ verb = "unregister" /\ Go("deactivate") /\ UNCHANGED todo
       \/ verb = "use" /\ Go("save") /\ todo' \in {<<>>, <<"meta">>}

(* The user would rather not, or chooses none of several accounts.         *)
Decline ==
    /\ pc = "determine" /\ Gone
    /\ verb = "unregister" \/ (acc = None /\ Settled /\ Cardinality(FindAll(server)) > 1)
    /\ UNCHANGED <<disk, ca, history>>

Determine ==
    /\ pc = "determine" /\ Settled
    /\ IF acc = None
       THEN IF FindAll(server) = {}
            THEN Go("register") /\ Same
            ELSE \E a \in FindAll(server) : Determined(a)
       ELSE /\ Complete(server, acc) \/ ~ Loadable(server, acc)
            /\ IF Loadable(server, acc) THEN Determined(acc) ELSE Gone
    /\ UNCHANGED <<disk, ca, history>>

(* register of client.py, with prepare_subscription and, at the end of a   *)
(* command that gets a certificate, handle_subscription.                   *)
Register ==
    /\ pc = "register"
    /\ \/ /\ \E a \in Account :
                /\ at_ca[a] = "unknown"
                /\ at_ca' = [at_ca EXCEPT ![a] = "valid"] /\ home' = [home EXCEPT ![a] = server]
                /\ acc' = a
          /\ todo' \in {<<"key", "meta", "regr">>, <<"key", "meta", "regr", "meta">>}
          /\ Go("prepare") /\ UNCHANGED <<command, target>>
       \/ Gone /\ UNCHANGED ca
    /\ UNCHANGED <<disk, history>>

(* _prepare, of save; then _create, _update_meta, _update_regr.            *)
Prepare ==
    /\ pc = "prepare" /\ Go("save")
    /\ entry' = [entry EXCEPT ![Behind(server)][acc] = "dir"]
    /\ UNCHANGED <<dir, file, ca, history, command, acc, todo, target>>

Open ==
    /\ pc = "save" /\ todo # <<>> /\ Go("write")
    /\ file' = [file EXCEPT ![Place(server, acc)][acc][Head(todo)] = "cut"]
    /\ UNCHANGED <<dir, entry, ca, history, command, acc, todo, target>>
Write ==
    /\ pc = "write" /\ Go("save")
    /\ file' = [file EXCEPT ![Place(server, acc)][acc][Head(todo)] = "whole"]
    /\ todo' = Tail(todo)
    /\ UNCHANGED <<dir, entry, ca, history, command, acc, target>>
Saved ==
    /\ pc = "save" /\ todo = <<>> /\ Gone
    /\ UNCHANGED <<disk, ca, history>>

(* update_account: the CA refuses an account that is deactivated.          *)
UpdateAccount ==
    /\ pc = "update"
    /\ IF at_ca[acc] = "valid"
       THEN /\ todo' \in {<<"regr">>, <<"regr", "meta">>}
            /\ Go("save") /\ UNCHANGED <<command, acc, target>>
       ELSE Gone
    /\ UNCHANGED <<disk, ca, history>>

-----------------------------------------------------------------------------
(* unregister: deactivated first, deleted then.                            *)
Deactivate ==
    /\ pc = "deactivate"
    /\ IF at_ca[acc] = "valid"
       THEN /\ at_ca' = [at_ca EXCEPT ![acc] = "deactivated"]
            /\ target' = Place(server, acc)
            /\ Go("unlink") /\ UNCHANGED <<command, acc, todo>>
       ELSE Gone /\ UNCHANGED at_ca
    /\ UNCHANGED <<disk, home, history>>

(* delete.  Links to the account are removed, of this server and of the    *)
(* one that reuses it, then what they lead to, file by file.               *)
UnlinkOwn ==
    /\ pc = "unlink" /\ Go("rmtree")
    /\ entry' = [entry EXCEPT ![server][acc] = IF @ = "link" THEN "none" ELSE @]
    /\ UNCHANGED <<dir, file, ca, history, command, acc, todo, target>>
UnlinkAccount ==
    /\ pc = "unlink" /\ Go("rmtree")
    /\ entry' = [entry EXCEPT !["v02"][acc] = IF @ = "link" THEN "none" ELSE @]
    /\ UNCHANGED <<dir, file, ca, history, command, acc, todo, target>>

RemoveFile(f) ==
    /\ pc = "rmtree" /\ file[target][acc][f] # "none"
    /\ file' = [file EXCEPT ![target][acc][f] = "none"]
    /\ UNCHANGED <<dir, entry, ca, history, command, pc, acc, todo, target>>
LeaveAccountDir ==
    /\ pc = "rmtree" /\ \A f \in File : file[target][acc][f] = "none"
    /\ Go("empty")
    /\ UNCHANGED <<disk, ca, history, command, acc, todo, target>>
RemoveAccountDir ==
    /\ pc = "rmtree" /\ \A f \in File : file[target][acc][f] = "none"
    /\ entry' = [entry EXCEPT ![target][acc] = "none"]
    /\ Go("empty")
    /\ UNCHANGED <<dir, file, ca, history, command, acc, todo, target>>

(* A directory that is empty now is removed, a link to it first.           *)
UnlinkAccountsDir ==
    /\ pc = "empty"
    /\ IF Listed(server) # {}
       THEN Gone /\ UNCHANGED dir
       ELSE /\ dir' = [dir EXCEPT !["v02"] = IF @ = "link" THEN "none" ELSE @]
            /\ target' = Behind(server) /\ Go("rmdir")
            /\ UNCHANGED <<command, acc, todo>>
    /\ UNCHANGED <<entry, file, ca, history>>
RemoveAccountsDir ==
    /\ pc = "rmdir" /\ Gone
    /\ dir' = [dir EXCEPT ![target] = "none"]
    /\ UNCHANGED <<entry, file, ca, history>>

Next ==
    \/ \E s \in Server, a \in Account \cup {None} :
          \E v \in {"use", "update", "unregister"} : Start(v, s, a)
    \/ \E s \in Server : Start("register", s, None)
    \/ Raise \/ RemoveEmptyDir \/ SymlinkToAccountsDir \/ SymlinkToAccountDir
    \/ Find \/ Decline \/ Determine \/ Register \/ Prepare \/ Open \/ Write \/ Saved
    \/ UpdateAccount \/ Deactivate \/ UnlinkAccount
    \/ (\E f \in File : RemoveFile(f)) \/ RemoveAccountDir
    \/ UnlinkAccountsDir \/ RemoveAccountsDir \/ Kill

Spec == Init /\ [][Next]_vars

-----------------------------------------------------------------------------
(* What every variable may hold.                                           *)
TypeOK ==
    /\ dir \in [Server -> {"none", "dir", "link"}]
    /\ entry \in [Server -> [Account -> {"none", "dir", "link"}]]
    /\ file \in [Server -> [Account -> [File -> {"none", "cut", "whole"}]]]
    /\ at_ca \in [Account -> {"unknown", "valid", "deactivated"}]
    /\ home \in [Account -> Server] /\ server \in Server /\ target \in Server
    /\ acc \in Account \cup {None} /\ todo \in Seq(File)

(* A link always leads somewhere, also when a process is killed while it   *)
(* upgrades or deletes.                                                    *)
LinksLead ==
    /\ dir["v01"] # "link" /\ (dir["v02"] = "link" => dir["v01"] = "dir")
    /\ \A a \in Account : /\ entry["v01"][a] # "link"
                          /\ entry["v02"][a] = "link" => entry["v01"][a] = "dir"
    /\ \A s \in Server, a \in Account : entry[s][a] # "none" => dir[s] = "dir"

(* An account a command could load stays so, for each server, whatever is  *)
(* upgraded or deleted next to it: until it is deactivated, but for the    *)
(* moment in which a file of it is written anew.                           *)
AccountsKept ==
    [][\A s \in Server, a \in Account :
          Loadable(s, a) /\ ~ Loadable(s, a)'
          => at_ca[a] = "deactivated" \/ (pc = "save" /\ acc = a)]_vars

(* Nobody registers with the CA while an account can be had: one of the    *)
(* same server, or at v02 one of v01.  That is said as long as no process  *)
(* was killed: a registration at v02 that dies leaves an incomplete entry  *)
(* there, because of which _find_all cannot put the link to v01 in its     *)
(* place and returns none of v01's accounts.                               *)
NoneNeeded ==
    [][\A a \in Account :
          at_ca[a] = "unknown" /\ at_ca'[a] = "valid" /\ kills = 0
          => \A b \in Account : at_ca[b] = "valid" => home[b] = "v02" /\ home'[a] = "v01"]_vars

(* As long as no process is killed, the disk agrees with the CA: a valid   *)
(* account can be loaded where it was registered and at v02, and of one    *)
(* that was deactivated nothing is left.                                   *)
Agrees ==
    pc = "off" /\ kills = 0
    => \A a \in Account :
          /\ at_ca[a] = "valid" => Complete(home[a], a) /\ Loadable("v02", a)
          /\ at_ca[a] # "valid" => \A s \in Server : entry[s][a] = "none"
=============================================================================
