# Certbot in TLA+

Models, model-checking runs and proofs for the parts of this repository
(Certbot and its ACME library) in which steps, faults and other processes can
come in an order that tests hardly reach. Every definition is translated from
the source; `PROJECT.json` ("map") gives the lines for each of them.

    tlc -workers 2 -config LockFile.cfg MCLockFile     # one of the runs below
    tlapm LockFileProofs.tla                           # one of the proof modules

Contents: 1 the system, 2 the modules, 3 the runs, 4 what the models leave
out, 5 the proofs, 6 disagreements found, 7 the plan.


## 1. The system

### Parts, state and operations

Certbot is a command that runs as root, often unattended (`certbot renew` from
a timer), and exits. What it knows from one run to the next is in files, so a
process that dies at an arbitrary step hands an arbitrary intermediate state to
the next one. That is the hazard the modules are mostly about.

| Part | State it keeps | Operations | What makes it correct |
|---|---|---|---|
| Reverter, `certbot/reverter.py` | backups of server configuration in `backups/<time stamp>/`, `IN_PROGRESS/`, `temp_checkpoint/`: file names, copies, created files, undo commands | announce a change, register a new file or undo command, finalize, recover, revert, roll back | whatever dies where, recovery gives back the user's configuration; challenge configuration never becomes permanent; rollback goes back in the order of history |
| Lock files, `_internal/lock.py`, with `util.py` | `.certbot.lock` in each directory certbot uses; record locks of the kernel | acquire, release at exit | one process per directory; nothing left by a dead process keeps others out |
| Lineages, `_internal/storage.py` | `archive/` with four files per version, four links in `live/`, `previous_` links during an update, the renewal configuration | create, load (and repair), deploy, save a successor, truncate, delete | servers never see two versions mixed; a newer version is put into use |
| Error handlers, `_internal/error_handler.py` | the process's signal handlers, the cleanup functions owed | enter, register, leave by return, exception or signal | cleanup is done once, undisturbed, before the process is gone; signals are not lost |
| Authorizations, `_internal/auth_handler.py`, with `_internal/client.py` | the order at the CA, what the plugin presents | new order, deactivation for a dry run, perform, answer, poll, clean up, finalize, retry with fewer names | a challenge is there while it is checked and gone afterwards; the client ends |
| Renewal and hooks, `_internal/renewal.py`, `_internal/hooks.py`, with `main.py` | hooks that ran or are saved for later in this process; whether the web server is up and what it loaded | renew lineage after lineage, run pre, deploy, post hooks, update | one failing lineage stops no other; hooks run once; a server that was stopped comes back; what is called renewed is in use |
| Standalone authenticator, `plugins/standalone.py` | the listener at the port, the challenges it serves | perform, cleanup | the listener is there for the challenges and gone with the last of them |
| Webroot authenticator, `plugins/webroot.py` | directories made, validation files, what is noted as performed | perform, cleanup | what perform adds, cleanup removes, and nothing else |
| Deployment and enhancements, `_internal/client.py`, with `plugins/common.py` | the checkpoint in progress, the finalized ones | deploy, enhance, save, restart, roll back | after a failure the server runs a complete configuration |
| Nginx installer and authenticator, `certbot_nginx/_internal/` | the parsed configuration, the block made for a challenge | choose, duplicate, secure, split blocks; redirects, headers, challenges | nginx accepts what is written and picks the blocks certbot changed |
| ACME library, `acme/client.py` | pool of nonces, account key | signed requests, retry on `badNonce`, polling of orders | no nonce is used twice, and a second attempt is made with a new one; polling ends |
| Authenticators: manual, DNS | directories and files made | perform, cleanup | what perform adds, cleanup removes, and nothing else |
| Apache installer | an Augeas tree | prepare, deploy, enhance, save, restart | as transactions of the Reverter |
| Accounts, `_internal/account.py`, with `client.py`, `eff.py`, `main.py` | a directory of accounts for each server, links from the newer server's to the older one's; the account at the CA | find, load (and link), save, update, delete | no account is lost by what is done to another; none is registered without need; disk and CA agree |
| Command line, display, logs | options | | |

Directories, packages and tools that hold no logic of the program (`certbot-ci`,
`letstest`, `tools`, packaging) are listed as such in `PROJECT.json`.

### How the parts interact

- `main` sets up the directories and takes their **locks** before anything else
  (`lock_dir_until_exit`); a plugin locks the server's directory in `prepare`.
  They are released at exit. That is why the other modules have one process.
- `prepare` of both installers calls the **Reverter**'s `recovery_routine`, then
  each edit goes through `add_to_checkpoint` / `register_file_creation`, and
  `save(title)` through `finalize_checkpoint`. Authenticators that edit server
  configuration use the temporary checkpoint and revert it in cleanup.
- `renew` loads every **lineage** (loading repairs links), calls
  `ensure_deployed`, and, when a certificate is due, calls **client**
  `obtain_certificate` and then `save_successor`, `update_all_links_to` and
  `truncate`.
- `obtain_certificate` orders, calls the **authorization handler**, which calls
  the plugin and the CA within an `ExitHandler`, and finalizes. In a dry run it
  first deactivates what the CA remembers as valid and orders anew. Every request
  of it goes through the pool of nonces of the **ACME library**.
- `renew` shares one machine with the web server: the **hooks** stop it and start
  it, the **standalone** authenticator needs its port, an **installer** reloads
  it. Pre-hooks run once per process and post-hooks at its end, while
  authenticators are made anew for each lineage.
- `run` has the **nginx plugin** answer a challenge in a temporary checkpoint,
  revert it, deploy the certificate in a permanent one, restart, and enhance in
  further ones; the plugin's memory of the configuration goes through all of it.
- Every command that talks to the CA first finds its **account**, which may make
  links between the directories of two servers (`LE_REUSE_SERVERS`), or registers one.
- `deploy_certificate`, `enhance_config` and `update_all_links_to` run within
  **ErrorHandlers** whose cleanup functions are rollbacks of the installer or
  the repair of links. They nest and follow each other, and share the
  process-wide table of signal handlers.

### What is hard to test

Death of the process between two system calls (every file operation above);
death inside the recovery of an earlier death; a call that fails after others
succeeded; other processes on the same lock file; signals inside cleanups and
nested blocks; a CA that answers slowly, differently, or never; clocks that go
backwards. `PROJECT.json` ("hazards") has each of these at its line with the
properties that cover it, or a note when none does yet.


## 2. The modules

| Module | Models | Kind |
|---|---|---|
| `Reverter` | `certbot/reverter.py`, and a plugin that uses it | detailed |
| `ConfigHistory` | the history of configurations a Reverter keeps | abstract, implemented by `Reverter` |
| `LockFile` | `_internal/lock.py` (Unix) and `util.py`'s locks | detailed |
| `DirLocks` | one holder per directory | abstract, implemented by `LockFile` |
| `Lineage` | `RenewableCert` and `delete_files` of `_internal/storage.py`, with the calls of `_internal/renewal.py` | detailed |
| `Deployment` | one version in use, replaced by the newest | abstract, implemented by `Lineage` |
| `ErrorHandler` | `_internal/error_handler.py` | detailed |
| `AcmeClient` | the requests of `acme/client.py`: `_get_nonce`, `_post_once`, `post` | component of `AuthHandler` |
| `AuthHandler` | `handle_authorizations`, `_poll_authorizations`, `deactivate_valid_authorizations`, `obtain_certificate`, `new_order` and `poll_finalization` | composition of client, handler, plugin, requests and CA |
| `Standalone` | `plugins/standalone.py` and the port of the machine | component of `Renewal` |
| `Webroot` | `plugins/webroot.py` | component of `Renewal` |
| `Hooks` | `_internal/hooks.py` and the web server | component of `Renewal` |
| `Renewal` | `renew` and `certonly` of `main.py`, `_internal/renewal.py`, `updater.py` | composition with `Hooks`, `Standalone` and `Webroot` |
| `NginxConf` | the operations of `certbot_nginx/_internal/` on a configuration, and how nginx reads one | operators |
| `Installation` | `run`, `install`, `enhance`, `rollback` of `main.py`, `_internal/client.py`, the transactions of the nginx plugin | composition with `NginxConf` |
| `Accounts` | `AccountFileStorage` of `_internal/account.py`, `register` of `client.py`, `_internal/eff.py`, the account commands of `main.py` | detailed, with the CA |
| `MCReverter`, `MCLockFile`, `MCRenewal`, `MCInstallation`, `MCAccounts` | constants for TLC | model checking |
| `ReverterProofs`, `LockFileProofs`, `LineageProofs`, `ErrorHandlerProofs`, `AuthHandlerProofs`, `RenewalProofs`, `InstallationProofs`, `AccountsProofs` | theorems | proofs |

Common conventions. `pc` says which call is under way and how far it is; a step
is about one system call, because that is where a process can die.
Variables that stand for files survive `Crash`, locals do not. `faults` counts
crashes and failed calls, bounded by `MaxFaults`. Some modules have, next to an
operator of the program, a variant of it that the program does *not* use and no
action mentions (`DirNotMade` beside `DirMade`, `SharedLock` beside `TryLock`,
...): these are the plausible mistakes of `PROJECT.json` ("mutants"), each of
which breaks a property when put in the operator's place.

### Reverter

`cp` maps the two working directories and every time stamp to what is in the
directory. `paths` is `FILEPATHS` *as it is on the disk*; `lines` is the buffer
of the open file, which is lost when the process dies before `close`, while the
copies `backup` are on the disk at once. That difference is what the index
arithmetic in `_add_to_checkpoint_dir` has to survive.

| Actions | Code |
|---|---|
| `AddToCheckpoint`, `RefuseAdd`, `BackUp`, `BackUpFails`, `AddDone` | `add_to_checkpoint`, `add_to_temp_checkpoint`, `_check_tempfile_saves`, the loop of `_add_to_checkpoint_dir` with its failing copy |
| `RegisterFileCreation`, `RegisterUndoCommand` | the functions of these names |
| `FinalizeCheckpoint`, `FinalizeFails`, `Timestamp` | `finalize_checkpoint`, `_checkpoint_timestamp`, `_timestamp_progress_dir` |
| `RecoveryRoutine`, `RevertTemporaryConfig`, `RollbackCheckpoints`, `Start` | the three callers of `_recover_checkpoint`; `Start` is a plugin's `prepare` |
| `RunUndoCommands`, `RestoreFile`, `RestoreFails`, `RemoveNewFile`, `RemoveCheckpoint`, `RmtreeStops` | `_recover_checkpoint` step by step |
| `PluginWrite`, `PluginEnable` | the plugin changes what it announced |

What becomes of an error in a recovery (`RestoreFails`, `RecoveryFails`, `RmtreeStops`)
is `Raise`. In `prepare` and in a rollback the process ends. An authenticator calls
`revert_temporary_config` in its cleanup, though, where the `ReverterError` becomes a
`PluginError` (`plugins/common.py:204-207`) that `ErrorHandler` logs and swallows
(`error_handler.py:128-134`); `recovery_routine` of an installer is called in the same
way (`client.py`, `_recovery_routine_with_msg`). There the process may also go on with the
directory as it was left, and save again.

The plugin is restricted to what the installers do: it writes only after the
announcement returned (`granted`), registers files that do not exist, does not
delete files, and rolls back with no change pending.

The properties are about three operators that read a configuration off the
directories: `Restored(c, d)`, the files after recovering checkpoint `c` from
`d`; `Stable`, after recovering everything pending; `Point`, the configuration
each finalized checkpoint leads back to. `StableKept` then says in one formula
that backups are made before writes, are complete, and are not overwritten by a
second announcement, and that recovery can be interrupted and repeated.

### LockFile

The kernel is modelled as far as `lock.py` depends on it: a path names an inode;
a record lock belongs to a process and an inode; closing *any* descriptor of a
process drops its lock on the inode; an inode nobody refers to is used again.
`Open`, `TryLock`/`LockHeld`, `LockSuccess`/`LockStale` are the loop of
`_UnixLockMechanism.acquire`; `Remove` and `Close` are `release` in its order;
`LockDir` and `Exit` are `lock_dir_until_exit` and `_release_locks`.
The check of `_lock_success` is one step: `fstat` of the process's own
descriptor never changes, so all that matters is the moment of `stat`.

### Lineage

`archive[k][n]` is "none", "cut" (opened and not yet written) or "whole";
`live[k]`, `prev[k]` are the versions the links point to. `pc` goes through the
loops of the code, `todo` is what a loop has not treated, and `mid` is the kind
between the `unlink` and `symlink` of `_update_link_to` (or between open and
write of a file).

| Actions | Code |
|---|---|
| `Create` ... `CreateDone` | `new_lineage` |
| `Load`, `FixUnlink` ... `Loaded`, `FixEnds` | `RenewableCert.__init__`: `_fix_symlinks`, `_check_symlinks` |
| `EnsureDeployed`, `HasPendingDeployment` | `ensure_deployed`, `has_pending_deployment` |
| `SaveSuccessor`, `OpenFile`, `WriteFile`, `Saved` | `save_successor`, `next_free_version`, and the calls of `renew_cert` |
| `SaveNewConfigValues`, `RemoveNewConf`, `WriteNewConf`, `ReplaceConf` | `update_configuration` and `write_renewal_config`, called by `save_successor` and by the command `reconfigure` |
| `PrevLink` ... `UpdateDone`, `UpdateFails` | `update_all_links_to` with its ErrorHandler |
| `TruncateFile`, `Truncated` | `truncate` |
| `DeleteFiles` ... `DeleteArchive` | `delete_files` |

`Taken(k)` is the version a server's file `k` will have once the lineage is
loaded again: while all `previous_` links exist, loading undoes the update. With
it the twelve link operations of an update have exactly one point at which the
version changes, and `DeploysAtOnce` says so: it is the refinement of
`Deployment` under `deployed <- Taken`.

### ErrorHandler

`stack` is the nesting of `with` blocks, `disp` the process's signal
disposition (a handler object or the default action), `prev[h]` what
`_set_signal_handlers` of `h` saved. `Exit`, `CallFunc`, `ResetSignalHandlers`,
`CallSignal`, `Return` are `__exit__` in its order; `Signal` is one from outside
and `Deliver` what `_signal_handler` does with it. A signal may arrive in every
state, also inside `__exit__`.

`_call_registered` catches `Exception` only. What is none leaves `__exit__` where it is
(`ExitCut`): `SystemExit` of a cleanup function, or the `KeyboardInterrupt` of a SIGINT,
which is not one of `_SIGNALS`, anywhere in a cleanup. The block is then "cut", with
functions that were not called and a handler that stays in place.

### AuthHandler and AcmeClient

`server` is what the CA knows of each authorization, `authzrs` what the client
read last, `presented` what the plugin presents, `answered` what the CA was told
of. The CA is external: it validates (truthfully: only what is presented becomes
valid), fails, deactivates and refuses whenever it likes, or never answers.
`check`, `topoll` and `rounds` are the loop of `_poll_authorizations`.

| Actions | Code |
|---|---|
| `CreateOrder`, `ReadAuthorization` | `new_order` |
| `StartDeactivating`, `DeactivateAuthorization`, `DeactivationFails`, `Deactivated` | the dry run in `_get_order_and_authorizations` |
| `ChooseChallenges`, `Perform`, `AnswerChallenge`, `AnswerFails`, `CallFails`, `CleanupChallenges` | `handle_authorizations` |
| `StartPolling`, `Poll`, `EndRound`, `Report` | `_poll_authorizations` |
| `Refused`, `Authorized`, `NotAuthorized` with `RetryWith`, `Fail` | the retries of `obtain_certificate` |
| `BeginFinalization`, `AwaitIssuance`, `PollOrder`, `DownloadCertificate` | `finalize_order` |
| `SendAgain`, and `Post`, `PostFails` in all that send requests | `ClientNetwork` |

Each request of these actions is one of `AcmeClient`: `Post` for one that is
answered, `PostFails` for one that raises (before or after the nonce was sent),
`BadNonce` for one that the CA refuses for its nonce and that is sent once more. A
name in `Nonce` that is neither in the pool nor in use stands for any new nonce,
so that finitely many names are enough for a client that never stops asking.

### Renewal, Hooks, Standalone, Webroot

`port` is who listens at the port of the challenge: the web server, certbot or
nobody. It is what these modules share, and it outlives processes where `server`
holds it and not where `certbot` does. The directories of webroot, `dirs`, outlive
processes too; who made them, `created_dirs`, is known to the authenticator only. `version`, `live`,
`loaded` and `announced` follow a certificate from the CA to the disk, the
links, the server and the deploy-hook. A process goes through `pc`; `raised` is
the exception under way, `hit` where it was interrupted from the keyboard.
`stale` is that an `ErrorHandler` of the process ended regularly, so that signals are
swallowed from then on (section 6, 3): `UpdateAllLinksTo` may then end with the links
where they were, which `taken_back` remembers, and the process goes on behind it.

| Actions | Code |
|---|---|
| `Start`, `End`, `Forget` | `renew` and `certonly` of `main.py`; what a process forgets |
| `Reconstitute`, `RandomSleep`, `LoopGoesOn`, `Describe` | the loop of `handle_renewal_request` |
| `ChoosePlugins`, `PreHook` | `choose_configurator_plugins`, `pre_hook` |
| `NewOrder`, `Perform`, `Note`, `PerformWebroot`, `NoteWebroot`, `PerformByServer`, `Answered`, `Validated`, `CleanupChallenges` | one attempt for a certificate, with the standalone plugin, webroot or one that has the web server answer |
| `ShouldRenew`, `Save`, `Link` with `UpdateAllLinksTo`, `RenewHook` | `ensure_deployed`, and the rest of `renew_cert`; each of them may raise |
| `PostHook`, `SavedPostHooks` | the `finally` of `_get_and_save_cert`; the end of `renew` |
| `RunRenewalDeployer`, `Restart`, `RunGenericUpdaters` | `updater.py` and the restart of `renew_cert` in `main.py` |
| `Error`, `Interrupt`, `Kill` with `Raise`, `Leaves` | where exceptions lead: `finally` and `except` of `_get_and_save_cert` and of the loop |

`Perform` and `Note` are two steps, because an exception can come between the
listener and the note of what it serves; `Cleanup` has to stop it all the same.
Those of webroot are apart for the same reason: a file that cannot be written to
the end is there and not noted. `cut` remembers that the cleanup raised before it
came to the directories.

### NginxConf and Installation

A configuration is the sequence of its server blocks, and a block is known by
its index, as `vhost.path` is: that a path goes stale when the files are reverted
is a hazard of this code. `Serving` and `Accepted` say what nginx does with a
configuration (external, from nginx's documented choice of a server, which the
plugin's comments rely on); the other operators say what the plugin does, in the
order it does them. What they return is a configuration, or a set of
configurations where the plugin depends on the order of a set.

| Actions | Code |
|---|---|
| `Start`, `RecoveryRoutine`, `Load` | the plugin is made and prepared |
| `Perform`, `SaveChallenge`, `RestartForChallenge`, `Validate`, `Cleanup`, `RestartClean` | `perform` and `cleanup` of `http_01.py` and `configurator.py` in `handle_authorizations` |
| `DeployCert`, `SaveDeployed`, `FinalizeDeployed`, `Restart` | `deploy_certificate` |
| `EnhanceConfig`, `Enhance`, `SaveEnhancement`, `FinalizeEnhancement`, `RestartEnhanced` | `enhance_config`, `apply_enhancement` |
| `Fail`, `Recover`, `RollbackCheckpoints`, `RestartRolledBack` | the two error handlers of `client.py`, and the command `rollback` |
| `Kill`, `End` | a process is killed or ends |

`saved` and `prior` are history variables: the last complete configuration, and
the one the process began with.

### Accounts

`dir`, `entry` and `file` are the directories of two servers of which the newer
one reuses the accounts of the older: a directory of accounts, in it that of each
account, in it three files. `dir["v02"]` may be a link to the directory of v01, an
`entry` of v02 a link to the one of v01. `Behind` and `Place` follow the links, so
that each action reads and writes where the paths of the code lead. An account is
known by its key, which is new for each registration.

| Actions | Code |
|---|---|
| `Start`, `Find`, `Decline`, `Determine` | `__init__`; `register`, `unregister`, `update_account` and `_determine_account` of `main.py` |
| `RemoveEmptyDir`, `SymlinkToAccountsDir`, `SymlinkToAccountDir`, `Raise` | what `find_all` and `load` change, and where they raise |
| `Register` | `register` of `client.py`, with the CA's answer |
| `Prepare`, `Open`, `Write`, `Saved` | `save`, `update_meta`, `update_regr` |
| `UpdateAccount`, `Deactivate` | the requests of `update_account` and `unregister` |
| `UnlinkAccount`, `RemoveFile`, `RemoveAccountDir`, `UnlinkAccountsDir`, `RemoveAccountsDir` | `delete` |
| `Kill` | death of the process between any two of these |

`todo` is what is still to be written: key, metadata and registration of a new
account, then the metadata once more when a subscription is noted (`eff.py`).


## 3. The runs

Passing runs check deadlock where nothing else is said; the others end by
design (bounded runs of processes, a program that is over, the bound of faults).

| Run | Shows | Bounds |
|---|---|---|
| `reverter_faults` (`ReverterFaults.cfg`) | backups are complete whatever fails (`BackupsComplete`); what recovery leads to is moved by no plugin write, failure or crash (`StableKept`), and user files not even by a torn `rmtree`, but for a process that goes on after one and writes the file whose backup that lost (`OriginalsKept`); temporary and permanent changes stay apart (`TemporaryIsApart`); every module is disabled again but one whose own undo command failed (`ModulesGoBack`) | 2 files and 2 contents, or 2 modules and one file and content; 2 faults, 2 backups per directory, no finalized checkpoint |
| `reverter_history` (`ReverterHistory.cfg`) | the directories implement `ConfigHistory` under any clock (`KeepsHistory`); after a crash recovery succeeds in the end (`CrashesAreRecovered`) | 1 file, 2 contents, stamps 1..3, a "second" of 2 ticks, 1 fault |
| `reverter_stuck` (violation) | one crash inside `rmtree` makes every later recovery raise | 1 file, 1 fault |
| `lock_file` (`LockFile.cfg`) | never two holders (`MutualExclusion`), the holder alone unlinks (`RemovesItsOwn`), only the living refuse (`RefusedByTheLiving`), acquire ends unless others take and release the lock without end (`AcquireEnds`), `DirLocks` is implemented (`KeepsOneHolder`) | 3 processes run any number of times, 4 inodes, 1 directory |
| `lineage_faults` (`LineageFaults.cfg`) | one version at every moment (`OneVersion`), new numbers are free (`SuccessorIsNew`), links change at once and forwards and recent versions are kept (`DeploysAtOnce`), what was saved is put into use (`LatestIsDeployed`) | 3 kinds, 4 versions, keep 1, 2 faults |
| `lineage_cut` (violation) | a version whose last file was not written completely is put into use | 3 versions |
| `error_handler` (`ErrorHandlerNested.cfg`) | no cleanup is skipped before the process is gone, but in a block whose own `__exit__` was cut (`CleanedBeforeGone`), or disturbed by signals (`CleanupUndisturbed`), it ends (`CleanupEnds`), signals get through unless an earlier `__exit__` did nothing or was cut (`HeededUnlessStale`) | 3 handlers, 2 functions each, 3 signals |
| `error_handler_stale` (violation) | after a block that ended regularly a signal is swallowed | 2 handlers, 1 signal |
| `auth_handler` (`AuthHandlerPolls.cfg`) | challenges are there while checked (`PresentedWhileChecked`) and gone afterwards (`NothingLeftBehind`), no nonce is used twice (`FreshNonces`), no order is made for no domain (in `TypeOK`), the client ends (`ClientEnds`) | 3 domains, 3 rounds, 2 names for nonces, with and without dry run and subset |
| `renewal` (`RenewalHooks.cfg`) | the port is free where a hook freed it (`PortFree`), no listener and no validation file outlives its attempt (`NothingLeft`), what is called renewed is in use, or what its links were taken back to (`RenewedIsDeployed`), a server that a pre-hook stopped is back at the end (`ServerComesBack`) | 2 lineages, 2 challenges, 4 setups, 2 processes, 1 kill, 1 interrupt each |
| `installation` (`InstallationNginx.cfg`) | nginx accepts what is written (`NginxAccepts`), picks a block with the answer (`ChallengeServed`), with the certificate and without a loop (`HttpsServed`), and failures lead back to the last complete configuration (`Restored`) | 2 domains, 3 ports, 158 configurations of 1 to 3 blocks, 2 processes, 1 kill |
| `accounts` (`Accounts.cfg`) | links lead somewhere (`LinksLead`), no account is lost by an upgrade or by the deletion of another (`AccountsKept`), none is registered while one can be had (`NoneNeeded`), disk and CA agree (`Agrees`) | 3 accounts, 2 servers, 6 processes, 2 kills |

### Why these bounds

- *Reverter.* Two files are enough for one file to be backed up, created or
  protected while the other is treated; two faults are enough for a crash within
  the recovery from a crash, for a failed copy and a crash, or for a recovery that fails
  in a process that goes on and fails again, and a third finds
  the same directories again. `MaxStamp = 0` takes finalization out of
  `reverter_faults`, whose properties say nothing of finalized checkpoints;
  `reverter_history` has them. Three stamps with `Second = 2` make the clock
  agree with, precede and lie behind the newest stamp. What a recovery
  does to modules has nothing to do with what it does to files, but for the directories
  both are in; `FilesOrModules` of `MCReverter` therefore keeps the states with two
  modules to one file and one content. Of the modules one may be in each directory, or
  one fail and the other not. Files and contents are
  symmetric: the model treats them alike and the run with symmetry has safety
  properties only.
- *LockFile.* Three processes: one that releases, one that has opened the file
  unlinked by the first, one that creates a new file. Nothing counts how often
  they run: the states are finitely many all the same, and `AcquireEnds` is about
  processes that come and go for ever. Four inodes let one be
  used again. A second directory adds nothing that processes share; the
  proofs are for any number of each.
- *Lineage.* Three kinds are one treated, one in work and one not yet
  treated, which is every position within a loop. Four versions: one in use,
  one partly saved, one after it, and one more so that `truncate` has something
  to delete. Two faults: a crash, and a crash or failure within the repair.
- *ErrorHandler.* Three handlers: an inner one, an outer one, and one that ended
  before. Three signals: one in a body, one in its cleanup, one sent while they
  are sent again. Two functions: one that raises or is interrupted, and one behind it.
- *AuthHandler.* Three domains: one valid, one invalid, one pending in a round.
  Two nonces: one in the pool or sent, and one for what the CA gives out next; the
  proofs have any number.
- *Renewal.* Two lineages, one before and one after whatever fails, in every pair
  of setups; a second process finds what the first one left; two challenges, the
  second presented by the listener of the first. One interrupt for each process, at any step.
- *Installation.* Two domains: one that has a block and one that has none or
  shares it. The configurations have every pair of a kind of name and a kind of
  listening for one domain with another for the other domain, and a default
  server in the third block; of these the run has the ones that are `Orderly` and
  `Clear` (`NginxConf`), which is what the theorems suppose. Two processes: one that
  finds what another deployed,
  enhanced, left behind or rolled back.
- *Accounts.* Three accounts: one of v01 that v02 has a link to, one of v02 itself,
  and one that is being registered or deleted. Six processes: register both,
  register one more, link, delete, and one that finds the result. Two kills: one in
  an upgrade or a save, one in the deletion that follows.

### Fairness

Safety properties need none. The liveness properties assume:

- `CrashesAreRecovered`: `WF(Start)` and `WF(Proceed)`. A call that has begun
  runs on, and certbot is started again: it is run by a timer or cron job, and
  the plugin is prepared on every run. Nothing is assumed of the plugin.
- `AcquireEnds`: `WF(Proceed(p))` for each process, the scheduler of the system.
  A process need not acquire, and may keep its lock for ever. No fairness lets one
  process through when others take and release the same lock without end, always
  between its `open` and its `lockf`: TLC refutes the unconditional form at once. The
  property therefore says that nothing else keeps the loop going (`RemovedByOthers`).
- `LatestIsDeployed`: `WF` of the steps of calls, loads and ends; `SF` of
  `EnsureDeployed`, because every run of `renew` on a loaded lineage goes through
  it, while other commands that load the lineage may come in between.
- `CleanupEnds`: `WF(ExitStep)`: a cleanup function returns or raises. Nobody has to
  interrupt it: `ExitCut` is no part of it.
- `ClientEnds`: `WF(Client)`: calls return or raise. `WF(DeadlinePasses)`: the clock
  goes on. Nothing is assumed of the CA. The rounds alone end the polling of
  authorizations; that of the issuance ends by its deadline, and needs the clock.

`ServerComesBack` is a safety property of a process that is over (`end`, `hung`), so it needs
no fairness. Its exceptions are keyboard interrupts in the cleanup of challenges, among the
post-hooks, and among the pre-hooks, which `_get_and_save_cert` runs before its `try`
(`main.py:116`). A process that is killed is never at its end.


## 4. What the models abstract and leave out

- *Reverter.* The texts of `CHANGES_SINCE` and `view_config_changes`. Undo
  commands are reduced to "the module is disabled", and may fail. `save_files`
  is a set: the order of backups is any order. `register_file_creation` does not
  look into the temporary checkpoint as `add_to_checkpoint` does; the model's
  plugin, like the installers, uses names of challenge files for nothing else.
- *LockFile.* The Windows mechanism (a file that is open cannot be unlinked).
  Two locks of one directory within one process (`lock_dir_until_exit` prevents
  them).
- *Lineage.* `CERT`, `PRIVKEY`, `CHAIN`, `FULLCHAIN` are treated alike and in any
  order, which allows more than the fixed order of the code. The README file of
  a lineage, renaming, OCSP and expiry questions, and successors that reuse a key
  by a link to the old one are left out. Writing the configuration of a new lineage
  is one step; when it is cut the configuration counts as "empty", which is
  refused in the same way. What is in a configuration is left out; that a later one
  replaces it at once is not.
- *ErrorHandler.* The signals of `_SIGNALS` are one signal; setting and resetting
  them is one step; the code within and around blocks catches errors and
  `SignalExit`, and nowhere `SystemExit` or `KeyboardInterrupt`; no signal comes between the end of the body and the first
  statement of `__exit__`.
- *AuthHandler.* Time is whether the deadline has passed. The plugin's cleanup
  works (the handler catches and logs its errors). One challenge per domain: the
  choice among those offered is left out; whether the plugin supports one is not.
  A CA may refuse any nonce it has given out. Signatures, accounts and what
  the responses look like are left out; that a response cannot be parsed is among
  the errors.
- *Renewal.* One process at a time (`LockFile`). Hooks come in pairs, the
  post-hook undoing what the pre-hook did; hook directories add commands of the
  same kind. How a lineage is written (`Lineage`) and what the CA answers
  (`AuthHandler`) take a step or two. `ensure_deployed` links in dry runs too, as the
  code does. A second interrupt while the first is under way is left out. A signal outside of
  `update_all_links_to` ends the process like `Kill`, or is swallowed without effect.
- *Installation.* One configuration file besides the one for challenges; listen
  directives have no host, no IPv6 and, without the word, no ssl on port 80;
  certificates are for plain names; `ssl on` is not used. Configurations are at
  first accepted by nginx, and for http no two blocks compete for a domain by their
  place in the file (nginx warns of a name given twice and takes the first). The block `return 404` that a split leaves behind
  redirects is left out, as it answers what no redirect took. The snakeoil
  certificate is kept until the real one is deployed, in one step. Checkpoints are
  written and recovered in one step: `Reverter` has the steps. A process that
  recovers does not restart nginx, so nginx may run another configuration than the
  files hold until the next restart; no property says otherwise.
- *Accounts.* One process at a time. The staging pair of servers is a copy of the
  production pair. Files hold what was written or are cut; a call that fails
  without the process ending is left out, except the registration and what the CA refuses. The
  user's questions are asked in the steps of which they decide the outcome. Sending a subscription to
  the EFF changes nothing here but the metadata.
- *Not modelled*: data types, encodings and cryptography of the ACME library, the text of nginx files, Apache's Augeas trees, DNS
  providers, the manual plugin, parsing of options, display
  and logs. They keep little state between steps, or a state whose difficulty is
  in its data. How Apache uses checkpoints, undo commands and temporary changes is
  in `Reverter`.


## 5. The proofs

TLAPS checks eight modules, each for every value of the constants and any
number of steps.

**`ReverterProofs`**, from `DataAssumption` and `DirAssumption` (`Absent` is no
content, working directories are no stamps, bounds are numbers). No set is
assumed to be finite.

| Theorem | States |
|---|---|
| `TypeCorrect` | `Spec => []TypeOK` |
| `BackupsAlwaysComplete` | `Spec => []BackupsComplete`: a name in `FILEPATHS` always has its backup, as long as no `rmtree` was cut |
| `StableIsKept` | `Spec => StableKept`: what recovery leads to is moved by finalization, rollback and a cut `rmtree` alone |
| `OriginalsAreKept` | `Spec => OriginalsKept`: no file that recovery leads to is lost otherwise, also with removals that were cut and processes that go on after them, but by a write to a file whose name such a removal left in `FILEPATHS` without its backup |
| `TemporaryApart` | `Spec => TemporaryIsApart`: what is written for a permanent change always reaches the configuration without the temporary ones; a temporary change never does, but by a cut `rmtree` |
| `ModulesAlwaysGoBack` | `Spec => ModulesGoBack`: each module goes back unless its own undo command failed |
| `HistoryIsKept` | `Spec /\ [](~ rmtreeCut) => KeepsHistory`, the refinement of `ConfigHistory` in every behaviour in which no `rmtree` is cut (one that is cut in a rollback takes its entry with it) |

None of them is inductive. They all rest on

    Inv == TypeInv /\ BackupsComplete /\ NamesOnce /\ Adding /\ GrantRecorded /\ Recovering

`NamesOnce`: no file occurs twice in `FILEPATHS`, else which backup is restored
would depend on the order. `Adding`: while a call adds files, its buffer extends
what is on the disk and each name of the buffer has its backup: that is why closing the
file keeps `BackupsComplete`, and why a crash before it leaves backups without
names and never names without backups. `GrantRecorded`: what the plugin may
write is recorded in the directory it was announced to, so a write does
not change `Restored`. `Recovering`: what a recovery has restored up to `idx`
agrees with the backups, so removing the directory at its end changes nothing.
The step theorem has a case per action. `StableIsKept` combines them with
lemmas on `Restored` (that it ignores what it overwrites, that one more backup
of the present content changes nothing, that recovering twice is recovering once).

The others need more, for `Inv` says little once an `rmtree` was cut. `CutInv`: a
recovery that reaches the end of `FILEPATHS` has found every backup, so what is removed
was restored before (one that does not raises, and the directory stays); and a rollback
begins with no working directory. `RmtreeLeaves`: the files that `FILEPATHS` and `NEW_FILES`
are about are then as they were restored, so what is left of the directory
can at worst bring back a file that would have been removed; it takes none away. A
process that goes on with such a directory may write what `FILEPATHS` names
without a backup (`Unbacked`); that step is the exception in `OriginalsKept` (section 6).
`GrantApart`, for `TemporaryApart`: what the plugin may write permanently is recorded
nowhere in `TEMP`, where `add_to_checkpoint` looks for it. `Undone`, for
`ModulesAlwaysGoBack`: between the undo commands and the end of the removal nothing
the directory lists is enabled, but modules whose own command failed.

`HistoryIsKept` is about `Point`, a recursive function. What it needs is that there is
such a function, and that two of them agree wherever their equations do. Both come
from a greatest counterexample among finitely many stamps (`GreatestOf`, which follows
from the library's theorem that `<` is well-founded): `PointsAre`, `PointsSame`,
`PointsCommit`. `RollbackInv` says that a rollback works on the newest of the
finalized checkpoints; with the part of `CutInv` by which no other change is pending,
`Stable` is then the disk. So the files a rollback writes do not count for the entry it
goes to (`Overwrites`), the others depend on that entry alone, and when the directory goes
the disk is what it led to (`RecoveredDisk`). `FinalizeCheckpoint` is `Commit`,
by `TimestampNew`, for any clock; `RollbackCheckpoints` is `Begin`, its writes are `Move`,
`RemoveCheckpoint` is `Finish`, its errors and crashes are `Abort`; every other step
stutters (`QuietCalls`).

**`LockFileProofs`**, from `NoneAssumption` alone.

| Theorem | States |
|---|---|
| `TypeCorrect` | `Spec => []TypeOK`, which says which descriptors are open |
| `LocksExclude` | `Spec => []MutualExclusion` |
| `NoneRefusedByTheDead` | `Spec => RefusedByTheLiving` |
| `OnlyTheHolderRemoves` | `Spec => RemovesItsOwn` |
| `LockFilesImplementLocks` | `Spec => KeepsOneHolder`, the refinement of `DirLocks` |

    Inv == TypeOK /\ Apart /\ OwnerOpen /\ LockedOwn /\ HoldersOwn /\ CurOpen

`Apart`: the lock files of two directories are never one inode, which is where
the reuse of inodes has to be harmless. `OwnerOpen`: who has a record lock has
the inode open. `LockedOwn`: between `TryLock` and the comparison a process has
the record lock on what it opened. `HoldersOwn`: a holder has the record lock on
the inode the path names *now* (until its own `Remove`); two holders of a
directory would hold one record lock, which is the proof of mutual exclusion.
`CurOpen` says what a process in the middle of an acquire has open.

**`LineageProofs`**, from `KindAssumption` and `BoundAssumption` (there is a
certificate among the kinds; bounds are numbers): for any number of kinds, versions,
crashes and failed calls.

| Theorem | States |
|---|---|
| `OneVersionAlways` | `Spec => []OneVersion` |
| `SuccessorIsNewAlways` | `Spec => []SuccessorIsNew` |
| `LineageImplementsDeployment` | `Spec => DeploysAtOnce`, the refinement of `Deployment` |

    IInv == TypeOK /\ ConfInv /\ CreateInv /\ PrevLead /\ FixInv /\ UpdateInv
            /\ SaveInv /\ TruncateInv /\ OneVersion /\ SuccessorIsNew

The heart is `Taken(k)`, the version of kind `k` that a load would come back with: what
the `previous_` links say while *all* of them lead somewhere, the live links
otherwise. `UpdateInv` says how far `update_all_links_to` is: while `previous_`
links are made they repeat the live ones, so `Taken` does not see them; once all
are there the live links may be in any state; when they are removed all live
links are at the new version already. So `Taken` changes in one step only, the first
`previous_` link that goes (`UnlinkPrevDeploys`). `FixInv` says the same of a repair, which
makes the live links repeat the `previous_` links before it removes any, and
`PrevLead` that none of these is ever broken, which truncation could do.
`ConfInv` ties the configuration to the step: a lineage that is being made or
deleted has none that loads. `SaveInv`: the number of a new version is above all
files of all kinds. `TruncateInv`: what truncation still has to remove is more than
`Keep` behind. The refinement has a lemma for each kind of step that the abstract
module sees (`WrittenIssues`, `UnlinkPrevDeploys`, `TruncateForgets`, `CreateDoneCreates`,
`GoneDeletes`); every other step leaves the files and `Taken` alone (`Kept`) and stutters.

**`ErrorHandlerProofs`**, from `BoundAssumption` alone (the bounds are numbers): for any
number of handlers, functions and signals.

| Theorem | States |
|---|---|
| `CleanedBeforeGoneAlways` | `Spec => []CleanedBeforeGone` |
| `CleanupUndisturbedAlways` | `Spec => CleanupUndisturbed` |
| `HeededUnlessStaleAlways` | `Spec => HeededUnlessStale` |

    IInv == TypeOK /\ Nested /\ Owing /\ Chain /\ OnItsWay /\ CleanedBeforeGone

`Nested`: blocks are on the stack in the order they were made. `Owing`: all but the
innermost are in their bodies, and a block that was left is "passed", was "cut", or has
called its functions. `Chain`: each handler has kept the one of the block around it, and the one in
place is that of the innermost block (or of the one around it, once it was put
back), *or* one that a block without cleanup, or with a cleanup that was cut, left behind. It follows
that the default action is in place only outside of all blocks or when the
outermost has cleaned up, so nothing is owed when it kills; and that during a
cleanup the handler is one whose `body_executed` is set, so it only takes note.
`OnItsWay`, which is about programs with no block left behind: what
was received anywhere has been received by a block that is not left yet, and
`_call_signals` of that one has sent nothing. At the first signal that `_call_signals`
sends, the handler around is not executed yet and leaves the `__exit__` at once,
or the default action kills: this is why the code's loop never gets to its second
signal, and why no `__exit__` that was interrupted returns.

**`RenewalProofs`**, from `CountAssumption`, `SetupAssumption` and `HookAssumption` (there is
a lineage; a setup has one of three authenticators; the hooks are finitely many): for any
number of lineages, challenges, processes and kills, any hooks and any setups.

| Theorem | States |
|---|---|
| `PortIsFree` | `Spec => []PortFree` |
| `NothingIsLeft` | `Spec => []NothingLeft` |
| `RenewedIsInUse` | `Spec => []RenewedIsDeployed` |
| `ServerIsBack` | `Spec => []ServerComesBack` |

    IInv == TypeOK /\ PresentInv /\ HookInv /\ DeployInv

`TypeOK` types what the other parts speak of. `PresentInv`: the port is bound exactly when
the server manager of the present authenticator has an instance, which is why a new
authenticator never forgets a listener; files are there for webroot only; and an
interrupt inside the cleanup ends the process, so that no later attempt meets what it left.
`HookInv`: the pre-hooks of a lineage have run, for it or for an earlier one,
before its challenges are presented; and from then on a reload alone brings the server
back before all lineages are through, since the post-hook of `renew` is saved. `DeployInv`:
who is reported comes before the lineage that is worked on, so no later write or link
concerns it, and when the server is reloaded for another it loads what is live. That is
the newest version unless a swallowed signal took the links back (`Linked`,
`taken_back`); the deploy-hook is then called for what they lead to.
Where an exception leads from each step is a lemma (`ExceptionWays`), so the case of an
error or interrupt at any step is one case of each proof.

`ServerIsBack` has `BackInv` besides: a process in which the pre-hook of the server was run
(`Owes`) has the post-hook still before it, in the attempt of a lineage that has that hook
(`Ahead`), or saved for the end (`Saved`), or has run it (`Back`). It passes from the first
to the second in `RunEventually`, for which one has to know that what `SetToSeqs`
returns contains every command of the set (`RunEventuallyWays`). That the post-hook then
starts the server is `NothingLeft`: nothing of certbot listens at the port any more.

**`InstallationProofs`**, from `PortAssumption`, `DomainsAssumption`,
`ConfigurationsAssumption` and `RequestsAssumption`: for any names, ports, number
of domains and blocks, and any number of processes and kills. What a theorem
supposes of `Configurations`, where the first process may start, and of the domains of
the certificate is stated with it:

| Theorem | States | Supposes |
|---|---|---|
| `Types` | `Spec => []TypeOK`: each operation of the plugin leads from configurations to configurations, and `new_vhost` is always a block of the parsed one | nothing: nginx may not accept the configuration |
| `RestoredAlways` | `Spec => []Restored` | nothing |
| `SoundAlways`, `NginxAcceptsAlways` | `Spec => []NginxAccepts` | `Orderly`: nginx accepts it, the word `ssl` goes by the port |
| `ChallengeServedAlways` | `Spec => []ChallengeServed` | `Orderly`; the certificate is for all domains |
| `HttpsServedAlways` | `Spec => []HttpsServed` | `Orderly` and `Clear` (ssl on one port, no two http blocks that only their place in the file tells apart), no redirects at first; the certificate is for all domains |

Each of these suppositions is met by the configurations of the run, and each is
needed for a reason that section 6 gives or nginx does. `Domain` is the
set of the domains that are told apart: a name in the configuration that the
certificate is not for matches none of them (`Other` in `MCInstallation`).

`Types` rests on a lemma for each operator of `NginxConf`. For `Restored` the
invariant is

    IInv == CheckpointsInv /\ RaisedInv /\ PriorInv

`CheckpointsInv`: of the two open checkpoints at most one is there and what it
holds is `saved`, and outside the steps that write there is none. `RaisedInv`:
which errors can be under way at which point. `PriorInv`: where the prior
configuration is, namely in `saved` before the certificate is finalized and on top of
`checkpoints` from there to the end of a rollback - the fact that makes "one
checkpoint" the right amount to roll back.

`NginxAccepts` is about blocks and sets of blocks (a port has at most one default
server; where there is ssl there is a certificate), and no operation keeps it
by itself: a duplicated default server is accepted because it is no default any more, a
split because a half that leads at a port still has what led there. `Sound` is the
same condition said of pairs of blocks, so that an operation that changes one block
or adds one is compared with its neighbours (`OrderlyIs` proves the two equivalent,
`SoundChange`, `SoundAppend` and the lemmas on securing and splitting keep it). The
invariant is that every configuration there is - file, parsed, backups - is sound, since
a rollback or a recovery makes any of them current (`Within`), and that challenge
blocks in front of a sound configuration harm nothing (`SoundJoin`).

`ChallengeServed` and `HttpsServed` depend on which block nginx picks. `ServingIs` is
where the plugin and nginx meet: the block that beats the others in the order of
`_select_best_name_match` is the one nginx serves. `AnsweredInv` says of each
domain, while `perform` goes through them, that it is still to come or answered by
whatever block will be picked.

`HttpsServedAlways` has the longest way to go, as redirects are added by one
command and https by another, with rollbacks and kills between them:

    AllInv == RegularInv /\ ControlInv /\ FiledInv /\ DeployableInv /\ ServedInv /\ HttpsServed

- `RegularInv`: all configurations are `Regular`, which is `Sound`, `Clear` and
  redirects in blocks for http or for https alone.
- `ControlInv`: where memory, the file and the server hold the same configuration.
- `FiledInv`, `DeployableInv`: every configuration that is saved or filed is
  `Complete`: if it redirects anything, each domain that a block names for http is
  redirected or has https. Otherwise `install` could put https into a block
  that redirects another of its domains, which had no https, and make a loop.
- `ServedInv`: what `run` and `install` have achieved (`Achieved`), but for the
  domains still to be deployed (`Undeployed`) or redirected (`Unredirected`).

An operation for one domain must not undo what was achieved for another: a block
that gets https may take over domains it names (`SecureServes`), a duplicated
default server changes how its own domain is served and no other's
(`FromDefaultSees`), and a split may move a domain's http block but takes the
redirect along (`SplitKeeps`, `ServingMoved`). `DeployStep` and `EnhanceStep` put this
together for `deploy_cert` and `apply_enhancement`.

**`AuthHandlerProofs`**, from `DomainAssumption`, `RetriesAssumption` and
`NonceAssumption` (there is a domain, a round of polling and a nonce): for any
number of domains, rounds, requests and refusals.

| Theorem | States |
|---|---|
| `TypeCorrect` | `Spec => []TypeOK`, with it that `domains` is never empty |
| `ChallengesArePresented` | `Spec => []PresentedWhileChecked` |
| `ChallengesAreRemoved` | `Spec => []NothingLeftBehind` |
| `NoncesAreFresh` | `Spec => []FreshNonces` |

    IInv == TypeOK /\ NetInv /\ AnsweredInv /\ NothingLeftBehind /\ ValidInv

`NetInv`: the pool has one nonce at most, so it is empty when one is taken, which
is why a refused nonce leaves no older one for the second attempt. `AnsweredInv`:
what was answered is presented until the polling is over, and while an order is
made nothing is answered. `ValidInv`: when `handle_authorizations` returns, some
authorization is valid - the reason why the retry of a partial authorization, which
does not look whether any domain is left, asks for at least one.

**`AccountsProofs`**, from `NoneAssumption`: for any number of accounts,
processes and kills.

| Theorem | States |
|---|---|
| `TypeCorrect` | `Spec => []TypeOK` |
| `LinksAlwaysLead` | `Spec => []LinksLead` |
| `AccountsAlwaysKept` | `Spec => AccountsKept` |
| `AlwaysAgrees` | `Spec => []Agrees` |
| `NeverNeedless` | `Spec => NoneNeeded` |

    IInv == TypeOK /\ LinksLead /\ StepReady

`StepReady` is what a process has seen to before a step that would otherwise break
a link or leave none: a directory that is missing is one in the middle of an
upgrade; a directory of an account is removed after the link to it; the
directory of a server goes when nothing is in it and no link leads to it. That paths
depend on which directories are links and not on which exist is a lemma of its own
(`SamePlaces`), from which it follows that an upgrade that has removed the
directory will make the link.
`AccountsAlwaysKept` needs `CaInv` besides: an account the CA does not know has no
directory, so that making one for a new account harms none; and what is deleted was
deactivated. It has a lemma for each kind of step that changes the disk: the link that
replaces a directory leads to the accounts that were loaded before, for the directory
had none; what is done to one account does not concern the paths of another
(`LoadableOfOthers`).
`AlwaysAgrees` and `NeverNeedless` are about histories without a kill and need

    SoundInv == kills \in Nat /\ (kills = 0 => OneDir /\ HasDir /\ HasFiles /\ NothingOfGone /\ AtWork)

An account has its directory at one server only (`OneDir`); a valid one has it where
its own server looks, with all files but those that are being written (`HasDir`, `HasFiles`); one
that was deactivated is being deleted or gone (`NothingOfGone`); and `AtWork` is what the
process relies on from one step to the next, above all that `find_all` found nothing
when it registers. From there: what `find_all` does not find is not there to be
found (`NothingFound`), at v02 also through a link that the upgrade itself would have made.

**Only model-checked**: everything else of section 3. Liveness
(`CrashesAreRecovered`, `AcquireEnds`, `LatestIsDeployed`, `CleanupEnds`,
`ClientEnds`) is beyond the prover: it needs fairness and ENABLED.
Every other property of the passing runs is stated by a theorem.
No module declares a RECURSIVE operator.


## 6. Disagreements between the code and what it says

Each is a run that ends in a counterexample, with the quoted line in
`PROJECT.json` ("findings").

1. `reverter_stuck`. `_recover_checkpoint` ends with `shutil.rmtree`, which
   removes entries in any order. If the process dies when a backup is removed and
   `FILEPATHS` is not, every later `recovery_routine` raises, and with it
   every later `prepare`. `recovery_routine` is documented to "protect against
   crashes and other execution interruptions".
2. `lineage_cut`. `has_pending_deployment` goes by the names in `archive/`.
   Death while the last file of a version is being written leaves all names,
   and the next renewal links the incomplete file.
3. `error_handler_stale`. An `ErrorHandler` block that ends regularly leaves its
   signal handler in place, and the handler of a finished block ignores signals.
   A later block that is interrupted by SIGTERM cleans up, sends the signal to
   that handler, and the program continues as if the block had succeeded.
Observed while modelling, without a run of their own:

- `_add_to_checkpoint_dir` copies no file that `FILEPATHS` names and does not look for the
  copy (`reverter.py:183`). When `rmtree` fails in an authenticator's cleanup after it
  removed a copy and before it removed `FILEPATHS`, the error is swallowed, and the next
  save of the same process overwrites the original, of which there is no copy any more;
  `revert_temporary_config` is documented to "reinstall the users original configuration
  files". It is the second disjunct of `OriginalsKept`: without it TLC finds this history, of
  one file and one fault.
- What 3 leads to in `renew`: `update_all_links_to` has an `ErrorHandler` for each
  lineage. A SIGTERM in a later one takes its links back and is swallowed; the deploy-hook
  is called for them, where its documentation speaks of "the new certificates and keys",
  and the lineage is reported as renewed. The next run mends the links and calls no hook.
  `RenewedIsDeployed` is therefore false when `taken_back` is left out of it.
- "Each registered cleanup function is called exactly once", but a `KeyboardInterrupt` in
  one, or `SystemExit` of one, leaves `__exit__`, with the functions before it not called
  and the signal handlers not reset (`error_handler.py:130`). `CleanedBeforeGone` is
  false when it is to hold for a block that was cut.
- An authorization that is deactivated or revoked while the others are polled is
  in neither of the lists `_poll_authorizations` goes on with, so
  `handle_authorizations` returns normally without it (`auth_handler.py:158-190`).
- `regr.json` and `meta.json` are opened for writing in place (`account.py:349`, `356`).
  If the process dies before it has written, the next command of that server
  raises a decoding error from `find_all`, which skips accounts that raise
  `AccountStorageError` only; `interfaces.py:45-46` promises this one for an account
  that cannot be loaded (`FindRaises`, `LoadRaises`).
- `unregister` deactivates before it deletes. If it dies in between, the account is
  found by every later command and refused by the CA, also by `unregister` itself, which
  never gets to the deletion.
- An account directory of v02 left incomplete by a registration that died keeps
  `rmdir` from making the link: `find_all` returns nothing although v01 has accounts
  (`account.py:178-181`), and the next command registers anew. `NoneNeeded` is
  therefore about histories without a kill.
- `handle_subscription` sends the subscription before it notes so; when it dies in
  between, the next command sends it again (`eff.py:55-60`).
- `_split_block` (`configurator.py:885-903`) tells http from https by the word `ssl`
  in a listen directive. A block may have https on a port because another block
  has the word; then the split moves its port 443 to the new http block, whose
  redirect leads to itself. `HttpsServed` is violated when `Configurations` is
  `MCInherits` of `MCInstallation`; `Orderly` leaves such configurations out.
- `enhance --redirect` before there is https redirects within the http block
  (`_enable_redirect_single`). A later `install` puts https into that same block,
  which from then on redirects to itself, and so does every `install` after it: the
  exception `RedirectsLead` in `HttpsServed`, which asks of the configuration a command
  starts from that its redirects lead to https and not into a loop. The second half
  is needed from the third process on, beyond the run's two; the proof required it.
- An http block split off is appended at the end. When names are regular expressions
  another block may come first, which is why `Unambiguous` lets no two http blocks
  have one for the same domain.
- A restart that fails after several enhancements is followed by the rollback of
  one checkpoint, the last enhancement's; and an enhancement that fails after
  another was saved leaves this one on the disk and not in the server. `Restored`
  says what holds: the failed restart of a deployment.
- `handle_renewal_request` raises when any lineage failed, so that `renew` never
  gets the lists it returns: post-hooks are told of no `FAILED_DOMAINS` ever, and of
  no `RENEWED_DOMAINS` when one lineage failed (`renewal.py:566-570`,
  `main.py:1616-1621`), where `docs/using.rst:722-725` offers both. `told` in
  `Renewal` is always without failures. The branch of `hooks.py:182` that would
  overwrite the renewed domains is dead for the same reason.
- A lineage with hooks, the standalone plugin and an installer fails when it
  comes after another one of that kind: the reload of the first brings the server
  back and the pre-hook is not run again (the exception in `PortFree`).
- The cleanup of webroot removes the files in order and raises (`os.remove` or
  `set.remove`, `webroot.py:262-263`) at the first challenge that was not performed
  to the end. The error handler logs that, no file is left, but the directories
  that were made stay (`cut`), where `interfaces.py:205-206` says that cleanup
  "should be able to revert all changes made by perform, even if perform exited
  abnormally".
- A lineage with webroot cannot be validated when it comes after one whose
  pre-hook stopped the web server: the post-hook is run at the end of the process.
- An interrupt inside the cleanup of challenges leaves the listener, and the
  process waits for its threads (`hung`).
- A keyboard interrupt after a pre-hook has stopped the web server, and before the `try`
  of `_get_and_save_cert` (`main.py:116`), leaves it stopped: no post-hook is run or
  saved by then (an exception of `ServerComesBack`).
- A dry run that cannot reach the CA while it deactivates an authorization fails with
  `requests`' error, as `deactivate_valid_authorizations` catches `acme_errors.Error`
  only (`auth_handler.py:141`, `DeactivationFails`).
- An updater or deployer that raises makes the lineage count as failed, although
  it was renewed, and the server is not restarted for it.


## 7. The plan

Done, in the order of importance: what destroys a user's configuration
(`Reverter`), what protects against a second process (`LockFile`), what servers
read (`Lineage`), what runs when something goes wrong (`ErrorHandler`), the
dialogue with the CA (`AuthHandler`, `AcmeClient`), what `renew` does to the machine (`Renewal`),
what `run` does to the web server (`Installation`),
and the accounts both need (`Accounts`).

What is left, in the order it would be worth doing:

1. Several configuration files and Apache's virtual hosts, as `NginxConf`.
