---------------------------- MODULE AuthHandler ----------------------------
(***************************************************************************)
(* A certificate is obtained for some domains: obtain_certificate of       *)
(* certbot/_internal/client.py, which retries with fewer domains when      *)
(* allow_subset_of_names is set; handle_authorizations of                  *)
(* certbot/_internal/auth_handler.py, which presents challenges, has the   *)
(* CA validate them, polls for the outcome and cleans up; and the order    *)
(* and its finalization in acme/client.py.  The CA works at its own pace   *)
(* and answers what it likes; every call may fail.  Time is only whether   *)
(* the deadline has passed.                                                *)
(***************************************************************************)
EXTENDS Naturals, AcmeClient

CONSTANTS
    Domain,
    MaxRetries      \* max_retries

ASSUME DomainAssumption == Domain # {}
ASSUME RetriesAssumption == MaxRetries \in Nat \ {0}

VARIABLES
    pc,         \* what obtain_certificate does
    subset,     \* allow_subset_of_names
    dry_run,
    domains,    \* the domains that are asked for
    server,     \* the status of the authorization of each domain, at the CA
    authzrs,    \* the same as last read
    presented,  \* the challenges the plugin presents
    answered,   \* the challenges the CA was told of
    deactivated,\* the authorizations that were deactivated for a dry run
    check,      \* authzrs_to_check
    topoll,     \* of these, the ones not yet polled in this round; also those
                \* of a new order not yet read, or deactivated
    rounds,     \* how many rounds of polling began
    late,       \* the deadline, of polling or of the issuance, has passed
    failed,     \* authzrs_failed_to_report is not empty
    raised      \* how handle_authorizations ends: "no" exception, one for the
                \* "outcome", or one that a "call" raised

config == <<subset, dry_run>>
order == <<server, authzrs, answered, deactivated>>
polling == <<check, topoll, rounds, late, failed>>
vars == <<pc, config, domains, order, presented, polling, raised, net>>

Status == {"none", "pending", "valid", "invalid", "deactivated"}

Init ==
    /\ pc = "order" /\ subset \in BOOLEAN /\ dry_run \in BOOLEAN /\ domains = Domain
    /\ server = [d \in Domain |-> "none"] /\ authzrs = server
    /\ presented = {} /\ answered = {} /\ deactivated = {}
    /\ check = {} /\ topoll = {} /\ rounds = 0 /\ late = FALSE /\ failed = FALSE
    /\ raised = "no"
    /\ NetInit

With(status) == {d \in domains : authzrs[d] = status}

(* A challenge is needed for every authorization that is not valid.        *)
Achalls == domains \ With("valid")

-----------------------------------------------------------------------------
(* new_order: the CA remembers some authorizations.  Then they are read.   *)
CreateOrder ==
    /\ pc \in {"order", "reorder"} /\ Post
    /\ \E known \in SUBSET domains :
          server' = [d \in Domain |-> IF d \in known THEN "valid"
                                      ELSE IF d \in domains THEN "pending" ELSE "none"]
    /\ pc' = (IF pc = "order" THEN "read" ELSE "reread") /\ topoll' = domains
    /\ authzrs' = [d \in Domain |-> "none"] /\ answered' = {} /\ deactivated' = {}
    /\ UNCHANGED <<config, domains, presented, check, rounds, late, failed, raised>>

ReadAuthorization(d) ==
    /\ pc \in {"read", "reread"} /\ d \in topoll /\ Post
    /\ authzrs' = [authzrs EXCEPT ![d] = server[d]]
    /\ topoll' = topoll \ {d}
    /\ UNCHANGED <<pc, config, domains, server, answered, deactivated, presented, check,
                   rounds, late, failed, raised>>

(* deactivate_valid_authorizations, in a dry run.  What the CA refuses is  *)
(* logged, and was perhaps done; when something was deactivated the order  *)
(* is made anew.                                                           *)
StartDeactivating ==
    /\ pc = "read" /\ topoll = {} /\ dry_run
    /\ pc' = "deactivate" /\ topoll' = With("valid")
    /\ UNCHANGED <<config, domains, order, presented, check, rounds, late, failed, raised,
                   net>>

DeactivateAuthorization(d) ==
    /\ pc = "deactivate" /\ d \in topoll
    /\ topoll' = topoll \ {d}
    /\ \/ /\ Post /\ deactivated' = deactivated \cup {d}
          /\ server' = [server EXCEPT ![d] = "deactivated"]
       \/ /\ PostFails /\ UNCHANGED deactivated
          /\ server' \in {server, [server EXCEPT ![d] = "deactivated"]}
    /\ UNCHANGED <<pc, config, domains, authzrs, answered, presented, check, rounds, late,
                   failed, raised>>

(* A failure that is not an error of the protocol (no connection) is not   *)
(* caught there, nor by obtain_certificate.                                *)
DeactivationFails(d) ==
    /\ pc = "deactivate" /\ d \in topoll /\ PostFails
    /\ server' \in {server, [server EXCEPT ![d] = "deactivated"]}
    /\ pc' = "failed"
    /\ UNCHANGED <<config, domains, authzrs, answered, deactivated, presented, polling, raised>>

Deactivated ==
    /\ pc = "deactivate" /\ topoll = {}
    /\ pc' = IF deactivated = {} THEN "reread" ELSE "reorder"
    /\ UNCHANGED <<config, domains, order, presented, polling, raised, net>>

(* _choose_challenges: when all are valid there is nothing to perform; the *)
(* plugin may support none of the challenges that are offered.             *)
ChooseChallenges ==
    /\ topoll = {} /\ pc = (IF dry_run THEN "reread" ELSE "read")
    /\ \/ pc' = (IF Achalls = {} THEN "authorized" ELSE "perform") /\ UNCHANGED raised
       \/ Achalls # {} /\ pc' = "raised" /\ raised' = "outcome"
    /\ UNCHANGED <<config, domains, order, presented, polling, net>>

(* The code that asks for a certificate for fewer domains, or fails.       *)
MayRetryAll(s) == s # {}
MayRetryNone(s) == s # domains
MayRetry(s) == s # domains /\ s # {}

RetryWith(s) ==
    /\ pc' = "order" /\ domains' = s /\ raised' = "no"
    /\ check' = {} /\ topoll' = {} /\ rounds' = 0 /\ late' = FALSE /\ failed' = FALSE
    /\ UNCHANGED <<config, order, presented>>

Fail ==
    /\ pc' = "failed"
    /\ UNCHANGED <<config, domains, order, presented, polling, raised>>

(* The order, a call during its authorization or its finalization is       *)
(* refused; the error may name domains.                                    *)
Refused ==
    /\ \/ pc \in {"order", "reorder", "finalize", "ask", "download"} /\ PostFails
       \/ pc \in {"read", "reread"} /\ topoll # {} /\ PostFails
       \/ pc = "raised" /\ raised = "call" /\ UNCHANGED net
    /\ \/ subset /\ \E s \in SUBSET domains : MayRetry(s) /\ RetryWith(s)
       \/ Fail

-----------------------------------------------------------------------------
(* The outcome is not one of the errors that are retried.                  *)
NotAuthorized == pc = "raised" /\ Fail /\ UNCHANGED net

(* The with block of handle_authorizations is left.                        *)
Leave(exception) == pc' = "cleanup" /\ raised' = exception

(* auth.perform.                                                           *)
Perform(d) ==
    /\ pc = "perform" /\ d \in Achalls \ presented
    /\ presented' = presented \cup {d}
    /\ UNCHANGED <<pc, config, domains, order, polling, raised, net>>

(* The CA is told, one challenge after the other, when all are presented.  *)
SomePresented == presented # {}
AllPresented == Achalls \subseteq presented

AnswerChallenge(d) ==
    /\ pc = "perform" /\ d \in Achalls \ answered
    /\ AllPresented
    /\ answered' = answered \cup {d} /\ Post
    /\ UNCHANGED <<pc, config, domains, server, authzrs, deactivated, presented, polling,
                   raised>>

(* It is told and the response is lost, or an error.                       *)
AnswerFails(d) ==
    /\ pc = "perform" /\ d \in Achalls \ answered
    /\ AllPresented
    /\ answered' = answered \cup {d} /\ PostFails
    /\ Leave("call")
    /\ UNCHANGED <<config, domains, server, authzrs, deactivated, presented, polling>>

(* _poll_authorizations begins: all authorizations are polled, the valid   *)
(* ones too.                                                               *)
StartPolling ==
    /\ pc = "perform" /\ AllPresented /\ Achalls \subseteq answered
    /\ pc' = "poll" /\ check' = domains /\ topoll' = domains /\ rounds' = 1
    /\ UNCHANGED <<config, domains, order, presented, late, failed, raised, net>>

Poll(d) ==
    /\ pc = "poll" /\ d \in topoll /\ Post
    /\ authzrs' = [authzrs EXCEPT ![d] = server[d]]
    /\ topoll' = topoll \ {d}
    /\ UNCHANGED <<pc, config, domains, server, answered, deactivated, presented, check,
                   rounds, late, failed, raised>>

(* All of them are read: the round ends, and another begins unless none is *)
(* pending, it is late or it was the last.                                 *)
Pending == {d \in check : authzrs[d] = "pending"}
OneRoundMore == Pending = {} \/ late \/ rounds > MaxRetries
PollingOver == Pending = {} \/ late \/ rounds = MaxRetries

EndRound ==
    /\ pc = "poll" /\ topoll = {} /\ check # {}
    /\ failed' = (failed \/ \E d \in check : authzrs[d] = "invalid")
    /\ check' = Pending
    /\ IF PollingOver
       THEN pc' = "report" /\ UNCHANGED <<topoll, rounds>>
       ELSE topoll' = Pending /\ rounds' = rounds + 1 /\ UNCHANGED pc
    /\ UNCHANGED <<config, domains, order, presented, late, raised, net>>

(* The outcome, best_effort being allow_subset_of_names.                   *)
Report ==
    /\ pc = "report"
    /\ Leave(IF (failed /\ ~ subset) \/ check # {} \/ With("valid") = {}
             THEN "outcome" ELSE "no")
    /\ UNCHANGED <<config, domains, order, presented, polling, net>>

(* A call to the plugin or to the CA raises, or a signal comes.            *)
CallFails ==
    /\ \/ pc \in {"perform", "poll"} /\ attempt = 1 /\ UNCHANGED net
       \/ pc = "poll" /\ topoll # {} /\ PostFails
    /\ Leave("call")
    /\ UNCHANGED <<config, domains, order, presented, polling>>

(* _cleanup_challenges, called by the ExitHandler.                         *)
CleanupOnError ==
    /\ pc = "cleanup"
    /\ presented' = IF raised = "no" THEN presented ELSE {}
    /\ pc' = IF raised = "no" THEN "authorized" ELSE "raised"
    /\ UNCHANGED <<config, domains, order, polling, raised, net>>
CleanupChallenges ==
    /\ pc = "cleanup"
    /\ presented' = {}
    /\ pc' = IF raised = "no" THEN "authorized" ELSE "raised"
    /\ UNCHANGED <<config, domains, order, polling, raised, net>>

-----------------------------------------------------------------------------
(* handle_authorizations has returned the valid authorizations.  The       *)
(* deadline of the issuance is set.                                        *)
Authorized ==
    /\ pc = "authorized" /\ UNCHANGED net
    /\ IF subset /\ With("valid") # domains
       THEN RetryWith(With("valid"))
       ELSE /\ pc' = "finalize" /\ late' = FALSE
            /\ UNCHANGED <<config, domains, order, presented, check, topoll, rounds, failed,
                           raised>>

(* begin_finalization; the CA issues for what it has validated.            *)
BeginFinalization ==
    /\ pc = "finalize" /\ \A d \in domains : server[d] = "valid"
    /\ pc' = "issue" /\ Post
    /\ UNCHANGED <<config, domains, order, presented, polling, raised>>

(* poll_finalization: it sleeps and asks, until the CA has issued, says it *)
(* will not, or the deadline has passed.                                   *)
AwaitIssuance ==
    /\ pc = "issue"
    /\ pc' = (IF late THEN "failed" ELSE "ask")
    /\ UNCHANGED <<config, domains, order, presented, polling, raised, net>>

PollOrder ==
    /\ pc = "ask" /\ Post
    /\ pc' \in {"issue", "download", "failed"}
    /\ UNCHANGED <<config, domains, order, presented, polling, raised>>

DownloadCertificate ==
    /\ pc = "download" /\ Post /\ pc' = "issued"
    /\ UNCHANGED <<config, domains, order, presented, polling, raised>>

(* Any of the requests is sent again when its nonce was refused.           *)
Requesting ==
    \/ pc \in {"order", "reorder", "finalize", "ask", "download"}
    \/ pc \in {"read", "reread", "deactivate", "poll"} /\ topoll # {}
    \/ pc = "perform" /\ AllPresented /\ ~ Achalls \subseteq answered

SendAgain ==
    /\ Requesting /\ BadNonce
    /\ UNCHANGED <<pc, config, domains, order, presented, polling, raised>>

-----------------------------------------------------------------------------
(* The CA looks for the challenge it was told of.                          *)
Validate(d) ==
    /\ server[d] = "pending" /\ d \in answered
    /\ server' = [server EXCEPT ![d] = IF d \in presented THEN "valid" ELSE "invalid"]
    /\ UNCHANGED <<pc, config, domains, authzrs, answered, deactivated, presented, polling,
                   raised, net>>

Invalidate(d) ==
    /\ server[d] = "pending" /\ d \in answered
    /\ server' = [server EXCEPT ![d] = "invalid"]
    /\ UNCHANGED <<pc, config, domains, authzrs, answered, deactivated, presented, polling,
                   raised, net>>

(* Somebody deactivates an authorization of the account, or it is revoked. *)
Deactivate(d) ==
    /\ server[d] = "valid"
    /\ server' = [server EXCEPT ![d] = "deactivated"]
    /\ UNCHANGED <<pc, config, domains, authzrs, answered, deactivated, presented, polling,
                   raised, net>>

DeadlinePasses ==
    /\ pc \in {"poll", "finalize", "issue", "ask"} /\ ~ late
    /\ late' = TRUE
    /\ UNCHANGED <<pc, config, domains, order, presented, check, topoll, rounds, failed,
                   raised, net>>

Client ==
    \/ CreateOrder \/ StartDeactivating \/ Deactivated \/ ChooseChallenges
    \/ Refused \/ NotAuthorized
    \/ (\E d \in domains :
          \/ ReadAuthorization(d) \/ Perform(d) \/ AnswerChallenge(d) \/ AnswerFails(d)
          \/ Poll(d) \/ DeactivateAuthorization(d) \/ DeactivationFails(d))
    \/ StartPolling \/ EndRound \/ Report \/ CallFails \/ CleanupChallenges
    \/ Authorized \/ BeginFinalization \/ AwaitIssuance \/ PollOrder
    \/ DownloadCertificate \/ SendAgain

Server == \E d \in Domain : Validate(d) \/ Invalidate(d) \/ Deactivate(d)

Next == Client \/ Server \/ DeadlinePasses

Spec == Init /\ [][Next]_vars

(* The client goes on, and so does the clock; nothing is assumed of the CA.*)
FairSpec == Spec /\ WF_vars(Client) /\ WF_vars(DeadlinePasses)

-----------------------------------------------------------------------------
(* Types; and at least one domain is asked for.                            *)
TypeOK ==
    /\ pc \in {"order", "read", "deactivate", "reorder", "reread", "perform", "poll", "report",
               "cleanup", "authorized", "raised", "finalize", "issue", "ask", "download",
               "issued", "failed"}
    /\ {subset, dry_run, late, failed} \subseteq BOOLEAN
    /\ raised \in {"no", "outcome", "call"}
    /\ domains \subseteq Domain /\ domains # {}
    /\ server \in [Domain -> Status] /\ authzrs \in [Domain -> Status]
    /\ presented \subseteq Domain /\ answered \subseteq Domain /\ deactivated \subseteq Domain
    /\ check \subseteq domains /\ topoll \subseteq domains
    /\ pc = "poll" => topoll \subseteq check
    /\ rounds \in 0..MaxRetries
    /\ nonces \subseteq Nonce /\ sent \subseteq Nonce /\ attempt \in 1..2

(* As long as the CA may look for a challenge and the client waits for     *)
(* what it finds, the challenge is there.                                  *)
PresentedWhileChecked ==
    pc \in {"perform", "poll"} =>
        \A d \in answered : server[d] = "pending" => d \in presented

(* However the authorizations end, no challenge stays behind: not for the  *)
(* retry with fewer domains, nor for the certificate, nor after a failure. *)
NothingLeftBehind ==
    pc \notin {"perform", "poll", "report", "cleanup"} => presented = {}

(* The CA may say "pending" for ever and refuse what it likes: the client  *)
(* comes to an end.                                                        *)
ClientEnds == <>(pc \in {"issued", "failed"})
=============================================================================
