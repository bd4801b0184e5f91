-------------------------- MODULE AuthHandlerProofs --------------------------
(***************************************************************************)
(* Theorems about AuthHandler and AcmeClient, for any number of domains,   *)
(* rounds of polling and requests.                                         *)
(***************************************************************************)
EXTENDS AuthHandler, TLAPS

-----------------------------------------------------------------------------
(* The pool of nonces.  That it never has more than one is what makes      *)
(* FreshNonces inductive: then the pool is empty when one is taken.        *)
NetInv ==
    /\ nonces \subseteq Nonce /\ sent \subseteq Nonce /\ attempt \in 1..2
    /\ \A m, n \in nonces : m = n
    /\ FreshNonces

LEMMA NewNonceType == NewNonce({}) \in Nonce
BY NonceAssumption DEF NewNonce

LEMMA PoolEmptied == ASSUME NetInv, NEW n \in GetNonce PROVE n \in Nonce /\ Pop(n) = {}
BY NewNonceType DEF NetInv, GetNonce, Pop

LEMMA PostNet == NetInv /\ Post => NetInv'
<1> SUFFICES ASSUME NetInv, Post PROVE NetInv'
  OBVIOUS
<1> DEFINE new == NewNonce({})
<1>1. PICK n \in GetNonce :
        /\ nonces' = Pop(n) \cup {NewNonce(Pop(n))}
        /\ sent' = (sent \cup {n}) \ {NewNonce(Pop(n))}
        /\ attempt' = 1
  BY DEF Post
<1>2. n \in Nonce /\ Pop(n) = {}
  BY PoolEmptied
<1>3. nonces' = {new} /\ sent' = (sent \cup {n}) \ {new} /\ attempt' = 1
  BY <1>1, <1>2
<1>4. new \in Nonce
  BY NewNonceType
<1> HIDE DEF new
<1> QED
  BY <1>2, <1>3, <1>4 DEF NetInv, FreshNonces

LEMMA UsedNet ==
    ASSUME NetInv, NEW n \in GetNonce, Used(n), attempt' \in 1..2
    PROVE  NetInv'
<1>1. n \in Nonce /\ nonces' = {} /\ sent' = sent \cup {n}
  BY PoolEmptied DEF Used
<1> QED
  BY <1>1 DEF NetInv, FreshNonces

LEMMA RequestNet == NetInv /\ (Post \/ PostFails \/ BadNonce \/ UNCHANGED net) => NetInv'
<1> SUFFICES ASSUME NetInv PROVE Post \/ PostFails \/ BadNonce \/ UNCHANGED net => NetInv'
  OBVIOUS
<1>1. PostFails => NetInv'
  <2>1. CASE attempt' = 1 /\ UNCHANGED <<nonces, sent>>
    BY <2>1 DEF NetInv, FreshNonces
  <2>2. ASSUME attempt' = 1, NEW n \in GetNonce, Used(n) PROVE NetInv'
    BY <2>2, UsedNet
  <2> QED
    BY <2>1, <2>2 DEF PostFails
<1>2. BadNonce => NetInv'
  BY UsedNet DEF BadNonce
<1>3. UNCHANGED net => NetInv'
  BY DEF net, NetInv, FreshNonces
<1> QED
  BY <1>1, <1>2, <1>3, PostNet

-----------------------------------------------------------------------------
(* What was answered is presented while the client waits, and nothing is   *)
(* answered before; a domain is left when handle_authorizations returns.   *)
AnsweredInv ==
    /\ pc \in {"perform", "poll"} => answered \subseteq presented
    /\ pc \in {"read", "deactivate", "reorder", "reread"} => answered = {}

ValidInv ==
    pc = "authorized" \/ (pc = "cleanup" /\ raised = "no") => With("valid") # {}

IInv == TypeOK /\ NetInv /\ AnsweredInv /\ NothingLeftBehind /\ ValidInv

LEMMA WithType == ASSUME NEW status PROVE With(status) \subseteq domains
BY DEF With

LEMMA InitInv == Init => IInv
<1> SUFFICES ASSUME Init PROVE IInv
  OBVIOUS
<1>1. authzrs \in [Domain -> Status] /\ server \in [Domain -> Status]
  BY DEF Init, Status
<1>2. domains = Domain /\ domains # {} /\ rounds \in 0..MaxRetries
  BY DomainAssumption, RetriesAssumption DEF Init
<1>3. /\ pc = "order" /\ raised = "no" /\ {subset, dry_run, late, failed} \subseteq BOOLEAN
      /\ presented = {} /\ answered = {} /\ deactivated = {} /\ check = {} /\ topoll = {}
  BY DEF Init
<1>4. NetInv
  BY DEF Init, NetInit, NetInv, FreshNonces
<1>5. TypeOK
  BY <1>1, <1>2, <1>3, <1>4 DEF TypeOK, NetInv
<1> QED
  BY <1>3, <1>4, <1>5 DEF IInv, AnsweredInv, NothingLeftBehind, ValidInv

(* A retry with fewer domains, and a failure, keep the invariant.          *)
LEMMA RetryInv ==
    ASSUME IInv, NEW s \in SUBSET domains, s # {}, RetryWith(s), presented = {}, NetInv'
    PROVE  IInv'
<1>1. /\ pc' = "order" /\ domains' = s /\ raised' = "no" /\ check' = {} /\ topoll' = {}
      /\ rounds' = 0 /\ late' = FALSE /\ failed' = FALSE
      /\ UNCHANGED <<subset, dry_run, server, authzrs, answered, deactivated, presented>>
  BY DEF RetryWith, config, order
<1>2. domains' \subseteq Domain /\ domains' # {} /\ rounds' \in 0..MaxRetries
  BY <1>1, RetriesAssumption DEF IInv, TypeOK
<1>3. TypeOK'
  BY <1>1, <1>2 DEF IInv, TypeOK, NetInv
<1> QED
  BY <1>1, <1>3 DEF IInv, AnsweredInv, NothingLeftBehind, ValidInv

LEMMA FailInv ==
    ASSUME IInv, Fail, presented = {}, NetInv'
    PROVE  IInv'
BY DEF Fail, IInv, TypeOK, NetInv, AnsweredInv, NothingLeftBehind, ValidInv, With, config, order,
       polling

LEMMA NextInv == IInv /\ [Next]_vars => IInv'
<1> SUFFICES ASSUME IInv, [Next]_vars PROVE IInv'
  OBVIOUS
<1> USE RetriesAssumption DEF Status
<1>1. TypeOK /\ NetInv /\ AnsweredInv /\ NothingLeftBehind /\ ValidInv
  BY DEF IInv
<1>2. CASE CreateOrder
  <2>1. NetInv'
    BY <1>1, <1>2, RequestNet DEF CreateOrder
  <2>2. server' \in [Domain -> Status] /\ authzrs' \in [Domain -> Status]
    BY <1>2 DEF CreateOrder
  <2> QED
    BY <1>1, <1>2, <2>1, <2>2
       DEF CreateOrder, IInv, TypeOK, NetInv, AnsweredInv, NothingLeftBehind, ValidInv, config
<1>3. ASSUME NEW d \in domains, ReadAuthorization(d) PROVE IInv'
  <2>1. NetInv'
    BY <1>1, <1>3, RequestNet DEF ReadAuthorization
  <2> QED
    BY <1>1, <1>3, <2>1
       DEF ReadAuthorization, IInv, TypeOK, NetInv, AnsweredInv, NothingLeftBehind, ValidInv,
           config
<1>4. CASE StartDeactivating
  <2>1. NetInv'
    BY <1>1, <1>4, RequestNet DEF StartDeactivating
  <2> QED
    BY <1>1, <1>4, <2>1, WithType
       DEF StartDeactivating, IInv, TypeOK, NetInv, AnsweredInv, NothingLeftBehind, ValidInv,
           config, order
<1>5. ASSUME NEW d \in domains, DeactivateAuthorization(d) PROVE IInv'
  <2>1. NetInv'
    BY <1>1, <1>5, RequestNet DEF DeactivateAuthorization
  <2>2. server' \in [Domain -> Status] /\ deactivated' \subseteq Domain
    BY <1>1, <1>5 DEF DeactivateAuthorization, TypeOK
  <2> QED
    BY <1>1, <1>5, <2>1, <2>2
       DEF DeactivateAuthorization, IInv, TypeOK, NetInv, AnsweredInv, NothingLeftBehind,
           ValidInv, config
<1>6. ASSUME NEW d \in domains, DeactivationFails(d) PROVE IInv'
  <2>1. NetInv'
    BY <1>1, <1>6, RequestNet DEF DeactivationFails
  <2>2. server' \in [Domain -> Status]
    BY <1>1, <1>6 DEF DeactivationFails, TypeOK
  <2> QED
    BY <1>1, <1>6, <2>1, <2>2
       DEF DeactivationFails, IInv, TypeOK, NetInv, AnsweredInv, NothingLeftBehind, ValidInv,
           config, polling
<1>7. CASE Deactivated
  <2>1. NetInv'
    BY <1>1, <1>7, RequestNet DEF Deactivated
  <2> QED
    BY <1>1, <1>7, <2>1
       DEF Deactivated, IInv, TypeOK, NetInv, AnsweredInv, NothingLeftBehind, ValidInv, config,
           order, polling
<1>8. CASE ChooseChallenges
  <2>1. NetInv'
    BY <1>1, <1>8, RequestNet DEF ChooseChallenges
  <2>2. With("valid")' = With("valid") /\ (Achalls = {} => With("valid") # {})
    BY <1>1, <1>8 DEF ChooseChallenges, With, Achalls, order, TypeOK
  <2> QED
    BY <1>1, <1>8, <2>1, <2>2
       DEF ChooseChallenges, IInv, TypeOK, NetInv, AnsweredInv, NothingLeftBehind, ValidInv,
           config, order, polling
<1>9. CASE Refused
  <2>1. NetInv' /\ presented = {}
    BY <1>1, <1>9, RequestNet DEF Refused, NothingLeftBehind
  <2>2. ASSUME NEW s \in SUBSET domains, MayRetry(s), RetryWith(s) PROVE IInv'
    BY <2>1, <2>2, RetryInv DEF MayRetry
  <2> QED
    BY <1>9, <2>1, <2>2, FailInv DEF Refused
<1>10. CASE NotAuthorized
  <2>1. NetInv' /\ presented = {}
    BY <1>1, <1>10, RequestNet DEF NotAuthorized, NothingLeftBehind
  <2> QED
    BY <1>10, <2>1, FailInv DEF NotAuthorized
<1>11. ASSUME NEW d \in domains, Perform(d) PROVE IInv'
  <2>1. NetInv'
    BY <1>1, <1>11, RequestNet DEF Perform
  <2> QED
    BY <1>1, <1>11, <2>1
       DEF Perform, IInv, TypeOK, NetInv, AnsweredInv, NothingLeftBehind, ValidInv, config, order,
           polling
<1>12. ASSUME NEW d \in domains, AnswerChallenge(d) PROVE IInv'
  <2>1. NetInv'
    BY <1>1, <1>12, RequestNet DEF AnswerChallenge
  <2>2. d \in presented
    BY <1>12 DEF AnswerChallenge, AllPresented
  <2> QED
    BY <1>1, <1>12, <2>1, <2>2
       DEF AnswerChallenge, IInv, TypeOK, NetInv, AnsweredInv, NothingLeftBehind, ValidInv,
           config, polling
<1>13. ASSUME NEW d \in domains, AnswerFails(d) PROVE IInv'
  <2>1. NetInv'
    BY <1>1, <1>13, RequestNet DEF AnswerFails
  <2> QED
    BY <1>1, <1>13, <2>1
       DEF AnswerFails, Leave, IInv, TypeOK, NetInv, AnsweredInv, NothingLeftBehind, ValidInv,
           config, polling
<1>14. CASE StartPolling
  <2>1. NetInv'
    BY <1>1, <1>14, RequestNet DEF StartPolling
  <2> QED
    BY <1>1, <1>14, <2>1
       DEF StartPolling, IInv, TypeOK, NetInv, AnsweredInv, NothingLeftBehind, ValidInv, config,
           order
<1>15. ASSUME NEW d \in domains, Poll(d) PROVE IInv'
  <2>1. NetInv'
    BY <1>1, <1>15, RequestNet DEF Poll
  <2> QED
    BY <1>1, <1>15, <2>1
       DEF Poll, IInv, TypeOK, NetInv, AnsweredInv, NothingLeftBehind, ValidInv, config
<1>16. CASE EndRound
  <2>1. NetInv'
    BY <1>1, <1>16, RequestNet DEF EndRound
  <2>2. Pending \subseteq domains /\ check' = Pending
    BY <1>1, <1>16 DEF EndRound, Pending, TypeOK
  <2>3. /\ pc' \in {"poll", "report"} /\ topoll' \subseteq domains
        /\ pc' = "poll" => topoll' = check'
        /\ rounds' \in 0..MaxRetries /\ failed' \in BOOLEAN
    BY <1>1, <1>16, <2>2 DEF EndRound, PollingOver, TypeOK
  <2> QED
    BY <1>1, <1>16, <2>1, <2>2, <2>3
       DEF EndRound, IInv, TypeOK, NetInv, AnsweredInv, NothingLeftBehind, ValidInv, config,
           order
<1>17. CASE Report
  <2>1. NetInv'
    BY <1>1, <1>17, RequestNet DEF Report
  <2>2. raised' \in {"no", "outcome"} /\ (raised' = "no" => With("valid") # {})
    BY <1>17 DEF Report, Leave
  <2>3. With("valid")' = With("valid")
    BY <1>17 DEF Report, With, order
  <2> QED
    BY <1>1, <1>17, <2>1, <2>2, <2>3
       DEF Report, Leave, IInv, TypeOK, NetInv, AnsweredInv, NothingLeftBehind, ValidInv, config,
           order, polling
<1>18. CASE CallFails
  <2>1. NetInv'
    BY <1>1, <1>18, RequestNet DEF CallFails
  <2> QED
    BY <1>1, <1>18, <2>1
       DEF CallFails, Leave, IInv, TypeOK, NetInv, AnsweredInv, NothingLeftBehind, ValidInv,
           config, order, polling
<1>19. CASE CleanupChallenges
  <2>1. NetInv'
    BY <1>1, <1>19, RequestNet DEF CleanupChallenges
  <2>2. With("valid")' = With("valid")
    BY <1>19 DEF CleanupChallenges, With, order
  <2> QED
    BY <1>1, <1>19, <2>1, <2>2
       DEF CleanupChallenges, IInv, TypeOK, NetInv, AnsweredInv, NothingLeftBehind, ValidInv,
           config, order, polling
<1>20. CASE Authorized
  <2>1. NetInv' /\ presented = {} /\ With("valid") # {}
    BY <1>1, <1>20, RequestNet DEF Authorized, NothingLeftBehind, ValidInv
  <2>2. CASE subset /\ With("valid") # domains
    BY <1>20, <2>1, <2>2, WithType, RetryInv DEF Authorized
  <2>3. CASE ~ (subset /\ With("valid") # domains)
    BY <1>1, <1>20, <2>1, <2>3
       DEF Authorized, IInv, TypeOK, NetInv, AnsweredInv, NothingLeftBehind, ValidInv, config,
           order
  <2> QED
    BY <2>2, <2>3
<1>21. CASE BeginFinalization \/ AwaitIssuance \/ PollOrder \/ DownloadCertificate
  <2>1. NetInv'
    BY <1>1, <1>21, RequestNet
       DEF BeginFinalization, AwaitIssuance, PollOrder, DownloadCertificate
  <2>2. /\ pc \in {"finalize", "issue", "ask", "download"}
        /\ pc' \in {"issue", "ask", "download", "issued", "failed"}
        /\ UNCHANGED <<config, domains, order, presented, polling, raised>>
    BY <1>21 DEF BeginFinalization, AwaitIssuance, PollOrder, DownloadCertificate
  <2> QED
    BY <1>1, <2>1, <2>2
       DEF IInv, TypeOK, NetInv, AnsweredInv, NothingLeftBehind, ValidInv, config, order, polling
<1>22. CASE SendAgain
  <2>1. NetInv'
    BY <1>1, <1>22, RequestNet DEF SendAgain
  <2>2. UNCHANGED <<pc, config, domains, order, presented, polling, raised>>
    BY <1>22 DEF SendAgain
  <2> QED
    BY <1>1, <2>1, <2>2
       DEF IInv, TypeOK, NetInv, AnsweredInv, NothingLeftBehind, ValidInv, With, config, order,
           polling
<1>23. ASSUME NEW d \in Domain, Validate(d) \/ Invalidate(d) \/ Deactivate(d) PROVE IInv'
  <2>1. NetInv'
    BY <1>1, <1>23, RequestNet DEF Validate, Invalidate, Deactivate
  <2>2. /\ server' \in [Domain -> Status]
        /\ UNCHANGED <<pc, config, domains, authzrs, answered, deactivated, presented, polling,
                       raised>>
    BY <1>1, <1>23 DEF Validate, Invalidate, Deactivate, TypeOK
  <2> QED
    BY <1>1, <2>1, <2>2
       DEF IInv, TypeOK, NetInv, AnsweredInv, NothingLeftBehind, ValidInv, With, config, polling
<1>24. CASE DeadlinePasses
  <2>1. NetInv'
    BY <1>1, <1>24, RequestNet DEF DeadlinePasses
  <2> QED
    BY <1>1, <1>24, <2>1
       DEF DeadlinePasses, IInv, TypeOK, NetInv, AnsweredInv, NothingLeftBehind, ValidInv, config,
           order
<1>25. CASE UNCHANGED vars
  <2>1. NetInv'
    BY <1>1, <1>25, RequestNet DEF vars
  <2> QED
    BY <1>1, <1>25, <2>1
       DEF vars, IInv, TypeOK, NetInv, AnsweredInv, NothingLeftBehind, ValidInv, With, config,
           order, polling
<1> QED
  BY <1>2, <1>3, <1>4, <1>5, <1>6, <1>7, <1>8, <1>9, <1>10, <1>11, <1>12, <1>13, <1>14, <1>15,
     <1>16, <1>17, <1>18, <1>19, <1>20, <1>21, <1>22, <1>23, <1>24, <1>25
     DEF Next, Client, Server

-----------------------------------------------------------------------------
(* The variables have their types, and no order is made for no domain: the *)
(* retries of obtain_certificate keep at least one.                        *)
THEOREM TypeCorrect == Spec => []TypeOK
<1> QED
  BY InitInv, NextInv, PTL DEF Spec, IInv

(* As long as the CA may look for a challenge and the client waits for the *)
(* outcome, the plugin presents it.                                        *)
THEOREM ChallengesArePresented == Spec => []PresentedWhileChecked
<1>1. IInv => PresentedWhileChecked
  BY DEF IInv, AnsweredInv, PresentedWhileChecked
<1> QED
  BY <1>1, InitInv, NextInv, PTL DEF Spec

(* However handle_authorizations ends, no challenge stays behind.          *)
THEOREM ChallengesAreRemoved == Spec => []NothingLeftBehind
<1> QED
  BY InitInv, NextInv, PTL DEF Spec, IInv

(* A nonce is sent once, and a second attempt made with a new one.         *)
THEOREM NoncesAreFresh == Spec => []FreshNonces
<1>1. IInv => FreshNonces
  BY DEF IInv, NetInv
<1> QED
  BY <1>1, InitInv, NextInv, PTL DEF Spec
=============================================================================
