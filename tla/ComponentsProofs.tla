-------------------------- MODULE ComponentsProofs --------------------------
(***************************************************************************)
(* What the components of MCComponents keep, for every value of their      *)
(* constants.  A component's invariant is preserved by its own steps, and  *)
(* by a step of any other because that leaves its variables alone.         *)
(***************************************************************************)
EXTENDS MCComponents, PartProofs, ServiceProofs

(* A component's step leaves the others alone. *)
LEMMA RestStays == GroupNext => Rest
  BY DEF GroupNext

----------------------------------------
(* The books balance. *)

(* Any step of the group is a step of the portfolio or leaves it alone. *)
LEMMA PortfolioAlone ==
    ASSUME [GroupNext]_groupVars
    PROVE  PortfolioNext \/ UNCHANGED pfVars
  <1>1. CASE UNCHANGED groupVars BY <1>1 DEF groupVars
  <1>2. CASE GroupNext /\ part = "portfolio" BY <1>2 DEF GroupNext
  <1>3. CASE GroupNext /\ part # "portfolio" BY <1>3, RestStays DEF Rest
  <1> QED BY <1>1, <1>2, <1>3

(* The book balances after any sequence of trades, in whatever order lots are bought, sold
   and marked and whatever the tax method: MCComponents' BookBalances. *)
THEOREM BooksBalance ==
    ASSUME SalesCoverCosts
    PROVE  GroupSpec => []BookBalances
  <1>1. GroupInit => PortfolioInv BY PortfolioStarts DEF GroupInit
  <1>2. PortfolioInv /\ [GroupNext]_groupVars => PortfolioInv' BY PortfolioAlone, PortfolioSteps
  <1>3. PortfolioInv => BookBalances BY PortfolioBalances DEF BookBalances
  <1> QED BY <1>1, <1>2, <1>3, PTL DEF GroupSpec

----------------------------------------
(* What stands for a user. *)

(* A step of the group keeps the invariant of the sessions. *)
LEMMA SessionKept ==
    ASSUME SessionInv, [GroupNext]_groupVars
    PROVE  SessionInv'
  <1>1. [SessionNext]_seVars
   <2>1. CASE UNCHANGED groupVars BY <2>1 DEF groupVars
   <2>2. CASE GroupNext /\ part = "sessions" BY <2>2 DEF GroupNext
   <2>3. CASE GroupNext /\ part # "sessions" BY <2>3, RestStays DEF Rest
   <2> QED BY <2>1, <2>2, <2>3
  <1> QED BY <1>1, SessionSteps

(* A step of the group keeps the invariant of the refresh tokens. *)
LEMMA TokenKept ==
    ASSUME TokenInv, [GroupNext]_groupVars
    PROVE  TokenInv'
  <1>1. [TokenNext]_rtVars
   <2>1. CASE UNCHANGED groupVars BY <2>1 DEF groupVars
   <2>2. CASE GroupNext /\ part = "tokens" BY <2>2 DEF GroupNext
   <2>3. CASE GroupNext /\ part # "tokens" BY <2>3, RestStays DEF Rest
   <2> QED BY <2>1, <2>2, <2>3
  <1> QED BY <1>1, TokenSteps

(* A step of the group keeps the invariant of the second factor. *)
LEMMA MfaKept ==
    ASSUME MfaInv, [GroupNext]_groupVars
    PROVE  MfaInv'
  <1>1. [MfaNext]_crVars
   <2>1. CASE UNCHANGED groupVars BY <2>1 DEF groupVars
   <2>2. CASE GroupNext /\ part = "mfa" BY <2>2 DEF GroupNext
   <2>3. CASE GroupNext /\ part # "mfa" BY <2>3, RestStays DEF Rest
   <2> QED BY <2>1, <2>2, <2>3
  <1> QED BY <1>1, MfaSteps

(* A step of the group keeps the invariant of the audit log. *)
LEMMA AuditKept ==
    ASSUME AuditInv, [GroupNext]_groupVars
    PROVE  AuditInv'
  <1>1. [AuditNext]_auVars
   <2>1. CASE UNCHANGED groupVars BY <2>1 DEF groupVars
   <2>2. CASE GroupNext /\ part = "audit" BY <2>2 DEF GroupNext
   <2>3. CASE GroupNext /\ part # "audit" BY <2>3, RestStays DEF Rest
   <2> QED BY <2>1, <2>2, <2>3
  <1> QED BY <1>1, AuditSteps

(* A step of the group keeps the invariant of the secrets. *)
LEMMA SecretKept ==
    ASSUME SecretInv, [GroupNext]_groupVars
    PROVE  SecretInv'
  <1>1. [SecretNext]_skVars
   <2>1. CASE UNCHANGED groupVars BY <2>1 DEF groupVars
   <2>2. CASE GroupNext /\ part = "secrets" BY <2>2 DEF GroupNext
   <2>3. CASE GroupNext /\ part # "secrets" BY <2>3, RestStays DEF Rest
   <2> QED BY <2>1, <2>2, <2>3
  <1> QED BY <1>1, SecretSteps

(* What was used up or withdrawn stays so, with any number of sessions, tokens, codes and
   events and whatever the interleaving of their requests: MCComponents' SpentStaysSpent. *)
THEOREM SpentStays == GroupSpec => []SpentStaysSpent
  <1> DEFINE AccessInv == SessionInv /\ TokenInv /\ MfaInv /\ AuditInv
  <1>1. GroupInit => AccessInv BY SessionStarts, TokenStarts, MfaStarts, AuditStarts DEF GroupInit
  <1>2. AccessInv /\ [GroupNext]_groupVars => AccessInv'
    BY SessionKept, TokenKept, MfaKept, AuditKept
  <1>3. AccessInv => SpentStaysSpent BY AuditShows DEF SessionInv, TokenInv, MfaInv, SpentStaysSpent
  <1> QED BY <1>1, <1>2, <1>3, PTL DEF GroupSpec

(* A secret is readable and as it was last written, through rotations of the key that
   writers overtake: SecretsSurviveRotation (secrets.py). *)
THEOREM SecretsSurvive == GroupSpec => []SecretsSurviveRotation
  <1>1. GroupInit => SecretInv BY SecretStarts DEF GroupInit
  <1>2. SecretInv /\ [GroupNext]_groupVars => SecretInv' BY SecretKept
  <1>3. SecretInv => SecretsSurviveRotation BY DEF SecretInv
  <1> QED BY <1>1, <1>2, <1>3, PTL DEF GroupSpec


----------------------------------------
(* What the group's steps follow and what broker and engine agree on. *)

(* A step of the group keeps the invariant of the strategy versions and never revives a
   version that did not serve. *)
LEMMA VersionKept ==
    ASSUME VersionInv, [GroupNext]_groupVars
    PROVE  /\ VersionInv'
           /\ \A i \in VersionIds : veRows[i].status = "retired" /\ veRows'[i].status = "active" => veRows[i].last > 0
  <1>1. [VersionNext]_veVars
   <2>1. CASE UNCHANGED groupVars BY <2>1 DEF groupVars
   <2>2. CASE GroupNext /\ part = "versions" BY <2>2 DEF GroupNext
   <2>3. CASE GroupNext /\ part # "versions" BY <2>3, RestStays DEF Rest
   <2> QED BY <2>1, <2>2, <2>3
  <1> QED BY <1>1, VersionSteps

(* A step of the group keeps the invariant of the gate and approves nothing after a loss. *)
LEMMA GateKept ==
    ASSUME GateInv, [GroupNext]_groupVars
    PROVE  GateInv' /\ (gaLoss => gaApproved' = gaApproved)
  <1>1. [GateNext]_gaVars
   <2>1. CASE UNCHANGED groupVars BY <2>1 DEF groupVars
   <2>2. CASE GroupNext /\ part = "gate" BY <2>2 DEF GroupNext
   <2>3. CASE GroupNext /\ part # "gate" BY <2>3, RestStays DEF Rest
   <2> QED BY <2>1, <2>2, <2>3
  <1> QED BY <1>1, GateSteps

(* A step of the group keeps the invariant of the broker client. *)
LEMMA BrokerKept ==
    ASSUME BrokerInv, [GroupNext]_groupVars
    PROVE  BrokerInv'
  <1>1. [BrokerNext]_bhVars
   <2>1. CASE UNCHANGED groupVars BY <2>1 DEF groupVars
   <2>2. CASE GroupNext /\ part = "broker" BY <2>2 DEF GroupNext
   <2>3. CASE GroupNext /\ part # "broker" BY <2>3, RestStays DEF Rest
   <2> QED BY <2>1, <2>2, <2>3
  <1> QED BY <1>1, BrokerSteps

(* A step of the group keeps the invariant of the paper broker. *)
LEMMA PaperKept ==
    ASSUME PaperInv, [GroupNext]_groupVars
    PROVE  PaperInv'
  <1>1. [PaperNext]_pbVars
   <2>1. CASE UNCHANGED groupVars BY <2>1 DEF groupVars
   <2>2. CASE GroupNext /\ part = "paper" BY <2>2 DEF GroupNext
   <2>3. CASE GroupNext /\ part # "paper" BY <2>3, RestStays DEF Rest
   <2> QED BY <2>1, <2>2, <2>3
  <1> QED BY <1>1, PaperSteps

(* A step of the group sells the lots the tax method names. *)
LEMMA SaleInGroup ==
    ASSUME BookSound, [GroupNext]_groupVars
    PROVE  BookSound' /\ SalesStep
  <1>1. PortfolioNext \/ UNCHANGED pfVars BY PortfolioAlone
  <1> QED BY <1>1, BookStaysSound, SaleTakesFirst DEF SalesStep

(* What a step does follows from what happened before: sales take the lots their tax method
   names, nothing is approved once a loss was reported, and a rollback goes to a version that
   served: MCComponents' StepsFollowHistory. *)
THEOREM StepsFollow == GroupSpec => StepsFollowHistory
  <1> DEFINE Inv == BookSound /\ GateInv /\ VersionInv
             NoneAfterLoss == gaLoss => gaApproved' = gaApproved
             ServedBefore == \A i \in VersionIds :
                veRows[i].status = "retired" /\ veRows'[i].status = "active" => veRows[i].last > 0
  <1>1. GroupInit => Inv
    BY PortfolioStarts, GateStarts, VersionStarts DEF GroupInit, PortfolioInv, BookSound
  <1>2. Inv /\ [GroupNext]_groupVars => Inv' BY SaleInGroup, GateKept, VersionKept
  <1>3. Inv /\ [GroupNext]_groupVars => [SalesStep]_pfVars /\ [NoneAfterLoss]_gaVars /\ [ServedBefore]_veVars
    BY SaleInGroup, GateKept, VersionKept
  <1>4. GroupSpec => [][SalesStep]_pfVars /\ [][NoneAfterLoss]_gaVars /\ [][ServedBefore]_veVars
    BY <1>1, <1>2, <1>3, PTL DEF GroupSpec
  <1> QED
    BY <1>4 DEF StepsFollowHistory, SalesFollowMethod, NothingAfterLoss, RollbackToServed, SalesStep

(* Engine and broker agree about an order, however often the client's POST was repeated and
   whatever was lost in between, and a paper order has one outcome: MCComponents' BrokerAgrees. *)
THEOREM BrokersAgree == GroupSpec => []BrokerAgrees
  <1>1. GroupInit => BrokerInv /\ PaperInv BY BrokerStarts, PaperStarts DEF GroupInit
  <1>2. BrokerInv /\ PaperInv /\ [GroupNext]_groupVars => BrokerInv' /\ PaperInv'
    BY BrokerKept, PaperKept
  <1>3. BrokerInv /\ PaperInv => BrokerAgrees BY BrokerShows DEF PaperInv, BrokerAgrees
  <1> QED BY <1>1, <1>2, <1>3, PTL DEF GroupSpec
----------------------------------------
(* Whoever acts is who the credential was issued for. *)

(* A step of the group keeps the invariant of the API keys. *)
LEMMA KeyKept ==
    ASSUME KeyInv, [GroupNext]_groupVars
    PROVE  KeyInv'
  <1>1. [KeyNext]_akVars
   <2>1. CASE UNCHANGED groupVars BY <2>1 DEF groupVars
   <2>2. CASE GroupNext /\ part = "keys" BY <2>2 DEF GroupNext
   <2>3. CASE GroupNext /\ part # "keys" BY <2>3, RestStays DEF Rest
   <2> QED BY <2>1, <2>2, <2>3
  <1> QED BY <1>1, KeySteps

(* A step of the group keeps the invariant of the logins with other providers. *)
LEMMA FlowKept ==
    ASSUME FlowInv, [GroupNext]_groupVars
    PROVE  FlowInv'
  <1>1. [FlowNext]_ofVars
   <2>1. CASE UNCHANGED groupVars BY <2>1 DEF groupVars
   <2>2. CASE GroupNext /\ part = "flow" BY <2>2 DEF GroupNext
   <2>3. CASE GroupNext /\ part # "flow" BY <2>3, RestStays DEF Rest
   <2> QED BY <2>1, <2>2, <2>3
  <1> QED BY <1>1, FlowSteps

(* A step of the group keeps the invariant of the accounts. *)
LEMMA AccountKept ==
    ASSUME AccountInv, [GroupNext]_groupVars
    PROVE  AccountInv'
  <1>1. [AccountNext]_acVars
   <2>1. CASE UNCHANGED groupVars BY <2>1 DEF groupVars
   <2>2. CASE GroupNext /\ part = "accounts" BY <2>2 DEF GroupNext
   <2>3. CASE GroupNext /\ part # "accounts" BY <2>3, RestStays DEF Rest
   <2> QED BY <2>1, <2>2, <2>3
  <1> QED BY <1>1, AccountSteps

(* A step of the group keeps the invariant of the sockets and their rooms. *)
LEMMA HandshakeKept ==
    ASSUME HandshakeInv, [GroupNext]_groupVars
    PROVE  HandshakeInv'
  <1>1. [HandshakeNext]_hsVars
   <2>1. CASE UNCHANGED groupVars BY <2>1 DEF groupVars
   <2>2. CASE GroupNext /\ part = "handshake" BY <2>2 DEF GroupNext
   <2>3. CASE GroupNext /\ part # "handshake" BY <2>3, RestStays DEF Rest
   <2> QED BY <2>1, <2>2, <2>3
  <1> QED BY <1>1, HandshakeSteps

(* A step of the group keeps the invariant of the topics of a user. *)
LEMMA TopicsKept ==
    ASSUME TopicsInv, [GroupNext]_groupVars
    PROVE  TopicsInv'
  <1>1. [TopicsNext]_utVars
   <2>1. CASE UNCHANGED groupVars BY <2>1 DEF groupVars
   <2>2. CASE GroupNext /\ part = "topics" BY <2>2 DEF GroupNext
   <2>3. CASE GroupNext /\ part # "topics" BY <2>3, RestStays DEF Rest
   <2> QED BY <2>1, <2>2, <2>3
  <1> QED BY <1>1, TopicsSteps

(* One row per identity and tokens for its owner only, logins end in the browser that began
   them, an API key, an OAuth identity and an id token act for their owner, and sockets are in
   no room and told of no topic that is not their user's: MCComponents' CredentialsActForOwner. *)
THEOREM CredentialsActTheirOwners == GroupSpec => []CredentialsActForOwner
  <1> DEFINE OwnerInv == KeyInv /\ FlowInv /\ AccountInv /\ HandshakeInv /\ TopicsInv
  <1>1. GroupInit => OwnerInv
    BY KeyStarts, FlowStarts, AccountStarts, HandshakeStarts, TopicsStart DEF GroupInit
  <1>2. OwnerInv /\ [GroupNext]_groupVars => OwnerInv'
    BY KeyKept, FlowKept, AccountKept, HandshakeKept, TopicsKept
  <1>3. OwnerInv => CredentialsActForOwner
    BY KeyServes, FlowObtains, AccountsOwned, HandshakeGrants, TopicsStay DEF CredentialsActForOwner
  <1> QED BY <1>1, <1>2, <1>3, PTL DEF GroupSpec
----------------------------------------
(* The legal duties. *)

(* A step of the group keeps the invariant of the deletions. *)
LEMMA ErasureKept ==
    ASSUME PurgeInv, [GroupNext]_groupVars
    PROVE  PurgeInv'
  <1>1. [ErasureNext]_erVars
   <2>1. CASE UNCHANGED groupVars BY <2>1 DEF groupVars
   <2>2. CASE GroupNext /\ part = "erasure" BY <2>2 DEF GroupNext
   <2>3. CASE GroupNext /\ part # "erasure" BY <2>3, RestStays DEF Rest
   <2> QED BY <2>1, <2>2, <2>3
  <1> QED BY <1>1, ErasureSteps

(* A step of the group keeps the invariant of the legal documents. *)
LEMMA LegalKept ==
    ASSUME LegalInv, [GroupNext]_groupVars
    PROVE  LegalInv'
  <1>1. [LegalNext]_lgVars
   <2>1. CASE UNCHANGED groupVars BY <2>1 DEF groupVars
   <2>2. CASE GroupNext /\ part = "legal" BY <2>2 DEF GroupNext
   <2>3. CASE GroupNext /\ part # "legal" BY <2>3, RestStays DEF Rest
   <2> QED BY <2>1, <2>2, <2>3
  <1> QED BY <1>1, LegalSteps

(* A step of the group keeps the invariant of the scores. *)
LEMMA ScoreKept ==
    ASSUME ScoreInv, [GroupNext]_groupVars
    PROVE  ScoreInv'
  <1>1. [ScoreNext]_sgVars
   <2>1. CASE UNCHANGED groupVars BY <2>1 DEF groupVars
   <2>2. CASE GroupNext /\ part = "scores" BY <2>2 DEF GroupNext
   <2>3. CASE GroupNext /\ part # "scores" BY <2>3, RestStays DEF Rest
   <2> QED BY <2>1, <2>2, <2>3
  <1> QED BY <1>1, ScoreSteps

(* Only what is due is purged, a cancellation stands and a purge is whole and final, with what
   goes in its cascades; only users who accepted the current documents are served and accepting
   admits them, and scores are shown within the settings of their gate, for any documents,
   users, symbols and requests: MCComponents' LegalDutiesKept. *)
THEOREM LegalDutiesStand == GroupSpec => []LegalDutiesKept
  <1> DEFINE DutyInv == PurgeInv /\ LegalInv /\ ScoreInv
  <1>1. GroupInit => DutyInv BY PurgeStarts, LegalStarts, ScoreStarts DEF GroupInit
  <1>2. DutyInv /\ [GroupNext]_groupVars => DutyInv' BY ErasureKept, LegalKept, ScoreKept
  <1>3. DutyInv => LegalDutiesKept
    BY AcceptedIsAdmitted DEF PurgeInv, ErasureInv, LegalInv, ScoreInv, LegalDutiesKept
  <1> QED BY <1>1, <1>2, <1>3, PTL DEF GroupSpec

----------------------------------------
(* What everything runs on. *)

(* A step of the group keeps the invariant of the event bus. *)
LEMMA BusKept ==
    ASSUME BusInv, [GroupNext]_groupVars
    PROVE  BusInv'
  <1>1. [BusNext]_busVars
   <2>1. CASE UNCHANGED groupVars BY <2>1 DEF groupVars
   <2>2. CASE GroupNext /\ part = "bus" BY <2>2 DEF GroupNext
   <2>3. CASE GroupNext /\ part # "bus" BY <2>3, RestStays DEF Rest
   <2> QED BY <2>1, <2>2, <2>3
  <1> QED BY <1>1, BusSteps

(* A step of the group keeps the invariant of the process's life. *)
LEMMA LifeKept ==
    ASSUME LifeInv, [GroupNext]_groupVars
    PROVE  LifeInv'
  <1>1. [LifespanNext]_lsVars
   <2>1. CASE UNCHANGED groupVars BY <2>1 DEF groupVars
   <2>2. CASE GroupNext /\ part = "lifespan" BY <2>2 DEF GroupNext
   <2>3. CASE GroupNext /\ part # "lifespan" BY <2>3, RestStays DEF Rest
   <2> QED BY <2>1, <2>2, <2>3
  <1> QED BY <1>1, LifeSteps

(* An event reaches every handler that stood throughout its publication, the log is the
   latest events, the callers of get_event_bus share one bus, and the process opens and closes
   what it uses in order, its engine missing only where that was noticed: EventsDelivered
   (bus.py, app.py). *)
THEOREM EventsReachHandlers == GroupSpec => []EventsDelivered
  <1> DEFINE RunInv == BusInv /\ LifeInv
  <1>1. GroupInit => RunInv BY BusStarts, LifeStarts DEF GroupInit
  <1>2. RunInv /\ [GroupNext]_groupVars => RunInv' BY BusKept, LifeKept
  <1>3. RunInv => EventsDelivered BY BusDelivers, LifeIsOrderly DEF EventsDelivered
  <1> QED BY <1>1, <1>2, <1>3, PTL DEF GroupSpec

----------------------------------------
(* The limits. *)

(* A step of the group keeps the invariant of the rate limiter. *)
LEMMA LimiterKept ==
    ASSUME LimiterInv, [GroupNext]_groupVars
    PROVE  LimiterInv'
  <1>1. [LimiterNext]_rlVars
   <2>1. CASE UNCHANGED groupVars BY <2>1 DEF groupVars
   <2>2. CASE GroupNext /\ part = "limiter" BY <2>2 DEF GroupNext
   <2>3. CASE GroupNext /\ part # "limiter" BY <2>3, RestStays DEF Rest
   <2> QED BY <2>1, <2>2, <2>3
  <1> QED BY <1>1, LimiterSteps

(* A step of the group keeps the invariant of the requests behind proxies. *)
LEMMA RequestKept ==
    ASSUME RequestInv, [GroupNext]_groupVars
    PROVE  RequestInv'
  <1>1. [HandshakeNext]_hsVars
   <2>1. CASE UNCHANGED groupVars BY <2>1 DEF groupVars
   <2>2. CASE GroupNext /\ part = "handshake" BY <2>2 DEF GroupNext
   <2>3. CASE GroupNext /\ part # "handshake" BY <2>3, RestStays DEF Rest
   <2> QED BY <2>1, <2>2, <2>3
  <1> QED BY <1>1, RequestSteps

(* A step of the group keeps the cap on sessions. *)
LEMMA CapKept ==
    ASSUME CapInv, [GroupNext]_groupVars
    PROVE  CapInv'
  <1>1. [SessionNext]_seVars
   <2>1. CASE UNCHANGED groupVars BY <2>1 DEF groupVars
   <2>2. CASE GroupNext /\ part = "sessions" BY <2>2 DEF GroupNext
   <2>3. CASE GroupNext /\ part # "sessions" BY <2>3, RestStays DEF Rest
   <2> QED BY <2>1, <2>2, <2>3
  <1> QED BY <1>1, CapSteps

(* A step of the group keeps the invariant of the pool of directory connections. *)
LEMMA PoolKept ==
    ASSUME PoolInv, [GroupNext]_groupVars
    PROVE  PoolInv'
  <1>1. [PoolNext]_lpVars
   <2>1. CASE UNCHANGED groupVars BY <2>1 DEF groupVars
   <2>2. CASE GroupNext /\ part = "ldap" BY <2>2 DEF GroupNext
   <2>3. CASE GroupNext /\ part # "ldap" BY <2>3, RestStays DEF Rest
   <2> QED BY <2>1, <2>2, <2>3
  <1> QED BY <1>1, PoolSteps

(* No bucket admits more than its rate and whoever waits as told is admitted, requests count
   for the client's address, sessions keep within their cap, and a directory connection has
   one owner: LimitsHold (rate_limit.py, ip_utils.py, sessions.py, ldap.py). *)
THEOREM LimitsStand == GroupSpec => []LimitsHold
  <1> DEFINE LimitsInv == LimiterInv /\ RequestInv /\ CapInv /\ PoolInv
  <1>1. GroupInit => LimitsInv BY LimiterStarts, RequestStarts, CapStarts, PoolStarts DEF GroupInit
  <1>2. LimitsInv /\ [GroupNext]_groupVars => LimitsInv'
    BY LimiterKept, RequestKept, CapKept, PoolKept
  <1>3. LimitsInv => LimitsHold
    BY LimiterKeepsWord, RequestResolves, PoolOwns DEF LimiterInv, CapInv, LimitsHold
  <1> QED BY <1>1, <1>2, <1>3, PTL DEF GroupSpec

----------------------------------------
(* The plugins. *)

(* A step of the group keeps the invariant of the sandbox. *)
LEMMA SandboxKept ==
    ASSUME SandboxInv, [GroupNext]_groupVars
    PROVE  SandboxInv'
  <1>1. [SandboxNext]_sbVars
   <2>1. CASE UNCHANGED groupVars BY <2>1 DEF groupVars
   <2>2. CASE GroupNext /\ part = "sandbox" BY <2>2 DEF GroupNext
   <2>3. CASE GroupNext /\ part # "sandbox" BY <2>3, RestStays DEF Rest
   <2> QED BY <2>1, <2>2, <2>3
  <1> QED BY <1>1, SandboxSteps

(* A step of the group keeps the invariant of the import guard. *)
LEMMA GuardKept ==
    ASSUME GuardInv, [GroupNext]_groupVars
    PROVE  GuardInv'
  <1>1. [GuardNext]_rgVars
   <2>1. CASE UNCHANGED groupVars BY <2>1 DEF groupVars
   <2>2. CASE GroupNext /\ part = "guard" BY <2>2 DEF GroupNext
   <2>3. CASE GroupNext /\ part # "guard" BY <2>3, RestStays DEF Rest
   <2> QED BY <2>1, <2>2, <2>3
  <1> QED BY <1>1, GuardSteps

(* A step of the group keeps the invariant of the import policy. *)
LEMMA PolicyKept ==
    ASSUME PolicyInv, [GroupNext]_groupVars
    PROVE  PolicyInv'
  <1>1. [PolicyNext]_plVars
   <2>1. CASE UNCHANGED groupVars BY <2>1 DEF groupVars
   <2>2. CASE GroupNext /\ part = "plugins" BY <2>2 DEF GroupNext
   <2>3. CASE GroupNext /\ part # "plugins" BY <2>3, RestStays DEF Rest
   <2> QED BY <2>1, <2>2, <2>3
  <1> QED BY <1>1, PolicySteps

(* An evaluation leaves the process as it found it and its metrics tell how it ended, garbled
   answers included; the guard of the backtests takes down what it put up and an alarm meets
   the code it was set for, unless a guard died with its monitor; and what is loaded or opened passed the checks of its policy, for any strategies, tasks,
   threads, modules and paths: PluginsContained (sandbox.py, restricted_importer.py). *)
THEOREM PluginsStayContained == GroupSpec => []PluginsContained
  <1> DEFINE PluginsInv == SandboxInv /\ GuardInv /\ PolicyInv
  <1>1. GroupInit => PluginsInv BY SandboxStarts, GuardStarts, PolicyStarts DEF GroupInit
  <1>2. PluginsInv /\ [GroupNext]_groupVars => PluginsInv' BY SandboxKept, GuardKept, PolicyKept
  <1>3. PluginsInv => PluginsContained
    BY SandboxRestores, GuardUndoes, PolicyContains, PolicyAssumption DEF PluginsContained
  <1> QED BY <1>1, <1>2, <1>3, PTL DEF GroupSpec

----------------------------------------
(* The data. *)

(* A step of the group keeps the invariant of the failover between providers. *)
LEMMA FailoverKept ==
    ASSUME FailoverInv, [GroupNext]_groupVars
    PROVE  FailoverInv'
  <1>1. [FailoverNext]_dpVars
   <2>1. CASE UNCHANGED groupVars BY <2>1 DEF groupVars
   <2>2. CASE GroupNext /\ part = "failover" BY <2>2 DEF GroupNext
   <2>3. CASE GroupNext /\ part # "failover" BY <2>3, RestStays DEF Rest
   <2> QED BY <2>1, <2>2, <2>3
  <1> QED BY <1>1, FailoverSteps

(* A step of the group keeps the invariant of the provider cache. *)
LEMMA CachedKept ==
    ASSUME CachedInv, [GroupNext]_groupVars
    PROVE  CachedInv'
  <1>1. [CachedNext]_cpVars
   <2>1. CASE UNCHANGED groupVars BY <2>1 DEF groupVars
   <2>2. CASE GroupNext /\ part = "cached" BY <2>2 DEF GroupNext
   <2>3. CASE GroupNext /\ part # "cached" BY <2>3, RestStays DEF Rest
   <2> QED BY <2>1, <2>2, <2>3
  <1> QED BY <1>1, CachedSteps

(* A step of the group keeps the invariant of the historical cache. *)
LEMMA HistoryKept ==
    ASSUME HistoryInv, [GroupNext]_groupVars
    PROVE  HistoryInv'
  <1>1. [HistoryNext]_hcVars
   <2>1. CASE UNCHANGED groupVars BY <2>1 DEF groupVars
   <2>2. CASE GroupNext /\ part = "history" BY <2>2 DEF GroupNext
   <2>3. CASE GroupNext /\ part # "history" BY <2>3, RestStays DEF Rest
   <2> QED BY <2>1, <2>2, <2>3
  <1> QED BY <1>1, HistorySteps

(* A step of the group keeps the invariant of the Yahoo client. *)
LEMMA YahooKept ==
    ASSUME YahooInv, [GroupNext]_groupVars
    PROVE  YahooInv'
  <1>1. [YahooNext]_yfVars
   <2>1. CASE UNCHANGED groupVars BY <2>1 DEF groupVars
   <2>2. CASE GroupNext /\ part = "yahoo" BY <2>2 DEF GroupNext
   <2>3. CASE GroupNext /\ part # "yahoo" BY <2>3, RestStays DEF Rest
   <2> QED BY <2>1, <2>2, <2>3
  <1> QED BY <1>1, YahooSteps

(* A step of the group keeps the invariant of the streams. *)
LEMMA StreamKept ==
    ASSUME StreamInv, [GroupNext]_groupVars
    PROVE  StreamInv'
  <1>1. [StreamNext]_smVars
   <2>1. CASE UNCHANGED groupVars BY <2>1 DEF groupVars
   <2>2. CASE GroupNext /\ part = "streaming" BY <2>2 DEF GroupNext
   <2>3. CASE GroupNext /\ part # "streaming" BY <2>3, RestStays DEF Rest
   <2> QED BY <2>1, <2>2, <2>3
  <1> QED BY <1>1, StreamSteps

(* A step of the group keeps the invariant of the retention. *)
LEMMA RetentionKept ==
    ASSUME RetentionInv, [GroupNext]_groupVars
    PROVE  RetentionInv'
  <1>1. [RetentionNext]_reVars
   <2>1. CASE UNCHANGED groupVars BY <2>1 DEF groupVars
   <2>2. CASE GroupNext /\ part = "retention" BY <2>2 DEF GroupNext
   <2>3. CASE GroupNext /\ part # "retention" BY <2>3, RestStays DEF Rest
   <2> QED BY <2>1, <2>2, <2>3
  <1> QED BY <1>1, RetentionSteps

(* A failover's verdict is the truth about its candidates, a key is fetched once and never
   goes back in time, bars are those of the file they are keyed by, every item of a stream is
   accounted for and a replay tells its gaps, records go when they are old enough, and every
   client is closed, for any providers, readers, keys, items and records: DataHonest
   (registry.py, cached.py, historical_cache.py, streaming, retention.py, yahoo_provider.py). *)
THEOREM DataStaysHonest == GroupSpec => []DataHonest
  <1> DEFINE HonestInv == FailoverInv /\ CachedInv /\ HistoryInv /\ YahooInv /\ StreamInv /\ RetentionInv
  <1>1. GroupInit => HonestInv
    BY FailoverStarts, CachedStarts, HistoryStarts, YahooStarts, StreamStarts, RetentionStarts DEF GroupInit
  <1>2. HonestInv /\ [GroupNext]_groupVars => HonestInv'
    BY FailoverKept, CachedKept, HistoryKept, YahooKept, StreamKept, RetentionKept
  <1>3. HonestInv => DataHonest
    BY FailoverHonest, CachedServes, HistoryServes, StreamTells, RetentionFollows DEF YahooInv, DataHonest
  <1> QED BY <1>1, <1>2, <1>3, PTL DEF GroupSpec

----------------------------------------
(* Decisions have their grounds, and capital is what there is. *)

(* A step of the group keeps the invariant of the velocity window. *)
LEMMA WindowKept ==
    ASSUME WindowInv, [GroupNext]_groupVars
    PROVE  WindowInv'
  <1>1. [GateNext]_gaVars
   <2>1. CASE UNCHANGED groupVars BY <2>1 DEF groupVars
   <2>2. CASE GroupNext /\ part = "gate" BY <2>2 DEF GroupNext
   <2>3. CASE GroupNext /\ part # "gate" BY <2>3, RestStays DEF Rest
   <2> QED BY <2>1, <2>2, <2>3
  <1> QED BY <1>1, WindowSteps

(* A step of the group keeps the invariant of the stages. *)
LEMMA StageKept ==
    ASSUME StageInv, [GroupNext]_groupVars
    PROVE  StageInv'
  <1>1. [LifecycleNext]_leVars
   <2>1. CASE UNCHANGED groupVars BY <2>1 DEF groupVars
   <2>2. CASE GroupNext /\ part = "stages" BY <2>2 DEF GroupNext
   <2>3. CASE GroupNext /\ part # "stages" BY <2>3, RestStays DEF Rest
   <2> QED BY <2>1, <2>2, <2>3
  <1> QED BY <1>1, StageSteps

(* A step of the group keeps the invariant of the manager of capital. *)
LEMMA ManagerKept ==
    ASSUME ManagerInv, [GroupNext]_groupVars
    PROVE  ManagerInv'
  <1>1. [ManagerNext]_mmVars
   <2>1. CASE UNCHANGED groupVars BY <2>1 DEF groupVars
   <2>2. CASE GroupNext /\ part = "manager" BY <2>2 DEF GroupNext
   <2>3. CASE GroupNext /\ part # "manager" BY <2>3, RestStays DEF Rest
   <2> QED BY <2>1, <2>2, <2>3
  <1> QED BY <1>1, ManagerSteps

(* A step of the group keeps the invariant of the orchestrated votes. *)
LEMMA VoteKept ==
    ASSUME VoteInv, [GroupNext]_groupVars
    PROVE  VoteInv'
  <1>1. [VoteNext]_svVars
   <2>1. CASE UNCHANGED groupVars BY <2>1 DEF groupVars
   <2>2. CASE GroupNext /\ part = "vote" BY <2>2 DEF GroupNext
   <2>3. CASE GroupNext /\ part # "vote" BY <2>3, RestStays DEF Rest
   <2> QED BY <2>1, <2>2, <2>3
  <1> QED BY <1>1, VoteSteps

(* A step of the group keeps the invariant of the scores. *)
LEMMA EvaluatorKept ==
    ASSUME EvaluatorInv, [GroupNext]_groupVars
    PROVE  EvaluatorInv'
  <1>1. [EvaluatorNext]_ssVars
   <2>1. CASE UNCHANGED groupVars BY <2>1 DEF groupVars
   <2>2. CASE GroupNext /\ part = "evaluator" BY <2>2 DEF GroupNext
   <2>3. CASE GroupNext /\ part # "evaluator" BY <2>3, RestStays DEF Rest
   <2> QED BY <2>1, <2>2, <2>3
  <1> QED BY <1>1, EvaluatorSteps

(* A step of the group keeps the invariant of the apportioned capital. *)
LEMMA AllocationKept ==
    ASSUME AllocationInv, [GroupNext]_groupVars
    PROVE  AllocationInv'
  <1>1. [AllocationNext]_alVars
   <2>1. CASE UNCHANGED groupVars BY <2>1 DEF groupVars
   <2>2. CASE GroupNext /\ part = "allocation" BY <2>2 DEF GroupNext
   <2>3. CASE GroupNext /\ part # "allocation" BY <2>3, RestStays DEF Rest
   <2> QED BY <2>1, <2>2, <2>3
  <1> QED BY <1>1, AllocationSteps

(* A step of the group keeps the version that serves the only one. *)
LEMMA ServingKept ==
    ASSUME VersionInv, ServingInv, [GroupNext]_groupVars
    PROVE  ServingInv'
  <1>1. [VersionNext]_veVars
   <2>1. CASE UNCHANGED groupVars BY <2>1 DEF groupVars
   <2>2. CASE GroupNext /\ part = "versions" BY <2>2 DEF GroupNext
   <2>3. CASE GroupNext /\ part # "versions" BY <2>3, RestStays DEF Rest
   <2> QED BY <2>1, <2>2, <2>3
  <1> QED BY <1>1, ServingSteps

(* No more orders pass than the velocity window lets through, a decision has a voter, every
   strategy is reported on whatever is registered while it is awaited, one version of distinct
   ones is active, live trading lies behind its gates and no better strategy is scored or ranked
   lower, for any strategies, answers, weights and windows: MCComponents' DecisionsGrounded
   (risk_limits.py, strategy_orchestrator.py, multi_manager.py, strategy_versioning.py,
   strategy_lifecycle.py, strategy_evaluator.py). *)
THEOREM DecisionsStayGrounded == GroupSpec => []DecisionsGrounded
  <1> DEFINE GroundsInv == /\ WindowInv /\ VersionInv /\ ServingInv /\ StageInv
                           /\ ManagerInv /\ VoteInv /\ EvaluatorInv
  <1>1. GroupInit => GroundsInv
    BY WindowStarts, VersionStarts, ServingStarts, StageStarts, ManagerStarts, VoteStarts, EvaluatorStarts
       DEF GroupInit
  <1>2. GroundsInv /\ [GroupNext]_groupVars => GroundsInv'
    BY WindowKept, VersionKept, ServingKept, StageKept, ManagerKept, VoteKept, EvaluatorKept
  <1>3. GroundsInv => DecisionsGrounded
    BY WindowHolds, ServingIsOne, StageGated, ManagerKeeps, VoteHolds, EvaluatorHolds DEF DecisionsGrounded
  <1> QED BY <1>1, <1>2, <1>3, PTL DEF GroupSpec

(* Strategies are never given more capital together than there is: not by the evaluations that
   are awaited while others register and not by an apportionment, which adds up to the cent; a
   merge of their signals, several of one strategy for a symbol among them, deploys the capital
   at most as often as the greediest strategy asks for; and the orders that trade a drift away make no money, sell no more
   than there is and settle, for any number of strategies, weights, values and threshold:
   MCComponents' CapitalKept (multi_manager.py, multi_strategy.py, capital_allocation.py,
   allocation.py, rebalancer.py). *)
THEOREM CapitalIsKept == GroupSpec => []CapitalKept
  <1> DEFINE CapitalInv == ManagerInv /\ VoteInv /\ AllocationInv
  <1>1. GroupInit => CapitalInv BY ManagerStarts, VoteStarts, AllocationStarts DEF GroupInit
  <1>2. CapitalInv /\ [GroupNext]_groupVars => CapitalInv' BY ManagerKept, VoteKept, AllocationKept
  <1>3. CapitalInv => CapitalKept
    BY ManagerKeeps, VoteHolds, AllocationIsExact, AllocationSettles DEF CapitalKept
  <1> QED BY <1>1, <1>2, <1>3, PTL DEF GroupSpec

(* A step of the group keeps the balance of the losses carried over the years. *)
LEMMA TaxKept ==
    ASSUME OneGermanPot, TaxInv, [GroupNext]_groupVars
    PROVE  TaxInv'
  <1>1. [TaxNext]_txVars
   <2>1. CASE UNCHANGED groupVars BY <2>1 DEF groupVars
   <2>2. CASE GroupNext /\ part = "tax" BY <2>2 DEF GroupNext
   <2>3. CASE GroupNext /\ part # "tax" BY <2>3, RestStays DEF Rest
   <2> QED BY <2>1, <2>2, <2>3
  <1> QED BY <1>1, TaxSteps

(* A step of the group keeps lots and sales what they are. *)
LEMMA WashKept ==
    ASSUME WashInv, [GroupNext]_groupVars
    PROVE  WashInv'
  <1>1. [WashNext]_waVars
   <2>1. CASE UNCHANGED groupVars BY <2>1 DEF groupVars
   <2>2. CASE GroupNext /\ part = "wash" BY <2>2 DEF GroupNext
   <2>3. CASE GroupNext /\ part # "wash" BY <2>3, RestStays DEF Rest
   <2> QED BY <2>1, <2>2, <2>3
  <1> QED BY <1>1, WashSteps

(* A loss gives relief once: over any number of years, for any disposals, bounds and
   exemptions, what was lost is carried, relieved or expired to the last unit; and a share that
   replaces a sold one disallows the loss of that one only, within the window, until shares or
   loss are used up, for any trades. Where German disposals fall into both pots the first is
   false (MCTaxYears), so one pot is assumed there: MCComponents' LossesRelievedOnce
   (core/tax/reports, core/tax/wash_sale.py). *)
THEOREM LossesAreRelievedOnce ==
    ASSUME OneGermanPot
    PROVE  GroupSpec => []LossesRelievedOnce
  <1> DEFINE LossInv == TaxInv /\ WashInv
  <1>1. GroupInit => LossInv BY TaxStarts, WashStarts DEF GroupInit
  <1>2. LossInv /\ [GroupNext]_groupVars => LossInv' BY OneGermanPot, TaxKept, WashKept
  <1>3. LossInv => LossesRelievedOnce BY TaxHolds, WashHolds DEF LossesRelievedOnce
  <1> QED BY <1>1, <1>2, <1>3, PTL DEF GroupSpec

----------------------------------------
(* The marketplace shows everything. *)

(* A step of the group keeps what a reader of the reviews relies on. *)
LEMMA MarketKept ==
    ASSUME MarketInv, [GroupNext]_groupVars
    PROVE  MarketInv'
  <1>1. [MarketNext]_mkVars
   <2>1. CASE UNCHANGED groupVars BY <2>1 DEF groupVars
   <2>2. CASE GroupNext /\ part = "market" BY <2>2 DEF GroupNext
   <2>3. CASE GroupNext /\ part # "market" BY <2>3, RestStays DEF Rest
   <2> QED BY <2>1, <2>2, <2>3
  <1> QED BY <1>1, MarketSteps

(* Nothing is missed on the pages of the marketplace, for any raters, catalogue and page size:
   a reader who pages through the reviews while others submit theirs sees every one that was
   there from the start and stayed as it was, unless somebody withdraws one; the pages of a
   search show every hit once and in order, and announce a next page exactly when it has
   something: Marketplace's PagesComplete (marketplace/ratings.py, marketplace/search.py). *)
THEOREM PagesAreComplete == GroupSpec => []PagesComplete
  <1>1. GroupInit => MarketInv BY MarketStarts DEF GroupInit
  <1>2. MarketInv /\ [GroupNext]_groupVars => MarketInv' BY MarketKept
  <1>3. MarketInv => PagesComplete BY MarketHolds
  <1> QED BY <1>1, <1>2, <1>3, PTL DEF GroupSpec

----------------------------------------
(* What cleaning and adjusting the bars changes. *)

(* A step of the group keeps what is known of the bars and of the backtest on them. *)
LEMMA QualityKept ==
    ASSUME QualityInv, [GroupNext]_groupVars
    PROVE  QualityInv'
  <1>1. [QualityNext]_dqVars
   <2>1. CASE UNCHANGED groupVars BY <2>1 DEF groupVars
   <2>2. CASE GroupNext /\ part = "quality" BY <2>2 DEF GroupNext
   <2>3. CASE GroupNext /\ part # "quality" BY <2>3, RestStays DEF Rest
   <2> QED BY <2>1, <2>2, <2>3
  <1> QED BY <1>1, QualitySteps

(* And what is known of the adjustment factors. *)
LEMMA SplitsKept ==
    ASSUME CorpInv, [GroupNext]_groupVars
    PROVE  CorpInv'
  <1>1. [CorpNext]_caVars
   <2>1. CASE UNCHANGED groupVars BY <2>1 DEF groupVars
   <2>2. CASE GroupNext /\ part = "splits" BY <2>2 DEF GroupNext
   <2>3. CASE GroupNext /\ part # "splits" BY <2>3, RestStays DEF Rest
   <2> QED BY <2>1, <2>2, <2>3
  <1> QED BY <1>1, CorpSteps

(* Whatever frame a provider returns, and whatever corporate actions there are: the validator
   leaves one row for each timestamp, every price positive and not under the minimum, and every
   row it took out stands in the report; the report counts each long run of rows without volume
   once; a suspect negative revenue is repaired unless it was tolerated; the strategy of a
   backtest sees exactly the newest bars up to its own time and none later; the curve has a
   point for each row until the first bad one; and the factors of two actions multiply:
   MCComponents' CleaningExplained (data/quality.py, data/market_state.py,
   backtest_runner.py, corp_actions.py). *)
THEOREM CleaningIsExplained == GroupSpec => []CleaningExplained
  <1> DEFINE BarsInv == QualityInv /\ CorpInv
  <1>1. GroupInit => BarsInv BY QualityStarts, CorpSteps DEF GroupInit
  <1>2. BarsInv /\ [GroupNext]_groupVars => BarsInv' BY QualityKept, SplitsKept
  <1>3. BarsInv => CleaningExplained BY QualityHolds, CorpHolds DEF CleaningExplained
  <1> QED BY <1>1, <1>2, <1>3, PTL DEF GroupSpec
=============================================================================
