---------------------------- MODULE MCComponents ----------------------------
(****************************************************************************)
(* The components that answer calls: the book, the pre-trade gate,          *)
(* strategies with their capital, votes, versions and stages, broker        *)
(* clients, the plugin sandbox, taxes, market data providers, caches,       *)
(* streams, cleaning and retention, and around them the event bus, the      *)
(* limiter, sessions, identities, keys and secrets, privacy, legal gates    *)
(* and the marketplace. They share no state; a behaviour is about one of    *)
(* them.                                                                    *)
(****************************************************************************)
EXTENDS Portfolio, RiskGate, StrategyEngines, Brokers, StrategyReleases,
        EventBus, RateLimiter, SessionTokens, ProviderClients, DataCaches,
        StreamsAndRetention, DataQuality, PluginSandbox, Allocation,
        TaxYears, LotAdjustments, Accounts, Erasure, Credentials,
        LegalGates, SocketAccess, Marketplace, AuditAndSecrets

CONSTANTS m1, x1, j1, j3   \* model values the definitions below name

MCPnls == {-5, 2}
MCBrokerKinds == {Live, AlpacaAdapter, Ibkr, AlpacaTrading}
MCAdapters == {Polygon, Oanda, CoinGecko, Binance, Alpaca, Yahoo}
MCTiers == {[cap |-> 2, refill |-> 1], [cap |-> 1, refill |-> 0], [cap |-> 1, refill |-> 3]}
MCCloses == {Nan, 0, 1, 4}
MCRevenues == {-4, -1, 10, 20}
MCAllowed == {<<"numpy">>, <<"math">>}
MCDenied == {<<"os">>, <<"asyncio", "subprocess">>}
MCBypass == {<<"pytest">>}
MCModules == {<<"numpy", "linalg">>, <<"os", "path">>, <<"asyncio", "subprocess">>,
              <<"asyncio">>, <<"pytest">>}
MCPolicies == {[retain |-> 2, compress |-> 1], [retain |-> Never, compress |-> 1],
               [retain |-> 1, compress |-> Never], [retain |-> 3, compress |-> 3],
               [retain |-> Never, compress |-> Never]}
MCProfiles == {[ext |-> x1, mail |-> m1, roles |-> {}],
               [ext |-> x1, mail |-> NoMail, roles |-> {"admin", "viewer"}]}
MCMapping == [traders |-> "developer", staff |-> "admin"]
MCProviderOf == [j \in FlowIds |-> IF j = j1 THEN "github" ELSE IF j = j3 THEN "oidc" ELSE "google"]
MCFactors == [value |-> 1, size |-> 0]
MCCatalog == <<[score |-> 1, downloads |-> 0], [score |-> 0, downloads |-> 2],
               [score |-> 1, downloads |-> 1]>>
MCRatios == {<<2, 1>>, <<1, 3>>, <<0, 1>>}
MCReport == [sharpe : {-3, 15, 40}, drawdown : {7, 60}, cost : {0, 2}, volatility : {12}, winRate : {0, 5000},
             winner : {4}, loser : {0, 2}, trades : {3}, rolling : {<<4, 10>>}]
MCReports == MCReport \cup {[r EXCEPT !.volatility = v, !.winRate = w, !.rolling = <<>>] : v \in {-1, 30, 60}, w \in {100, 6000}, r \in {CHOOSE r \in MCReport : TRUE}}
MCWeightSets == {[sharpe |-> 30, drawdown |-> 20, consistency |-> 15, cost |-> 15, winQuality |-> 10, volatility |-> 10],
                 [sharpe |-> 0, drawdown |-> 0, consistency |-> 0, cost |-> 50, winQuality |-> 0, volatility |-> 50],
                 [sharpe |-> 50, drawdown |-> 60, consistency |-> 0, cost |-> 0, winQuality |-> -10, volatility |-> 0]}

\* Signals of weight 1/2 and 1: none, one, one twice, over two symbols, opposed, taken back.
MCSignal(x, side, w) == [sym |-> x, side |-> side, w |-> w]
MCAnswers == {<<>>, <<MCSignal("AAPL", "BUY", 2)>>, <<MCSignal("AAPL", "SELL", 1)>>,
              <<MCSignal("AAPL", "BUY", 2), MCSignal("AAPL", "BUY", 2)>>,
              <<MCSignal("AAPL", "BUY", 1), MCSignal("MSFT", "SELL", 1)>>,
              <<MCSignal("AAPL", "SELL", 2), MCSignal("AAPL", "BUY", 1)>>,
              <<MCSignal("MSFT", "BUY", 2), MCSignal("MSFT", "HOLD", 2)>>}

VARIABLE part   \* the component this behaviour is about

\* Every component but the one at work keeps its state.
Rest ==
    /\ UNCHANGED part
    /\ IF part = "portfolio" THEN TRUE ELSE UNCHANGED pfVars
    /\ IF part = "gate" THEN TRUE ELSE UNCHANGED gaVars
    /\ IF part = "manager" THEN TRUE ELSE UNCHANGED mmVars
    /\ IF part = "broker" THEN TRUE ELSE UNCHANGED bhVars
    /\ IF part = "paper" THEN TRUE ELSE UNCHANGED pbVars
    /\ IF part = "vote" THEN TRUE ELSE UNCHANGED svVars
    /\ IF part = "versions" THEN TRUE ELSE UNCHANGED veVars
    /\ IF part = "stages" THEN TRUE ELSE UNCHANGED leVars
    /\ IF part = "bus" THEN TRUE ELSE UNCHANGED busVars
    /\ IF part = "limiter" THEN TRUE ELSE UNCHANGED rlVars
    /\ IF part = "sessions" THEN TRUE ELSE UNCHANGED seVars
    /\ IF part = "tokens" THEN TRUE ELSE UNCHANGED rtVars
    /\ IF part = "failover" THEN TRUE ELSE UNCHANGED dpVars
    /\ IF part = "cached" THEN TRUE ELSE UNCHANGED cpVars
    /\ IF part = "streaming" THEN TRUE ELSE UNCHANGED smVars
    /\ IF part = "history" THEN TRUE ELSE UNCHANGED hcVars
    /\ IF part = "yahoo" THEN TRUE ELSE UNCHANGED yfVars
    /\ IF part = "quality" THEN TRUE ELSE UNCHANGED dqVars
    /\ IF part = "sandbox" THEN TRUE ELSE UNCHANGED sbVars
    /\ IF part = "guard" THEN TRUE ELSE UNCHANGED rgVars
    /\ IF part = "plugins" THEN TRUE ELSE UNCHANGED plVars
    /\ IF part = "allocation" THEN TRUE ELSE UNCHANGED alVars
    /\ IF part = "tax" THEN TRUE ELSE UNCHANGED txVars
    /\ IF part = "wash" THEN TRUE ELSE UNCHANGED waVars
    /\ IF part = "retention" THEN TRUE ELSE UNCHANGED reVars
    /\ IF part = "accounts" THEN TRUE ELSE UNCHANGED acVars
    /\ IF part = "erasure" THEN TRUE ELSE UNCHANGED erVars
    /\ IF part = "ldap" THEN TRUE ELSE UNCHANGED lpVars
    /\ IF part = "mfa" THEN TRUE ELSE UNCHANGED crVars
    /\ IF part = "keys" THEN TRUE ELSE UNCHANGED akVars
    /\ IF part = "flow" THEN TRUE ELSE UNCHANGED ofVars
    /\ IF part = "legal" THEN TRUE ELSE UNCHANGED lgVars
    /\ IF part = "scores" THEN TRUE ELSE UNCHANGED sgVars
    /\ IF part = "handshake" THEN TRUE ELSE UNCHANGED hsVars
    /\ IF part = "market" THEN TRUE ELSE UNCHANGED mkVars
    /\ IF part = "secrets" THEN TRUE ELSE UNCHANGED skVars
    /\ IF part = "lifespan" THEN TRUE ELSE UNCHANGED lsVars
    /\ IF part = "audit" THEN TRUE ELSE UNCHANGED auVars
    /\ IF part = "splits" THEN TRUE ELSE UNCHANGED caVars
    /\ IF part = "topics" THEN TRUE ELSE UNCHANGED utVars
    /\ IF part = "evaluator" THEN TRUE ELSE UNCHANGED ssVars

groupVars == <<part, pfVars, gaVars, mmVars, bhVars, pbVars, svVars, veVars,
               leVars, busVars, rlVars, seVars, rtVars, dpVars, cpVars,
               smVars, hcVars, yfVars, dqVars, sbVars, rgVars, plVars,
               alVars, txVars, waVars, reVars, acVars, erVars, lpVars,
               crVars, akVars, ofVars, lgVars, sgVars, hsVars, mkVars,
               skVars, lsVars, auVars, caVars, utVars, ssVars>>

GroupInit ==
    /\ part \in {"portfolio", "gate", "manager", "broker", "paper", "vote",
                "versions", "stages", "bus", "limiter", "sessions",
                "tokens", "failover", "cached", "streaming", "history",
                "yahoo", "quality", "sandbox", "guard", "plugins",
                "allocation", "tax", "wash", "retention", "accounts",
                "erasure", "ldap", "mfa", "keys", "flow", "legal", "scores",
                "handshake", "market", "secrets", "lifespan", "audit",
                "splits", "topics", "evaluator"}
    /\ PortfolioInit
    /\ GateInit
    /\ ManagerInit
    /\ BrokerInit
    /\ part # "broker" => bhKind = Live
    /\ PaperInit
    /\ VoteInit
    /\ part # "vote" => svKind = "core"
    /\ VersionInit
    /\ LifecycleInit
    /\ BusInit
    /\ LimiterInit
    /\ SessionInit
    /\ TokenInit
    /\ FailoverInit
    /\ CachedInit
    /\ part # "cached" => cpKind = "locked"
    /\ StreamInit
    /\ part # "streaming" => smPolicy = "drop_oldest"
    /\ HistoryInit
    /\ YahooInit
    /\ part # "yahoo" => yfClient = 0
    /\ QualityInit
    /\ part # "quality" => dqFrame = <<>>
    /\ SandboxInit
    /\ GuardInit
    /\ part # "guard" => ~rgHosts
    /\ PolicyInit
    /\ AllocationInit
    /\ part # "allocation" => \A s \in Funds : alWeights[s] = 0 /\ alValues[s] = 0
    /\ TaxInit
    /\ part # "tax" => txCode = "US"
    /\ WashInit
    /\ RetentionInit
    /\ part # "retention" => rePolicy.retain = Never /\ rePolicy.compress = Never /\ \A r \in RecordIds : reRecords[r] = 0
    /\ AccountInit
    /\ ErasureInit
    /\ PoolInit
    /\ MfaInit
    /\ KeyInit
    /\ FlowInit
    /\ LegalInit
    /\ ScoreInit
    /\ part # "scores" => sgSettings.max = CHOOSE c \in Ceilings : TRUE
    /\ HandshakeInit
    /\ MarketInit
    /\ SecretInit
    /\ LifespanInit
    /\ part # "lifespan" => lsProviders = {}
    /\ AuditInit
    /\ CorpInit
    /\ TopicsInit
    /\ EvaluatorInit
    /\ part # "evaluator" => ssWeights = CHOOSE w \in WeightSets : ValidWeights(w)

GroupNext ==
    \/ part = "portfolio" /\ PortfolioNext /\ Rest
    \/ part = "gate" /\ GateNext /\ Rest
    \/ part = "manager" /\ ManagerNext /\ Rest
    \/ part = "broker" /\ BrokerNext /\ Rest
    \/ part = "paper" /\ PaperNext /\ Rest
    \/ part = "vote" /\ VoteNext /\ Rest
    \/ part = "versions" /\ VersionNext /\ Rest
    \/ part = "stages" /\ LifecycleNext /\ Rest
    \/ part = "bus" /\ BusNext /\ Rest
    \/ part = "limiter" /\ LimiterNext /\ Rest
    \/ part = "sessions" /\ SessionNext /\ Rest
    \/ part = "tokens" /\ TokenNext /\ Rest
    \/ part = "failover" /\ FailoverNext /\ Rest
    \/ part = "cached" /\ CachedNext /\ Rest
    \/ part = "streaming" /\ StreamNext /\ Rest
    \/ part = "history" /\ HistoryNext /\ Rest
    \/ part = "yahoo" /\ YahooNext /\ Rest
    \/ part = "quality" /\ QualityNext /\ Rest
    \/ part = "sandbox" /\ SandboxNext /\ Rest
    \/ part = "guard" /\ GuardNext /\ Rest
    \/ part = "plugins" /\ PolicyNext /\ Rest
    \/ part = "allocation" /\ AllocationNext /\ Rest
    \/ part = "tax" /\ TaxNext /\ Rest
    \/ part = "wash" /\ WashNext /\ Rest
    \/ part = "retention" /\ RetentionNext /\ Rest
    \/ part = "accounts" /\ AccountNext /\ Rest
    \/ part = "erasure" /\ ErasureNext /\ Rest
    \/ part = "ldap" /\ PoolNext /\ Rest
    \/ part = "mfa" /\ MfaNext /\ Rest
    \/ part = "keys" /\ KeyNext /\ Rest
    \/ part = "flow" /\ FlowNext /\ Rest
    \/ part = "legal" /\ LegalNext /\ Rest
    \/ part = "scores" /\ ScoreNext /\ Rest
    \/ part = "handshake" /\ HandshakeNext /\ Rest
    \/ part = "market" /\ MarketNext /\ Rest
    \/ part = "secrets" /\ SecretNext /\ Rest
    \/ part = "lifespan" /\ LifespanNext /\ Rest
    \/ part = "audit" /\ AuditNext /\ Rest
    \/ part = "splits" /\ CorpNext /\ Rest
    \/ part = "topics" /\ TopicsNext /\ Rest
    \/ part = "evaluator" /\ EvaluatorNext /\ Rest
GroupSpec ==
    /\ GroupInit /\ [][GroupNext]_groupVars

----------------------------------------
(* Properties *)

\* The book balances after any sequence of trades: lots add up to the position, cash
\* follows the trades, realized profit is what was received less the basis consumed
\* (core/portfolio.py).
BookBalances ==
    /\ part = "portfolio" => LotsMatchPosition /\ CashFollowsTrades /\ ProfitMatchesBasis

\* Strategies never get more capital together than there is while evaluations are awaited
\* (multi_manager.py), when it is apportioned by remainders and when drift is traded away
\* (capital_allocation.py, rebalancer.py); a merge of their signals deploys it at most as
\* often as the greediest of them asks for (multi_strategy.py).
CapitalKept ==
    /\ part = "manager" => EvaluationWithinCapital
    /\ part = "vote" => DeployedWithinCapital
    /\ part = "allocation" => ApportionedExactly /\ RebalanceSettles

\* What is decided has its grounds: orders within the velocity window (risk_limits.py),
\* decisions with a voter (strategy_orchestrator.py), a report per strategy
\* (multi_manager.py), one active version of distinct ones (strategy_versioning.py),
\* a live stage only behind its gates (strategy_lifecycle.py), and no better strategy
\* scored or ranked lower (strategy_evaluator.py).
DecisionsGrounded ==
    /\ part = "gate" => VelocityHolds
    /\ part = "vote" => DecisionHasVoter
    /\ part = "manager" => EveryStrategyReported
    /\ part = "versions" => OneActiveVersion /\ VersionsDistinct
    /\ part = "stages" => LiveWasGated
    /\ part = "evaluator" => BetterNeverRanksLower

\* Engine and broker agree about an order: one per client order id however often the
\* POST was repeated, done when the call returns, over when it is lost
\* (live_backend.py and the broker clients), and one outcome on paper (paper.py).
BrokerAgrees ==
    /\ part = "broker" => OneOrderPerSubmit /\ ReturnedMeansDone /\ LostIsOver
    /\ part = "paper" => OneOutcomePerOrder

\* Running a strategy leaves the process as it was and goes no further than its
\* policy (plugins/): hooks and guards are taken down, metrics tell the outcome, an
\* alarm interrupts the guard's holder (unless a guard died with its monitor), and what
\* is loaded or opened passed the checks.
PluginsContained ==
    /\ part = "sandbox" => HooksRestored /\ MetricsTellOutcome
    /\ part = "guard" => GuardLeavesNothing /\ AlarmHitsHolder
    /\ part = "plugins" => LoadedIsImportable /\ AstIsStricter /\ OpenedIsInside

\* A loss is relieved once: carried forward and back in the years' reports, and
\* disallowed with the replacement it was matched with (core/tax).
LossesRelievedOnce ==
    /\ part = "tax" => LossesUsedOnce
    /\ part = "wash" => WashSalesMatched

\* What a step does follows from what happened before: a sale takes the lots its
\* method names (portfolio.py), nothing is approved after the loss limit tripped
\* (risk_limits.py), and a rollback goes to a version that served
\* (strategy_versioning.py).
StepsFollowHistory == SalesFollowMethod /\ NothingAfterLoss /\ RollbackToServed

\* Handlers subscribed throughout a publication are called, the log keeps the latest
\* events and the callers of get_event_bus share one bus, whatever subscribes,
\* unsubscribes and connects between the awaits (events/bus.py); and no bridge outlives
\* the bus and the sockets it works for, in a process that starts and stops with
\* failures, its engine's among them (app.py).
EventsDelivered ==
    /\ part = "bus" => StandingHandlersCalled /\ LogHoldsLatest /\ OneBus
    /\ part = "lifespan" => LifespanOrderly

\* The limits hold under concurrency: a bucket admits no more than its rate and
\* tells a sufficient delay (rate_limit.py), under the address of the client and no
\* other's (ip_utils.py), concurrent sessions keep within their cap (sessions.py), and
\* no LDAP connection is shared, leaked or kept beyond the pool's size.
LimitsHold ==
    /\ part = "limiter" => AdmittedWithinRate /\ RetryAfterIsEnough
    /\ part = "handshake" => AddressIsClient
    /\ part = "sessions" => ActiveWithinCap
    /\ part = "ldap" => LinksOwned

\* Whoever acts is who the credential was issued for: one row per identity and
\* tokens for its owner only, logins finish in the browser that began them
\* (api/auth, api/routes/auth.py), an API key acts for its owner, an OAuth identity is
\* the flow's and an accepted id token genuine (auth/), a socket is in no room its
\* users were refused (api/ws), and is sent what is its user's only (api/websocket).
CredentialsActForOwner ==
    /\ part = "accounts" => OneRowPerIdentity /\ TokensForOwners /\ FlowStartedHere
    /\ part = "keys" => KeyActsForOwner
    /\ part = "flow" => IdentityIsFlowOwner /\ AcceptedIsGenuine
    /\ part = "handshake" => RoomsWereGranted
    /\ part = "topics" => TopicsStayWithUser

\* What was used up or withdrawn stays so: a revoked session is not written back
\* (sessions.py), a refresh token is exchanged once (routes/auth.py), a backup code is
\* accepted once (mfa_service.py), and an audit log changed afterwards does not verify
\* (audit_log.py).
SpentStaysSpent ==
    /\ part = "sessions" => RevokedStaysRevoked
    /\ part = "tokens" => ExchangedOnce
    /\ part = "mfa" => CodesSingleUse
    /\ part = "audit" => TamperingShows

\* The legal duties: an account is purged only when due, a cancellation stands and a
\* purge is whole and final (privacy/deletion.py, with the cascades of db/models.py),
\* only users who accepted the current documents are served and accepting admits them (legal/service.py), and no score is shown beyond what
\* the settings of its gate allow (legal/scoring_gate.py).
LegalDutiesKept ==
    /\ part = "erasure" => PurgedWasDue /\ CancelledStays /\ PurgeIsWhole
    /\ part = "legal" => ServedHadAccepted /\ AcceptingAdmits
    /\ part = "scores" => ShownWithinLaw

\* Nothing between the source and its reader makes data up: a failover tells failure
\* from emptiness (data/providers/registry.py), a key is fetched once and never goes
\* back in time (cached.py), bars are those of the file they are keyed by
\* (historical_cache.py), streams and replays account for every item (data/streaming),
\* records go when they are old enough and not before (data/retention.py), and every
\* client is closed (yahoo_provider.py).
DataHonest ==
    /\ part = "failover" => VerdictIsHonest
    /\ part = "cached" => OneFetchPerKey /\ CacheMovesForward
    /\ part = "history" => NoStaleBars /\ SizesMatchStore
    /\ part = "yahoo" => NoClientLeaks
    /\ part = "streaming" => ItemsAccounted /\ ReplayTellsGaps
    /\ part = "retention" => RetentionFollowsAge

\* What cleaning changes is explained, stale runs and bad revenue are found wherever
\* they lie, a backtest sees no bar of the future nor invents equity, and adjustments
\* for corporate actions compose (data/quality.py, data/market_state.py,
\* backtest_runner.py, corp_actions.py).
CleaningExplained ==
    /\ part = "quality" => CleanedIsExplained /\ StaleRunsReported /\ RevenueRepaired /\ NoLookAhead /\ CurveIsPrefix
    /\ part = "splits" => AdjustmentsCompose
============================================================================
