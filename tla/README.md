# nexus-trade-engine: TLA+ verification project

This directory is a verification development kept beside the engine. It holds
TLA+ modules translated from the source under `src/engine`, the TLC
configurations that check them on small instances, and proofs that TLAPS checks
for every instance.

## 1. Inventory of the system

The engine (`src/engine`, Python/asyncio, one process per API pod plus task
workers) turns strategy signals into orders, checks them, executes them in one of
three modes (backtest, paper, live) and keeps a portfolio. Two order paths exist
side by side:

* the **signal path**: `core/order_manager.py` drives a signal through
  validation, the cost model, the risk engine and an execution backend, and books
  the fill into `core/portfolio.py`. Used by backtest and paper trading.
* the **OMS path**: `core/live/loop.py` drives an immutable `core/oms` order
  through the risk gate and a broker adapter and applies broker events to it.
  Used by live trading.

| Component | State | Operations | Interacts with | What is hard | Correct when |
|---|---|---|---|---|---|
| OMS order (`core/oms`) | status, filled quantity, average price (frozen value) | `apply_event` | LiveLoop, persister | events that race, repeat or get lost | never overfilled, FILLED exactly when complete, terminal is final |
| LiveLoop (`core/live/loop.py`) | `_by_oms_id`, `_broker_to_oms` | `submit`, `apply_broker_event` | broker, gate, kill-switch, persister | state across `await broker.submit`; lost replies; events before the id is known | ids correlate; no share is booked that was not reported |
| Risk gate (`core/oms/risk.py`) | none | `evaluate` | kill-switch | stale answer across the await | only what was in flight passes an engagement |
| KillSwitch (`core/live/kill_switch.py`) | state, reason, actor, observers, lock | `engage`, `disengage`, `add_observer`, `remove_observer` | LiveLoop, operators, observers | threads; callbacks run outside the lock | snapshots are consistent; every transition reaches every observer |
| OrderManager (`core/order_manager.py`) | order status, fill quantity, `completed_orders` | `process_signal`, `continue_order` | portfolio, risk engine, cost model, backend, event bus | validation before the await, booking after it; retries of a partial fill | what an order shows as filled is booked, once |
| Portfolio (`core/portfolio.py`) | cash, positions, tax lots, sell history | `open_position`, `close_position`, `update_prices` | OrderManager | lot methods, wash sales, exceptions half way | cash never negative; lots add up to the position |
| RiskEngine (`core/risk_engine.py`) | daily counter, circuit breaker latch | `check_order`, resets | OrderManager | latch, counter taken before execution | a tripped breaker stays tripped until reset |
| CostModel (`core/cost_model.py` and siblings) | none | estimates | OrderManager | arithmetic only | - |
| Execution backends (`core/execution`, `execution/live_backend.py`) | connection, simulated books | `connect`, `execute`, `disconnect` | OrderManager, broker HTTP API | timeouts, retries of POST | one order per call |
| Brokers (`core/brokers`, `brokers`) | pending orders, event queue | `submit`, `cancel`, `events` | LiveLoop | cancel/fill races | every accepted order reports its end |
| PaperTradeRunner (`paper_trade/runner.py`) | run state, counters | `start`, `process_tick`, `stop` | OrderManager, strategy | errors of the strategy, stop during a tick | every signal is counted once |
| BacktestRunner, data quality, market state (`core/backtest_runner.py`, `data`) | frames, equity curve | `run`, cleaning rules, slices | OrderManager, providers | look-ahead; rules that remove what a later rule needs | no future bar is seen; every change of a frame is reported |
| StrategyEvaluator, corporate actions, audit log (`core`) | none, a log, a hash chain | evaluate and rank; adjust; append and verify | marketplace, backtests, operators | break points, order of actions, tampering | better never ranks lower; adjustments compose; a changed log does not verify |
| EventBus (`events/bus.py`) | handlers, bounded log, redis link | `subscribe`, `publish` | everything | handler list changes during publish; redis down; two first callers | standing handlers are called; the callers of `get_event_bus` share a bus |
| WebhookDispatcher (`events/webhook_dispatcher.py`) | delivery rows | `_on_event`, test, delivery | EventBus, DB, HTTP | retry, crash before the single commit | rows tell the truth; retries end |
| WebSocket managers and routes (`api/websocket`, `api/ws`, `ws`, `api/routes/websocket.py`) | connections, subscriptions, rooms, queues | connect, authenticate, subscribe, broadcast, cleanup, heartbeat | EventBus, clients | cleanup by id races a reconnect; full queues; second authentication | indexes match connections; nobody hears what is another's |
| Rate limiter (`api/rate_limit.py`), client address (`api/ip_utils.py`) | token buckets | `update`, resolve | every request | LRU eviction, several tiers on one key, proxies | no more than capacity + rate * time, under the client's address |
| Sessions, refresh tokens, accounts, second factor, API keys, OAuth and OpenID Connect, LDAP (`api/sessions.py`, `api/auth`, `auth`) | rows, cookies, key caches, a pool | login, refresh, callback, verify, revoke | DB, identity providers | awaits between lookup and write; key rotation; a full pool | a credential acts for its owner; what is spent stays spent |
| Secrets (`core/secrets.py`) | ciphertexts, current and previous master key | put, get, delete, rotate, re-encrypt | a store | calls between read and write of a re-encryption, crashes | a secret survives the rotation |
| Providers, caches, streams, retention (`data/providers`, `providers`, `data/streaming`, `data/*cache*.py`, `data/retention*.py`) | registrations, caches, ring buffer, replay log | failover, fetch, put, resume, cleanup | market data clients, routes | failover order, slow older answers, full buffers, files rewritten | nothing is made up; losses are counted |
| Background work (`tasks`, `api/routes/backtest.py`) | list queue, result rows | run, retry, evict | DB, brokers | crash of a worker; results that age | queued jobs run; an outcome is final |
| Strategies (`strategies`, `orchestration`, `portfolio`, `core/strategy_*.py`, `core/signal_aggregator.py`, `core/capital_allocation.py`) | registrations, weights, versions, stages, allocations | register, evaluate, vote, deploy, promote, rebalance | OrderManager | registrations change during the awaits; rounding | capital is not given twice; a decision has a voter |
| Plugins (`plugins`) | hooks, import policy, alarm, registry | load, evaluate, guard | strategies | process-wide hooks and one alarm | the process is left as it was; nothing beyond the policy |
| Marketplace, legal, privacy (`marketplace`, `legal`, `privacy`) | reviews, documents, acceptances, deletion requests | rate, page, sync, accept, delete, purge | users, DB | pages that move; versions that go back; two requests at once | due purges only; served users had accepted |
| Tax (`core/tax`) | lots, losses carried | detect wash sales, reports, carryover | portfolio | partial matches, several years | a loss is relieved once |
| Application (`app.py`) | open resources | lifespan | everything above | one of several steps fails | served when open, closed when stopped |
| Analytics, options, optimisation, MCP, observability, reference data, DB models, frontend, SDK | - | - | - | formulas, formatting, I/O | - |

`PROJECT.json` lists every component with its sources and status, and every hazard
with the line at which it bites.

## 2. Plan and where it stands

The modules came in the order in which a mistake costs money.

1. **OMS path** - `OmsOrder`, `LiveLoop` (checked and proved, the ledger of shares
   included).
2. **Kill-switch** - `Switch` (abstract), `KillSwitch` (threads), refinement (checked
   and proved, the notification of observers included). `LiveLoop` uses the atomic
   switch that `KillSwitch` implements.
3. **Signal path** - `Book`, `Portfolio`, `SignalPath` (order manager, risk engine,
   backend and `Book` composed), `PaperRunner` (checked and proved).
4. **Execution** - `Brokers` (checked and proved).
5. **Connections and background work** - `WsRooms`, `WsChannels`, `Webhooks`,
   `BacktestJobs` (checked; safety proved).
6. **Identities, secrets, law** - `SessionTokens`, `Credentials`, `Accounts`,
   `SocketAccess`, `AuditAndSecrets`, `Erasure`, `LegalGates` (checked and proved).
7. **Data, strategies, plugins, tax and the rest** - one module per component or pair of
   neighbours, listed below (checked; safety proved).

Every safety property that a passing run checks is also proved. Worth modelling next: a ledger of executed quantities as an abstract specification that `LiveLoop` implements;
the Valkey backend of the limiter with the clocks of several pods; and the composition
of the HTTP clients with `LiveLoop` in place of its external broker.

## 3. Modules and the code

`PROJECT.json`, "map", gives the lines of every definition.

| Module | Models | State and actions |
|---|---|---|
| `OmsOrder` | `core/oms/states.py`, `order.py`, `events.py` | no state; `ApplyEvent`, `Accepts` and the transition table as operators. Money is integer units, the average price is kept as notional and quantity, so no rounding is introduced |
| `LiveLoop` | `core/live/loop.py`, `core/oms/risk.py`; the broker is external | `byOmsId`, `brokerToOms`, `stored` are the registry, the id mapping and the persister; `call` says where each `submit` is. One action per outcome of `submit` before and after `await broker.submit`, one per outcome of `apply_broker_event` |
| `Switch`, `KillSwitch` | `core/live/kill_switch.py` | an atomic switch; and the fields, the lock and per thread the place in `engage`, `disengage` and `_notify`, where a write of a field is a step of its own |
| `Book`, `Portfolio` | `core/portfolio.py` | operators from book to book; calls in any order, one that would raise is not enabled |
| `SignalPath` | `core/order_manager.py`, `core/risk_engine.py`, `core/execution/*`, `core/cost_model.py` with `Book` | `process_signal` up to its first await is one action per exit; the answer of the backend with the booking is one; the publication of the fill another |
| `PaperRunner` | `paper_trade/runner.py` | flags, statistics, and per task the place in `start`, `stop`, `process_feed` or `run` |
| `Brokers` | `execution/live_backend.py`, `brokers/alpaca.py`, `brokers/ibkr.py`, `core/brokers/alpaca`; `core/brokers/paper.py` | four clients with one request loop: submit, repeat, poll, cancel; the broker may act on a request whose answer is lost. Then the paper broker with its pending orders and event queue |
| `RiskGate` | `core/risk_limits.py` | velocity window and breaker, with an account state that may be old |
| `StrategyEngines` | `strategies/multi_manager.py`; `core/strategy_orchestrator.py`, `core/signal_aggregator.py`, `orchestration`, `portfolio/orchestrator.py`, `portfolio/multi_strategy.py` | registrations and weights that change while strategies are awaited, one after the other; an answer is a list of signals on any symbols, or no list at all |
| `StrategyReleases` | `core/strategy_versioning.py`, `core/strategy_lifecycle.py`, `core/strategy_evaluator.py` | deploy, activate, rollback with each registry call a step; stages and their gates; scores, grades and ranks in whole numbers |
| `Allocation` | `core/capital_allocation.py`, `portfolio/allocation.py`, `portfolio/rebalancer.py` | apportionment and rebalancing in cents |
| `TaxYears`, `LotAdjustments` | `core/tax/reports`; `core/tax/wash_sale.py`, `core/corp_actions.py` | one step per tax year in four jurisdictions with carryback; one step per trade, and adjustment factors as fractions |
| `EventBus` | `events/bus.py`; `app.py` | handler lists with their identity, publishers at each handler, the connection to redis; start, serve and shutdown of the application, each step with its failure; an engine that could not be made is only logged |
| `Webhooks` | `events/webhook_dispatcher.py`, `api/routes/webhooks.py` | tasks that post, retry, add rows and commit once; edits and crashes between |
| `WsRooms`, `WsChannels`, `SocketAccess` | `api/ws`, `ws/bridge.py`; `api/websocket/manager.py`; `api/routes/websocket.py`; `api/ip_utils.py` | registries with heartbeat, sender, broadcast and cleanup as steps of their own; who may be there |
| `RateLimiter` | `api/rate_limit.py` | buckets in parts of a token, ticks, eviction |
| `SessionTokens`, `Accounts`, `Credentials` | `api/sessions.py`, `api/routes/auth.py`, `api/auth`, `auth` | requests as reads and writes with other requests between them; row locks where the database has them |
| `AuditAndSecrets` | `core/audit_log.py`, `core/secrets.py` | a chain of hashes that are the tuples hashed; every call of the secret store is a step: rotation, re-encryption, crash |
| `ProviderClients`, `DataCaches`, `StreamsAndRetention`, `DataQuality` | `data`, `providers`, `core/backtest_runner.py` | candidates asked in turn, clients closed; a key's fetches, files rewritten under a load; buffers and cleanup passes; rules on a frame |
| `BacktestJobs` | `api/routes/backtest.py`, `tasks` | results in the process with a time to live, jobs on a list queue with workers that crash |
| `PluginSandbox` | `plugins` | process-wide hooks under concurrent evaluations; an alarm at any step, a monitor that cannot start, answers that are no list; three import checkers on the same statements |
| `LegalGates`, `Erasure`, `Marketplace` | `legal`, `plugins/scoring_executor.py`, `privacy`, `marketplace` and their routes | documents, acceptances, gates; rankings as sets of a symbol, a score and a rank, and their display; deletion requests and the purge, with the tables that its cascades empty; reviews and pages |
| `MCLiveLoop`, `MCSignalPath`, `MCBackground`, `MCComponents` | - | instances for TLC; `TaxYears`, `WsRooms` and `Erasure` are also checked by themselves |
| `SumLemmas`, `BookProofs` | - | lemmas: finite sums, least counterexamples and places in an order; what trades do to a book, and figures made of a history or a list: tax years, wash sales, pages of the marketplace, adjustment factors, cleaned bars and a backtest on them, capital to the cent |
| `LiveLoopProofs`, `SignalPathProofs` | - | theorems about these modules |
| `PartProofs`, `ServiceProofs` | - | the invariants of single components: of trading, strategies, the event bus and the limiter; of the services around it, the plugins and the sources of data |
| `BackgroundProofs`, `ComponentsProofs` | - | theorems about the two groups, and about the kill-switch |

`MCBackground` and `MCComponents` put components side by side that share no state.
The variable `part`, chosen initially, names the component a behaviour is about; the
others keep their initial state. The states are the sum of the components' states,
not their product, and one run covers all of them.

Conventions. Code between two awaits (or under a lock) is one action. Percentages
are integers and comparisons are multiplied out; where the code keeps a float and a
module divides, its comment says how it rounds. Random draws are choices. History
variables only serve properties and bounds. Operators called `Mut...` are plausible
mistakes in the definition that follows them: each property is violated when its
mutant replaces that definition (`PROJECT.json`, "mutants"), which shows that the
property depends on the code.

## 4. Runs

| Run | Instance | Shows |
|---|---|---|
| `live_loop` | two orders of one share, two broker ids, two attempts, one engagement | broker ids lead to the right order through retries and lost replies; an engaged switch stops what was not in flight |
| `live_loop_order` | one order of three shares, one replayed event, failing persister, fair | shares are accounted for at prices that were traded, the order is never overfilled, terminal is final, the store is never ahead, a requested cancel resolves |
| `signal_tasks` | two concurrent calls, three orders, one continuation, one reset | booking, log and announcements agree; cash, daily limit and breaker stay right although validation and booking are apart |
| `signal_runner` | one call at a time, two symbols, an order of four shares that is filled in parts, fair | the limit on open positions holds; every call ends |
| `background` | the kill-switch with threads and observers, a paper session with two tasks, a dispatch to two hooks, both WebSocket managers, three backtest jobs; fair | records are true, snapshots whole, the atomic switch is implemented; transitions reach observers, deliveries and work end, dead sockets go |
| `components` | forty-one components, two callers each where calls race | the fifteen invariants and the action property below |
| `cancel_reject` (violated) | the broker may reject a cancel | an order in the terminal REJECTED that the broker still works |
| `kill_switch_resting` (violated) | fair | engaging the switch leaves resting orders alone |
| `signal_overfill` (violated) | one order | a continued order is filled past its quantity |
| `ws_foreign_message` (violated) | one connection | a dict of the order bridge makes the sender unregister a healthy connection |
| `deletion_undo` (violated) | one user | a pending deletion cannot be cancelled through its route |
| `german_losses` (violated) | two years | a loss is relieved in its year and carried forward as well |

The properties of the two groups are conjunctions of the components' own, which
stand with a comment at the end of each module:

| Property | Parts |
|---|---|
| `BookBalances` | `LotsMatchPosition`, `CashFollowsTrades`, `ProfitMatchesBasis` |
| `CapitalKept` | `EvaluationWithinCapital`, `DeployedWithinCapital`, `ApportionedExactly`, `RebalanceSettles` |
| `DecisionsGrounded` | `VelocityHolds`, `DecisionHasVoter`, `EveryStrategyReported`, `OneActiveVersion`, `VersionsDistinct`, `LiveWasGated`, `BetterNeverRanksLower` |
| `BrokerAgrees` | `OneOrderPerSubmit`, `ReturnedMeansDone`, `LostIsOver`, `OneOutcomePerOrder` |
| `PluginsContained` | `HooksRestored`, `MetricsTellOutcome`, `GuardLeavesNothing`, `AlarmHitsHolder`, `LoadedIsImportable`, `AstIsStricter`, `OpenedIsInside` |
| `LossesRelievedOnce` | `LossesUsedOnce`, `WashSalesMatched` |
| `StepsFollowHistory` | `SalesFollowMethod`, `NothingAfterLoss`, `RollbackToServed` |
| `EventsDelivered` | `StandingHandlersCalled`, `LogHoldsLatest`, `OneBus`, `LifespanOrderly` |
| `LimitsHold` | `AdmittedWithinRate`, `RetryAfterIsEnough`, `AddressIsClient`, `ActiveWithinCap`, `LinksOwned` |
| `CredentialsActForOwner` | `OneRowPerIdentity`, `TokensForOwners`, `FlowStartedHere`, `KeyActsForOwner`, `IdentityIsFlowOwner`, `AcceptedIsGenuine`, `RoomsWereGranted`, `TopicsStayWithUser` |
| `SpentStaysSpent` | `RevokedStaysRevoked`, `ExchangedOnce`, `CodesSingleUse`, `TamperingShows` |
| `LegalDutiesKept` | `PurgedWasDue`, `PurgeIsWhole`, `CancelledStays`, `ServedHadAccepted`, `AcceptingAdmits`, `ShownWithinLaw` |
| `DataHonest` | `VerdictIsHonest`, `OneFetchPerKey`, `CacheMovesForward`, `NoStaleBars`, `SizesMatchStore`, `NoClientLeaks`, `ItemsAccounted`, `ReplayTellsGaps`, `RetentionFollowsAge` |
| `CleaningExplained` | `CleanedIsExplained`, `StaleRunsReported`, `RevenueRepaired`, `NoLookAhead`, `CurveIsPrefix`, `AdjustmentsCompose` |
| `ConnectionsInStep` | `RoomsMatchConnections`, `HeartbeatWatches`, `MembersAreConnected` |
| `RecordsKept` | `RowsTellTheTruth`, `RowsAppearTogether`, `ResultStaysForTtl` |
| `DeliverySettles` | `NoPostAfterFinalAnswer`, `DispatchesEnd` |
| `SocketsSettle` | `ShutdownLeavesNone`, `DeadConnectionsGo`, `DeadSocketsLeave` |
| `WorkEnds` | `StopEndsFeeds`, `QueuedJobsRun`, `OutcomeIsFinal` |

`PagesComplete` (`Marketplace`), `SecretsSurviveRotation` (`AuditAndSecrets`), `SignalsAccounted`
(`PaperRunner`), `SnapshotsAreWhole`, `NotifiedOncePerTransition`, `ImplementsSwitch` and
`TransitionsReachObservers` (`KillSwitch`) stand alone. On the signal path
`FillsRecorded` joins `PositionsMatchOrders`, `FilledIsLogged`, `FillsAnnounced` and
`FilledIffReached`, and `ChecksOutliveAwaits` joins `CashNotOverdrawn` and
`DailyLimitHolds`.

**Bounds.** Every bound is a constant named in its module. Two orders, calls,
threads or tasks are the least that race, and the third thread of the kill-switch
reads while two write. Three shares allow a partial fill, a second one and the
last one, and a replay between any two. Two attempts are a lost reply and its
retry. Two prices distinguish gain, loss, drawdown and recovery (the initial cash
of 13 is small enough for one loss of a share to trip the 10 % drawdown and for slippage
to overdraw it). Lists of up to two signals are one signal, two that add up, two that cancel out and two on different symbols. Two days with a window of one day put a purchase inside and
outside the wash-sale window. Caps (log size, sessions, pool, cache entries, buckets,
buffers) are one or two, so that the second or third call meets a full one; three
changes of the handler list are two subscriptions and a removal during a publication;
three tax years carry a loss twice. A rotation of keys happens twice, so that a key is
previous and then gone. Runs that use `CHECK_DEADLOCK FALSE` stop where a bound is
reached or every order has ended.

**Fairness.** `LiveLoop`: the consumer of the event stream goes on, `submit`
returns or raises once awaited, and a broker that was asked to cancel acts on the
order; submissions, engagements and retries are not fair. `KillSwitch`: a thread
inside a call is scheduled again; no call has to begin. `SignalPath`: the paper
backend's sleep ends, and the publication ends by the two-second timeout of
`_publish_fill_event`. `PaperRunner`: hooks, evaluation and orders come back, and
the feed yields a tick or ends; the last is an assumption about the environment,
as `process_feed` waits for the feed without a timeout. `Webhooks`: a dispatch that
was begun goes on, as each POST has a timeout; crashes are not fair and bounded.
`WsRooms`: the heartbeat task wakes again; `WsChannels`: a broadcast goes on, as each
send has a timeout. `BacktestJobs`: workers that are up take jobs and finish them.

## 5. Proofs

TLAPS checks these for every value of the constants. Every invariant below was first
checked by TLC on the instance of its run.

**The live loop** (`LiveLoopProofs`; positive quantities, natural prices and bounds,
`None` not an id).

* `TypeCorrect`, `CorrelationIsSound`, `NeverOverfilled`, `KillSwitchStopsTheRest`,
  `StoreIsNeverAhead`, and the action property `TerminalStays` (`TerminalIsFinal`).
  `CorrelationSound` is not inductive: the mapping is written after the await, so one
  has to know that an order between the two halves of `submit` is tracked by nobody
  (`UntrackedUntilReturn`), that its accepted broker id has no mapping yet and names that
  order (`MappingInv`), and what the registry can hold (`RegistryInv`).
  `FilledIffComplete` needs the quantities of every registered order, the guards of the
  state machine alone being about one event; `OnlyInFlightPassKillSwitch` the order of
  engagement numbers at the gate, at acceptance and now (`KillInv`); `StoredNeverAhead`
  that an accepted event never lowers the filled quantity and leaves no terminal status.
* `SharesAreAccounted` (`FillsAccounted`): shares filled at a broker are held by the
  order, still queued, or counted as lost or refused, and the cost of an order is that of
  its fills. `FlowInv` adds to `Inv` the balance of every broker order as a sum over the
  positions of its events; delivering, losing or replaying an event moves one term.
* `RefusalsFollowGaps` (`RefusedOnlyAfterGap`), when the broker rejects no cancel
  (`~CancelRejects`, as in the run; the run `cancel_reject` shows the other case).
  `GapInv` says of each queue what the state machine will make of its events in order.

**The kill-switch** (`BackgroundProofs`; any number of threads, observers, reasons).

* `TypeCorrect`, `NoTornSnapshot` (`SnapshotsAreWhole`), and `Refinement`:
  `Spec => ImplementsSwitch`. The fields are torn while a thread is between its writes,
  so the invariant says that only the holder of the lock is there (`LockInv`) and that
  the fields agree whenever nobody is (`FieldsInv`). The write of the state is the
  abstract transition, every other step stutters.
* `EveryTransitionNotified` (`NotifiedOncePerTransition`): `NotifyInv` accounts, for an
  observer that stays, for each transition as told or in the copy of the list of one
  thread. It assumes that the registrations made at the start are distinct
  (`IsInjective(InitialObservers)`): a callback that is added twice is two registrations.

**The signal path** (`SignalPathProofs`, on the lemmas of `BookProofs`).

* `WhatOrdersShowIsKnown` (`FillsRecorded`), `DailyLimit`, `BreakerHalts`
  (`HaltedUntilReset`). `SignalInv` relates the position of each symbol to the signed sum of
  what its orders show, the log to the fills, announcements to the calls that are still
  to publish, and the daily counter to the orders approved since the reset.
* `ChecksHold` (`ChecksOutliveAwaits`): cash validated before the await is not
  overdrawn after it. `CashInv` has one reservation per call between its two halves. The
  hypothesis `ProceedsCoverCosts(low)` says that the costs of an order do not exceed what
  a fill of it brings in at the lowest price; without it a sale lowers the cash, which the
  code validates for purchases only. Costs are a few basis points and a commission, and the
  run's instance satisfies it.
* `PositionLimit` (`OpenPositionsWithinLimit`) under `OneCallAtATime`: the runners await
  each `process_signal`; two concurrent calls do pass the limit together, as the count is
  taken before the await.

**The two groups.** A component's invariant is proved for its own steps; a step of the
group is a step of one component or leaves it alone (`OneWorks`, and the lemmas
`...Kept` of `ComponentsProofs`), so each invariant holds in the group and so do the
conjunctions that the runs check.

| Theorem | Property | Inductive invariant, and what it adds |
|---|---|---|
| `ConnectionsStayInStep` | `ConnectionsInStep` | `WsInv`, `ChannelInv`: what a broadcast or a cleanup took before its await is still a connection or gone from every index |
| `SignalsCounted` | `SignalsAccounted` | `RunnerInv`: the signals in the hands of each task, summed over the tasks (finitely many) |
| `RecordsStay`, `FinalAnswersEndPosts`, `OutcomesStand` | `RecordsKept`, the action properties `NoPostAfterFinalAnswer` and `OutcomeIsFinal` | `WebhookInv`: the answers a task holds are those it was given and its rows are not yet visible; `JobsInv`: what polls were told and since when |
| `BooksBalance` | `BookBalances` | `PortfolioInv`: types of lots and positions, lots add up, basis as a sum over the lots. Under `SalesCoverCosts`: `close_position` does not check that the proceeds exceed the costs |
| `StepsFollow` | `StepsFollowHistory` (action) | `BookSound`, `GateInv` (a loss latches the breaker), `VersionInv` (what a call read under the strategy's lock is still so) |
| `BrokersAgree` | `BrokerAgrees` | `BrokerInv`: the orders a call made at the broker are those of its client order id; `PaperInv`: a resting order was acknowledged and has no outcome |
| `SpentStays` | `SpentStaysSpent` | `SessionInv`, `TokenInv`, `MfaInv`, `AuditInv`: what a request read before its await and may still write |
| `SecretsSurvive` | `SecretsSurviveRotation` | `SecretInv`: which key each secret is under at each step of rotation and re-encryption |
| `CredentialsActTheirOwners` | `CredentialsActForOwner` | `KeyInv`, `FlowInv`, `AccountInv` (identities stay with their row; a request holds the identity its page was opened for), `HandshakeInv`, `TopicsInv` |
| `LegalDutiesStand` | `LegalDutiesKept` | `PurgeInv`: rows of `dsr_requests` and deletion requests move together, the pending ones of a user are of one day, and none is left of a purged user; `LegalInv`: acceptances are stored or in flight, a later one is of a later version as long as no document went back, none is ahead of its document; `ScoreInv`: stored rankings go down, the default validator is within the law |
| `EventsReachHandlers` | `EventsDelivered` | `BusInv`: a walk has called the handlers of its list up to where it is, and what stood throughout is in that list; the log holds the latest events. `LifeInv`: what is open was opened in order and is closed in order |
| `LimitsStand` | `LimitsHold` | `LimiterInv`: what a bucket holds and what it let through since an admission come from one full burst and the refill since; the bucket of a refused key holds a token by the promised time. `RequestInv`; `CapInv`: who made room under the lock still has it; `PoolInv`: a connection is idle once or held once, never both |
| `PluginsStayContained` | `PluginsContained` | `SandboxInv`: only the holder of the process-wide locks has changed hooks and limits, and what it will put back is what it found; `GuardInv`: the timer, the handler and the tracing are those of the holder of the guard, or were left by one whose monitor did not start; `PolicyInv`: what was loaded passed the policy of the moment |
| `DataStaysHonest` | `DataHonest` | `FailoverInv`: what a call has said of its candidates so far is true; `CachedInv`: a reader that fetches holds the lock of its key and no entry is ahead of the source; `HistoryInv`: a load under way has read the file it will store under that key; `YahooInv`; `StreamInv`: the log is consecutive and its sequence numbers end where the next begins; `RetentionInv`: what a pass has done was due |
| `DecisionsStayGrounded` | `DecisionsGrounded` | `WindowInv`: the orders in the velocity window are the latest ones; `VersionInv`, `ServingInv`: version numbers count up and one version serves; `StageInv`; `ManagerInv`: what was evaluated, refused or left stands in the report; `VoteInv`; `EvaluatorInv`: scores lie between 0 and 100 and every step of the score is monotone, through the divisions that round |
| `CapitalIsKept` | `CapitalKept` | `ManagerInv`: the percentages given so far and those still registered are within one hundred; `VoteInv`: the nets of all symbols, summed symbol by symbol and strategy by strategy, are within the shares times the greatest claim of a strategy; `AllocationInv`: largest remainders add up to the cent, and the rounding errors of the orders of a rebalancing to less than a cent for each strategy |
| `LossesAreRelievedOnce` | `LossesRelievedOnce` | `TaxInv`: what was relieved and what is carried come from losses, year by year and pot by pot; `WashInv`, with the shares that each turn of the matching takes from a sale and from a purchase. Under `OneGermanPot`, see below |
| `PagesAreComplete` | `PagesComplete` | `MarketInv`: what a reader was promised and has not seen yet stands at a place not yet passed: submissions only push reviews to later places. Reviews and hits are shown in a strict order, so each has a place of its own |
| `CleaningIsExplained` | `CleaningExplained` | `QualityInv`: what the validator left and reported is its answer to the frame; the curve has one point for each good row so far and the bars shown last end at the last of them. `CorpInv`: every action of the log could be constructed |

The services assume of their constants that no caller is called like the free lock
(`SessionAssumption`, `TokenAssumption`, `VersionAssumption`), that the flows are the
providers the code has (`FlowsAssumption`; local registration takes no other), that the
universe of a scoring and the documents are finite and ceilings are scores
(`ScoringAssumption`, `LegalAssumption`: the tables and the configuration have finitely many
rows, `Required` are documents). So are the tiers of the limiter (`LimiterAssumption`). A
client is no trusted proxy and what is no address is neither (`AddressAssumption`); no
directory connection is called like the absence of one (`PoolSizeAssumption`). The same
holds of the names of free locks and absent plugins, threads and readers
(`SandboxAssumption`, `GuardAssumption`, `CachedAssumption`). Strategies, voters, funds,
raters and stars are finitely many; weights, values, prices and sizes are whole numbers, not
negative where the code checks it (`ManagerAssumption`, `VoteAssumption`, `FundsAssumption`,
`MarketAssumption`, `EvaluatorAssumption`, `TaxAssumption`, `WashAssumption`,
`CorpAssumption`, `QualityAssumption`). A retention policy compresses no later than it deletes
and its slices are days (`RetentionAssumption`); allowed modules are top-level names and no
denied module lies under one (`PolicyAssumption`, which the tables of the code satisfy).

`LossesAreRelievedOnce` has one hypothesis that the code does not guarantee: where the German
rules are in use, one of the two pots is (`OneGermanPot`). With both the property is false,
and the run `german_losses` shows it; the instance of `components` has one.

**What the proofs changed.** Two properties were found to say too much and were corrected:
`RebalanceSettles` claimed that a second rebalancing has nothing to trade whenever the
threshold is above a cent, which holds up to three strategies and fails for four (weights of
96 and 1, values of 49 and 0 and a threshold of 2.5 % are a counterexample TLC finds); it now asks for
a threshold above the rounding errors of all of them. The last part of `WashSalesMatched`
is false for a window of no days, in which no purchase is ever a replacement; it now says so.
Sequences the code sorts, filters or folds are stated by the place of each element or by
a recursive function, since `SortSeq`, `SelectSeq` and `FoldSeq` cannot be unfolded; TLC
evaluated the old and the new definitions to the same values.

**Lemmas.** Neither recursion nor an induction theorem is available to the provers, so
what holds of all finite sums or all sequences is proved from a least counterexample
(`LeastNatural`, `Smallest`, `GreatestAt` in `SumLemmas`). On them rest: a sum splits off
a member, follows a change of one, keeps sign and order, and a strict
order has each of its places filled by one member (`PlacesInOrder`, both in `SumLemmas`); a sale of n shares
takes exactly n from the lots in the order of the method and what it takes leaves the basis
(`BookProofs`). For this the sums of `Book` are over sets of positions (`SumOver`) and
lots that are emptied are dropped by a recursive function (`WithoutEmpty`) and not by
`SelectSeq`, which the provers cannot unfold.

**Only model-checked.** Liveness (`CancelResolves`, `TransitionsReachObservers`,
`CallsEnd`, `DeliverySettles`, `SocketsSettle`, `WorkEnds`) is outside the prover; the
properties of the violated runs are false. Every safety property and every action
property of the passing runs is proved.

## 6. Disagreements between code and documents

`PROJECT.json`, "findings", quotes the lines of the six that a run shows: a rejected
cancel ends in a terminal status although a comment says the order is back in
flight; engaging the kill-switch cancels nothing although its module says the engine
must attempt it; `continue_order` executes the whole order again although its
docstring says the remainder; a message of the order bridge makes the sender drop a
healthy socket as gone; a pending deletion cannot be cancelled by its owner; a German
loss is relieved twice.

Others were met while modelling and have no run of their own. The properties admit
them explicitly, and the hazards and the modules' comments say where:

* nothing calls `reset_daily_counters` (`risk_engine.py:133`); `continue_order` does not
  ask the latched breaker; two overlapping starts of a paper session both pass and
  `max_ticks` is compared after the tick (`runner.py:232`, `:296`); every purchase in
  the window carries the same disallowed loss (`portfolio.py`);
* a fill is applied to the order before the portfolio accepts it (`order_manager.py`);
* two requests that hold the same row accept one backup code twice (`mfa_service.py`);
  two deletion requests pass the check for a pending one together (`deletion.py:81`);
* a document that goes back a version and forward again locks users out
  (`legal/service.py:177`); the gate's settings are read once (`scoring_gate.py`);
* a socket keeps its rooms when it authenticates as another user (`ws/router.py:186`);
* a put or a delete during `reencrypt_all` is overwritten or undone (`secrets.py:260`);
* a worker that crashes loses the job it popped, and a failed backtest is stored as a
  success by the result backend (`tasks/definitions.py:435`);
* an injected HTTP client is closed after its first request (`yahoo_provider.py:346`);
* `data/providers/cached.py` has a lock per key and does not take it;
* results of `search.py` are ordered by score and name, not by score, downloads and
  name; `pfu_carryover.py:143` drops a loss in its tenth year, line 11 says 2034 included;
* a win rate of at most one percent is read as a fraction (`strategy_evaluator.py`),
  although `metrics.py` reports percent;
* `create_app` builds the limiter's backend before the lifespan opens the Valkey client,
  so the shared buckets are never used; a start that fails closes nothing;
* `multi_strategy.py` sums every signal of a strategy (lines 479, 545), so one that sends two
  full BUYs deploys twice its allocation, although lines 11-12 call the allocation the
  source of truth; `DeployedWithinCapital` bounds the deployment by what was claimed;
* an answer that is no list raises outside the `try` that contains a strategy's errors
  (`strategy_orchestrator.py:361`, `multi_strategy.py:473`, `portfolio/orchestrator.py:219`,
  `multi_manager.py:522`) and ends the round of all; in `plugins/sandbox/__init__.py:573` it
  leaves `safe_evaluate` uncounted, which line 521 says never crashes the engine;
* a monitor thread that cannot start (`resource_limits.py:402`) leaves the timer armed and
  its handler installed;
* a failing `get_engine` is only logged (`app.py:142`), and the application serves without;
  `app.py:195` builds a bus that `get_event_bus` does not know, which makes a second one;
* `deletion.py:54` keeps `trade_records` for legal reasons, and the cascades from the
  portfolios it deletes (`db/models.py:95`, `:192`) remove the orders and the tax lots;
* webhook attempts are committed once per dispatch, so a crash loses those that
  `webhook_dispatcher.py:7` says persist; `RecordsKept` speaks of committed rows.

## 7. Coverage and what is not modelled

The map names about 31 % of the implementation's lines. It counts only lines a
definition stands for: the request handlers, state machines, stores and algorithms
above. The rest is, by size: tables of reference data (`reference/seed.py`), formulas
over floats (`core/metrics*.py`, `core/options`, `core/*_optimizer.py`, analytics),
schemas, routes that read and format, formatting of tax forms and reports,
observability and middleware without state, tool definitions of the MCP server,
scripts, the SDK's examples and the frontend. Of modelled files, docstrings, logging,
serialisation and accessors are outside the map as well. Of components called "partly":
the limiter's Valkey backend (buckets shared by pods whose clocks differ), the cost
model's arithmetic and the random draws of the backends are abstracted to choices.
`PROJECT.json` gives the reason for each component that is not modelled.
