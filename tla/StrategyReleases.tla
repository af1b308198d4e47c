-------------------------- MODULE StrategyReleases ---------------------------
(***************************************************************************)
(* How a strategy reaches production: its versions, its lifecycle stages,  *)
(* then its score.  The parts share no state.                              *)
(***************************************************************************)
EXTENDS Integers, Sequences, FiniteSets, SequencesExt

(* Deployments of one strategy (engine/core/strategy_versioning.py).  Calls   *)
(* are serialised by the strategy's lock; every registry call inside is     *)
(* awaited, so a call is a lock step with a read and one or two writes.     *)
CONSTANTS VersionCalls,  \* concurrent calls of the version service
          Contents,      \* code and config pairs: what the hashes tell apart
          MaxVersions,   \* bound: versions deployed
          MaxActivations \* bound: activations and rollbacks

ASSUME VersionAssumption ==
    /\ MaxVersions \in Nat /\ MaxActivations \in Nat
    /\ "free" \notin VersionCalls      \* what no holder is called

VARIABLES veRows,    \* the registry: versions in the order they were saved first
          veLock,    \* _strategy_locks: the call that holds it, or "free"
          veCall,    \* each call: pc, operation, argument, what it read
          veClock    \* activations so far: the epoch of last_activated_at_epoch

veVars == <<veRows, veLock, veCall, veClock>>

NoVersionCall == [pc |-> "idle", op |-> "none", arg |-> "none", n |-> 0, seen |-> <<>>]

VersionInit ==
    /\ veRows = <<>> /\ veLock = "free" /\ veClock = 0
    /\ veCall = [c \in VersionCalls |-> NoVersionCall]

AtVersion(c, pc) == veCall[c].pc = pc
VersionIds == DOMAIN veRows
Having(rows, status) == {i \in DOMAIN rows : rows[i].status = status}

----------------------------------------
(* StrategyVersionService *)

\* A call arrives: deploy of a content, or activate, rollback, retire.  activate
\* and retire look their version up before they wait for the lock.
VersionCall(c) ==
    /\ AtVersion(c, "idle")
    /\ \/ \E k \in Contents : veCall' = [veCall EXCEPT ![c] =
              [pc |-> "wait", op |-> "deploy", arg |-> k, n |-> 0, seen |-> <<>>]]
       \/ \E i \in VersionIds, op \in {"activate", "retire", "retireActive"} : veCall' = [veCall EXCEPT ![c] =
              [pc |-> "wait", op |-> op, arg |-> "none", n |-> i, seen |-> <<>>]]
       \/ veCall' = [veCall EXCEPT ![c] =
              [pc |-> "wait", op |-> "rollback", arg |-> "none", n |-> 0, seen |-> <<>>]]
    /\ UNCHANGED <<veRows, veLock, veClock>>

MutLockFree == TRUE           \* no lock

LockFree == veLock = "free"

\* The lock is taken and the registry read.
VersionRead(c) ==
    /\ AtVersion(c, "wait") /\ LockFree
    /\ veLock' = c
    /\ veCall' = [veCall EXCEPT ![c] = [veCall[c] EXCEPT !.pc = "read", !.seen = veRows]]
    /\ UNCHANGED <<veRows, veClock>>

VersionEnds(c) ==
    /\ veLock' = "free"
    /\ veCall' = [veCall EXCEPT ![c] = NoVersionCall]

\* deploy: the existing version of this content, or a draft with the next number.
Deploy(c) ==
    LET seen == veCall[c].seen IN
    /\ AtVersion(c, "read") /\ veCall[c].op = "deploy"
    /\ IF \E i \in DOMAIN seen : seen[i].content = veCall[c].arg THEN UNCHANGED veRows
       ELSE /\ Len(veRows) < MaxVersions
            /\ veRows' = Append(veRows, [content |-> veCall[c].arg, status |-> "draft", last |-> 0,
                            num |-> 1 + Max({0} \cup {seen[i].num : i \in DOMAIN seen})])
    /\ VersionEnds(c)
    /\ UNCHANGED veClock

\* activate: a retired version raises; active siblings are saved as retired ...
MutDemoted(c, n) == veRows        \* the prior active version is left active
Demoted(c, n) ==
    [i \in VersionIds |-> IF i # n /\ i \in Having(veCall[c].seen, "active")
                          THEN [veRows[i] EXCEPT !.status = "retired"] ELSE veRows[i]]

MutCandidates(seen) == Having(seen, "retired")      \* also versions that never served

\* rollback: the retired versions that were active once.
Candidates(seen) == {i \in Having(seen, "retired") : seen[i].last > 0}
Latest(seen) == CHOOSE i \in Candidates(seen) : \A j \in Candidates(seen) : seen[i].last >= seen[j].last

DemoteSiblings(c) ==
    LET seen == veCall[c].seen
        n == IF veCall[c].op = "rollback" THEN Latest(seen) ELSE veCall[c].n
    IN
    /\ AtVersion(c, "read") /\ veClock < MaxActivations
    /\ \/ veCall[c].op = "activate" /\ seen[veCall[c].n].status # "retired"
       \/ veCall[c].op = "rollback" /\ Candidates(seen) # {}
    /\ veRows' = Demoted(c, n)
    /\ veCall' = [veCall EXCEPT ![c] = [veCall[c] EXCEPT !.pc = "demoted", !.n = n]]
    /\ UNCHANGED <<veLock, veClock>>

\* ... then the version itself is saved as active.
Promote(c) ==
    /\ AtVersion(c, "demoted")
    /\ veClock' = veClock + 1
    /\ veRows' = [veRows EXCEPT ![veCall[c].n] =
                    [veCall[c].seen[veCall[c].n] EXCEPT !.status = "active", !.last = veClock']]
    /\ VersionEnds(c)

\* retire: an active version only with allow_retire_active.
Retire(c) ==
    /\ AtVersion(c, "read") /\ veCall[c].op \in {"retire", "retireActive"}
    /\ veCall[c].seen[veCall[c].n].status = "active" => veCall[c].op = "retireActive"
    /\ veRows' = [veRows EXCEPT ![veCall[c].n] = [veCall[c].seen[veCall[c].n] EXCEPT !.status = "retired"]]
    /\ VersionEnds(c)
    /\ UNCHANGED veClock

\* The call raises and releases the lock.
VersionRaises(c) ==
    /\ AtVersion(c, "read")
    /\ \/ veCall[c].op = "activate" /\ veCall[c].seen[veCall[c].n].status = "retired"
       \/ veCall[c].op = "rollback" /\ Candidates(veCall[c].seen) = {}
       \/ veCall[c].op = "retire" /\ veCall[c].seen[veCall[c].n].status = "active"
    /\ VersionEnds(c)
    /\ UNCHANGED <<veRows, veClock>>

VersionNext ==
    \E c \in VersionCalls :
        \/ VersionCall(c) \/ VersionRead(c) \/ Deploy(c) \/ DemoteSiblings(c) \/ Promote(c)
        \/ Retire(c) \/ VersionRaises(c)

VersionSpec == VersionInit /\ [][VersionNext]_veVars

----------------------------------------
(* Properties *)

\* Concurrent activate, rollback, retire and deploy calls never leave two active
\* versions ("Exactly one active version per strategy").
OneActiveVersion == Cardinality(Having(veRows, "active")) <= 1

\* The same content is never deployed twice, nor one number given twice.
VersionsDistinct ==
    \A i, j \in VersionIds : i # j => veRows[i].content # veRows[j].content /\ veRows[i].num # veRows[j].num

\* A rollback goes to a version that served before: an activation never revives
\* a retired version that was never active.
RollbackToServed ==
    [][\A i \in VersionIds : veRows[i].status = "retired" /\ veRows'[i].status = "active" => veRows[i].last > 0]_veVars

----------------------------------------
(* Promotion of a strategy to live trading                                   *)
(* (engine/core/strategy_lifecycle.py).  set_stage and promote hold the      *)
(* strategy's lock and await nothing inside it: each is one step.            *)

CONSTANT MaxStageMoves  \* bound: changes of the stage

ASSUME LifecycleAssumption == MaxStageMoves \in Nat

VARIABLES leStage,   \* _stage of the strategy
          leHist     \* history: gates passed since set_stage, and moves made

leVars == <<leStage, leHist>>

LifecycleInit == leStage = "none" /\ leHist = [gates |-> {}, moves |-> 0]

Stages == {"draft", "backtest", "paper", "live", "retired"}
\* Evidence as the gates see it: each figure missing or low, good, or implausible.
Evidence == [backtest : BOOLEAN, sharpe : {"low", "good", "absurd"}, drawdown : BOOLEAN,
             days : {"low", "good", "absurd"}, elapsed : BOOLEAN, paperSharpe : {"low", "good", "absurd"}]

MutValidTransitions == [draft |-> {"backtest", "retired"}, backtest |-> {"paper", "live", "retired"},
    paper |-> {"live", "retired"}, live |-> {"retired"}, retired |-> {}]     \* a short cut to live

ValidTransitions == [draft |-> {"backtest", "retired"}, backtest |-> {"paper", "retired"},
    paper |-> {"live", "retired"}, live |-> {"retired"}, retired |-> {}]

GateBacktestToPaper(e) == e.backtest /\ e.sharpe = "good" /\ e.drawdown
GatePaperToLive(e) == e.days = "good" /\ e.elapsed /\ e.paperSharpe = "good"

\* _GATES has an entry for two pairs of stages only.
Gate(from, to, e) ==
    /\ from = "backtest" /\ to = "paper" => GateBacktestToPaper(e)
    /\ from = "paper" /\ to = "live" => GatePaperToLive(e)

SetStage(stage) ==
    /\ leHist.moves < MaxStageMoves
    /\ leStage' = stage
    /\ leHist' = [gates |-> IF stage = "live" THEN {"backtest", "paper"}
                            ELSE IF stage = "paper" THEN {"backtest"} ELSE {},
                  moves |-> leHist.moves + 1]

PromoteStage(to) ==
    /\ leStage # "none" /\ leHist.moves < MaxStageMoves
    /\ to \in ValidTransitions[leStage]
    /\ \E e \in Evidence : Gate(leStage, to, e)
    /\ leStage' = to
    /\ leHist' = [gates |-> leHist.gates \cup (IF leStage = "backtest" /\ to = "paper" THEN {"backtest"}
                                               ELSE IF leStage = "paper" /\ to = "live" THEN {"paper"} ELSE {}),
                  moves |-> leHist.moves + 1]

LifecycleNext == \E stage \in Stages : SetStage(stage) \/ PromoteStage(stage)

LifecycleSpec == LifecycleInit /\ [][LifecycleNext]_leVars

----------------------------------------
\* A strategy that trades live has passed both gates since an operator last set
\* its stage by hand (set_stage to paper or live vouches for the earlier ones).
LiveWasGated == leStage = "live" => leHist.gates = {"backtest", "paper"}

----------------------------------------
(****************************************************************************)
(* The composite score, grade, warnings and ranking of strategies           *)
(* (core/strategy_evaluator.py) in whole numbers: scores in tenths of a     *)
(* point, Sharpe ratios in tenths, win rates and qualities in hundredths,   *)
(* costs in half-lives of 4 percent, weights in percent.                    *)
(****************************************************************************)

CONSTANTS Reports,      \* the metrics reports that may be evaluated
          WeightSets,   \* weights an evaluator may be constructed with
          Entrants      \* the strategies; numbers stand for names in their order

Dimensions == {"sharpe", "drawdown", "consistency", "cost", "winQuality", "volatility"}

\* Profits of winners and the size of losses are amounts; the weights are numbers.
ASSUME EvaluatorAssumption ==
    /\ Reports \subseteq [sharpe : Int, drawdown : Int, cost : Int, volatility : Int, winRate : Int,
                          winner : Nat, loser : Nat, trades : Nat, rolling : Seq(Int)]
    /\ WeightSets \subseteq [Dimensions -> Int]

VARIABLES ssWeights,   \* the evaluator's weights
          ssResults    \* name -> report and result

ssVars == <<ssWeights, ssResults>>

Greater(a, b) == IF a >= b THEN a ELSE b
Magnitude(n) == IF n < 0 THEN -n ELSE n

\* _piecewise_linear
MutPiecewiseLinear(v, points) ==          \* the upper end of the range is not clamped to
    IF v <= points[1][1] THEN points[1][2]
    ELSE IF v > points[Len(points)][1] THEN 0
    ELSE LET i == CHOOSE i \in 1..(Len(points) - 1) : points[i][1] <= v /\ v <= points[i + 1][1]
             p == points[i]  q == points[i + 1]
         IN p[2] + ((v - p[1]) * (q[2] - p[2])) \div (q[1] - p[1])
PiecewiseLinear(v, points) ==
    IF v <= points[1][1] THEN points[1][2]
    ELSE IF v >= points[Len(points)][1] THEN points[Len(points)][2]
    ELSE LET i == CHOOSE i \in 1..(Len(points) - 1) : points[i][1] <= v /\ v <= points[i + 1][1]
             p == points[i]  q == points[i + 1]
         IN p[2] + ((v - p[1]) * (q[2] - p[2])) \div (q[1] - p[1])

RiskAdjustedScore(sharpe) ==
    PiecewiseLinear(Greater(sharpe, 0), << <<0, 0>>, <<5, 300>>, <<10, 600>>, <<20, 900>>, <<30, 1000>> >>)
DrawdownScore(pct) ==
    PiecewiseLinear(pct, << <<0, 1000>>, <<5, 900>>, <<10, 700>>, <<20, 400>>, <<30, 200>>, <<50, 0>> >>)
StabilityScore(pct) ==
    PiecewiseLinear(pct, << <<0, 1000>>, <<10, 800>>, <<20, 500>>, <<30, 200>>, <<50, 0>> >>)
\* Halved for each half-life, in whole tenths.
Halved == <<1000, 500, 250, 125, 62, 31, 15, 7, 3, 1>>
CostEfficiencyScore(halfLives) == IF halfLives < Len(Halved) THEN Halved[halfLives + 1] ELSE 0
\* A win rate of at most 1.0 is a fraction, one above it a percentage.
WinFraction(r) == IF r.winRate > 100 THEN r.winRate \div 100 ELSE r.winRate
WinQuality(r) == (WinFraction(r) * r.winner) \div r.loser
WinRateQualityScore(r) ==
    IF r.loser = 0 THEN (IF WinFraction(r) = 0 THEN 500 ELSE 1000)
    ELSE PiecewiseLinear(WinQuality(r), << <<0, 0>>, <<50, 250>>, <<100, 500>>, <<200, 800>>, <<300, 1000>> >>)
\* _consistency, over no or two windows: their deviation over their mean (or 0.5).
Consistency(r) ==
    IF Len(r.rolling) < 2 THEN 500
    ELSE LET a == r.rolling[1]  b == r.rolling[2]
         IN Greater(0, 1000 - (250 * Magnitude(a - b)) \div Greater(Magnitude(a + b), 10))

\* What evaluate refuses.
Evaluable(r) == r.drawdown >= 0 /\ r.cost >= 0 /\ r.volatility >= 0 /\ WinFraction(r) \in 0..100

MutDims(r) ==                 \* the more volatile the better
    [sharpe |-> RiskAdjustedScore(r.sharpe), drawdown |-> DrawdownScore(r.drawdown),
     consistency |-> Consistency(r), cost |-> CostEfficiencyScore(r.cost),
     winQuality |-> WinRateQualityScore(r), volatility |-> 1000 - StabilityScore(r.volatility)]
Dims(r) ==
    [sharpe |-> RiskAdjustedScore(r.sharpe), drawdown |-> DrawdownScore(r.drawdown),
     consistency |-> Consistency(r), cost |-> CostEfficiencyScore(r.cost),
     winQuality |-> WinRateQualityScore(r), volatility |-> StabilityScore(r.volatility)]
\* The weighted sum, in thousandths.
Composite(r, w) ==
    LET d == Dims(r)
    IN w.sharpe * d.sharpe + w.drawdown * d.drawdown + w.consistency * d.consistency
       + w.cost * d.cost + w.winQuality * d.winQuality + w.volatility * d.volatility
\* 100 points, in thousandths.
HighestScore == 100000
\* _grade_for: how many of the thresholds from A+ to D are missed.
Thresholds == <<90, 80, 70, 60, 50, 40, 25>>
GradeFor(score) == Cardinality({i \in DOMAIN Thresholds : score < 1000 * Thresholds[i]})

BuildWarnings(r) ==
    {w \in {"negative_sharpe", "drawdown", "cost", "volatility", "win_profile"} :
        \/ w = "negative_sharpe" /\ r.sharpe < 0
        \/ w = "drawdown" /\ r.drawdown >= 20
        \/ w = "cost" /\ 4 * r.cost >= 5
        \/ w = "volatility" /\ r.volatility >= 30
        \/ w = "win_profile" /\ r.loser # 0 /\ r.trades > 0 /\ WinQuality(r) < 50}

\* EvaluationWeights.__post_init__
ValidWeights(w) == /\ \A d \in Dimensions : w[d] >= 0
                   /\ w.sharpe + w.drawdown + w.consistency + w.cost + w.winQuality + w.volatility = 100

EvaluatorInit == ssWeights \in {w \in WeightSets : ValidWeights(w)} /\ ssResults = <<>>
\* evaluate, with the result kept under the strategy's name; a refused report gives none.
Evaluate(n, r) ==
    /\ n = Len(ssResults) + 1 /\ Evaluable(r)
    /\ ssResults' = Append(ssResults, [report |-> r, score |-> Composite(r, ssWeights),
                                       grade |-> GradeFor(Composite(r, ssWeights)), warnings |-> BuildWarnings(r)])
    /\ UNCHANGED ssWeights
EvaluatorNext == \E n \in Entrants, r \in Reports : Evaluate(n, r)

\* rank: highest first, equal ones by name; a place is one more than those before it.
RanksBefore(m, n) ==
    \/ ssResults[m].score > ssResults[n].score
    \/ ssResults[m].score = ssResults[n].score /\ m < n
RankOf(n) == 1 + Cardinality({m \in DOMAIN ssResults : RanksBefore(m, n)})

\* One report is at least as good as another in every metric, its win rate in percent.
AtLeastAsGood(a, b) ==
    /\ a.sharpe >= b.sharpe /\ a.drawdown <= b.drawdown /\ a.cost <= b.cost
    /\ a.volatility <= b.volatility /\ a.rolling = b.rolling /\ a.trades = b.trades
    /\ a.winRate >= b.winRate /\ a.winner >= b.winner /\ a.loser <= b.loser
    /\ a.winRate \notin 1..100 /\ b.winRate \notin 1..100

----------------------------------------
\* A strategy that is at least as good as another in every metric never scores less,
\* never gets a worse grade or a warning the other is spared, and never ranks behind
\* it unless they tie; and every score is between 0 and 100, whatever the weights.
\* Win rates are compared as percentages: one of at most one percent is taken for
\* a fraction (StrategyEvaluator.evaluate, rank).
BetterNeverRanksLower ==
    /\ \A n \in DOMAIN ssResults : ssResults[n].score \in 0..HighestScore
    /\ \A m, n \in DOMAIN ssResults : AtLeastAsGood(ssResults[m].report, ssResults[n].report) =>
          /\ ssResults[m].score >= ssResults[n].score
          /\ ssResults[m].grade <= ssResults[n].grade
          /\ ssResults[m].warnings \subseteq ssResults[n].warnings
          /\ ssResults[m].score # ssResults[n].score => RankOf(m) < RankOf(n)
=============================================================================
