----------------------------- MODULE Allocation -----------------------------
(****************************************************************************)
(* Capital among strategies, in cents: apportionment by largest remainder   *)
(* (core/capital_allocation.py), shares rounded one by one                  *)
(* (portfolio/allocation.py), the drift from the target weights and the     *)
(* orders that remove it (portfolio/rebalancer.py).                         *)
(****************************************************************************)
EXTENDS Integers, Sequences, FiniteSets, FiniteSetsExt, Functions

CONSTANTS Funds,          \* strategies with capital, integers that stand for their ids
          FundWeights,    \* weights
          FundValues,     \* values a strategy may have, in cents
          DriftPermille,  \* threshold
          MaxMarks        \* market moves

ASSUME FundsAssumption ==
    /\ Funds \subseteq Nat /\ IsFiniteSet(Funds)
    /\ FundWeights \subseteq Nat /\ FundValues \subseteq Nat /\ DriftPermille \in Nat

VARIABLES alWeights,  \* target weights as given; normalised when used
          alValues,   \* current values
          alPlan,     \* capital apportioned to the strategies
          alStage,    \* "drifting", "ordered" or "rebalanced"
          alOrders,   \* the orders of the last rebalance: signed cents
          alMarks

alVars == <<alWeights, alValues, alPlan, alStage, alOrders, alMarks>>

Total(f) == MapThenSumSet(LAMBDA s : f[s], DOMAIN f)
Abs(n) == IF n < 0 THEN -n ELSE n
\* round() and Decimal.quantize: half to even; the divisor is positive.
Rounded(num, den) ==
    LET down == num \div den
        twice == 2 * (num % den)
    IN IF twice < den \/ (twice = den /\ down % 2 = 0) THEN down ELSE down + 1

\* PortfolioRebalancer.__init__: weights of nothing mean equal shares.
Targets(w) == IF Total(w) = 0 THEN [s \in DOMAIN w |-> 1] ELSE w

\* allocate_capital: the floors, then one cent each to the largest remainders,
\* ties to the lesser id. Refused without a positive weight.
MutWinners(cents, w, left) == {s \in Funds : (cents * w[s]) % Total(w) # 0}
Winners(cents, w, left) ==
    LET rest(s) == (cents * w[s]) % Total(w)
        before(s) == {o \in DOMAIN w : rest(o) > rest(s) \/ (rest(o) = rest(s) /\ o < s)}
    IN {s \in DOMAIN w : Cardinality(before(s)) < left}
AllocateCapital(cents, w) ==
    LET floors == [s \in DOMAIN w |-> (cents * w[s]) \div Total(w)]
        left == cents - Total(floors)
    IN [s \in DOMAIN w |-> IF s \in Winners(cents, w, left) THEN floors[s] + 1 ELSE floors[s]]

\* CapitalAllocation.get_allocation: each share rounded by itself.
GetAllocation(cents, w, s) == IF w[s] = 0 THEN 0 ELSE Rounded(cents * w[s], Total(w))

\* Drift of a strategy times total capital times the sum of weights.
DriftOf(w, v, s) == v[s] * Total(w) - w[s] * Total(v)
\* needs_rebalance: strictly beyond the threshold, never without capital.
NeedsRebalance(w, v) ==
    /\ Total(v) > 0
    /\ \E s \in DOMAIN w : 1000 * Abs(DriftOf(w, v, s)) > DriftPermille * Total(w) * Total(v)
\* generate_rebalance_orders: what a strategy gets or gives up, to the cent.
MutRebalanceOrders(w, v) == [s \in DOMAIN w |-> -(DriftOf(w, v, s) \div Total(w))]
RebalanceOrders(w, v) ==
    [s \in DOMAIN w |-> LET d == DriftOf(w, v, s)
                        IN IF d > 0 THEN -Rounded(d, Total(w)) ELSE Rounded(-d, Total(w))]

AllocationInit ==
    /\ alWeights \in [Funds -> FundWeights] /\ alValues \in [Funds -> FundValues]
    /\ alPlan = [s \in Funds |-> 0] /\ alOrders = [s \in Funds |-> 0]
    /\ alStage = "drifting" /\ alMarks = 0

\* The capital in the strategies is apportioned by the weights.
PlanCapital ==
    /\ Total(alWeights) > 0 /\ alPlan' = AllocateCapital(Total(alValues), alWeights)
    /\ alPlan' # alPlan
    /\ UNCHANGED <<alWeights, alValues, alStage, alOrders, alMarks>>
\* The orders of a portfolio that drifted, and their execution.
OrderRebalance ==
    /\ alStage # "ordered" /\ NeedsRebalance(Targets(alWeights), alValues)
    /\ alOrders' = RebalanceOrders(Targets(alWeights), alValues)
    /\ alStage' = "ordered"
    /\ UNCHANGED <<alWeights, alValues, alPlan, alMarks>>
ExecuteRebalance ==
    /\ alStage = "ordered" /\ alStage' = "rebalanced"
    /\ alValues' = [s \in Funds |-> alValues[s] + alOrders[s]]
    /\ UNCHANGED <<alWeights, alPlan, alOrders, alMarks>>
\* The market moves a value, or the weights are set anew.
MarkValue(s, v) ==
    /\ alMarks < MaxMarks /\ alMarks' = alMarks + 1
    /\ alValues' = [alValues EXCEPT ![s] = v] /\ alStage' = "drifting"
    /\ UNCHANGED <<alWeights, alPlan, alOrders>>
SetWeight(s, w) ==
    /\ alMarks < MaxMarks /\ alMarks' = alMarks + 1
    /\ alWeights' = [alWeights EXCEPT ![s] = w] /\ alStage' = "drifting"
    /\ UNCHANGED <<alValues, alPlan, alOrders>>

AllocationNext ==
    \/ PlanCapital \/ OrderRebalance \/ ExecuteRebalance
    \/ \E s \in Funds : 
         \/ \E v \in FundValues : MarkValue(s, v)
         \/ \E w \in FundWeights : SetWeight(s, w)

----------------------------------------
\* Apportioned capital adds up to the cent; nobody is a whole cent from the exact
\* share, and who has the larger weight has no less. Shares that are rounded one
\* by one miss the total by at most half a cent each (total_allocated).
ApportionedExactly ==
    Total(alWeights) > 0 =>
       LET cents == Total(alValues)
           plan == AllocateCapital(cents, alWeights)
           single == [s \in Funds |-> GetAllocation(cents, alWeights, s)]
       IN /\ Total(plan) = cents
          /\ \A s \in Funds : Abs(plan[s] * Total(alWeights) - cents * alWeights[s]) < Total(alWeights)
          /\ \A s, o \in Funds : alWeights[s] < alWeights[o] => plan[s] <= plan[o]
          /\ 2 * Abs(Total(single) - cents) <= Cardinality(Funds)

\* The orders of a rebalance move money among the strategies without making any,
\* up to half a cent each, never sell more than there is, and leave a portfolio
\* that does not ask for another rebalance, when half a cent for each strategy is
\* within the threshold: that much the rounded orders may move the total.
RebalanceSettles ==
    /\ alStage = "ordered" => /\ 2 * Abs(Total(alOrders)) <= Cardinality(Funds)
                              /\ \A s \in Funds : alValues[s] + alOrders[s] >= 0
    /\ alStage = "rebalanced" /\ 500 * Cardinality(Funds) <= DriftPermille * Total(alValues) =>
          ~NeedsRebalance(Targets(alWeights), alValues)
=============================================================================
