--------------------------- MODULE StrategyEngines ---------------------------
(***************************************************************************)
(* Several strategies on one account: the manager of their capital, then   *)
(* the combination of their signals.  The parts share no state.            *)
(***************************************************************************)
EXTENDS Integers, Sequences, FiniteSetsExt

(***************************************************************************)
(* MultiStrategyManager (src/engine/strategies/multi_manager.py).  An      *)
(* evaluation walks a copy of the registrations and awaits each strategy   *)
(* with a timeout; strategies are registered and unregistered while it     *)
(* waits.  Of a strategy's signals only the sum of the active weights      *)
(* matters, in percent of the capital; scaling every weight by the same    *)
(* factor scales the sum to the strategy's share.                          *)
(***************************************************************************)
CONSTANTS Strategies,     \* strategy ids
          Percents,       \* allocation_pct values, some beyond 0..100
          ActiveWeights,  \* sums of active weights a strategy's signals have
          MaxStrategies,  \* max_strategies
          MaxRegisters    \* bound: registrations and unregistrations

ASSUME ManagerAssumption ==
    /\ IsFiniteSet(Strategies) /\ Percents \subseteq Int /\ ActiveWeights \subseteq Nat
    /\ MaxStrategies \in Nat \ {0} /\ MaxRegisters \in Nat

VARIABLES mmRegs,     \* _registrations: id -> allocation_pct, Absent when not registered
          mmEval,     \* evaluate_all: pc, the copy, the ids to go, results and errors
          mmChanges   \* history: registrations and unregistrations so far

mmVars == <<mmRegs, mmEval, mmChanges>>

Absent == -1
Registered(regs) == {s \in Strategies : regs[s] # Absent}
TotalPct(regs) == MapThenSumSet(LAMBDA s : regs[s], Registered(regs))
NoEval == [pc |-> "idle", copy |-> [s \in Strategies |-> Absent], todo |-> {},
           result |-> [s \in Strategies |-> Absent], errors |-> {}]

ManagerInit ==
    /\ mmRegs = [s \in Strategies |-> Absent]
    /\ mmEval = NoEval
    /\ mmChanges = 0

MutRegister(s, pct) ==         \* checks the new share alone
    /\ mmChanges < MaxRegisters
    /\ pct \in 0..100 /\ mmRegs[s] = Absent
    /\ Cardinality(Registered(mmRegs)) < MaxStrategies
    /\ mmRegs' = [mmRegs EXCEPT ![s] = pct]
    /\ mmChanges' = mmChanges + 1
    /\ UNCHANGED mmEval

\* Raises unless the share is valid, the id new, and the total stays within 100.
RegisterStrategy(s, pct) ==
    /\ mmChanges < MaxRegisters
    /\ pct \in 0..100 /\ mmRegs[s] = Absent
    /\ Cardinality(Registered(mmRegs)) < MaxStrategies
    /\ TotalPct(mmRegs) + pct <= 100
    /\ mmRegs' = [mmRegs EXCEPT ![s] = pct]
    /\ mmChanges' = mmChanges + 1
    /\ UNCHANGED mmEval

UnregisterStrategy(s) ==
    /\ mmChanges < MaxRegisters /\ mmRegs[s] # Absent
    /\ mmRegs' = [mmRegs EXCEPT ![s] = Absent]
    /\ mmChanges' = mmChanges + 1
    /\ UNCHANGED mmEval

\* The registrations are copied; without any the result is empty.
EvaluateAll ==
    /\ mmEval.pc = "idle" /\ Registered(mmRegs) # {}
    /\ mmEval' = [NoEval EXCEPT !.pc = "walking", !.copy = mmRegs, !.todo = Registered(mmRegs)]
    /\ UNCHANGED <<mmRegs, mmChanges>>

MutShare(s) == IF mmRegs[s] # Absent THEN mmRegs[s] ELSE mmEval.copy[s]    \* looks the share up again

\* The registration the walk took.
Share(s) == mmEval.copy[s]

\* _enforce_cap: within the share as it is, beyond it scaled to it, 0 zeroed.
Capped(pct, w) == IF pct <= 0 THEN 0 ELSE Min({pct, w})

\* The next strategy answers and its signals are tagged and capped ...
StrategyAnswers(s, w) ==
    /\ mmEval.pc = "walking" /\ s \in mmEval.todo
    /\ mmEval' = [mmEval EXCEPT !.todo = @ \ {s}, !.result[s] = Capped(Share(s), w)]
    /\ UNCHANGED <<mmRegs, mmChanges>>

MutStrategyFails(s) ==         \* the first failure ends the walk
    /\ mmEval.pc = "walking" /\ s \in mmEval.todo
    /\ mmEval' = [mmEval EXCEPT !.todo = {}, !.errors = @ \cup {s}]
    /\ UNCHANGED <<mmRegs, mmChanges>>

\* ... or it raises or times out, and the walk goes on.
StrategyFails(s) ==
    /\ mmEval.pc = "walking" /\ s \in mmEval.todo
    /\ mmEval' = [mmEval EXCEPT !.todo = @ \ {s}, !.errors = @ \cup {s}]
    /\ UNCHANGED <<mmRegs, mmChanges>>

\* An answer that is no list of signals is listed and tagged outside the try: the
\* exception leaves evaluate_all, whatever the others answered.
StrategyGarbles(s) ==
    /\ mmEval.pc = "walking" /\ s \in mmEval.todo
    /\ mmEval' = NoEval
    /\ UNCHANGED <<mmRegs, mmChanges>>

Evaluated ==
    /\ mmEval.pc = "walking" /\ mmEval.todo = {}
    /\ mmEval' = [mmEval EXCEPT !.pc = "done"]
    /\ UNCHANGED <<mmRegs, mmChanges>>

NextEvaluation ==
    /\ mmEval.pc = "done"
    /\ mmEval' = NoEval
    /\ UNCHANGED <<mmRegs, mmChanges>>

ManagerNext ==
    \/ \E s \in Strategies, pct \in Percents : RegisterStrategy(s, pct)
    \/ \E s \in Strategies : UnregisterStrategy(s) \/ StrategyFails(s) \/ StrategyGarbles(s)
    \/ \E s \in Strategies, w \in ActiveWeights : StrategyAnswers(s, w)
    \/ EvaluateAll \/ Evaluated \/ NextEvaluation

----------------------------------------
(* Properties *)

\* The signals of one evaluation never ask for more than the whole capital, also
\* when shares are given away and taken again while strategies are awaited.
EvaluationWithinCapital == TotalPct(mmEval.result) <= 100

\* A finished evaluation reports each strategy of its copy once, in the signals
\* or in the errors: one strategy's exception or timeout loses no other.  (One
\* garbled answer ends the evaluation without a report: StrategyGarbles.)
EveryStrategyReported ==
    mmEval.pc = "done" =>
        /\ Registered(mmEval.result) \cup mmEval.errors = Registered(mmEval.copy)
        /\ Registered(mmEval.result) \cap mmEval.errors = {}

----------------------------------------
(* The engines that run several strategies and merge their signals:         *)
(*   core           engine/core/strategy_orchestrator.py with               *)
(*                  engine/core/signal_aggregator.py,                       *)
(*   orchestration  engine/orchestration/orchestrator.py,                   *)
(*   fixed          engine/portfolio/orchestrator.py (no registration later),*)
(*   capital        engine/portfolio/multi_strategy.py.                     *)
(* All walk a copy of the registry and await each strategy; strategies are  *)
(* registered, reweighted and unregistered meanwhile, and the merge follows.*)
(* An answer is a list of signals, several for a symbol among them; a       *)
(* signal bears the id of the strategy that gave it.                        *)

CONSTANTS VoteKinds,       \* engines considered
          Voters,          \* strategy ids
          VoteWeights,     \* weights, priorities and capital weights
          VoteSymbols,     \* symbols
          AnswerLists,     \* what strategies answer: signals, with weights in halves
          MaxSignals,      \* bound: signals in one answer
          Capital,         \* total_capital: a multiple of every sum of weights
          MaxVoters,       \* max_strategies of multi_strategy
          MaxVoteChanges   \* bound: changes of the registry

ASSUME VoteAssumption ==
    /\ VoteKinds \subseteq {"core", "orchestration", "fixed", "capital"}
    /\ IsFiniteSet(Voters) /\ VoteWeights \subseteq Nat
    /\ IsFiniteSet(VoteSymbols) /\ MaxSignals \in Nat
    /\ AnswerLists \subseteq Seq([sym : VoteSymbols, side : {"BUY", "SELL", "HOLD"}, w : 0..2])
    /\ \A list \in AnswerLists : Len(list) <= MaxSignals
    /\ Capital \in Nat /\ MaxVoters \in Nat \ {0} /\ MaxVoteChanges \in Nat

VARIABLES svKind,    \* the engine of this behaviour
          svRegs,    \* _strategies and _weights: id -> weight, Unregistered if none
          svEval,    \* the evaluation: pc, method, copies, ids to go, answers, errors, decision
          svChanges  \* history: changes of the registry so far

svVars == <<svKind, svRegs, svEval, svChanges>>

Unregistered == -1
NoDecision == [x \in VoteSymbols |-> [side |-> "none", net |-> 0]]
In(regs) == {s \in Voters : regs[s] # Unregistered}
NoVote == [pc |-> "idle", method |-> "none", regs |-> [s \in Voters |-> Unregistered], todo |-> {},
           answer |-> [s \in Voters |-> <<>>], errors |-> {}, decision |-> NoDecision]
MethodsOf == [core |-> {"majority", "weighted"}, orchestration |-> {"priority", "net"},
              fixed |-> {"vote"}, capital |-> {"capital"}]

\* portfolio/orchestrator.py gets its strategies when it is built.
VoteInit ==
    /\ svKind \in VoteKinds
    /\ svRegs \in [Voters -> VoteWeights \cup {Unregistered}]
    /\ svKind # "fixed" => In(svRegs) = {}
    /\ svEval = NoVote /\ svChanges = 0

----------------------------------------
(* The registry *)

ChangeRegs(regs) ==
    /\ svKind # "fixed" /\ svChanges < MaxVoteChanges
    /\ svRegs' = regs /\ svChanges' = svChanges + 1
    /\ UNCHANGED <<svKind, svEval>>

\* core replaces a strategy with the same id, the others raise.
RegisterVoter(s, w) ==
    /\ svKind # "core" => svRegs[s] = Unregistered
    /\ svKind = "capital" => Cardinality(In(svRegs)) < MaxVoters
    /\ ChangeRegs([svRegs EXCEPT ![s] = w])

SetCapitalWeight(s, w) ==
    /\ svKind = "capital" /\ svRegs[s] # Unregistered
    /\ ChangeRegs([svRegs EXCEPT ![s] = w])

UnregisterVoter(s) ==
    /\ svRegs[s] # Unregistered
    /\ ChangeRegs([svRegs EXCEPT ![s] = Unregistered])

----------------------------------------
(* The walk: evaluate_all, run_all, evaluate *)

BeginVote(method) ==
    /\ svEval.pc \in {"idle", "decided", "raised"}
    /\ method \in MethodsOf[svKind] /\ In(svRegs) # {}
    /\ svKind = "capital" => Capital > 0
    /\ svEval' = [NoVote EXCEPT !.pc = "walking", !.method = method, !.regs = svRegs, !.todo = In(svRegs)]
    /\ UNCHANGED <<svKind, svRegs, svChanges>>

VoterAnswers(s, list) ==
    /\ svEval.pc = "walking" /\ s \in svEval.todo
    /\ svEval' = [svEval EXCEPT !.todo = @ \ {s}, !.answer = [svEval.answer EXCEPT ![s] = list]]
    /\ UNCHANGED <<svKind, svRegs, svChanges>>

\* What is no list of signals is listed outside the try, or read in the merge: the
\* exception is not isolated and the call ends without a decision.
VoterGarbles(s) ==
    /\ svEval.pc = "walking" /\ s \in svEval.todo
    /\ svEval' = [svEval EXCEPT !.pc = "raised"]
    /\ UNCHANGED <<svKind, svRegs, svChanges>>

\* An exception or a timeout is isolated; the rest of the walk goes on.
VoterFails(s) ==
    /\ svEval.pc = "walking" /\ s \in svEval.todo
    /\ svEval' = [svEval EXCEPT !.todo = @ \ {s}, !.errors = @ \cup {s}]
    /\ UNCHANGED <<svKind, svRegs, svChanges>>

----------------------------------------
(* The merge *)

Sign(side) == IF side = "BUY" THEN 1 ELSE IF side = "SELL" THEN -1 ELSE 0
Said == {p \in Voters \X (1..MaxSignals) : p[2] <= Len(svEval.answer[p[1]])}
SignalAt(p) == svEval.answer[p[1]][p[2]]

\* SignalAggregator keeps the last signal of a strategy for a symbol, HOLD included;
\* the other merges hear every one.
Overruled(p) ==
    /\ svEval.method \in {"majority", "weighted"}
    /\ \E q \in Said : q[1] = p[1] /\ q[2] > p[2] /\ SignalAt(q).sym = SignalAt(p).sym

\* HOLD abstains.
Opinions == {p \in Said : SignalAt(p).side # "HOLD" /\ ~Overruled(p)}
OpinionsOn(x) == {p \in Opinions : SignalAt(p).sym = x}
SidesOf(ps) == {SignalAt(p).side : p \in ps}

MutSideOfNet(n) == IF n >= 0 THEN "BUY" ELSE "SELL"     \* a tie buys
SideOfNet(n) == IF n > 0 THEN "BUY" ELSE IF n < 0 THEN "SELL" ELSE "HOLD"

\* The one side all are for.
Agreed(ps) == Cardinality(SidesOf(ps)) = 1
TheirSide(ps) == CHOOSE side \in SidesOf(ps) : TRUE

\* The weight now registered; a strategy that is gone gets the default.
LiveWeight(s, default) == IF svRegs[s] # Unregistered THEN svRegs[s] ELSE default

\* _priority: the most important opinions.
TopOpinions(x) ==
    {p \in OpinionsOn(x) : \A q \in OpinionsOn(x) : LiveWeight(p[1], 0) >= LiveWeight(q[1], 0)}

TotalWeight(regs) == MapThenSumSet(LAMBDA s : regs[s], In(regs))
CapitalShare(regs, s) ==
    IF TotalWeight(regs) = 0 \/ regs[s] = Unregistered THEN 0 ELSE (regs[s] * Capital) \div TotalWeight(regs)

MutAllocationOf(s) == IF svRegs[s] # Unregistered THEN CapitalShare(svRegs, s) ELSE CapitalShare(svEval.regs, s)

\* allocations(): taken once, when the walk begins.
AllocationOf(s) == CapitalShare(svEval.regs, s)

\* portfolio/orchestrator.py: the weight given at construction.
VoteWeight(s) == svEval.regs[s]

\* What an opinion weighs.
Weight(p) ==
    CASE svEval.method = "weighted" -> LiveWeight(p[1], 1)
      [] svEval.method = "net" -> SignalAt(p).w
      [] svEval.method = "vote" -> VoteWeight(p[1])
      [] svEval.method = "capital" -> AllocationOf(p[1]) * SignalAt(p).w
      [] OTHER -> 1

Pull == [p \in Opinions |-> Sign(SignalAt(p).side) * Weight(p)]
Net(x) == MapThenSumSet(LAMBDA p : Pull[p], OpinionsOn(x))

\* _decide_weighted_with: a side nobody opposes wins whatever its weight, else the
\* heavier one.  _priority: the side of the most important, if they agree.
DecidedSide(x) ==
    CASE svEval.method = "priority" ->
            IF Agreed(TopOpinions(x)) THEN TheirSide(TopOpinions(x)) ELSE "HOLD"
      [] svEval.method \in {"majority", "weighted"} /\ Agreed(OpinionsOn(x)) -> TheirSide(OpinionsOn(x))
      [] OTHER -> SideOfNet(Net(x))

\* SignalAggregator refuses weights that are all zero.
AllZero == svEval.method = "weighted" /\ In(svRegs) # {} /\ TotalWeight(svRegs) = 0

Decide ==
    /\ svEval.pc = "walking" /\ svEval.todo = {}
    /\ svEval' = IF AllZero THEN [svEval EXCEPT !.pc = "raised"]
                 ELSE [svEval EXCEPT !.pc = "decided",
                           !.decision = [x \in VoteSymbols |-> [side |-> DecidedSide(x), net |-> Net(x)]]]
    /\ UNCHANGED <<svKind, svRegs, svChanges>>

VoteNext ==
    \/ \E s \in Voters, w \in VoteWeights : RegisterVoter(s, w) \/ SetCapitalWeight(s, w)
    \/ \E s \in Voters : UnregisterVoter(s) \/ VoterFails(s) \/ VoterGarbles(s)
    \/ \E method \in {"majority", "weighted", "priority", "net", "vote", "capital"} : BeginVote(method)
    \/ \E s \in Voters, list \in AnswerLists : VoterAnswers(s, list)
    \/ Decide

VoteSpec == VoteInit /\ [][VoteNext]_svVars

----------------------------------------
(* Properties *)

AbsInt(n) == IF n < 0 THEN -n ELSE n

\* capital_deployed of multi_strategy.py: the exposures of all symbols, in halves.
Exposure == [x \in VoteSymbols |-> AbsInt(svEval.decision[x].net)]
Deployed == MapThenSumSet(LAMBDA x : Exposure[x], VoteSymbols)

\* The active weights of a strategy's signals together.
Asked == [p \in Opinions |-> SignalAt(p).w]
Claim(s) == MapThenSumSet(LAMBDA p : Asked[p], {p \in Opinions : p[1] = s})

\* multi_strategy deploys at most the capital times what the strategy that asks for
\* most asks for: at most the capital when the weights in no answer exceed 1
\* together, although the capital weights change while the strategies are awaited.
\* (Nothing caps a strategy whose own weights exceed 1: it deploys more than its share.)
DeployedWithinCapital ==
    svEval.pc = "decided" /\ svEval.method = "capital" =>
        \A t \in Voters : (\A s \in Voters : Claim(s) <= Claim(t)) => Deployed <= Claim(t) * Capital

\* A decided side is backed: some strategy of the copy signalled it for the symbol,
\* and the strategies that failed or came later did not count.
DecisionHasVoter ==
    svEval.pc = "decided" =>
        \A x \in VoteSymbols : svEval.decision[x].side # "HOLD" =>
            \E p \in Said : /\ p[1] \in In(svEval.regs) \ svEval.errors
                           /\ SignalAt(p).sym = x /\ SignalAt(p).side = svEval.decision[x].side
=============================================================================
