---------------------------- MODULE MCSignalPath ----------------------------
EXTENDS SignalPath, TLC
Sig(sym, side, qty, maxCost) ==
    [sym |-> sym, side |-> side, qty |-> qty, maxCost |-> maxCost]

\* Fixed quantities that fit and that do not, and a weight with a cost limit.
MCSignals ==
    {sig \in {Sig("A", "BUY", 2, NoLimit), Sig("A", "SELL", 1, NoLimit), Sig("A", "BUY", 0, 20),
              Sig("B", "BUY", 1, NoLimit)} : sig.sym \in Symbols}

\* An order that can be filled in four parts, so that continue_order loops.
MCRunnerSignals ==
    {Sig("A", "BUY", 4, NoLimit), Sig("A", "SELL", 1, NoLimit), Sig("A", "BUY", 0, 20),
     Sig("B", "BUY", 1, NoLimit)}

MCSymmetry == Permutations(Calls)
=============================================================================
