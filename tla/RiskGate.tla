------------------------------ MODULE RiskGate ------------------------------
(***************************************************************************)
(* The pre-trade gate of src/engine/core/risk_limits.py.  check runs under *)
(* the gate's lock, so checks of several threads are atomic steps; the     *)
(* account state is what the caller observed when it built it, which may   *)
(* be older than the orders approved since.                                *)
(***************************************************************************)
EXTENDS Integers, Sequences, FiniteSetsExt

CONSTANTS MaxOrders,       \* max_orders_per_window
          Window,          \* velocity_window_seconds, in ticks
          MaxDailyLoss,    \* max_daily_loss
          MaxNotional,     \* max_single_order_notional
          PositionCap,     \* max_position_notional of the symbol
          SectorCap,       \* max_sector_concentration_pct of its sector, in percent
          Notionals,       \* sizes of orders
          Pnls,            \* daily_pnl values a caller reports
          Exposures,       \* exposures of symbol and sector a caller reports
          GateValue,      \* total_value
          GateHorizon      \* bound: last tick

ASSUME GateAssumption ==
    /\ MaxOrders \in Nat /\ Window \in Nat /\ MaxDailyLoss \in Int /\ MaxNotional \in Nat
    /\ PositionCap \in Nat /\ SectorCap \in Nat /\ Notionals \subseteq Nat /\ Pnls \subseteq Int
    /\ Exposures \subseteq Nat /\ GateValue \in Nat /\ GateHorizon \in Nat

VARIABLES gaTimes,    \* _order_timestamps
          gaTripped,  \* _circuit_breaker_tripped
          gaNow,      \* the clock
          gaApproved, \* history: the approved orders: time, side, projected exposure
          gaLoss      \* history: a loss was reported and the breaker not reset since

gaVars == <<gaTimes, gaTripped, gaNow, gaApproved, gaLoss>>

GateInit ==
    /\ gaTimes = <<>> /\ gaTripped = FALSE /\ gaNow = 0
    /\ gaApproved = <<>> /\ gaLoss = FALSE

\* What is left of the timestamps from the first of these places on.
LeftFrom(places) == IF places = {} THEN <<>> ELSE SubSeq(gaTimes, Min(places), Len(gaTimes))

MutInWindow == LeftFrom({i \in DOMAIN gaTimes : gaTimes[i] > gaNow - Window})   \* drops the edge of the window

\* The timestamps that still count; the window's first instant is in it.  They are in
\* the order of the clock, so the filter drops the leading ones.
InWindow == LeftFrom({i \in DOMAIN gaTimes : gaTimes[i] >= gaNow - Window})

Lost(pnl) == pnl <= -MaxDailyLoss

\* The limits besides velocity that this intent breaches.
Breaches(side, n, pnl, held) ==
    \/ gaTripped \/ Lost(pnl)
    \/ n > MaxNotional
    \/ side = "buy" /\ held + n > PositionCap
    \/ GateValue > 0 /\ (held + n) * 100 > SectorCap * GateValue

MutTripsAfter(pnl) == Lost(pnl)                \* the breaker follows the profit back

\* Tripped stays tripped; a loss beyond the limit trips it.
TripsAfter(pnl) == gaTripped \/ Lost(pnl)

Check(side, n, pnl, held) ==
    LET ok == ~Breaches(side, n, pnl, held) /\ Len(InWindow) < MaxOrders IN
    /\ gaTripped' = TripsAfter(pnl)
    /\ gaTimes' = IF ok THEN Append(InWindow, gaNow) ELSE InWindow
    /\ gaApproved' = IF ok THEN Append(gaApproved, gaNow) ELSE gaApproved
    /\ gaLoss' = (gaLoss \/ Lost(pnl))
    /\ UNCHANGED gaNow

ResetCircuitBreaker ==
    /\ gaTripped' = FALSE /\ gaLoss' = FALSE
    /\ UNCHANGED <<gaTimes, gaNow, gaApproved>>

GateTick ==
    /\ gaNow < GateHorizon
    /\ gaNow' = gaNow + 1
    /\ UNCHANGED <<gaTimes, gaTripped, gaApproved, gaLoss>>

GateNext ==
    \/ \E side \in {"buy", "sell"}, n \in Notionals, pnl \in Pnls, held \in Exposures :
          Check(side, n, pnl, held)
    \/ ResetCircuitBreaker
    \/ GateTick

----------------------------------------
(* Properties *)

\* No window, wherever it is laid, holds more approved orders than allowed:
\* refused orders do not count and pruning forgets none too early.
VelocityHolds ==
    \A i \in DOMAIN gaApproved :
        Cardinality({j \in DOMAIN gaApproved :
                        gaApproved[j] \in (gaApproved[i] - Window)..gaApproved[i]}) <= MaxOrders

\* After a day's loss was reported nothing is approved until somebody resets the
\* breaker, also when later reports show a profit.
NothingAfterLoss == [][gaLoss => gaApproved' = gaApproved]_gaVars
=============================================================================
