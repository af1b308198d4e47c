------------------------------ MODULE OmsOrder ------------------------------
(***************************************************************************)
(* The order value of the order-management system, engine/core/oms: the    *)
(* status vocabulary and its transition table (states.py), the events      *)
(* (events.py) and Order.apply_event (order.py).                           *)
(*                                                                         *)
(* An Order is a frozen dataclass: apply_event either returns a new Order  *)
(* or raises and leaves the old one alone.  Accepts(o, e) says when it     *)
(* returns, ApplyEvent(o, e) what it returns.  Decimals are integers.  The *)
(* volume-weighted average is kept as its exact numerator, notional =      *)
(* average_fill_price * filled_quantity, because every use of the average  *)
(* in _next_avg multiplies it back by the filled quantity (the 28 digit    *)
(* rounding of Decimal division is abstracted).                            *)
(***************************************************************************)
EXTENDS Integers

OrderStatus ==
    {"new", "submitted", "acknowledged", "partially_filled", "filled",
     "cancel_requested", "cancelled", "rejected", "expired"}

Terminal == {"filled", "cancelled", "rejected", "expired"}

IsTerminal(status) == status \in Terminal

(* VALID_TRANSITIONS: the statuses an order may move to from each status. *)
ValidTransitions ==
    [s \in OrderStatus |->
        CASE s = "new" -> {"submitted", "rejected", "cancelled"}
          [] s = "submitted" ->
                {"acknowledged", "partially_filled", "filled", "rejected",
                 "cancel_requested", "cancelled", "expired"}
          [] s = "acknowledged" ->
                {"partially_filled", "filled", "cancel_requested",
                 "cancelled", "expired", "rejected"}
          [] s = "partially_filled" ->
                {"partially_filled", "filled", "cancel_requested",
                 "cancelled", "expired"}
          [] s = "cancel_requested" ->
                {"cancelled", "partially_filled", "filled", "rejected"}
          [] OTHER -> {}]

(* Mutants of CanTransition: a cancel may follow a fill; a fill that beats the
   cancel is not foreseen; the confirmation of a cancel is not foreseen. *)
MutCancelAfterFill(from, to) ==
    \/ to \in ValidTransitions[from]
    \/ from = "filled" /\ to \in {"cancel_requested", "cancelled"}
MutNoFillAfterCancelRequest(from, to) ==
    /\ to \in ValidTransitions[from]
    /\ ~(from = "cancel_requested" /\ to \in {"partially_filled", "filled"})
MutNoCancelConfirmation(from, to) ==
    /\ to \in ValidTransitions[from]
    /\ ~(from = "cancel_requested" /\ to = "cancelled")

CanTransition(from, to) == to \in ValidTransitions[from]

(***************************************************************************)
(* Events.  Only fills carry data the state machine reads; CancelEvent is  *)
(* two kinds because its "requested" flag selects the target status.       *)
(***************************************************************************)
PlainKinds == {"submit", "ack", "cancel_request", "cancel", "reject", "expire"}
FillKinds  == {"partial_fill", "fill"}

PlainEvent(kind) == [kind |-> kind, qty |-> 0, price |-> 0]

(* A freshly minted Order; __post_init__ refuses a quantity that is not positive. *)
NewOrder(quantity) ==
    [quantity |-> quantity, status |-> "new", filled |-> 0, notional |-> 0]

RemainingQuantity(o) == o.quantity - o.filled

NewFilled(o, e) == o.filled + (IF e.kind \in FillKinds THEN e.qty ELSE 0)

(* Mutant: the requested flag of CancelEvent is ignored. *)
MutRequestedIsConfirmed(o, e) ==
    CASE e.kind \in {"cancel", "cancel_request"} -> "cancelled"
      [] e.kind = "submit" -> "submitted"
      [] e.kind = "ack" -> "acknowledged"
      [] e.kind = "partial_fill" ->
            IF NewFilled(o, e) = o.quantity THEN "filled" ELSE "partially_filled"
      [] e.kind = "fill" -> "filled"
      [] e.kind = "reject" -> "rejected"
      [] e.kind = "expire" -> "expired"

(* The status each branch of apply_event passes to _with_status. *)
TargetStatus(o, e) ==
    CASE e.kind = "submit" -> "submitted"
      [] e.kind = "ack" -> "acknowledged"
      [] e.kind = "partial_fill" ->
            IF NewFilled(o, e) = o.quantity THEN "filled" ELSE "partially_filled"
      [] e.kind = "fill" -> "filled"
      [] e.kind = "cancel_request" -> "cancel_requested"
      [] e.kind = "cancel" -> "cancelled"
      [] e.kind = "reject" -> "rejected"
      [] e.kind = "expire" -> "expired"

(* Mutant: the guard compares with the fill alone. *)
MutGuardSingleFill(o, e) == e.qty <= o.quantity

(* _guard_fill: a fill may not push the filled quantity past the order's. *)
GuardFill(o, e) == NewFilled(o, e) <= o.quantity

(* apply_event returns: no OverFillError and no IllegalTransitionError. *)
Accepts(o, e) ==
    /\ e.kind \in FillKinds => GuardFill(o, e)
    /\ e.kind = "fill" => NewFilled(o, e) = o.quantity
    /\ CanTransition(o.status, TargetStatus(o, e))

(* Mutants of ApplyEvent: the fill replaces the filled quantity; the average is
   the last price. *)
MutFillReplaces(o, e) ==
    [o EXCEPT !.status = TargetStatus(o, e),
              !.filled = IF e.kind \in FillKinds THEN e.qty ELSE @,
              !.notional = @ + e.qty * e.price]
MutUnweightedAverage(o, e) ==
    [o EXCEPT !.status = TargetStatus(o, e),
              !.filled = NewFilled(o, e),
              !.notional = @ + e.price]

(* The Order apply_event returns when it accepts the event. *)
ApplyEvent(o, e) ==
    [o EXCEPT !.status = TargetStatus(o, e),
              !.filled = NewFilled(o, e),
              !.notional = @ + (IF e.kind \in FillKinds
                                THEN e.qty * e.price ELSE 0)]
=============================================================================
