------------------------------- MODULE Brokers -------------------------------
(***************************************************************************)
(* The ways to a broker: the HTTP clients, then the paper broker.  The     *)
(* parts share no state.                                                   *)
(***************************************************************************)
EXTENDS Integers, Sequences, FiniteSetsExt, SequencesExt

(* The HTTP broker clients, which share one request loop and differ in what *)
(* they send and repeat: LiveExecutionBackend (engine/execution/            *)
(* live_backend.py), AlpacaBrokerAdapter around it (engine/brokers/         *)
(* alpaca.py), IBKRBrokerAdapter (engine/brokers/ibkr.py) and               *)
(* AlpacaTradingClient (engine/core/brokers/alpaca/__init__.py).            *)
(* The broker is external: it may act on a request whose answer is lost or  *)
(* is a transient status, and refuses a client order id it has seen.        *)
CONSTANTS BrokerKinds,  \* the clients considered, records as below
          BrokerCalls,  \* concurrent calls
          MaxRetries,   \* max_retries
          MaxHandles    \* bound: httpx clients built

ASSUME BrokerAssumption ==
    /\ MaxRetries \in Nat \ {0} /\ MaxHandles \in Nat

\* keyed: every order carries a client order id, made up when the caller has none.
\* repeatsLost: an order POST that met a transport error is sent again.
\* resolves: the contract id is asked for before an order; the session may turn
\* out not to be authenticated.  guarded: execute refuses while not connected.
Live == [name |-> "live", keyed |-> TRUE, repeatsLost |-> FALSE, resolves |-> FALSE, guarded |-> TRUE]
AlpacaAdapter == [name |-> "adapter", keyed |-> TRUE, repeatsLost |-> FALSE, resolves |-> FALSE,
                  guarded |-> FALSE]
Ibkr == [name |-> "ibkr", keyed |-> TRUE, repeatsLost |-> FALSE, resolves |-> TRUE, guarded |-> FALSE]
AlpacaTrading == [name |-> "alpaca", keyed |-> FALSE, repeatsLost |-> TRUE, resolves |-> FALSE,
                  guarded |-> FALSE]

VARIABLES bhKind,     \* the client of this behaviour
          bhUp,       \* _connected
          bhHandle,   \* _client: number of the httpx client, 0 for None
          bhBuilt,    \* httpx clients built; those other than bhHandle are closed
          bhCall,     \* each call: operation, attempt, client, target, result
          bhOrders,   \* at the broker, per submitting call: orders placed and whether open
          bhLost      \* history: calls that do not repeat and whose order POST met a transport error

bhVars == <<bhKind, bhUp, bhHandle, bhBuilt, bhCall, bhOrders, bhLost>>

NoCall == [op |-> "none", try |-> 0, handle |-> 0, keyed |-> FALSE, target |-> "none", res |-> "none"]
Results == {"none", "busy", "ok", "auth", "rejected", "connection", "raised", "refused"}

BrokerInit ==
    /\ bhKind \in BrokerKinds
    /\ bhUp = FALSE /\ bhHandle = 0 /\ bhBuilt = 0
    /\ bhCall = [c \in BrokerCalls |-> NoCall]
    /\ bhOrders = [c \in BrokerCalls |-> [placed |-> 0, open |-> FALSE]]
    /\ bhLost = {}

Busy(c) == bhCall[c].res = "busy"

\* _resolve_client: the client in use, or a new one.
Resolved == IF bhHandle = 0 THEN bhBuilt + 1 ELSE bhHandle
ResolveClient ==
    /\ Resolved <= MaxHandles
    /\ bhHandle' = Resolved
    /\ bhBuilt' = IF bhHandle = 0 THEN bhBuilt + 1 ELSE bhBuilt

BeginCall(c, op, keyed, target) ==
    /\ bhCall[c].op = "none"
    /\ ResolveClient
    /\ bhCall' = [bhCall EXCEPT ![c] = [op |-> op, try |-> 0, handle |-> Resolved, keyed |-> keyed,
                                        target |-> target, res |-> "busy"]]
    /\ UNCHANGED <<bhKind, bhUp, bhOrders, bhLost>>

\* connect: GET of the account or of the authentication status.
Connect(c) == BeginCall(c, "connect", FALSE, "none")

\* submit_order and place_order: the client order id is the caller's or, where
\* one is needed, a fresh one; ibkr first resolves the contract id.
SubmitOrder(c) ==
    \E keyed \in BOOLEAN :
        /\ bhKind.keyed => keyed
        /\ BeginCall(c, IF bhKind.resolves THEN "resolve" ELSE "submit", keyed, "none")

\* execute (live): refused while not connected, otherwise submit_order.
ExecuteRefused(c) ==
    /\ bhKind.guarded /\ ~bhUp /\ bhCall[c].op = "none"
    /\ bhCall' = [bhCall EXCEPT ![c] = [NoCall EXCEPT !.op = "submit", !.res = "refused"]]
    /\ UNCHANGED <<bhKind, bhUp, bhHandle, bhBuilt, bhOrders, bhLost>>

\* cancel_order of an order whose submission was answered.
CancelOrder(c) ==
    \E t \in BrokerCalls :
        /\ bhCall[t].op = "submit" /\ bhCall[t].res = "ok"
        /\ BeginCall(c, "cancel", FALSE, t)

\* get_order_status, get_position, get_positions, get_account, get_clock.
Query(c) == BeginCall(c, "query", FALSE, "none")

\* disconnect, close: an httpx client the adapter built is closed.
Disconnect ==
    /\ bhHandle # 0 \/ bhUp
    /\ bhHandle' = 0 /\ bhUp' = FALSE
    /\ UNCHANGED <<bhKind, bhBuilt, bhCall, bhOrders, bhLost>>

----------------------------------------
(* One attempt of _request *)

MutSeen(c) == FALSE        \* a fresh client order id for every attempt

\* The broker knows the client order id of this submission already.
Seen(c) == bhCall[c].keyed /\ bhOrders[c].placed > 0

\* External: the request can change something at the broker.
CanAct(c) ==
    CASE bhCall[c].op = "submit" -> ~Seen(c)
      [] bhCall[c].op = "cancel" -> bhOrders[bhCall[c].target].open
      [] OTHER -> TRUE

\* External: the broker's orders after it acted on the request; two tell a
\* duplicate.
Acted(c) ==
    CASE bhCall[c].op = "submit" ->
             [bhOrders EXCEPT ![c] = [placed |-> IF bhOrders[c].placed = 0 THEN 1 ELSE 2, open |-> TRUE]]
      [] bhCall[c].op = "cancel" ->
             [bhOrders EXCEPT ![bhCall[c].target] = [placed |-> bhOrders[bhCall[c].target].placed,
                                                     open |-> FALSE]]
      [] OTHER -> bhOrders

Answers == {"lost", "transient", "auth", "reject", "ok"}

MutStopsAfterLost(c) == FALSE      \* a transport error is retried whatever the request

\* all but AlpacaTrading do not repeat an order POST that met a transport error.
StopsAfterLost(c) == bhCall[c].op = "submit" /\ ~bhKind.repeatsLost

MutVerdict(c, a) ==                \* the last transient answer is returned after the loop
    IF a \in {"ok", "transient"} THEN "ok" ELSE IF a = "auth" THEN "auth"
    ELSE IF a = "reject" THEN "rejected" ELSE "connection"

\* What the call returns or raises when it ends on this answer.
Verdict(c, a) ==
    CASE a = "ok" -> "ok"
      [] a = "auth" -> "auth"
      [] a = "reject" -> "rejected"
      [] OTHER -> "connection"

\* Transient statuses and transport errors are retried until max_retries.
RetriesAgain(c, a) ==
    /\ a \in {"lost", "transient"}
    /\ ~(a = "lost" /\ StopsAfterLost(c))
    /\ bhCall[c].try + 1 < MaxRetries

\* After resolve_conid comes the POST; connect sets _connected, and for ibkr
\* fails when the session is not authenticated.
Continue(c, a, authenticated) ==
    IF RetriesAgain(c, a)
    THEN /\ bhCall' = [bhCall EXCEPT ![c].try = bhCall[c].try + 1] /\ UNCHANGED <<bhUp, bhHandle, bhBuilt>>
    ELSE IF bhCall[c].op = "resolve" /\ a = "ok"
    THEN /\ ResolveClient
         /\ bhCall' = [bhCall EXCEPT ![c] = [bhCall[c] EXCEPT !.op = "submit", !.try = 0,
                                                              !.handle = Resolved]]
         /\ UNCHANGED bhUp
    ELSE /\ bhCall' = [bhCall EXCEPT ![c].res = IF authenticated THEN Verdict(c, a) ELSE "auth"]
         /\ bhUp' = (bhUp \/ (bhCall[c].op = "connect" /\ a = "ok" /\ authenticated))
         /\ UNCHANGED <<bhHandle, bhBuilt>>

Attempt(c) ==
    /\ Busy(c) /\ bhCall[c].handle = bhHandle
    /\ \E a \in Answers, acts \in BOOLEAN, authenticated \in BOOLEAN :
        /\ acts => CanAct(c) /\ a \in {"lost", "transient", "ok"}
        /\ a = "ok" => acts
        /\ ~authenticated => bhKind.resolves /\ bhCall[c].op = "connect" /\ a = "ok"
        /\ bhOrders' = IF acts THEN Acted(c) ELSE bhOrders
        /\ bhLost' = IF bhCall[c].op = "submit" /\ a = "lost" /\ ~bhKind.repeatsLost
                     THEN bhLost \cup {c} ELSE bhLost
        /\ Continue(c, a, authenticated)
    /\ UNCHANGED bhKind

\* A retry through a client that was closed meanwhile raises.
AttemptClosed(c) ==
    /\ Busy(c) /\ bhCall[c].handle # bhHandle
    /\ bhCall' = [bhCall EXCEPT ![c].res = "raised"]
    /\ UNCHANGED <<bhKind, bhUp, bhHandle, bhBuilt, bhOrders, bhLost>>

BrokerNext ==
    \/ \E c \in BrokerCalls :
        \/ Connect(c) \/ SubmitOrder(c) \/ ExecuteRefused(c) \/ CancelOrder(c) \/ Query(c)
        \/ Attempt(c) \/ AttemptClosed(c)
    \/ Disconnect

BrokerSpec == BrokerInit /\ [][BrokerNext]_bhVars

----------------------------------------
(* Properties *)

\* However often the loop repeats a POST, a submission that carries a client
\* order id places at most one order (submit_order, place_order).
OneOrderPerSubmit == \A c \in BrokerCalls : bhCall[c].keyed => bhOrders[c].placed <= 1

\* A call that returns did what it says: a submission has its order at the
\* broker, a cancelled order is not open there.
ReturnedMeansDone ==
    \A c \in BrokerCalls : bhCall[c].res = "ok" =>
        /\ bhCall[c].op = "submit" => bhOrders[c].placed > 0
        /\ bhCall[c].op = "cancel" => ~bhOrders[bhCall[c].target].open

\* Once an order POST that is not repeated met a transport error the call is over:
\* nothing it does afterwards can reach the broker a second time.
LostIsOver == \A c \in bhLost : ~Busy(c)

----------------------------------------
(* The in-process broker (engine/core/brokers/paper.py).  Market orders are  *)
(* acknowledged and filled at once, other orders rest until simulate_fill or *)
(* cancel.  The event queue is unbounded, so put never suspends and every    *)
(* method is one step; the consumer of events() runs in between.             *)

CONSTANTS MaxPaperOrders  \* bound: orders submitted

ASSUME PaperAssumption == MaxPaperOrders \in Nat

VARIABLES pbPending,  \* _pending: resting broker order ids
          pbQueue,    \* _events
          pbTaken,    \* what events() and drain_events handed out
          pbCount,    \* broker order ids given out
          pbDropped   \* history: orders a simulate_fill without a price took from _pending

pbVars == <<pbPending, pbQueue, pbTaken, pbCount, pbDropped>>

PaperInit == pbPending = {} /\ pbQueue = <<>> /\ pbTaken = <<>> /\ pbCount = 0 /\ pbDropped = {}

Event(kind, id) == [kind |-> kind, id |-> id]

\* submit of a market order: rejected without a price, else ack and fill.
SubmitMarket(priced) ==
    /\ pbCount < MaxPaperOrders
    /\ pbCount' = pbCount + 1
    /\ pbQueue' = IF priced THEN pbQueue \o <<Event("ack", pbCount'), Event("fill", pbCount')>> ELSE pbQueue
    /\ UNCHANGED <<pbPending, pbTaken, pbDropped>>

SubmitResting ==
    /\ pbCount < MaxPaperOrders
    /\ pbCount' = pbCount + 1
    /\ pbPending' = pbPending \cup {pbCount'}
    /\ pbQueue' = Append(pbQueue, Event("ack", pbCount'))
    /\ UNCHANGED <<pbTaken, pbDropped>>

MutPendingAfterCancel(id) == pbPending       \* the order stays fillable

PendingAfterCancel(id) == pbPending \ {id}

\* cancel: raises unless the order rests.
CancelResting(id) ==
    /\ id \in pbPending
    /\ pbPending' = PendingAfterCancel(id)
    /\ pbQueue' = Append(pbQueue, Event("cancel", id))
    /\ UNCHANGED <<pbTaken, pbCount, pbDropped>>

\* simulate_fill takes the order from _pending before it looks for a price; with
\* none it raises and the order is in no state any more.
SimulateFill(id, priced) ==
    /\ id \in pbPending
    /\ pbPending' = pbPending \ {id}
    /\ pbQueue' = IF priced THEN Append(pbQueue, Event("fill", id)) ELSE pbQueue
    /\ pbDropped' = IF priced THEN pbDropped ELSE pbDropped \cup {id}
    /\ UNCHANGED <<pbTaken, pbCount>>

TakeEvent ==
    /\ pbQueue # <<>>
    /\ pbTaken' = Append(pbTaken, Head(pbQueue)) /\ pbQueue' = Tail(pbQueue)
    /\ UNCHANGED <<pbPending, pbCount, pbDropped>>

DrainEvents ==
    /\ pbQueue # <<>>
    /\ pbTaken' = pbTaken \o pbQueue /\ pbQueue' = <<>>
    /\ UNCHANGED <<pbPending, pbCount, pbDropped>>

PaperNext ==
    \/ \E priced \in BOOLEAN : SubmitMarket(priced)
    \/ SubmitResting
    \/ \E id \in pbPending : CancelResting(id) \/ \E priced \in BOOLEAN : SimulateFill(id, priced)
    \/ TakeEvent \/ DrainEvents

PaperSpec == PaperInit /\ [][PaperNext]_pbVars

----------------------------------------
\* What events() and drain_events hand out, from the first event to the last that waits.
PaperEvents == pbTaken \o pbQueue

\* What the live loop relies on, in any order of cancels, fills and reads: an
\* order is acknowledged first and once, has at most one fill or cancel, and as
\* long as it has neither it still rests (or simulate_fill dropped it unpriced).
OneOutcomePerOrder ==
    \A i \in DOMAIN PaperEvents :
        LET id == PaperEvents[i].id IN
        IF PaperEvents[i].kind = "ack"
        THEN /\ \A j \in 1..(i - 1) : PaperEvents[j].id # id
             /\ \/ \E j \in DOMAIN PaperEvents : j > i /\ PaperEvents[j].id = id
                \/ id \in pbPending \cup pbDropped
        ELSE /\ \E j \in 1..(i - 1) : PaperEvents[j].id = id
             /\ \A j \in DOMAIN PaperEvents : j > i => PaperEvents[j].id # id
             /\ id \notin pbPending
=============================================================================
