--------------------------- MODULE ProviderClients ---------------------------
(***************************************************************************)
(* Clients of market data services: the registry with its failover, then   *)
(* the Yahoo client.  The parts share no state.                            *)
(***************************************************************************)
EXTENDS Integers, Sequences, FiniteSets, SequencesExt

(***************************************************************************)
(* DataProviderRegistry over the six HTTP adapters                         *)
(* (src/engine/data/providers/): a call copies the candidates in priority  *)
(* order, asks one after the other and awaits each; registrations change   *)
(* meanwhile.  An adapter method is a plan of HTTP requests, each retried  *)
(* on a transient answer.  The market data routes may also pin one         *)
(* provider, which is then asked without failover.                         *)
(***************************************************************************)
CONSTANTS AssetClasses,   \* asset classes calls ask for
          Adapters,       \* adapter records that may be configured
          DataMethods,    \* methods called
          MaxAttempts,    \* DEFAULT_MAX_ATTEMPTS
          MaxRegistryOps  \* bound: registrations and removals

ASSUME FailoverAssumption == MaxAttempts \in Nat \ {0} /\ MaxRegistryOps \in Nat

VARIABLES dpRegs,    \* _registrations: set of [adapter, priority, classes, enabled]
          dpCached,  \* adapters whose bars are in the provider cache
          dpCall,    \* the call under way
          dpOps      \* bound counter

dpVars == <<dpRegs, dpCached, dpCall, dpOps>>

----------------------------------------
(* The adapters: asset classes, capabilities and, per method, how many     *)
(* requests it makes.  "none" raises FatalProviderError at once; "swallow" *)
(* asks symbol by symbol and turns provider errors into missing entries.   *)

Alpaca == [name |-> "alpaca", rank |-> 1, classes |-> {"equity"}, keyed |-> TRUE,
           options |-> FALSE, book |-> FALSE,
           plan |-> [bars |-> "one", price |-> "one", prices |-> "one", chain |-> "none",
                    depth |-> "none"]]
Binance == [name |-> "binance", rank |-> 2, classes |-> {"crypto"}, keyed |-> FALSE,
           options |-> FALSE, book |-> TRUE,
           plan |-> [bars |-> "one", price |-> "one", prices |-> "one", chain |-> "none",
                    depth |-> "one"]]
CoinGecko == [name |-> "coingecko", rank |-> 3, classes |-> {"crypto"}, keyed |-> FALSE,
           options |-> FALSE, book |-> FALSE,
           plan |-> [bars |-> "two", price |-> "one", prices |-> "one", chain |-> "none",
                    depth |-> "none"]]
Oanda == [name |-> "oanda", rank |-> 4, classes |-> {"forex"}, keyed |-> TRUE,
           options |-> FALSE, book |-> FALSE,
           plan |-> [bars |-> "one", price |-> "bars_twice", prices |-> "swallow", chain |-> "none",
                    depth |-> "one"]]
Polygon == [name |-> "polygon", rank |-> 5, classes |-> {"equity", "options", "forex"}, keyed |-> TRUE,
           options |-> TRUE, book |-> FALSE,
           plan |-> [bars |-> "one", price |-> "one", prices |-> "swallow", chain |-> "one",
                    depth |-> "none"]]
Yahoo == [name |-> "yahoo", rank |-> 6, classes |-> {"equity", "etf"}, keyed |-> FALSE,
           options |-> FALSE, book |-> FALSE,
           plan |-> [bars |-> "one", price |-> "bars_once", prices |-> "one", chain |-> "none",
                    depth |-> "none"]]

\* The bars an adapter caches are also what its price comes from.
ReadsBars(a, m) == m = "bars" \/ (m = "price" /\ a.plan.price \in {"bars_once", "bars_twice"})

\* Requests a plan makes when all succeed.
RequestsOf(plan) == CASE plan = "none" -> 0
                      [] plan \in {"one", "bars_once", "swallow"} -> 1
                      [] plan \in {"two", "bars_twice"} -> 2

----------------------------------------
(* Registrations *)

\* build_provider: an adapter that needs a key and has none is skipped.
Buildable(a, key) == a.keyed => key

\* configure_registry and register: a name is registered once; without classes
\* of its own a registration takes the adapter's.
Configure(a, pri, cls, key) ==
    /\ dpOps < MaxRegistryOps /\ dpOps' = dpOps + 1
    /\ Buildable(a, key)
    /\ \A r \in dpRegs : r.adapter.name # a.name
    /\ dpRegs' = dpRegs \cup
          {[adapter |-> a, priority |-> pri, classes |-> IF cls = {} THEN a.classes ELSE cls]}
    /\ UNCHANGED <<dpCached, dpCall>>

Deregister(r) ==
    /\ dpOps < MaxRegistryOps /\ dpOps' = dpOps + 1
    /\ dpRegs' = dpRegs \ {r}
    /\ UNCHANGED <<dpCached, dpCall>>

----------------------------------------
(* A call *)

IdleDataCall == [pc |-> "idle", method |-> "none", todo |-> <<>>, left |-> 0, attempt |-> 0,
                 empty |-> FALSE, said |-> <<>>, result |-> "none"]

Capable(a, m) == (m = "chain" => a.options) /\ (m = "depth" => a.book)

\* get_options_chain and get_orderbook return an empty answer, the others go on.
RetryOnEmpty(m) == m \in {"bars", "price", "prices"}

\* Sorted by (priority, name); rank is the name's place in the alphabet.
Ranks(r, q) == r.priority < q.priority
               \/ (r.priority = q.priority /\ r.adapter.rank < q.adapter.rank)

\* candidates_for: the copy a call works from.
CandidatesFor(cls, m) ==
    SetToSortSeq({r \in dpRegs : cls \in r.classes /\ Capable(r.adapter, m)}, Ranks)

BeginAdapter(call, a) ==
    [call EXCEPT !.pc = IF ReadsBars(a, call.method) THEN "cache" ELSE "request",
                 !.left = RequestsOf(a.plan[call.method]), !.attempt = 1]

FinishCall(call, result) == [call EXCEPT !.pc = "done", !.result = result]

MutNextAdapter(call) ==             \* an empty answer seen on the way is forgotten
    IF Len(call.todo) > 1 THEN BeginAdapter([call EXCEPT !.todo = Tail(@)], call.todo[2].adapter)
    ELSE FinishCall(call, "unavailable")

\* The failover loop: the next candidate, or the verdict when there is none.
NextAdapter(call) ==
    IF Len(call.todo) > 1 THEN BeginAdapter([call EXCEPT !.todo = Tail(@)], call.todo[2].adapter)
    ELSE FinishCall(call, IF call.empty THEN "empty" ELSE "unavailable")

\* What the current adapter's method did: an answer, an empty one, a provider
\* error, or any other exception (a malformed body), which no handler catches.
AdapterSaid(call, what) ==
    LET noted == [call EXCEPT !.said = Append(@, <<call.todo[1].adapter.name, what>>)] IN
    CASE what = "answer" -> FinishCall(noted, "answer")
      [] what = "empty" /\ RetryOnEmpty(call.method) -> NextAdapter([noted EXCEPT !.empty = TRUE])
      [] what = "empty" /\ ~RetryOnEmpty(call.method) -> FinishCall(noted, "empty")
      [] what = "error" -> NextAdapter(noted)
      [] what = "other" -> FinishCall(noted, "escaped")

\* get_ohlcv, get_latest_price, get_multiple_prices, get_options_chain, get_orderbook.
RegistryCall(m, cls) ==
    /\ dpCall.pc = "idle"
    /\ LET todo == CandidatesFor(cls, m)
           call == [IdleDataCall EXCEPT !.method = m, !.todo = todo]
       IN  dpCall' = IF todo = <<>>
                     THEN FinishCall(call, IF RetryOnEmpty(m) THEN "unavailable" ELSE "unsupported")
                     ELSE BeginAdapter(call, todo[1].adapter)
    /\ UNCHANGED <<dpRegs, dpCached, dpOps>>

\* The routes with ?provider=: that adapter alone, whatever its classes.
PinnedCall(m, r) ==
    /\ dpCall.pc = "idle" /\ m \in {"bars", "price"}
    /\ dpCall' = BeginAdapter([IdleDataCall EXCEPT !.method = m, !.todo = <<r>>], r.adapter)
    /\ UNCHANGED <<dpRegs, dpCached, dpOps>>

Current == dpCall.todo[1].adapter

\* The cache lookup of get_ohlcv: a hit answers.
ReadCache ==
    /\ dpCall.pc = "cache"
    /\ dpCall' = IF Current.name \in dpCached THEN AdapterSaid(dpCall, "answer")
                 ELSE [dpCall EXCEPT !.pc = "request"]
    /\ UNCHANGED <<dpRegs, dpCached, dpOps>>

\* call_with_retry gives up: a swallowing plan returns what it has, nothing here.
RequestFailed(call) ==
    AdapterSaid(call, IF call.todo[1].adapter.plan[call.method] = "swallow" THEN "empty" ELSE "error")

\* _request_json, one attempt: the token bucket, the request, its status and body.
RequestOnce ==
    /\ dpCall.pc = "request"
    /\ \/ dpCall.left = 0 /\ dpCall' = AdapterSaid(dpCall, "error")
       \/ /\ dpCall.left > 0
          /\ \/ dpCall' = [dpCall EXCEPT !.pc = "parse"]
             \/ dpCall' = RequestFailed(dpCall)                        \* fatal: never retried
             \/ /\ dpCall.attempt < MaxAttempts                        \* transient
                /\ dpCall' = [dpCall EXCEPT !.attempt = @ + 1]
             \/ dpCall.attempt = MaxAttempts /\ dpCall' = RequestFailed(dpCall)
    /\ UNCHANGED <<dpRegs, dpCached, dpOps>>

\* The body: more requests of the plan, a malformed or an empty frame, or data.
\* The second request for OANDA's price is made only when the first frame is
\* empty.  Frames with rows are cached.
ParseBody ==
    /\ dpCall.pc = "parse"
    /\ LET plan == Current.plan[dpCall.method]
           more == [dpCall EXCEPT !.pc = "request", !.left = @ - 1, !.attempt = 1]
           bars == ReadsBars(Current, dpCall.method)
       IN  \/ /\ plan = "two" /\ dpCall.left = 2
              /\ dpCall' = more /\ UNCHANGED dpCached
           \/ /\ ~(plan = "two" /\ dpCall.left = 2)
              /\ \/ dpCall' = AdapterSaid(dpCall, "other") /\ UNCHANGED dpCached
                 \/ bars /\ dpCall' = AdapterSaid(dpCall, "error") /\ UNCHANGED dpCached
                 \/ /\ plan = "bars_twice" /\ dpCall.left = 2
                    /\ dpCall' = more /\ UNCHANGED dpCached
                 \/ /\ ~(plan = "bars_twice" /\ dpCall.left = 2)
                    /\ dpCall' = AdapterSaid(dpCall, "empty") /\ UNCHANGED dpCached
                 \/ /\ dpCall' = AdapterSaid(dpCall, "answer")
                    /\ dpCached' = IF bars THEN dpCached \cup {Current.name} ELSE dpCached
    /\ UNCHANGED <<dpRegs, dpOps>>

\* get_latest_price and get_multiple_prices turn "unavailable" into None and {};
\* the routes turn it into 503: the caller goes on.
CallReturns ==
    /\ dpCall.pc = "done"
    /\ dpCall' = IdleDataCall
    /\ UNCHANGED <<dpRegs, dpCached, dpOps>>

EntryExpires(n) ==
    /\ n \in dpCached
    /\ dpCached' = dpCached \ {n}
    /\ UNCHANGED <<dpRegs, dpCall, dpOps>>

CallStep == ReadCache \/ RequestOnce \/ ParseBody

FailoverInit == dpRegs = {} /\ dpCached = {} /\ dpCall = IdleDataCall /\ dpOps = 0

FailoverNext ==
    \/ \E a \in Adapters, p \in {1, 2}, key \in BOOLEAN, cls \in {{}, AssetClasses} :
          Configure(a, p, cls, key)
    \/ \E r \in dpRegs : Deregister(r)
    \/ \E m \in DataMethods :
          \/ \E cls \in AssetClasses : RegistryCall(m, cls)
          \/ \E r \in dpRegs : PinnedCall(m, r)
    \/ CallStep \/ CallReturns
    \/ \E n \in dpCached : EntryExpires(n)

----------------------------------------
(* Properties *)

SaidBy(n) == {dpCall.said[i][2] : i \in {i \in DOMAIN dpCall.said : dpCall.said[i][1] = n}}
AllSaid == {dpCall.said[i][2] : i \in DOMAIN dpCall.said}

\* The failover's verdict is the truth about the candidates: unavailable only
\* when every one of them failed, empty only when one really answered so and
\* none had data, an answer only after the ones before it failed or were empty.
VerdictIsHonest ==
    dpCall.pc = "done" =>
        /\ dpCall.result = "unavailable" => AllSaid \subseteq {"error"}
        /\ dpCall.result = "empty" => "empty" \in AllSaid /\ "answer" \notin AllSaid
        /\ dpCall.result = "answer" =>
              \A i \in DOMAIN dpCall.said : (dpCall.said[i][2] = "answer") = (i = Len(dpCall.said))

----------------------------------------
(***************************************************************************)
(* YahooFinanceProvider (src/engine/data/yahoo_provider.py): fetches that  *)
(* run concurrently over an injected HTTP client, a client given with the  *)
(* call, or one made for the request; a memo of parsed frames without an   *)
(* expiry; and aclose.                                                     *)
(***************************************************************************)

CONSTANTS Fetches,          \* concurrent fetch_ohlcv calls
          MaxClients        \* bound: clients made

ASSUME YahooAssumption == MaxClients \in Nat

VARIABLES yfClient,   \* self._client: 0 for None, else a client
          yfOpen,     \* clients that are open
          yfMade,     \* clients so far; client 1 is the injected one, 2 the call's own
          yfMemo,     \* the window's frame is in _cache
          yfFetch     \* each fetch: pc, the client argument, the client it uses

yfVars == <<yfClient, yfOpen, yfMade, yfMemo, yfFetch>>

IdleFetch == [pc |-> "idle", arg |-> 0, uses |-> 0]
Injected == 1
CallersOwn == 2

YahooInit ==
    /\ yfClient \in {0, Injected}
    /\ yfOpen = {Injected, CallersOwn} /\ yfMade = 2
    /\ yfMemo = FALSE
    /\ yfFetch = [f \in Fetches |-> IdleFetch]

\* fetch_ohlcv: symbol, period, interval and date window are validated (a bad one
\* raises); a memoised frame is returned; _get_chart picks the client.
FetchBegins(f, arg) ==
    /\ yfFetch[f].pc = "idle" /\ ~yfMemo
    /\ \/ /\ arg = 0 /\ yfClient = 0 /\ yfMade < MaxClients
          /\ yfMade' = yfMade + 1 /\ yfOpen' = yfOpen \cup {yfMade + 1}
          /\ yfFetch' = [yfFetch EXCEPT ![f] = [pc |-> "get", arg |-> 0, uses |-> yfMade + 1]]
       \/ /\ arg # 0 \/ yfClient # 0
          /\ yfFetch' = [yfFetch EXCEPT ![f] = [pc |-> "get", arg |-> arg,
                                                uses |-> IF arg # 0 THEN arg ELSE yfClient]]
          /\ UNCHANGED <<yfMade, yfOpen>>
    /\ UNCHANGED <<yfClient, yfMemo>>

MutClosed(f) == {}

\* The finally block: the client is closed unless the call brought its own.
Closed(f) == IF yfFetch[f].arg = 0 THEN {yfFetch[f].uses} ELSE {}

\* The response arrives and the rows are memoised, or the request fails (a closed
\* client raises RuntimeError); the client is closed either way.
FetchEnds(f) ==
    /\ yfFetch[f].pc = "get"
    /\ \/ yfFetch[f].uses \in yfOpen /\ yfMemo' = TRUE
       \/ UNCHANGED yfMemo
    /\ yfOpen' = yfOpen \ Closed(f)
    /\ yfFetch' = [yfFetch EXCEPT ![f] = IdleFetch]
    /\ UNCHANGED <<yfClient, yfMade>>

\* Another symbol or window: its frame is not memoised yet.
OtherWindow ==
    /\ yfMemo /\ \A f \in Fetches : yfFetch[f].pc = "idle"
    /\ yfMemo' = FALSE
    /\ UNCHANGED <<yfClient, yfOpen, yfMade, yfFetch>>

\* aclose: forgets the injected client, then closes it.
ProviderCloses ==
    /\ yfClient # 0
    /\ yfClient' = 0
    /\ yfOpen' = yfOpen \ {yfClient}
    /\ UNCHANGED <<yfMade, yfMemo, yfFetch>>

YahooNext ==
    \/ \E f \in Fetches : FetchEnds(f) \/ \E arg \in {0, CallersOwn} : FetchBegins(f, arg)
    \/ OtherWindow \/ ProviderCloses

----------------------------------------
(* Properties *)

\* Clients made for a request do not outlive it, on success or failure, and the
\* client a caller brings is never closed.
NoClientLeaks ==
    /\ CallersOwn \in yfOpen
    /\ yfOpen \ {Injected, CallersOwn} \subseteq {yfFetch[f].uses : f \in Fetches}
=============================================================================
