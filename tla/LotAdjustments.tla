--------------------------- MODULE LotAdjustments ----------------------------
(***************************************************************************)
(* What changes a tax lot after its trade: wash sales, then corporate      *)
(* actions.  The parts share no state.                                     *)
(***************************************************************************)
EXTENDS Integers, Sequences, SequencesExt, FiniteSetsExt

(****************************************************************************)
(* Wash sales (core/tax/wash_sale.py, detect_wash_sales): sales consume the *)
(* lots of a symbol first in, first out; the loss of a sale is disallowed   *)
(* as far as shares that are still held were bought within the window of    *)
(* it. Trades arrive in the order of time, as the code sorts them. Money is *)
(* in ten-thousandths.                                                      *)
(****************************************************************************)
CONSTANTS Tickers, TradeSizes, TradePrices,
          WashDays,       \* wash_sale_window_days of the jurisdiction
          MaxWashDay, MaxWashTrades

ASSUME WashAssumption == TradeSizes \subseteq Nat \ {0} /\ TradePrices \subseteq Nat /\ WashDays \in Nat

VARIABLES waLots,   \* buys: symbol, price, day, shares not consumed by a sale
          waSales,  \* sales: symbol, size, day, loss (negative: a gain)
          waDay

waVars == <<waLots, waSales, waDay>>

Lesser(a, b) == IF a < b THEN a ELSE b
AboveZero(n) == IF n > 0 THEN n ELSE 0
\* Decimal.quantize: half to even, of two numbers that are not negative.
Quantized(num, den) ==
    LET down == num \div den
        twice == 2 * (num % den)
    IN IF twice < den \/ (twice = den /\ down % 2 = 0) THEN down ELSE down + 1

WashInit == waLots = <<>> /\ waSales = <<>> /\ waDay = 0

RecordBuy(k, n, p) ==
    /\ Len(waLots) + Len(waSales) < MaxWashTrades
    /\ waLots' = Append(waLots, [symbol |-> k, price |-> p, day |-> waDay, left |-> n])
    /\ UNCHANGED <<waSales, waDay>>

\* _consume_fifo: shares a sale takes from each lot of its symbol; a sale of more
\* than there is has the basis of what there was.
ConsumeFifo(k, n) ==
    LET left == [i \in DOMAIN waLots |-> waLots[i].left]
        earlier(i) == {j \in DOMAIN waLots : j < i /\ waLots[j].symbol = k}
    IN [i \in DOMAIN waLots |->
           IF waLots[i].symbol # k THEN 0
           ELSE Lesser(left[i], AboveZero(n - MapThenSumSet(LAMBDA j : left[j], earlier(i))))]
RecordSale(k, n, p) ==
    LET taken == ConsumeFifo(k, n)
        cost == [i \in DOMAIN waLots |-> taken[i] * waLots[i].price]
        basis == MapThenSumSet(LAMBDA i : cost[i], DOMAIN waLots)
    IN /\ Len(waLots) + Len(waSales) < MaxWashTrades
       /\ waLots' = [i \in DOMAIN waLots |-> [waLots[i] EXCEPT !.left = @ - taken[i]]]
       /\ waSales' = Append(waSales, [symbol |-> k, size |-> n, day |-> waDay, loss |-> basis - n * p])
       /\ UNCHANGED waDay

WashDayPasses == waDay < MaxWashDay /\ waDay' = waDay + 1 /\ UNCHANGED <<waLots, waSales>>

WashNext ==
    \/ \E k \in Tickers, n \in TradeSizes, p \in TradePrices : RecordBuy(k, n, p) \/ RecordSale(k, n, p)
    \/ WashDayPasses

\* A buy replaces the shares of a sale: same symbol, on either side within the window.
MutReplaces(lot, sale) == lot.symbol = sale.symbol /\ lot.day \in sale.day .. sale.day + WashDays
Replaces(lot, sale) ==
    /\ WashDays > 0 /\ lot.symbol = sale.symbol
    /\ lot.day \in sale.day - WashDays .. sale.day + WashDays

\* The matching loop: loss sales in the order of time, for each the buys in the
\* order of time, until the sale's shares or its loss are used up. m holds the
\* shares and loss left of every sale, the shares left of every lot and the
\* adjustments <<sale, lot, shares, disallowed loss>>.
MutMatch(m, s, b) ==
    LET n == Lesser(m.shares[s], waLots[b].left)
        disallowed == Quantized(waSales[s].loss * n, waSales[s].size)
    IN IF n <= 0 \/ m.loss[s] <= 0 \/ ~Replaces(waLots[b], waSales[s]) THEN m
       ELSE [m EXCEPT !.shares[s] = @ - n, !.loss[s] = @ - disallowed,
                      !.adjusted = Append(@, <<s, b, n, disallowed>>)]
Match(m, s, b) ==
    LET n == Lesser(m.shares[s], m.lots[b])
        disallowed == Quantized(waSales[s].loss * n, waSales[s].size)
    IN IF n <= 0 \/ m.loss[s] <= 0 \/ ~Replaces(waLots[b], waSales[s]) THEN m
       ELSE [m EXCEPT !.shares[s] = m.shares[s] - n, !.loss[s] = m.loss[s] - disallowed,
                      !.lots[b] = m.lots[b] - n, !.adjusted = Append(m.adjusted, <<s, b, n, disallowed>>)]
DetectWashSales ==
    LET start == [shares |-> [s \in DOMAIN waSales |-> waSales[s].size],
                  loss |-> [s \in DOMAIN waSales |-> AboveZero(waSales[s].loss)],
                  lots |-> [b \in DOMAIN waLots |-> waLots[b].left], adjusted |-> <<>>]
        lots == Len(waLots)
        after[i \in 0 .. Len(waSales) * lots] ==
            IF i = 0 THEN start ELSE Match(after[i - 1], ((i - 1) \div lots) + 1, ((i - 1) % lots) + 1)
    IN after[Len(waSales) * lots]

----------------------------------------
\* A share replaces one sold share at most, and only one that is still held; a
\* sale is not disallowed for more shares than it sold, nor, up to half a unit of
\* rounding per adjustment, for more than it lost; and, where there is a window, no
\* loss stays allowed while a replacement in it, before or after the sale, is free.
WashSalesMatched ==
    LET m == DetectWashSales
        rows == DOMAIN m.adjusted
        of(i, x) == {j \in rows : m.adjusted[j][i] = x}
        column(i) == [j \in rows |-> m.adjusted[j][i]]
        total(i, js) == MapThenSumSet(LAMBDA j : column(i)[j], js)
    IN /\ \A b \in DOMAIN waLots : total(3, of(2, b)) <= waLots[b].left
       /\ \A s \in DOMAIN waSales :
             LET mine == of(1, s) IN
             /\ total(3, mine) <= waSales[s].size
             /\ mine # {} => /\ waSales[s].loss > 0
                             /\ 2 * (total(4, mine) - waSales[s].loss) <= Cardinality(mine)
             /\ \A j \in mine :
                   LET gap == waLots[m.adjusted[j][2]].day - waSales[s].day
                   IN gap <= WashDays /\ -gap <= WashDays
             /\ total(3, mine) < waSales[s].size /\ total(4, mine) < waSales[s].loss =>
                   \A b \in DOMAIN waLots :
                      LET gap == waLots[b].day - waSales[s].day
                      IN \/ WashDays = 0 \/ waLots[b].symbol # waSales[s].symbol
                         \/ gap > WashDays \/ -gap > WashDays
                         \/ total(3, of(2, b)) = waLots[b].left

----------------------------------------
(****************************************************************************)
(* Back-adjustment of prices and volumes through a log of corporate actions *)
(* (core/corp_actions.py), in exact fractions: a factor is a pair of        *)
(* numerator and denominator. Actions of one symbol; days stand for dates.  *)
(****************************************************************************)

CONSTANTS Ratios,      \* fractions of splits, mergers and spinoffs
          Dividends,   \* cash per share
          ExCloses,    \* closes the caller passes for dividends; 0 for none
          RawVolumes, LastDay, MaxCorpActions

ASSUME CorpAssumption ==
    /\ Ratios \subseteq Nat \X (Nat \ {0}) /\ Dividends \subseteq Nat /\ ExCloses \subseteq Nat
    /\ RawVolumes \subseteq Nat /\ LastDay \in Nat

VARIABLE caLog    \* CorporateActionLog._actions

caVars == <<caLog>>

One == <<1, 1>>
Times(f, g) == <<f[1] * g[1], f[2] * g[2]>>
SameFactor(f, g) == f[1] * g[2] = g[1] * f[2]
Turned(f) == <<f[2], f[1]>>

\* What may be asked for: cash actions carry no ratio, stock ones no cash.
Actions == [type : {"split", "spinoff", "merger", "symbol_change"}, day : 1..LastDay, ratio : Ratios, cash : {-1}]
           \cup [type : {"cash_dividend", "merger"}, day : 1..LastDay, ratio : {<<0, 1>>}, cash : Dividends]
\* CorporateAction.__post_init__
IsStock(a) == a.cash = -1
Constructible(a) ==
    CASE a.type = "split" -> a.ratio[1] > 0
      [] a.type = "spinoff" -> a.ratio[1] > 0 /\ a.ratio[1] <= a.ratio[2]
      [] a.type = "merger" -> IF IsStock(a) THEN a.ratio[1] > 0 ELSE a.cash >= 0
      [] a.type = "cash_dividend" -> a.cash >= 0
      [] OTHER -> TRUE

\* _applicable: after the bar, and not after the date of the analysis.
MutApplicable(a, bar, asOf) == bar <= a.day /\ a.day <= asOf
Applicable(a, bar, asOf) == bar < a.day /\ a.day <= asOf

\* adjust_price: a dividend counts with a close above it, a cash merger and a new
\* symbol do not change the price.
PriceFactor(a, exClose) ==
    CASE a.type = "split" -> Turned(a.ratio)
      [] a.type = "spinoff" -> a.ratio
      [] a.type = "merger" /\ IsStock(a) -> Turned(a.ratio)
      [] a.type = "cash_dividend" /\ exClose > a.cash -> <<exClose - a.cash, exClose>>
      [] OTHER -> One
\* The product of the factors of the actions that apply, in the order of the log.
Product(factors) ==
    LET upTo[i \in 0..Len(factors)] == IF i = 0 THEN One ELSE Times(upTo[i - 1], factors[i])
    IN upTo[Len(factors)]
AdjustPrice(bar, asOf, exClose) ==
    Product([i \in DOMAIN caLog |->
               IF Applicable(caLog[i], bar, asOf) THEN PriceFactor(caLog[i], exClose) ELSE One])
\* adjust_volume: splits and stock mergers only; the result is rounded half to even.
MutVolumeFactor(a) == IF a.type \in {"split", "spinoff"} THEN a.ratio ELSE One
VolumeFactor(a) == IF a.type = "split" \/ (a.type = "merger" /\ IsStock(a)) THEN a.ratio ELSE One
VolumeMultiplier(bar, asOf) ==
    Product([i \in DOMAIN caLog |-> IF Applicable(caLog[i], bar, asOf) THEN VolumeFactor(caLog[i]) ELSE One])
AdjustVolume(raw, bar, asOf) ==
    LET f == VolumeMultiplier(bar, asOf) IN Quantized(raw * f[1], f[2])

CorpInit == caLog = <<>>
\* CorporateActionLog.append, of an action that could be constructed.
AppendCorpAction(a) ==
    /\ Constructible(a) /\ Len(caLog) < MaxCorpActions
    /\ caLog' = Append(caLog, a)
CorpNext == \E a \in Actions : AppendCorpAction(a)

----------------------------------------
\* Adjusting a bar to a day and on to a later one is adjusting it to the later day;
\* factors are positive; where only shares were exchanged, price times volume is
\* what it was; and a volume is the nearest whole number of shares, in whatever
\* order the actions were recorded (adjust_price, adjust_volume).
AdjustmentsCompose ==
    \A bar, asOf \in 0..LastDay, exClose \in ExCloses : bar <= asOf =>
        LET price == AdjustPrice(bar, asOf, exClose)
            volume == VolumeMultiplier(bar, asOf)
        IN /\ price[1] > 0 /\ price[2] > 0
           /\ \A mid \in bar..asOf :
                 SameFactor(price, Times(AdjustPrice(bar, mid, exClose), AdjustPrice(mid, asOf, exClose)))
           /\ (\A i \in DOMAIN caLog : caLog[i].type \in {"split", "merger", "symbol_change"}) =>
                 SameFactor(Times(price, volume), One)
           /\ \A raw \in RawVolumes :
                 LET miss == 2 * (AdjustVolume(raw, bar, asOf) * volume[2] - raw * volume[1])
                 IN -volume[2] <= miss /\ miss <= volume[2]
=============================================================================
