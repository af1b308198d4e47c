------------------------------ MODULE PartProofs ------------------------------
(***************************************************************************)
(* What the components of trading keep, each by itself: the portfolio      *)
(* whose lots add up and are sold in the order of the tax method, the gate *)
(* that approves nothing after a loss and no more than its window lets     *)
(* through, the versions of a strategy and the clients of a broker; what   *)
(* they all run on, the event bus, the process that opens and closes it,   *)
(* and the limiter before its routes; and what strategies are given: a     *)
(* stage behind its gates, a share of the capital while they are awaited,  *)
(* a vote and a score.                                                     *)
(***************************************************************************)
EXTENDS Portfolio, RiskGate, StrategyReleases, StrategyEngines, Brokers, EventBus,
        RateLimiter, BookProofs, SumLemmas, SequenceTheorems

----------------------------------------
(* The books balance: a portfolio's lots add up to its positions, its cash  *)
(* to the trades and its profit to what the sold lots had cost, whatever    *)
(* is bought, sold and marked under whatever tax methods.                   *)

\* No sale costs more than it brings in.
SalesCoverCosts == \A p \in Prices : Cost <= p

TradeTotals == [count : Nat, paid : Int, received : Int, basis : Int]

\* Lots and positions agree: what holds whatever a trade costs.
BookSound == BookType(book) /\ LotsMatch(book) /\ day \in Nat

PortfolioInv ==
    /\ BookType(book) /\ LotsMatch(book)
    /\ trades \in TradeTotals
    /\ day \in Nat
    /\ book.cash = InitialCash - trades.paid + trades.received
    /\ book.cash \in Nat
    /\ book.pnl = trades.received - (trades.basis - TotalBasis(book))

(* A new portfolio balances. *)
LEMMA PortfolioStarts == PortfolioInit => PortfolioInv
  <1> SUFFICES ASSUME PortfolioInit PROVE PortfolioInv
    OBVIOUS
  <1>1. BookType(book) /\ LotsMatch(book) /\ TotalBasis(book) = 0
    BY EmptyBookKeeps DEF PortfolioInit
  <1>2. book.cash = InitialCash /\ book.pnl = 0 BY DEF PortfolioInit, EmptyBook
  <1> QED BY <1>1, <1>2, BookAssumption DEF PortfolioInit, PortfolioInv, TradeTotals

(* A purchase keeps the books balanced (open_position). *)
LEMMA BuyKeeps ==
    ASSUME PortfolioInv, NEW s \in Symbols, NEW n \in Quantities, NEW p \in Prices, Buy(s, n, p)
    PROVE  PortfolioInv'
  <1> DEFINE basis == AdjustedPrice(book, s, n, p, day)
             spent == n * p + Cost
  <1>1. /\ n \in Shares /\ p \in Nat /\ Cost \in Nat /\ day \in Nat
        /\ BookType(book) /\ LotsMatch(book) /\ book.cash \in Nat /\ book.pnl \in Int
        /\ trades \in TradeTotals
    BY PortfolioAssumption DEF PortfolioInv, Shares, BookType
  <1>2. n * p \in Int /\ spent \in Int /\ n \in Int BY <1>1 DEF Shares
  <1>3. /\ BookType(book') /\ LotsMatch(book')
        /\ book'.cash = book.cash - spent /\ book'.pnl = book.pnl
        /\ TotalBasis(book') = TotalBasis(book) + n * basis
        /\ TotalBasis(book) \in Int /\ basis \in Int
   <2> DEFINE c == OpenPosition(book, s, n, p, Cost, day)
   <2>1. book' = c /\ p \in Int /\ Cost \in Int /\ day \in Int BY <1>1 DEF Buy
   <2>2. AfterPurchase(book, c, s, n, spent, basis) BY <1>1, <2>1, OpenKeeps
   <2> HIDE DEF c
   <2> QED BY <2>1, <2>2 DEF AfterPurchase
  <1>4. n * basis \in Int BY <1>2, <1>3
  <1>5. /\ trades' = [trades EXCEPT !.count = trades.count + 1,
                                    !.paid = trades.paid + n * p + Cost,
                                    !.basis = trades.basis + n * basis]
        /\ day' = day /\ book.cash >= spent
    BY DEF Buy, CanOpen
  <1> HIDE DEF basis
  <1>6. /\ trades.paid \in Int /\ trades.received \in Int /\ trades.basis \in Int
        /\ trades.count \in Nat
    BY <1>1 DEF TradeTotals
  <1>7. /\ trades' \in TradeTotals
        /\ trades'.paid = trades.paid + n * p + Cost
        /\ trades'.received = trades.received
        /\ trades'.basis = trades.basis + n * basis
   <2>1. /\ trades.count + 1 \in Nat /\ trades.paid + n * p + Cost \in Int
         /\ trades.basis + n * basis \in Int
     BY <1>1, <1>2, <1>4, <1>6
   <2> QED BY <1>1, <1>5, <2>1 DEF TradeTotals
  <1>8. book'.cash = InitialCash - trades'.paid + trades'.received /\ book'.cash \in Nat
    BY <1>1, <1>2, <1>3, <1>5, <1>6, <1>7, BookAssumption DEF PortfolioInv
  <1>9. book'.pnl = trades'.received - (trades'.basis - TotalBasis(book'))
    BY <1>3, <1>4, <1>6, <1>7 DEF PortfolioInv
  <1> QED BY <1>1, <1>3, <1>5, <1>7, <1>8, <1>9 DEF PortfolioInv

(* A sale keeps the books balanced (close_position). *)
LEMMA SellKeeps ==
    ASSUME SalesCoverCosts, PortfolioInv, NEW s \in Symbols, NEW n \in Quantities,
           NEW p \in Prices, Sell(s, n, p)
    PROVE  PortfolioInv'
  <1> DEFINE net == n * p - Cost
  <1>1. /\ n \in Shares /\ p \in Nat /\ Cost \in Nat /\ day \in Nat
        /\ BookType(book) /\ LotsMatch(book) /\ book.cash \in Nat /\ book.pnl \in Int
        /\ trades \in TradeTotals
    BY PortfolioAssumption DEF PortfolioInv, Shares, BookType
  <1>2. n * p \in Int /\ net \in Int /\ net >= 0
   <2>1. n \in Nat /\ n >= 1 /\ Cost <= p BY <1>1 DEF Shares, SalesCoverCosts
   <2>2. n * p >= p BY <1>1, <2>1
   <2> QED BY <1>1, <2>1, <2>2
  <1>3. /\ BookType(book') /\ LotsMatch(book')
        /\ book'.cash = book.cash + net
        /\ book'.pnl - TotalBasis(book') = book.pnl - TotalBasis(book) + net
        /\ TotalBasis(book) \in Int /\ TotalBasis(book') \in Int
   <2> DEFINE c == ClosePosition(book, s, method, n, p, Cost, day)
   <2>1. book' = c /\ CanClose(book, s, n) /\ p \in Int /\ Cost \in Int /\ day \in Int
     BY <1>1 DEF Sell
   <2>2. AfterSale(book, c, s, n, net) BY <1>1, <2>1, CloseKeeps
   <2> HIDE DEF c
   <2> QED BY <2>1, <2>2 DEF AfterSale
  <1>4. /\ book'.pnl \in Int /\ TotalBasis(book) \in Int /\ TotalBasis(book') \in Int
    BY <1>3 DEF BookType
  <1>5. /\ trades' = [trades EXCEPT !.count = trades.count + 1,
                                    !.received = trades.received + n * p - Cost]
        /\ day' = day
    BY DEF Sell
  <1>6. /\ trades.paid \in Int /\ trades.received \in Int /\ trades.basis \in Int
        /\ trades.count \in Nat
    BY <1>1 DEF TradeTotals
  <1>7. /\ trades' \in TradeTotals
        /\ trades'.paid = trades.paid /\ trades'.basis = trades.basis
        /\ trades'.received = trades.received + net
   <2>1. trades.count + 1 \in Nat /\ trades.received + n * p - Cost \in Int BY <1>1, <1>2, <1>6
   <2>2. trades.received + n * p - Cost = trades.received + net BY <1>1, <1>2, <1>6
   <2> QED BY <1>1, <1>5, <2>1, <2>2 DEF TradeTotals
  <1>8. book'.cash = InitialCash - trades'.paid + trades'.received /\ book'.cash \in Nat
    BY <1>1, <1>2, <1>3, <1>6, <1>7, BookAssumption DEF PortfolioInv
  <1>9. book'.pnl = trades'.received - (trades'.basis - TotalBasis(book'))
   <2> HIDE DEF net
   <2>1. book.pnl = trades.received - (trades.basis - TotalBasis(book)) BY DEF PortfolioInv
   <2> QED BY <2>1, <1>1, <1>2, <1>3, <1>4, <1>6, <1>7
  <1> QED BY <1>1, <1>3, <1>5, <1>7, <1>8, <1>9 DEF PortfolioInv

(* Every step of the portfolio keeps its books balanced. *)
LEMMA PortfolioSteps ==
    ASSUME SalesCoverCosts, PortfolioInv, PortfolioNext \/ UNCHANGED pfVars
    PROVE  PortfolioInv'
  <1>1. ASSUME NEW p \in Prices, MarkPrices(p)
        PROVE  PortfolioInv'
   <2>1. [s \in Symbols |-> p] \in [Symbols -> Int] BY PortfolioAssumption
   <2>2. /\ BookType(book') /\ LotsMatch(book')
         /\ book'.cash = book.cash /\ book'.pnl = book.pnl
         /\ TotalBasis(book') = TotalBasis(book)
     BY <1>1, <2>1, MarkKeeps DEF MarkPrices, PortfolioInv, AfterMarking
   <2> QED BY <1>1, <2>2 DEF MarkPrices, PortfolioInv
  <1>2. ASSUME NEW m, SetTaxMethod(m)
        PROVE  PortfolioInv'
    BY <1>2 DEF SetTaxMethod, PortfolioInv
  <1>3. CASE NextDay BY <1>3 DEF NextDay, PortfolioInv
  <1>4. CASE UNCHANGED pfVars BY <1>4 DEF pfVars, PortfolioInv
  <1> QED BY <1>1, <1>2, <1>3, <1>4, BuyKeeps, SellKeeps DEF PortfolioNext

(* What balanced books mean for positions, cash and profit. *)
LEMMA PortfolioBalances ==
    ASSUME PortfolioInv
    PROVE  LotsMatchPosition /\ CashFollowsTrades /\ ProfitMatchesBasis
  <1>1. LotsMatchPosition
   <2>1. ASSUME NEW s \in Symbols, NEW i \in DOMAIN book.lots[s]
         PROVE  book.lots[s][i].qty > 0
    <3>1. book.lots[s] \in Seq(Lot) BY BookFields DEF PortfolioInv
    <3>2. book.lots[s][i] \in Lot BY <3>1
    <3> QED BY <3>2 DEF Lot, Shares
   <2> QED BY <2>1 DEF LotsMatchPosition, PortfolioInv, LotsMatch
  <1>2. CashFollowsTrades BY DEF PortfolioInv, CashFollowsTrades
  <1>3. ProfitMatchesBasis BY DEF PortfolioInv, ProfitMatchesBasis, TotalBasis
  <1> QED BY <1>1, <1>2, <1>3

----------------------------------------
(* A sale takes the lots its method names. *)

\* The shares of a date, lot by lot.
OfDate(lots, d) == [i \in DOMAIN lots |-> IF lots[i].date = d THEN lots[i].qty ELSE 0]

(* The shares of a date are a sum over the lots. *)
LEMMA DateSum ==
    ASSUME NEW lots, NEW d
    PROVE  DateShares(lots, d) = SumOn(OfDate(lots, d), DOMAIN lots)
  <1> DEFINE f == OfDate(lots, d)
  <1>1. DateShares(lots, d) = SumOver(f) BY DEF DateShares, OfDate
  <1>2. DOMAIN f = DOMAIN lots BY DEF OfDate
  <1> QED BY <1>1, <1>2, SumOverOn

(* A lot is kept as it is, with the shares of its date. *)
LEMMA KeptByDate ==
    ASSUME NEW lots \in Seq(AnyLot), NEW d
    PROVE  /\ \A j \in DOMAIN WithoutEmpty(lots) :
                 \E i \in DOMAIN lots : WithoutEmpty(lots)[j] = lots[i] /\ lots[i].qty > 0
           /\ DateShares(WithoutEmpty(lots), d) = DateShares(lots, d)
  <1> DEFINE n == Len(lots)
             k == CHOOSE f : Keeps(f, lots, n)
             q == OfDate(lots, d)
  <1>1. n \in Nat /\ DOMAIN lots = 1..n OBVIOUS
  <1>2. Keeps(k, lots, n) BY <1>1, KeepsExists
  <1>3. WithoutEmpty(lots) = k[n] BY DEF WithoutEmpty, Keeps
  <1>4. \A i \in 1..n : lots[i] \in AnyLot /\ lots[i].qty \in Nat /\ q[i] \in Int
    BY <1>1, LotSums DEF OfDate
  <1>5. \A ls \in Seq(AnyLot) : DateShares(ls, d) = SumOn(OfDate(ls, d), DOMAIN ls) BY DateSum
  <1>6. \A i \in 1..n : q[i] = IF lots[i].date = d THEN lots[i].qty ELSE 0 BY <1>1 DEF OfDate
  <1> HIDE DEF n, k, q
  <1> DEFINE Good(i) == /\ k[i] \in Seq(AnyLot)
                        /\ \A j \in DOMAIN k[i] : \E l \in 1..i : k[i][j] = lots[l] /\ lots[l].qty > 0
                        /\ SumOn(OfDate(k[i], d), DOMAIN k[i]) = SumOn(q, 1..i)
             Bad == {i \in 0..n : ~Good(i)}
  <1>7. Bad = {}
   <2> SUFFICES ASSUME Bad # {} PROVE FALSE
     OBVIOUS
   <2>1. PICK m \in Bad : \A i \in Bad : m <= i
    <3>1. Bad \subseteq Nat BY <1>1
    <3> HIDE DEF Bad
    <3> QED BY <3>1, LeastNatural
   <2>2. m \in 0..n /\ ~Good(m) BY <2>1
   <2>3. CASE m = 0
    <3>1. k[0] = <<>> BY <1>1, <1>2 DEF Keeps
    <3>2. 1..0 = {} /\ <<>> \in Seq(AnyLot) /\ DOMAIN <<>> = {} OBVIOUS
    <3> QED BY <2>2, <2>3, <3>1, <3>2, SumEmpty
   <2>4. CASE m # 0
    <3>1. m - 1 \in 0..n /\ m \in 1..n /\ m - 1 \in Nat BY <1>1, <2>2, <2>4
    <3>2. Good(m - 1) BY <2>1, <3>1
    <3>3. k[m] = IF lots[m].qty > 0 THEN Append(k[m - 1], lots[m]) ELSE k[m - 1]
      BY <1>2, <2>2, <2>4 DEF Keeps
    <3>4. 1..m = (1..(m - 1)) \cup {m} /\ m \notin 1..(m - 1) /\ IsFiniteSet(1..(m - 1))
     <4>1. IsFiniteSet(1..(m - 1)) BY <3>1, FS_Interval
     <4>2. 1..m = (1..(m - 1)) \cup {m} /\ m \notin 1..(m - 1) BY <3>1
     <4> QED BY <4>1, <4>2
    <3>5. \A i \in (1..(m - 1)) \cup {m} : q[i] \in Int
     <4>1. \A i \in (1..(m - 1)) \cup {m} : i \in 1..n BY <1>1, <3>1
     <4> QED BY <4>1, <1>4
    <3>6. SumOn(q, 1..m) = SumOn(q, 1..(m - 1)) + q[m]
     <4>1. SumOn(q, (1..(m - 1)) \cup {m}) = SumOn(q, 1..(m - 1)) + q[m] BY <3>4, <3>5, SumAdd
     <4>2. SumOn(q, 1..m) = SumOn(q, (1..(m - 1)) \cup {m}) BY <3>4, Zenon
     <4> QED BY <4>1, <4>2
    <3>7. SumOn(q, 1..(m - 1)) \in Int BY <3>4, <3>5, SumType
    <3>8. lots[m] \in AnyLot /\ lots[m].qty \in Nat BY <1>4, <3>1
    <3>9. CASE lots[m].qty > 0
     <4> DEFINE ks == k[m - 1]
                L == Len(ks)
                new == Append(ks, lots[m])
     <4>1. ks \in Seq(AnyLot) /\ k[m] = new BY <3>2, <3>3, <3>9
     <4>2. /\ new \in Seq(AnyLot) /\ DOMAIN ks = 1..L /\ L \in Nat /\ DOMAIN new = (1..L) \cup {L + 1}
           /\ L + 1 \notin 1..L /\ new[L + 1] = lots[m] /\ \A i \in 1..L : new[i] = ks[i]
       BY <3>8, <4>1, SMTT(30)
     <4> HIDE DEF ks, L, new
     <4>3. \A i \in (1..L) \cup {L + 1} : OfDate(new, d)[i] = IF new[i].date = d THEN new[i].qty ELSE 0
       BY <4>2 DEF OfDate
     <4>4. \A i \in 1..L : OfDate(ks, d)[i] = IF ks[i].date = d THEN ks[i].qty ELSE 0
       BY <4>2 DEF OfDate
     <4>5. \A i \in 1..L : ks[i].qty \in Nat BY <4>1, <4>2, LotSums
     <4>6. \A i \in (1..L) \cup {L + 1} : OfDate(new, d)[i] \in Int
      <5> TAKE i \in (1..L) \cup {L + 1}
      <5>1. new[i].qty \in Nat
       <6>1. CASE i \in 1..L BY <4>2, <4>5, <6>1
       <6>2. CASE i = L + 1 BY <3>8, <4>2, <6>2
       <6> QED BY <6>1, <6>2
      <5>2. OfDate(new, d)[i] = IF new[i].date = d THEN new[i].qty ELSE 0 BY <4>3
      <5> QED BY <5>1, <5>2
     <4>7. IsFiniteSet(1..L) BY <4>2, FS_Interval
     <4>8. SumOn(OfDate(new, d), (1..L) \cup {L + 1}) = SumOn(OfDate(new, d), 1..L) + OfDate(new, d)[L + 1]
       BY <4>2, <4>6, <4>7, SumAdd, ZenonT(60)
     <4>9. SumOn(OfDate(new, d), 1..L) = SumOn(OfDate(ks, d), 1..L)
      <5>1. \A i \in 1..L : OfDate(new, d)[i] = OfDate(ks, d)[i] BY <4>2, <4>3, <4>4
      <5> DEFINE f == OfDate(new, d)
                 g == OfDate(ks, d)
                 D == 1..L
      <5>2. IsFiniteSet(D) /\ \A i \in D : f[i] = g[i] BY <4>7, <5>1
      <5> HIDE DEF f, g, D
      <5>3. SumOn(f, D) = SumOn(g, D) BY <5>2, SumSame
      <5> QED BY <5>3 DEF f, g, D
     <4>10. OfDate(new, d)[L + 1] = q[m] BY <1>6, <3>1, <4>2, <4>3
     <4>11. SumOn(OfDate(ks, d), 1..L) = SumOn(q, 1..(m - 1)) BY <3>2, <4>2 DEF ks
     <4>12. SumOn(OfDate(k[m], d), DOMAIN k[m]) = SumOn(q, 1..m)
       BY <3>6, <4>1, <4>2, <4>8, <4>9, <4>10, <4>11
     <4>13. ASSUME NEW j \in DOMAIN new
            PROVE  \E l \in 1..m : new[j] = lots[l] /\ lots[l].qty > 0
      <5>1. CASE j = L + 1 BY <3>1, <3>9, <4>2, <5>1
      <5>2. CASE j \in 1..L
       <6>1. PICK l \in 1..(m - 1) : ks[j] = lots[l] /\ lots[l].qty > 0
         BY <3>2, <4>2, <5>2 DEF ks
       <6> QED BY <3>1, <4>2, <5>2, <6>1
      <5> QED BY <4>2, <5>1, <5>2
     <4> QED BY <2>2, <4>1, <4>2, <4>12, <4>13
    <3>10. CASE ~ (lots[m].qty > 0)
     <4>1. k[m] = k[m - 1] /\ q[m] = 0 BY <1>6, <3>1, <3>3, <3>8, <3>10
     <4>2. SumOn(q, 1..m) = SumOn(q, 1..(m - 1)) BY <3>6, <3>7, <4>1
     <4>3. \A l \in 1..(m - 1) : l \in 1..m BY <3>1
     <4> QED BY <2>2, <3>2, <4>1, <4>2, <4>3
    <3> QED BY <3>9, <3>10
   <2> QED BY <2>3, <2>4
  <1>8. Good(n) BY <1>1, <1>7
  <1>9. SumOn(OfDate(lots, d), DOMAIN lots) = SumOn(q, 1..n) BY <1>1 DEF q
  <1> QED BY <1>1, <1>3, <1>5, <1>8, <1>9

(* What a sale leaves of each lot, before the empty ones go. *)
LEMMA ReducedFields ==
    ASSUME NEW lots \in Seq(AnyLot), NEW tm, NEW n \in Nat
    PROVE  /\ ReducedLots(lots, tm, n) \in Seq(AnyLot)
           /\ DOMAIN ReducedLots(lots, tm, n) = DOMAIN lots
           /\ \A i \in DOMAIN lots :
                 /\ ReducedLots(lots, tm, n)[i].qty = lots[i].qty - TakenFrom(lots, tm, n, i)
                 /\ ReducedLots(lots, tm, n)[i].date = lots[i].date
  <1> DEFINE red == ReducedLots(lots, tm, n)
             D == DOMAIN lots
  <1>1. ASSUME NEW i \in D
        PROVE  /\ red[i] \in AnyLot
               /\ red[i].qty = lots[i].qty - TakenFrom(lots, tm, n, i)
               /\ red[i].date = lots[i].date
   <2> DEFINE l == lots[i]
              t == TakenFrom(lots, tm, n, i)
   <2>1. l \in AnyLot /\ t \in 0..l.qty /\ red[i] = Less(l, t) BY LotSums, TakenType DEF ReducedLots
   <2> HIDE DEF l, t, red
   <2>2. l.qty \in Nat /\ l.qty - t \in Nat BY <2>1 DEF AnyLot
   <2>3. Less(l, t) \in AnyLot /\ Less(l, t).qty = l.qty - t /\ Less(l, t).date = l.date
     BY <2>1, <2>2 DEF AnyLot, Less
   <2> QED BY <2>1, <2>3 DEF l, t
  <1>2. red = [i \in D |-> red[i]] BY DEF ReducedLots
  <1> HIDE DEF red
  <1>3. DOMAIN red = D BY <1>2
  <1>4. red \in [1..Len(lots) -> AnyLot] BY <1>1, <1>2
  <1>5. red \in Seq(AnyLot) BY <1>4, IsASeq
  <1> QED BY <1>1, <1>3, <1>5 DEF red

(* A lot that stands before one that gave shares gave all it had. *)
LEMMA EarlierGaveAll ==
    ASSUME NEW lots \in Seq(AnyLot), NEW tm, NEW n \in Nat, NEW i \in DOMAIN lots, NEW j \in DOMAIN lots,
           Before(lots, tm, i, j), TakenFrom(lots, tm, n, j) > 0
    PROVE  TakenFrom(lots, tm, n, i) = lots[i].qty
  <1> DEFINE q == Qty(lots)
             A == Ahead(lots, tm, i)
             B == Ahead(lots, tm, j)
  <1>1. /\ A \subseteq DOMAIN lots /\ B \subseteq DOMAIN lots
        /\ i \notin A /\ A \cup {i} \subseteq B
    BY BeforeOrders DEF Ahead
  <1>2. IsFiniteSet(A) /\ IsFiniteSet(B) BY <1>1, LotSums, FS_Subset
  <1>3. \A x \in B : q[x] \in Nat /\ q[x] \in Int BY <1>1, LotSums
  <1>4. q[i] = lots[i].qty /\ lots[i].qty \in Nat /\ lots[j].qty \in Nat BY LotSums
  <1>5. /\ TakenFrom(lots, tm, n, j) = LET left == n - SumOn(q, B) IN IF left <= 0 THEN 0 ELSE Least(left, lots[j].qty)
        /\ TakenFrom(lots, tm, n, i) = LET left == n - SumOn(q, A) IN IF left <= 0 THEN 0 ELSE Least(left, lots[i].qty)
        /\ SumOn(q, A) \in Nat /\ SumOn(q, B) \in Nat
    BY TakenType
  <1> HIDE DEF q, A, B
  <1>6. SumOn(q, A \cup {i}) = SumOn(q, A) + q[i] BY <1>1, <1>2, <1>3, SumAdd
  <1>7. SumOn(q, A \cup {i}) <= SumOn(q, B) BY <1>1, <1>2, <1>3, SumOfPart
  <1>8. ~(n - SumOn(q, B) <= 0) BY <1>5
  <1> QED BY <1>4, <1>5, <1>6, <1>7, <1>8 DEF Least

(* A sale of the lots leaves none standing before one it took shares from. *)
LEMMA SaleFollows ==
    ASSUME NEW lots \in Seq(Lot), NEW tm, NEW n \in Nat, NEW d, NEW j \in DOMAIN ConsumeLots(lots, tm, n),
           DateShares(ConsumeLots(lots, tm, n), d) < DateShares(lots, d)
    PROVE  /\ tm = "FIFO" => ConsumeLots(lots, tm, n)[j].date >= d
           /\ tm = "LIFO" => ConsumeLots(lots, tm, n)[j].date <= d
  <1> DEFINE red == ReducedLots(lots, tm, n)
             left == ConsumeLots(lots, tm, n)
             D == DOMAIN lots
  <1>1. lots \in Seq(AnyLot) BY LotsAreLots
  <1>2. /\ red \in Seq(AnyLot) /\ DOMAIN red = D
        /\ \A i \in D : red[i].qty = lots[i].qty - TakenFrom(lots, tm, n, i) /\ red[i].date = lots[i].date
    BY <1>1, ReducedFields
  <1>3. left = WithoutEmpty(red) BY DEF ConsumeLots
  <1>4. \A i \in D : TakenFrom(lots, tm, n, i) \in 0..lots[i].qty /\ lots[i].qty \in Nat /\ lots[i].date \in Int
    BY <1>1, TakenType, LotSums DEF AnyLot
  <1> HIDE DEF red, left
  <1>5. PICK k \in D : left[j] = red[k] /\ red[k].qty > 0
    BY <1>2, <1>3, KeptByDate DEF left
  <1>6. PICK m \in D : lots[m].date = d /\ TakenFrom(lots, tm, n, m) > 0
   <2> SUFFICES ASSUME \A m \in D : lots[m].date = d => ~(TakenFrom(lots, tm, n, m) > 0)
                PROVE  FALSE
     OBVIOUS
   <2> DEFINE f == OfDate(red, d)
              g == OfDate(lots, d)
   <2>1. ASSUME NEW i \in D
         PROVE  f[i] = g[i]
    <3>1. f[i] = (IF lots[i].date = d THEN red[i].qty ELSE 0) /\ g[i] = (IF lots[i].date = d THEN lots[i].qty ELSE 0)
      BY <1>2 DEF OfDate
    <3>2. lots[i].date = d => red[i].qty = lots[i].qty
     <4>1. ~(TakenFrom(lots, tm, n, i) > 0) => TakenFrom(lots, tm, n, i) = 0 BY <1>4
     <4> QED BY <1>2, <1>4, <4>1
    <3> QED BY <3>1, <3>2
   <2>2. IsFiniteSet(D) BY <1>1, LotSums
   <2>3. DateShares(red, d) = SumOn(f, D) /\ DateShares(lots, d) = SumOn(g, D) BY <1>2, DateSum
   <2>4. DateShares(left, d) = DateShares(red, d) BY <1>2, <1>3, KeptByDate
   <2>5. \A i \in D : g[i] \in Int BY <1>4 DEF OfDate
   <2> HIDE DEF f, g, D
   <2>6. SumOn(f, D) = SumOn(g, D) /\ SumOn(g, D) \in Int BY <2>1, <2>2, <2>5, SumSame, SumType
   <2> QED BY <2>3, <2>4, <2>6 DEF left
  <1>7. ~Before(lots, tm, k, m)
   <2>1. Before(lots, tm, k, m) => TakenFrom(lots, tm, n, k) = lots[k].qty
     BY <1>1, <1>6, EarlierGaveAll
   <2> QED BY <1>2, <1>4, <1>5, <2>1
  <1>8. left[j].date = lots[k].date BY <1>2, <1>5
  <1> QED BY <1>4, <1>6, <1>7, <1>8 DEF Before, left

----------------------------------------
(* The gate. *)

\* A reported loss has tripped the breaker.
GateInv == gaLoss \in BOOLEAN /\ gaTripped \in BOOLEAN /\ (gaLoss => gaTripped)

(* Nothing tripped at the start. *)
LEMMA GateStarts == GateInit => GateInv
  BY DEF GateInit, GateInv

(* After a loss the gate stays tripped, and approves nothing. *)
LEMMA GateSteps ==
    ASSUME GateInv, [GateNext]_gaVars
    PROVE  GateInv' /\ (gaLoss => gaApproved' = gaApproved)
  <1>1. CASE UNCHANGED gaVars \/ GateTick
   <2>1. gaLoss' = gaLoss /\ gaTripped' = gaTripped /\ gaApproved' = gaApproved
     BY <1>1 DEF gaVars, GateTick
   <2> QED BY <2>1 DEF GateInv
  <1>3. CASE ResetCircuitBreaker
   <2>1. gaLoss' = FALSE /\ gaTripped' = FALSE /\ gaApproved' = gaApproved
     BY <1>3 DEF ResetCircuitBreaker
   <2> QED BY <2>1 DEF GateInv
  <1>2. ASSUME NEW side \in {"buy", "sell"}, NEW n \in Notionals, NEW pnl \in Pnls, NEW held \in Exposures,
               Check(side, n, pnl, held)
        PROVE  GateInv' /\ (gaLoss => gaApproved' = gaApproved)
   <2> DEFINE ok == ~Breaches(side, n, pnl, held) /\ Len(InWindow) < MaxOrders
   <2>1. gaLoss => ~ok BY DEF GateInv, Breaches
   <2>2. /\ gaTripped' = (gaTripped \/ Lost(pnl)) /\ gaLoss' = (gaLoss \/ Lost(pnl))
         /\ gaApproved' = IF ok THEN Append(gaApproved, gaNow) ELSE gaApproved
     BY <1>2 DEF Check, TripsAfter
   <2> HIDE DEF ok
   <2>3. gaTripped' \in BOOLEAN /\ gaLoss' \in BOOLEAN /\ (gaLoss' => gaTripped')
     BY <2>2, Zenon DEF GateInv
   <2> QED BY <2>1, <2>2, <2>3 DEF GateInv
  <1> QED BY <1>1, <1>2, <1>3 DEF GateNext

----------------------------------------
(* Versions. *)

RowsOf(N) == [content : Contents \cup {"none"}, status : {"draft", "active", "retired"}, last : Nat, num : N]

VersionCallsOf(N) ==
    [pc : {"idle", "wait", "read", "demoted"},
     op : {"none", "deploy", "activate", "retire", "retireActive", "rollback"},
     arg : Contents \cup {"none"}, n : Nat, seen : Seq(RowsOf(N))]

VersionShape ==
    /\ \E N : veRows \in Seq(RowsOf(N)) /\ veCall \in [VersionCalls -> VersionCallsOf(N)]
    /\ veClock \in Nat

\* The call that holds the lock read the rows as they are; once it has demoted the
\* siblings, the version it promotes is as it read it, and was not retired before it
\* ever served.
HolderSees(c) ==
    /\ veCall[c].pc \in {"read", "demoted"} => veLock = c
    /\ veCall[c].pc \in {"wait", "read"} /\ veCall[c].op \in {"activate", "retire", "retireActive"}
          => veCall[c].n \in VersionIds
    /\ veCall[c].pc = "read" => veCall[c].seen = veRows
    /\ veCall[c].pc = "demoted" =>
          /\ veCall[c].n \in VersionIds /\ veCall[c].seen[veCall[c].n] = veRows[veCall[c].n]
          /\ veRows[veCall[c].n].status = "retired" => veRows[veCall[c].n].last > 0

VersionInv == VersionShape /\ \A c \in VersionCalls : HolderSees(c)

(* No call holds the lock at the start. *)
LEMMA VersionStarts == VersionInit => VersionInv
  <1> SUFFICES ASSUME VersionInit PROVE VersionInv
    OBVIOUS
  <1>1. NoVersionCall \in VersionCallsOf({}) /\ veRows \in Seq(RowsOf({}))
    BY DEF VersionInit, NoVersionCall, VersionCallsOf
  <1>2. VersionShape BY <1>1 DEF VersionInit, VersionShape
  <1> QED BY <1>2 DEF VersionInit, NoVersionCall, VersionInv, HolderSees

(* A rollback finds the latest of its candidates. *)
LEMMA LatestFound ==
    ASSUME NEW N, NEW seen \in Seq(RowsOf(N)), Candidates(seen) # {}
    PROVE  Latest(seen) \in Candidates(seen)
  <1> DEFINE A == Candidates(seen)
             v == [i \in A |-> seen[i].last]
             R == {p \in A \X A : v[p[1]] < v[p[2]]}
  <1>1. A \subseteq DOMAIN seen /\ DOMAIN seen = 1..Len(seen) BY DEF Candidates, Having
  <1>2. IsFiniteSet(A) BY <1>1, FS_Interval, FS_Subset
  <1>3. \A i \in A : v[i] \in Nat /\ v[i] = seen[i].last
   <2>1. \A i \in A : seen[i] \in RowsOf(N) BY <1>1
   <2> QED BY <2>1 DEF RowsOf
  <1>4. \A i, j \in A : <<i, j>> \in R <=> v[i] < v[j] OBVIOUS
  <1> HIDE DEF A, v, R
  <1>5. \A i \in A : <<i, i>> \notin R BY <1>3, <1>4
  <1>6. ASSUME NEW i \in A, NEW j \in A, NEW k \in A, <<i, j>> \in R, <<j, k>> \in R
        PROVE  <<i, k>> \in R
   <2>1. v[i] < v[j] /\ v[j] < v[k] /\ v[i] \in Nat /\ v[j] \in Nat /\ v[k] \in Nat
     BY <1>3, <1>4, <1>6
   <2> QED BY <1>4, <2>1
  <1>7. PICK m \in A : \A i \in A : <<m, i>> \notin R
    BY <1>2, <1>5, <1>6, LastElement DEF A
  <1>8. ASSUME NEW i \in A
        PROVE  seen[m].last >= seen[i].last
   <2>1. ~(v[m] < v[i]) /\ v[m] \in Nat /\ v[i] \in Nat BY <1>3, <1>4, <1>7
   <2> QED BY <1>3, <2>1
  <1> QED BY <1>8 DEF Latest, A

(* What a step of one call leaves of the others, when only the holder of the lock writes. *)
LEMMA OthersWait ==
    ASSUME VersionInv, NEW c \in VersionCalls,
           veCall' = [veCall EXCEPT ![c] = veCall'[c]],
           \A i \in VersionIds : i \in DOMAIN veRows',
           \/ veRows' = veRows /\ veLock' = veLock
           \/ veRows' = veRows /\ veLock = "free"
           \/ veLock = c
    PROVE  \A d \in VersionCalls : d # c => HolderSees(d)'
  <1> SUFFICES ASSUME NEW d \in VersionCalls, d # c
               PROVE  HolderSees(d)'
    OBVIOUS
  <1>1. veCall'[d] = veCall[d] BY DEF VersionInv, VersionShape
  <1>2. HolderSees(d) /\ d # "free" BY VersionAssumption DEF VersionInv
  <1>3. CASE veRows' = veRows /\ veLock' = veLock BY <1>1, <1>2, <1>3 DEF HolderSees, VersionIds
  <1>4. CASE (veRows' = veRows /\ veLock = "free") \/ veLock = c
   <2>1. veCall[d].pc \notin {"read", "demoted"} BY <1>2, <1>4 DEF HolderSees
   <2> QED BY <1>1, <1>2, <2>1 DEF HolderSees, VersionIds
  <1> QED BY <1>3, <1>4

(* A version is activated again only after it served. *)
LEMMA VersionSteps ==
    ASSUME VersionInv, [VersionNext]_veVars
    PROVE  /\ VersionInv'
           /\ \A i \in VersionIds : veRows[i].status = "retired" /\ veRows'[i].status = "active" => veRows[i].last > 0
  <1>0. PICK N : veRows \in Seq(RowsOf(N)) /\ veCall \in [VersionCalls -> VersionCallsOf(N)]
    BY DEF VersionInv, VersionShape
  <1>a. veClock \in Nat BY DEF VersionInv, VersionShape
  <1>b. VersionIds = 1..Len(veRows) /\ Len(veRows) \in Nat /\ \A i \in VersionIds : veRows[i] \in RowsOf(N)
    BY <1>0 DEF VersionIds
  <1>1. CASE UNCHANGED veVars
   <2>1. VersionShape' /\ \A c \in VersionCalls : HolderSees(c)'
     BY <1>1 DEF veVars, VersionInv, VersionShape, HolderSees, VersionIds
   <2> QED BY <1>1, <2>1 DEF veVars, VersionInv
  <1>2. ASSUME NEW c \in VersionCalls, VersionCall(c)
        PROVE  VersionInv' /\ veRows' = veRows
   <2>a. VersionIds \subseteq Nat BY <1>b
   <2>1. PICK k \in Contents \cup {"none"}, op \in {"deploy", "activate", "retire", "retireActive", "rollback"}, n \in Nat :
            /\ veCall' = [veCall EXCEPT ![c] = [pc |-> "wait", op |-> op, arg |-> k, n |-> n, seen |-> <<>>]]
            /\ op \in {"activate", "retire", "retireActive"} => n \in VersionIds
    <3>1. CASE \E k \in Contents : veCall' = [veCall EXCEPT ![c] =
                  [pc |-> "wait", op |-> "deploy", arg |-> k, n |-> 0, seen |-> <<>>]]
      BY <3>1
    <3>2. CASE \E i \in VersionIds, op \in {"activate", "retire", "retireActive"} : veCall' = [veCall EXCEPT ![c] =
                  [pc |-> "wait", op |-> op, arg |-> "none", n |-> i, seen |-> <<>>]]
      BY <2>a, <3>2
    <3>3. CASE veCall' = [veCall EXCEPT ![c] =
                  [pc |-> "wait", op |-> "rollback", arg |-> "none", n |-> 0, seen |-> <<>>]]
      BY <3>3
    <3> QED BY <1>2, <3>1, <3>2, <3>3 DEF VersionCall
   <2> DEFINE r == [pc |-> "wait", op |-> op, arg |-> k, n |-> n, seen |-> <<>>]
   <2>2. r \in VersionCallsOf(N) /\ r.pc = "wait" /\ r.op = op /\ r.n = n BY DEF VersionCallsOf
   <2> HIDE DEF r
   <2>3. veCall' \in [VersionCalls -> VersionCallsOf(N)] /\ veCall'[c] = r /\ veCall' = [veCall EXCEPT ![c] = veCall'[c]]
     BY <1>0, <2>1, <2>2 DEF r
   <2>4. veRows' = veRows /\ veLock' = veLock /\ veClock' = veClock /\ VersionIds' = VersionIds
     BY <1>2 DEF VersionCall, VersionIds
   <2>5. \A d \in VersionCalls : d # c => HolderSees(d)' BY <2>3, <2>4, OthersWait DEF VersionIds
   <2>6. HolderSees(c)' BY <2>1, <2>2, <2>3, <2>4 DEF HolderSees
   <2>7. VersionShape' BY <1>0, <1>a, <2>3, <2>4 DEF VersionShape
   <2> QED BY <2>4, <2>5, <2>6, <2>7 DEF VersionInv
  <1>3. ASSUME NEW c \in VersionCalls, VersionRead(c)
        PROVE  VersionInv' /\ veRows' = veRows
   <2> DEFINE r == [veCall[c] EXCEPT !.pc = "read", !.seen = veRows]
   <2>1. veCall' = [veCall EXCEPT ![c] = r] /\ veLock' = c /\ veLock = "free" /\ veRows' = veRows /\ veClock' = veClock
         /\ veCall[c].pc = "wait" /\ VersionIds' = VersionIds
     BY <1>3 DEF VersionRead, LockFree, AtVersion, VersionIds
   <2>2. r \in VersionCallsOf(N) /\ r.pc = "read" /\ r.op = veCall[c].op /\ r.n = veCall[c].n /\ r.seen = veRows
     BY <1>0 DEF VersionCallsOf
   <2> HIDE DEF r
   <2>3. veCall' \in [VersionCalls -> VersionCallsOf(N)] /\ veCall'[c] = r /\ veCall' = [veCall EXCEPT ![c] = veCall'[c]]
     BY <1>0, <2>1, <2>2
   <2>5. \A d \in VersionCalls : d # c => HolderSees(d)' BY <2>1, <2>3, OthersWait DEF VersionIds
   <2>6. HolderSees(c)' BY <2>1, <2>2, <2>3 DEF HolderSees, VersionInv
   <2>7. VersionShape' BY <1>0, <1>a, <2>1, <2>3 DEF VersionShape
   <2> QED BY <2>1, <2>5, <2>6, <2>7 DEF VersionInv
  <1>4. ASSUME NEW c \in VersionCalls, Deploy(c)
        PROVE  VersionInv' /\ \A i \in VersionIds : veRows'[i] = veRows[i]
   <2>1. veLock = c /\ veCall' = [veCall EXCEPT ![c] = NoVersionCall] /\ veLock' = "free" /\ veClock' = veClock
     BY <1>4 DEF Deploy, VersionEnds, AtVersion, VersionInv, HolderSees
   <2>2. \E M : /\ N \subseteq M /\ veRows' \in Seq(RowsOf(M))
                /\ \A i \in VersionIds : i \in DOMAIN veRows' /\ veRows'[i] = veRows[i]
    <3>1. CASE veRows' = veRows BY <1>0, <3>1 DEF VersionIds
    <3>2. CASE veRows' # veRows
     <4>1. PICK x : veRows' = Append(veRows, [content |-> veCall[c].arg, status |-> "draft", last |-> 0, num |-> x])
       BY <1>4, <3>2 DEF Deploy
     <4> DEFINE M == N \cup {x}
                r == [content |-> veCall[c].arg, status |-> "draft", last |-> 0, num |-> x]
     <4>2. veCall[c].arg \in Contents \cup {"none"} BY <1>0 DEF VersionCallsOf
     <4>3. r \in RowsOf(M) BY <4>2 DEF RowsOf
     <4>4. RowsOf(N) \subseteq RowsOf(M) BY DEF RowsOf
     <4>5. veRows \in Seq(RowsOf(M)) BY <1>0, <4>4, SeqMonotonic
     <4> HIDE DEF r
     <4>6. veRows' = Append(veRows, r) BY <4>1 DEF r
     <4>7. veRows' \in Seq(RowsOf(M)) /\ \A i \in VersionIds : i \in DOMAIN veRows' /\ veRows'[i] = veRows[i]
       BY <1>b, <4>3, <4>5, <4>6
     <4> QED BY <4>7
    <3> QED BY <3>1, <3>2
   <2>3. PICK M : /\ N \subseteq M /\ veRows' \in Seq(RowsOf(M))
                  /\ \A i \in VersionIds : i \in DOMAIN veRows' /\ veRows'[i] = veRows[i]
     BY <2>2
   <2>4. NoVersionCall \in VersionCallsOf(M) /\ NoVersionCall.pc = "idle"
     BY DEF NoVersionCall, VersionCallsOf
   <2>5. VersionCallsOf(N) \subseteq VersionCallsOf(M)
    <3>1. RowsOf(N) \subseteq RowsOf(M) BY <2>3 DEF RowsOf
    <3>2. Seq(RowsOf(N)) \subseteq Seq(RowsOf(M)) BY <3>1, SeqMonotonic
    <3> QED BY <3>2 DEF VersionCallsOf
   <2>6. veCall' \in [VersionCalls -> VersionCallsOf(M)] /\ veCall'[c] = NoVersionCall
         /\ veCall' = [veCall EXCEPT ![c] = veCall'[c]]
    <3>1. veCall \in [VersionCalls -> VersionCallsOf(M)] BY <1>0, <2>5
    <3> QED BY <2>1, <2>4, <3>1
   <2>7. \A d \in VersionCalls : d # c => HolderSees(d)' BY <2>1, <2>3, <2>6, OthersWait
   <2>8. HolderSees(c)' BY <2>4, <2>6 DEF HolderSees
   <2>9. VersionShape' BY <1>a, <2>1, <2>3, <2>6 DEF VersionShape
   <2> QED BY <2>3, <2>7, <2>8, <2>9 DEF VersionInv
  <1>5. ASSUME NEW c \in VersionCalls, DemoteSiblings(c)
        PROVE  /\ VersionInv'
               /\ \A i \in VersionIds : veRows[i].status = "retired" => veRows'[i].status = "retired"
   <2> DEFINE seen == veCall[c].seen
              n == IF veCall[c].op = "rollback" THEN Latest(seen) ELSE veCall[c].n
              r == [veCall[c] EXCEPT !.pc = "demoted", !.n = n]
   <2>1. /\ veCall[c].pc = "read" /\ veRows' = Demoted(c, n) /\ veCall' = [veCall EXCEPT ![c] = r]
         /\ veLock' = veLock /\ veClock' = veClock
         /\ \/ veCall[c].op = "activate" /\ seen[veCall[c].n].status # "retired"
            \/ veCall[c].op = "rollback" /\ Candidates(seen) # {}
     BY <1>5 DEF DemoteSiblings, AtVersion
   <2>2. veLock = c /\ seen = veRows BY <2>1 DEF VersionInv, HolderSees
   <2>3. n \in VersionIds /\ (veRows[n].status = "retired" => veRows[n].last > 0)
    <3>1. CASE veCall[c].op = "activate" BY <2>1, <2>2, <3>1 DEF VersionInv, HolderSees
    <3>2. CASE veCall[c].op = "rollback"
     <4>1. Latest(seen) \in Candidates(seen) BY <1>0, <2>1, <2>2, <3>2, LatestFound
     <4> QED BY <2>2, <3>2, <4>1 DEF Candidates, Having, VersionIds
    <3> QED BY <2>1, <3>1, <3>2
   <2> HIDE DEF n, seen
   <2>4. veRows' = [i \in VersionIds |-> IF i # n /\ i \in Having(veCall[c].seen, "active")
                                         THEN [veRows[i] EXCEPT !.status = "retired"] ELSE veRows[i]]
     BY <2>1 DEF Demoted
   <2>5. \A i \in VersionIds : /\ veRows'[i] \in RowsOf(N)
                               /\ veRows[i].status = "retired" => veRows'[i].status = "retired"
     BY <1>b, <2>4 DEF RowsOf
   <2>6. veRows' \in Seq(RowsOf(N)) /\ VersionIds' = VersionIds /\ veRows'[n] = veRows[n]
    <3>1. veRows' \in [1..Len(veRows) -> RowsOf(N)] BY <1>b, <2>4, <2>5
    <3>2. veRows' \in Seq(RowsOf(N)) BY <1>b, <3>1, IsASeq
    <3> QED BY <2>3, <2>4, <3>2 DEF VersionIds
   <2>7. r \in VersionCallsOf(N) /\ r.pc = "demoted" /\ r.n = n /\ r.seen = seen
    <3>1. n \in Nat BY <1>b, <2>3
    <3> QED BY <1>0, <3>1 DEF VersionCallsOf, seen
   <2> HIDE DEF r
   <2>8. veCall' \in [VersionCalls -> VersionCallsOf(N)] /\ veCall'[c] = r /\ veCall' = [veCall EXCEPT ![c] = veCall'[c]]
     BY <1>0, <2>1, <2>7
   <2>9. \A d \in VersionCalls : d # c => HolderSees(d)'
     BY <2>2, <2>6, <2>8, OthersWait DEF VersionIds
   <2>10. HolderSees(c)' BY <2>1, <2>2, <2>3, <2>6, <2>7, <2>8 DEF HolderSees
   <2>11. VersionShape' BY <1>a, <2>1, <2>6, <2>8 DEF VersionShape
   <2> QED BY <2>5, <2>9, <2>10, <2>11 DEF VersionInv
  <1>6. ASSUME NEW c \in VersionCalls, NEW row \in RowsOf(N), NEW n \in VersionIds, veLock = c,
               veRows' = [veRows EXCEPT ![n] = row], VersionEnds(c), veClock' \in Nat
        PROVE  VersionInv' /\ \A i \in VersionIds : i # n => veRows'[i] = veRows[i]
   <2>1. veRows' \in Seq(RowsOf(N)) /\ VersionIds' = VersionIds /\ \A i \in VersionIds : i # n => veRows'[i] = veRows[i]
     BY <1>0, <1>6 DEF VersionIds
   <2>2. NoVersionCall \in VersionCallsOf(N) /\ NoVersionCall.pc = "idle"
     BY DEF NoVersionCall, VersionCallsOf
   <2>3. veCall' \in [VersionCalls -> VersionCallsOf(N)] /\ veCall'[c] = NoVersionCall
         /\ veCall' = [veCall EXCEPT ![c] = veCall'[c]]
     BY <1>0, <1>6, <2>2 DEF VersionEnds
   <2>4. \A d \in VersionCalls : d # c => HolderSees(d)'
     BY <1>6, <2>1, <2>3, OthersWait DEF VersionIds
   <2>5. HolderSees(c)' BY <2>2, <2>3 DEF HolderSees
   <2>6. VersionShape' BY <1>6, <2>1, <2>3 DEF VersionShape
   <2> QED BY <2>1, <2>4, <2>5, <2>6 DEF VersionInv
  <1>7. ASSUME NEW c \in VersionCalls, Promote(c)
        PROVE  /\ VersionInv'
               /\ \A i \in VersionIds : veRows[i].status = "retired" /\ veRows'[i].status = "active" => veRows[i].last > 0
   <2> DEFINE n == veCall[c].n
              row == [veCall[c].seen[n] EXCEPT !.status = "active", !.last = veClock']
   <2>1. /\ veCall[c].pc = "demoted" /\ veClock' = veClock + 1 /\ veRows' = [veRows EXCEPT ![n] = row]
         /\ VersionEnds(c)
     BY <1>7 DEF Promote, AtVersion
   <2>2. /\ veLock = c /\ n \in VersionIds /\ veCall[c].seen[n] = veRows[n]
         /\ veRows[n].status = "retired" => veRows[n].last > 0
     BY <2>1 DEF VersionInv, HolderSees
   <2>3. veClock' \in Nat BY <1>a, <2>1
   <2>4. row \in RowsOf(N) BY <1>b, <2>2, <2>3, ZenonT(60) DEF RowsOf
   <2> HIDE DEF row, n
   <2>5. VersionInv' /\ \A i \in VersionIds : i # n => veRows'[i] = veRows[i]
     BY <1>6, <2>1, <2>2, <2>3, <2>4
   <2> QED BY <2>2, <2>5
  <1>8. ASSUME NEW c \in VersionCalls, Retire(c)
        PROVE  /\ VersionInv'
               /\ \A i \in VersionIds : veRows[i].status = "retired" => veRows'[i].status = "retired"
   <2> DEFINE n == veCall[c].n
              row == [veCall[c].seen[n] EXCEPT !.status = "retired"]
   <2>1. /\ veCall[c].pc = "read" /\ veCall[c].op \in {"retire", "retireActive"} /\ veClock' = veClock
         /\ veRows' = [veRows EXCEPT ![n] = row] /\ VersionEnds(c)
     BY <1>8 DEF Retire, AtVersion
   <2>2. veLock = c /\ n \in VersionIds /\ veCall[c].seen = veRows
     BY <2>1 DEF VersionInv, HolderSees
   <2>3. row \in RowsOf(N) /\ row.status = "retired" BY <1>b, <2>2 DEF RowsOf
   <2> HIDE DEF row, n
   <2>4. VersionInv' /\ \A i \in VersionIds : i # n => veRows'[i] = veRows[i]
     BY <1>6, <1>a, <2>1, <2>2, <2>3
   <2>5. veRows'[n] = row BY <1>0, <2>1, <2>2 DEF VersionIds
   <2> QED BY <2>3, <2>4, <2>5
  <1>9. ASSUME NEW c \in VersionCalls, VersionRaises(c)
        PROVE  VersionInv' /\ veRows' = veRows
   <2>1. veCall[c].pc = "read" /\ UNCHANGED <<veRows, veClock>> /\ veCall' = [veCall EXCEPT ![c] = NoVersionCall]
         /\ VersionIds' = VersionIds
     BY <1>9 DEF VersionRaises, AtVersion, VersionEnds, VersionIds
   <2>2. veLock = c BY <2>1 DEF VersionInv, HolderSees
   <2>3. NoVersionCall \in VersionCallsOf(N) /\ NoVersionCall.pc = "idle"
     BY DEF NoVersionCall, VersionCallsOf
   <2>4. veCall' \in [VersionCalls -> VersionCallsOf(N)] /\ veCall'[c] = NoVersionCall
         /\ veCall' = [veCall EXCEPT ![c] = veCall'[c]]
     BY <1>0, <2>1, <2>3
   <2>5. \A d \in VersionCalls : d # c => HolderSees(d)'
     BY <2>1, <2>2, <2>4, OthersWait DEF VersionIds
   <2>6. HolderSees(c)' BY <2>3, <2>4 DEF HolderSees
   <2>7. VersionShape' BY <1>0, <1>a, <2>1, <2>4 DEF VersionShape
   <2> QED BY <2>1, <2>5, <2>6, <2>7 DEF VersionInv
  <1> QED BY <1>1, <1>2, <1>3, <1>4, <1>5, <1>7, <1>8, <1>9 DEF VersionNext

(* Lots and positions agree after every step, whatever a trade costs. *)
LEMMA BookStaysSound ==
    ASSUME BookSound, PortfolioNext \/ UNCHANGED pfVars
    PROVE  BookSound'
  <1>1. /\ BookType(book) /\ LotsMatch(book) /\ day \in Nat /\ day \in Int /\ Cost \in Int
        /\ Prices \subseteq Nat /\ Prices \subseteq Int /\ Quantities \subseteq Shares
    BY PortfolioAssumption DEF BookSound, Shares
  <1>2. ASSUME NEW r \in Symbols, NEW n \in Quantities, NEW p \in Prices, Buy(r, n, p)
        PROVE  BookSound'
   <2> DEFINE c == OpenPosition(book, r, n, p, Cost, day)
              spent == n * p + Cost
              basis == AdjustedPrice(book, r, n, p, day)
   <2>1. AfterPurchase(book, c, r, n, spent, basis) BY <1>1, <1>2, OpenKeeps DEF Buy
   <2>2. book' = c /\ day' = day BY <1>2 DEF Buy
   <2> HIDE DEF c, spent, basis
   <2> QED BY <1>1, <2>1, <2>2 DEF AfterPurchase, BookSound
  <1>3. ASSUME NEW r \in Symbols, NEW n \in Quantities, NEW p \in Prices, Sell(r, n, p)
        PROVE  BookSound'
   <2> DEFINE c == ClosePosition(book, r, method, n, p, Cost, day)
              net == n * p - Cost
   <2>1. AfterSale(book, c, r, n, net) BY <1>1, <1>3, CloseKeeps DEF Sell
   <2>2. book' = c /\ day' = day BY <1>3 DEF Sell
   <2> HIDE DEF c, net
   <2> QED BY <1>1, <2>1, <2>2 DEF AfterSale, BookSound
  <1>4. ASSUME NEW p \in Prices, MarkPrices(p)
        PROVE  BookSound'
   <2>1. [q \in Symbols |-> p] \in [Symbols -> Int] BY <1>1
   <2>2. BookType(book') /\ LotsMatch(book') /\ day' = day
     BY <1>1, <1>4, <2>1, MarkKeeps DEF MarkPrices, AfterMarking
   <2> QED BY <1>1, <2>2 DEF BookSound
  <1>5. CASE NextDay \/ (\E m \in TaxMethod : SetTaxMethod(m)) \/ UNCHANGED pfVars
   <2>1. book' = book /\ day' \in Nat BY <1>1, <1>5 DEF NextDay, SetTaxMethod, pfVars
   <2> QED BY <1>1, <2>1 DEF BookSound
  <1> QED BY <1>2, <1>3, <1>4, <1>5 DEF PortfolioNext

(* Shares leave a position only by a sale of its symbol. *)
LEMMA OnlySalesReduce ==
    ASSUME BookSound, PortfolioNext \/ UNCHANGED pfVars, NEW s \in Symbols,
           book'.pos[s].qty < book.pos[s].qty
    PROVE  \E n \in Quantities : book'.lots[s] = ConsumeLots(book.lots[s], method, n)
  <1>1. /\ BookType(book) /\ LotsMatch(book) /\ day \in Nat /\ Cost \in Nat
        /\ Prices \subseteq Nat /\ Quantities \subseteq Shares
        /\ book.pos[s].qty \in Nat
    BY PortfolioAssumption, BookFields DEF BookSound, Shares
  <1>2. ASSUME NEW r \in Symbols, NEW n \in Quantities, NEW p \in Prices, Buy(r, n, p)
        PROVE  FALSE
   <2> DEFINE c == OpenPosition(book, r, n, p, Cost, day)
              spent == n * p + Cost
              basis == AdjustedPrice(book, r, n, p, day)
   <2>1. book' = c /\ p \in Nat /\ p \in Int /\ Cost \in Int /\ day \in Int /\ n \in Shares /\ n \in Nat
     BY <1>1, <1>2 DEF Buy, Shares
   <2>2. AfterPurchase(book, c, r, n, spent, basis) BY <1>1, <1>2, <2>1, OpenKeeps DEF Buy
   <2> HIDE DEF c, spent, basis
   <2>3. book'.pos[r].qty = book.pos[r].qty + n /\ \A q \in Symbols \ {r} : book'.pos[q] = book.pos[q]
     BY <2>1, <2>2 DEF AfterPurchase
   <2> QED BY <1>1, <2>1, <2>3
  <1>3. ASSUME NEW r \in Symbols, NEW n \in Quantities, NEW p \in Prices, Sell(r, n, p)
        PROVE  book'.lots[s] = ConsumeLots(book.lots[s], method, n)
   <2> DEFINE c == ClosePosition(book, r, method, n, p, Cost, day)
              net == n * p - Cost
   <2>1. book' = c /\ p \in Int /\ Cost \in Int /\ day \in Int /\ n \in Shares /\ CanClose(book, r, n)
     BY <1>1, <1>3 DEF Sell
   <2>2. AfterSale(book, c, r, n, net) BY <1>1, <2>1, CloseKeeps
   <2>3. c.lots = [book.lots EXCEPT ![r] = ConsumeLots(book.lots[r], method, n)]
     BY DEF ClosePosition
   <2>4. book.lots \in [Symbols -> Seq(Lot)] BY <1>1 DEF BookType
   <2> HIDE DEF c, net
   <2>5. s = r BY <1>1, <2>1, <2>2 DEF AfterSale
   <2> QED BY <2>1, <2>3, <2>4, <2>5
  <1>4. ASSUME NEW p \in Prices, MarkPrices(p)
        PROVE  FALSE
   <2>1. [q \in Symbols |-> p] \in [Symbols -> Int] BY <1>1
   <2>2. book'.pos[s].qty = book.pos[s].qty
     BY <1>1, <1>4, <2>1, MarkKeeps DEF MarkPrices, AfterMarking
   <2> QED BY <1>1, <2>2
  <1>5. CASE NextDay \/ (\E m \in TaxMethod : SetTaxMethod(m)) \/ UNCHANGED pfVars
   <2>1. book' = book BY <1>5 DEF NextDay, SetTaxMethod, pfVars
   <2> QED BY <1>1, <2>1
  <1> QED BY <1>2, <1>3, <1>4, <1>5 DEF PortfolioNext

(* A sale takes the lots its method names: the step of SalesFollowMethod. *)
LEMMA SaleTakesFirst ==
    ASSUME BookSound, PortfolioNext \/ UNCHANGED pfVars, NEW s \in Symbols,
           book'.pos[s].qty < book.pos[s].qty,
           NEW d, NEW j \in DOMAIN book'.lots[s],
           DateShares(book'.lots[s], d) < DateShares(book.lots[s], d)
    PROVE  /\ method = "FIFO" => book'.lots[s][j].date >= d
           /\ method = "LIFO" => book'.lots[s][j].date <= d
  <1>1. PICK n \in Quantities : book'.lots[s] = ConsumeLots(book.lots[s], method, n)
    BY OnlySalesReduce
  <1>2. book.lots[s] \in Seq(Lot) /\ n \in Nat BY PortfolioAssumption, BookFields DEF BookSound
  <1> DEFINE left == ConsumeLots(book.lots[s], method, n)
  <1>3. j \in DOMAIN left /\ DateShares(left, d) < DateShares(book.lots[s], d) BY <1>1
  <1> QED BY <1>1, <1>2, <1>3, SaleFollows

\* The step of SalesFollowMethod.
SalesStep ==
    \A s \in Symbols :
       book'.pos[s].qty < book.pos[s].qty =>
         \A i \in DOMAIN book.lots[s], j \in DOMAIN book'.lots[s] :
            LET old == book.lots[s][i]
                l   == book'.lots[s][j]
                before == DateShares(book.lots[s], old.date)
                after  == DateShares(book'.lots[s], old.date)
            IN  after < before =>
                  /\ method = "FIFO" => l.date >= old.date
                  /\ method = "LIFO" => l.date <= old.date

----------------------------------------
(* The HTTP clients. *)

BrokerCallType ==
    [op : {"none", "connect", "resolve", "submit", "cancel", "query"}, try : Nat, handle : Nat,
     keyed : BOOLEAN, target : BrokerCalls \cup {"none"}, res : Results]

BrokerShape ==
    /\ bhCall \in [BrokerCalls -> BrokerCallType]
    /\ bhOrders \in [BrokerCalls -> [placed : Nat, open : BOOLEAN]]
    /\ bhHandle \in Nat /\ bhBuilt \in Nat
    /\ bhLost \in SUBSET BrokerCalls

\* An order comes from a submission, once if the broker can tell its repetitions.
OrdersSubmitted ==
    \A c \in BrokerCalls :
        /\ bhOrders[c].placed > 0 => bhCall[c].op = "submit"
        /\ bhCall[c].op = "none" => bhOrders[c].placed = 0
        /\ bhCall[c].op = "resolve" => bhOrders[c].placed = 0
        /\ bhCall[c].keyed => bhOrders[c].placed <= 1

\* A cancel is of an order whose submission was answered.
CancelsAnswered ==
    \A c \in BrokerCalls : bhCall[c].op = "cancel" =>
        /\ bhCall[c].target \in BrokerCalls
        /\ bhCall[bhCall[c].target].op = "submit" /\ bhCall[bhCall[c].target].res = "ok"

\* What returned did it, and what gave up after a transport error is over.
ReturnsHold ==
    /\ \A c \in BrokerCalls : bhCall[c].op = "none" => bhCall[c].res = "none"
    /\ ReturnedMeansDone
    /\ \A c \in bhLost : bhCall[c].op = "submit" /\ ~Busy(c)

BrokerInv == BrokerShape /\ OrdersSubmitted /\ CancelsAnswered /\ ReturnsHold

(* No call is under way at the start. *)
LEMMA BrokerStarts == BrokerInit => BrokerInv
  BY SMT DEF BrokerInit, BrokerInv, BrokerShape, BrokerCallType, Results, NoCall, OrdersSubmitted, CancelsAnswered,
     ReturnsHold, ReturnedMeansDone, Busy

(* A call that begins has done nothing yet. *)
LEMMA BeginKeeps ==
    ASSUME BrokerInv, NEW c \in BrokerCalls, NEW op \in {"connect", "resolve", "submit", "cancel", "query"},
           NEW keyed \in BOOLEAN, NEW t \in BrokerCalls \cup {"none"}, BeginCall(c, op, keyed, t),
           op = "cancel" => t \in BrokerCalls /\ bhCall[t].op = "submit" /\ bhCall[t].res = "ok"
    PROVE  BrokerInv'
  <1> DEFINE call == [op |-> op, try |-> 0, handle |-> Resolved, keyed |-> keyed, target |-> t, res |-> "busy"]
  <1>1. /\ bhCall[c].op = "none" /\ bhCall' = [bhCall EXCEPT ![c] = call]
        /\ bhOrders' = bhOrders /\ bhLost' = bhLost
    BY DEF BeginCall
  <1>2. Resolved \in Nat /\ bhHandle' \in Nat /\ bhBuilt' \in Nat
    BY DEF BeginCall, ResolveClient, Resolved, BrokerInv, BrokerShape
  <1>3. call \in BrokerCallType BY <1>2 DEF BrokerCallType, Results
  <1>4. /\ call.op = op /\ call.keyed = keyed /\ call.target = t /\ call.res = "busy"
    OBVIOUS
  <1>5. BrokerShape' BY <1>1, <1>2, <1>3 DEF BrokerInv, BrokerShape
  <1> HIDE DEF call
  <1>6. bhCall'[c] = call /\ \A d \in BrokerCalls : d # c => bhCall'[d] = bhCall[d]
    BY <1>1 DEF BrokerInv, BrokerShape
  <1>7. bhOrders[c].placed = 0 /\ c \notin bhLost /\ bhCall[c].res = "none"
    BY <1>1 DEF BrokerInv, OrdersSubmitted, ReturnsHold
  <1>8. OrdersSubmitted' BY <1>1, <1>4, <1>6, <1>7 DEF BrokerInv, OrdersSubmitted
  <1>9. CancelsAnswered' BY <1>1, <1>4, <1>6, <1>7 DEF BrokerInv, CancelsAnswered
  <1>10. ReturnsHold'
    BY <1>1, <1>4, <1>6, <1>7 DEF BrokerInv, ReturnsHold, ReturnedMeansDone, Busy, CancelsAnswered
  <1> QED BY <1>5, <1>8, <1>9, <1>10 DEF BrokerInv

\* What the broker has done when it acted on an attempt of c.
ActedOn(c, acts) ==
    /\ \A d \in BrokerCalls : d # c /\ ~(bhCall[c].op = "cancel" /\ d = bhCall[c].target) => bhOrders'[d] = bhOrders[d]
    /\ bhCall[c].op # "submit" => bhOrders'[c] = bhOrders[c]
    /\ bhCall[c].op = "submit" =>
           /\ acts => bhOrders'[c].placed > 0
           /\ bhCall[c].keyed => bhOrders'[c].placed <= 1
    /\ bhCall[c].op = "cancel" =>
           /\ bhOrders'[bhCall[c].target].placed = bhOrders[bhCall[c].target].placed
           /\ bhOrders[bhCall[c].target].open = FALSE => bhOrders'[bhCall[c].target].open = FALSE
           /\ acts => bhOrders'[bhCall[c].target].open = FALSE

(* A submission the broker knows by its client order id is not placed again. *)
LEMMA BrokerActs ==
    ASSUME BrokerInv, NEW c \in BrokerCalls, NEW acts \in BOOLEAN, Busy(c), acts => CanAct(c),
           bhOrders' = IF acts THEN Acted(c) ELSE bhOrders
    PROVE  bhOrders' \in [BrokerCalls -> [placed : Nat, open : BOOLEAN]] /\ ActedOn(c, acts)
  <1> DEFINE t == bhCall[c].target
  <1>1. bhOrders \in [BrokerCalls -> [placed : Nat, open : BOOLEAN]] /\ (bhCall[c].keyed => bhOrders[c].placed <= 1)
    BY DEF BrokerInv, BrokerShape, OrdersSubmitted
  <1>2. CASE ~acts BY <1>1, <1>2, SMT DEF ActedOn, BrokerInv, BrokerShape, CancelsAnswered
  <1>3. CASE acts /\ bhCall[c].op = "submit"
   <2> DEFINE o == [placed |-> IF bhOrders[c].placed = 0 THEN 1 ELSE 2, open |-> TRUE]
   <2>1. bhOrders' = [bhOrders EXCEPT ![c] = o] /\ ~Seen(c) BY <1>3 DEF Acted, CanAct
   <2>2. /\ o \in [placed : Nat, open : BOOLEAN] /\ o.placed > 0
         /\ bhOrders[c].placed = 0 => o.placed = 1
     BY <1>1
   <2>3. bhCall[c].keyed => bhOrders[c].placed = 0 BY <1>1, <2>1 DEF Seen
   <2> HIDE DEF o
   <2>4. bhOrders'[c] = o /\ bhOrders' \in [BrokerCalls -> [placed : Nat, open : BOOLEAN]]
     BY <1>1, <2>1, <2>2
   <2>5. \A d \in BrokerCalls : d # c => bhOrders'[d] = bhOrders[d] BY <1>1, <2>1
   <2>6. o.placed \in Nat BY <2>2
   <2> QED BY <1>3, <2>2, <2>3, <2>4, <2>5, <2>6 DEF ActedOn
  <1>4. CASE acts /\ bhCall[c].op = "cancel"
   <2> DEFINE o == [placed |-> bhOrders[t].placed, open |-> FALSE]
   <2>1. bhOrders' = [bhOrders EXCEPT ![t] = o] /\ t \in BrokerCalls /\ t # c
     BY <1>4 DEF Acted, CanAct, BrokerInv, CancelsAnswered
   <2>2. o \in [placed : Nat, open : BOOLEAN] BY <1>1, <2>1
   <2>3. bhOrders' \in [BrokerCalls -> [placed : Nat, open : BOOLEAN]] BY <1>1, <2>1, <2>2
   <2>4. \A d \in BrokerCalls : d # t => bhOrders'[d] = bhOrders[d] BY <1>1, <2>1
   <2>5. bhOrders'[t].placed = bhOrders[t].placed /\ bhOrders'[t].open = FALSE BY <1>1, <2>1
   <2> QED BY <1>4, <2>1, <2>3, <2>4, <2>5 DEF ActedOn
  <1>5. CASE acts /\ bhCall[c].op \notin {"submit", "cancel"} BY <1>1, <1>5 DEF Acted, ActedOn
  <1> QED BY <1>2, <1>3, <1>4, <1>5

\* What becomes of the call after an attempt that was answered with a.
Continues(c, a) ==
    /\ \A d \in BrokerCalls : d # c => bhCall'[d] = bhCall[d]
    /\ bhCall'[c].keyed = bhCall[c].keyed /\ bhCall'[c].target = bhCall[c].target
    /\ bhCall'[c].op = bhCall[c].op \/ (bhCall[c].op = "resolve" /\ bhCall'[c].op = "submit" /\ bhCall'[c].res = "busy")
    /\ bhCall'[c].res = "ok" => a = "ok"
    /\ bhCall[c].op = "submit" /\ a = "lost" /\ ~bhKind.repeatsLost => bhCall'[c].res # "busy"

(* A call goes on only while its answer allows it. *)
LEMMA CallContinues ==
    ASSUME BrokerInv, NEW c \in BrokerCalls, NEW a \in Answers, NEW authenticated \in BOOLEAN, Busy(c),
           Continue(c, a, authenticated)
    PROVE  /\ bhCall' \in [BrokerCalls -> BrokerCallType] /\ bhHandle' \in Nat /\ bhBuilt' \in Nat
           /\ Continues(c, a)
  <1>1. bhCall \in [BrokerCalls -> BrokerCallType] /\ bhHandle \in Nat /\ bhBuilt \in Nat /\ bhCall[c].res = "busy"
    BY DEF BrokerInv, BrokerShape, Busy
  <1>2. /\ bhCall[c] \in BrokerCallType /\ bhCall[c].try \in Nat
    BY <1>1 DEF BrokerCallType
  <1>3. CASE RetriesAgain(c, a)
   <2> DEFINE r == [bhCall[c] EXCEPT !.try = bhCall[c].try + 1]
   <2>1. bhCall' = [bhCall EXCEPT ![c] = r] /\ UNCHANGED <<bhHandle, bhBuilt>>
     BY <1>1, <1>3 DEF Continue
   <2>2. r \in BrokerCallType /\ r.op = bhCall[c].op /\ r.keyed = bhCall[c].keyed /\ r.target = bhCall[c].target /\ r.res = "busy"
     BY <1>1, <1>2 DEF BrokerCallType
   <2>3. a \in {"lost", "transient"} /\ ~(a = "lost" /\ bhCall[c].op = "submit" /\ ~bhKind.repeatsLost)
     BY <1>3 DEF RetriesAgain, StopsAfterLost
   <2> HIDE DEF r
   <2>4. bhCall'[c] = r /\ bhCall' \in [BrokerCalls -> BrokerCallType] /\ \A d \in BrokerCalls : d # c => bhCall'[d] = bhCall[d]
     BY <1>1, <2>1, <2>2
   <2> QED BY <1>1, <2>1, <2>2, <2>3, <2>4 DEF Continues
  <1>4. CASE ~RetriesAgain(c, a) /\ bhCall[c].op = "resolve" /\ a = "ok"
   <2> DEFINE r == [bhCall[c] EXCEPT !.op = "submit", !.try = 0, !.handle = Resolved]
   <2>0. Resolved \in Nat BY <1>1 DEF Resolved
   <2>1. bhCall' = [bhCall EXCEPT ![c] = r] /\ bhHandle' = Resolved /\ bhBuilt' \in Nat
     BY <1>1, <1>4 DEF Continue, ResolveClient
   <2>2. r \in BrokerCallType /\ r.op = "submit" /\ r.keyed = bhCall[c].keyed /\ r.target = bhCall[c].target /\ r.res = "busy"
     BY <1>1, <1>2, <2>0 DEF BrokerCallType
   <2> HIDE DEF r
   <2>4. bhCall'[c] = r /\ bhCall' \in [BrokerCalls -> BrokerCallType] /\ \A d \in BrokerCalls : d # c => bhCall'[d] = bhCall[d]
     BY <1>1, <2>1, <2>2
   <2> QED BY <1>1, <1>4, <2>0, <2>1, <2>2, <2>4 DEF Continues
  <1>5. CASE ~RetriesAgain(c, a) /\ ~(bhCall[c].op = "resolve" /\ a = "ok")
   <2> DEFINE v == IF authenticated THEN Verdict(c, a) ELSE "auth"
              r == [bhCall[c] EXCEPT !.res = v]
   <2>1. bhCall' = [bhCall EXCEPT ![c] = r] /\ UNCHANGED <<bhHandle, bhBuilt>>
     BY <1>1, <1>5 DEF Continue
   <2>2. v \in Results /\ (v = "ok" => a = "ok") /\ v # "busy" BY DEF Verdict, Results, Answers
   <2> HIDE DEF v
   <2>3. r \in BrokerCallType /\ r.op = bhCall[c].op /\ r.keyed = bhCall[c].keyed /\ r.target = bhCall[c].target /\ r.res = v
     BY <1>1, <1>2, <2>2 DEF BrokerCallType
   <2> HIDE DEF r
   <2>4. bhCall'[c] = r /\ bhCall' \in [BrokerCalls -> BrokerCallType] /\ \A d \in BrokerCalls : d # c => bhCall'[d] = bhCall[d]
     BY <1>1, <2>1, <2>3
   <2> QED BY <1>1, <2>1, <2>2, <2>3, <2>4 DEF Continues
  <1> QED BY <1>3, <1>4, <1>5

(* An attempt, whatever the broker does with it and whatever comes back. *)
LEMMA AttemptKeeps ==
    ASSUME BrokerInv, NEW c \in BrokerCalls, Attempt(c)
    PROVE  BrokerInv'
  <1>1. PICK a \in Answers, acts \in BOOLEAN, authenticated \in BOOLEAN :
            /\ acts => CanAct(c)
            /\ a = "ok" => acts
            /\ bhOrders' = IF acts THEN Acted(c) ELSE bhOrders
            /\ bhLost' = IF bhCall[c].op = "submit" /\ a = "lost" /\ ~bhKind.repeatsLost THEN bhLost \cup {c} ELSE bhLost
            /\ Continue(c, a, authenticated)
    BY Zenon DEF Attempt
  <1>2. Busy(c) /\ bhCall[c].res = "busy" BY DEF Attempt, Busy
  <1>3. bhOrders' \in [BrokerCalls -> [placed : Nat, open : BOOLEAN]] /\ ActedOn(c, acts)
    BY <1>1, <1>2, BrokerActs
  <1>4. /\ bhCall' \in [BrokerCalls -> BrokerCallType] /\ bhHandle' \in Nat /\ bhBuilt' \in Nat
        /\ Continues(c, a)
    BY <1>1, <1>2, CallContinues
  <1>5. BrokerShape' BY <1>1, <1>3, <1>4 DEF BrokerInv, BrokerShape
  <1>6. \A d \in BrokerCalls : d # c => bhOrders'[d].placed = bhOrders[d].placed
    BY <1>2, <1>3 DEF ActedOn, BrokerInv, CancelsAnswered
  <1>7. bhOrders[c] \in [placed : Nat, open : BOOLEAN] /\ bhCall[c].op # "none"
    BY <1>2 DEF BrokerInv, BrokerShape, ReturnsHold
  <1>8. OrdersSubmitted'
   <2> SUFFICES ASSUME NEW d \in BrokerCalls
                PROVE  /\ bhOrders'[d].placed > 0 => bhCall'[d].op = "submit"
                       /\ bhCall'[d].op = "none" => bhOrders'[d].placed = 0
                       /\ bhCall'[d].op = "resolve" => bhOrders'[d].placed = 0
                       /\ bhCall'[d].keyed => bhOrders'[d].placed <= 1
     BY DEF OrdersSubmitted
   <2>1. CASE d # c BY <1>4, <1>6, <2>1 DEF Continues, BrokerInv, OrdersSubmitted
   <2>2. CASE d = c /\ bhCall[c].op = "submit" BY <1>3, <1>4, <2>2 DEF Continues, ActedOn
   <2>3. CASE d = c /\ bhCall[c].op # "submit"
    <3>1. bhOrders'[c] = bhOrders[c] /\ bhOrders[c].placed = 0
      BY <1>3, <1>7, <2>3 DEF ActedOn, BrokerInv, OrdersSubmitted
    <3> QED BY <1>4, <1>7, <2>3, <3>1 DEF Continues
   <2> QED BY <2>1, <2>2, <2>3
  <1>9. CancelsAnswered' BY <1>2, <1>4 DEF Continues, BrokerInv, CancelsAnswered
  <1>10. ReturnsHold'
   <2>1. \A d \in BrokerCalls : bhCall'[d].op = "none" => bhCall'[d].res = "none"
     BY <1>4, <1>7 DEF Continues, BrokerInv, ReturnsHold
   <2>2. \A d \in bhLost' : bhCall'[d].op = "submit" /\ bhCall'[d].res # "busy"
     BY <1>1, <1>2, <1>4 DEF Continues, BrokerInv, ReturnsHold, Busy, BrokerShape
   <2>3. ASSUME NEW d \in BrokerCalls, bhCall'[d].res = "ok", bhCall'[d].op = "submit"
         PROVE  bhOrders'[d].placed > 0
    <3>1. CASE d # c
      BY <1>4, <1>6, <2>3, <3>1 DEF Continues, BrokerInv, ReturnsHold, ReturnedMeansDone
    <3>2. CASE d = c BY <1>1, <1>3, <1>4, <2>3, <3>2 DEF Continues, ActedOn
    <3> QED BY <3>1, <3>2
   <2>4. ASSUME NEW d \in BrokerCalls, bhCall'[d].res = "ok", bhCall'[d].op = "cancel"
         PROVE  bhOrders'[bhCall'[d].target].open = FALSE
    <3>0. /\ bhCall'[d].target = bhCall[d].target /\ bhCall[d].op = "cancel"
          /\ bhCall[d].target \in BrokerCalls /\ bhCall[d].target # c
      BY <1>2, <1>4, <2>4 DEF Continues, BrokerInv, CancelsAnswered
    <3>1. CASE d # c
     <4>1. bhOrders[bhCall[d].target].open = FALSE
       BY <1>4, <2>4, <3>0, <3>1 DEF Continues, BrokerInv, ReturnsHold, ReturnedMeansDone, BrokerShape
     <4> QED BY <1>3, <3>0, <4>1 DEF ActedOn
    <3>2. CASE d = c BY <1>1, <1>3, <1>4, <2>4, <3>0, <3>2 DEF Continues, ActedOn
    <3> QED BY <3>1, <3>2
   <2> QED BY <2>1, <2>2, <2>3, <2>4 DEF ReturnsHold, ReturnedMeansDone, Busy
  <1> QED BY <1>5, <1>8, <1>9, <1>10 DEF BrokerInv

(* A call that is refused or raises has done nothing more. *)
LEMMA StopKeeps ==
    ASSUME BrokerInv, NEW c \in BrokerCalls, ExecuteRefused(c) \/ AttemptClosed(c)
    PROVE  BrokerInv'
  <1>1. CASE ExecuteRefused(c)
   <2> DEFINE r == [NoCall EXCEPT !.op = "submit", !.res = "refused"]
   <2>1. bhCall' = [bhCall EXCEPT ![c] = r] /\ bhCall[c].op = "none" /\ UNCHANGED <<bhHandle, bhBuilt, bhOrders, bhLost>>
     BY <1>1 DEF ExecuteRefused
   <2>2. r \in BrokerCallType /\ r.op = "submit" /\ r.res = "refused" /\ r.keyed = FALSE
     BY DEF NoCall, BrokerCallType, Results
   <2> HIDE DEF r
   <2>3. bhCall'[c] = r /\ bhCall' \in [BrokerCalls -> BrokerCallType] /\ \A d \in BrokerCalls : d # c => bhCall'[d] = bhCall[d]
     BY <2>1, <2>2 DEF BrokerInv, BrokerShape
   <2>4. bhCall[c].res = "none" /\ bhOrders[c].placed = 0
     BY <2>1 DEF BrokerInv, OrdersSubmitted, ReturnsHold
   <2> QED
     BY <2>1, <2>2, <2>3, <2>4 DEF BrokerInv, BrokerShape, OrdersSubmitted, CancelsAnswered, ReturnsHold, ReturnedMeansDone, Busy
  <1>2. CASE AttemptClosed(c)
   <2> DEFINE r == [bhCall[c] EXCEPT !.res = "raised"]
   <2>1. bhCall' = [bhCall EXCEPT ![c] = r] /\ bhCall[c].res = "busy" /\ UNCHANGED <<bhHandle, bhBuilt, bhOrders, bhLost>>
     BY <1>2 DEF AttemptClosed, Busy, BrokerInv, BrokerShape
   <2>2. /\ r \in BrokerCallType /\ r.op = bhCall[c].op /\ r.res = "raised" /\ r.keyed = bhCall[c].keyed
         /\ r.target = bhCall[c].target /\ r.op # "none"
     BY <2>1 DEF BrokerCallType, Results, BrokerInv, BrokerShape, ReturnsHold
   <2> HIDE DEF r
   <2>3. bhCall'[c] = r /\ bhCall' \in [BrokerCalls -> BrokerCallType] /\ \A d \in BrokerCalls : d # c => bhCall'[d] = bhCall[d]
     BY <2>1, <2>2 DEF BrokerInv, BrokerShape
   <2> QED
     BY <2>1, <2>2, <2>3 DEF BrokerInv, BrokerShape, OrdersSubmitted, CancelsAnswered, ReturnsHold, ReturnedMeansDone, Busy
  <1> QED BY <1>1, <1>2

(* Every step of the broker clients. *)
LEMMA BrokerSteps ==
    ASSUME BrokerInv, [BrokerNext]_bhVars
    PROVE  BrokerInv'
  <1>1. CASE UNCHANGED bhVars \/ Disconnect
    BY <1>1 DEF bhVars, Disconnect, BrokerInv, BrokerShape, OrdersSubmitted, CancelsAnswered, ReturnsHold, ReturnedMeansDone, Busy
  <1>2. ASSUME NEW c \in BrokerCalls, Connect(c) \/ SubmitOrder(c) \/ CancelOrder(c) \/ Query(c)
        PROVE  BrokerInv'
   <2>1. CASE Connect(c) BY <2>1, BeginKeeps DEF Connect
   <2>2. CASE Query(c) BY <2>2, BeginKeeps DEF Query
   <2>3. CASE SubmitOrder(c)
    <3>1. PICK keyed \in BOOLEAN : BeginCall(c, IF bhKind.resolves THEN "resolve" ELSE "submit", keyed, "none")
      BY <2>3 DEF SubmitOrder
    <3>2. CASE bhKind.resolves BY <3>1, <3>2, BeginKeeps
    <3>3. CASE ~bhKind.resolves BY <3>1, <3>3, BeginKeeps
    <3> QED BY <3>2, <3>3
   <2>4. CASE CancelOrder(c)
    <3>1. PICK t \in BrokerCalls : bhCall[t].op = "submit" /\ bhCall[t].res = "ok" /\ BeginCall(c, "cancel", FALSE, t)
      BY <2>4 DEF CancelOrder
    <3> QED BY <3>1, BeginKeeps
   <2> QED BY <1>2, <2>1, <2>2, <2>3, <2>4
  <1> QED BY <1>1, <1>2, AttemptKeeps, StopKeeps DEF BrokerNext

(* What the invariant says of orders and returns. *)
LEMMA BrokerShows == BrokerInv => OneOrderPerSubmit /\ ReturnedMeansDone /\ LostIsOver
  BY DEF BrokerInv, OrdersSubmitted, ReturnsHold, OneOrderPerSubmit, LostIsOver

----------------------------------------
(* The paper broker. *)

PaperEvent == [kind : {"ack", "fill", "cancel"}, id : Nat]

PaperShape ==
    /\ pbQueue \in Seq(PaperEvent) /\ pbTaken \in Seq(PaperEvent)
    /\ pbCount \in Nat
    /\ pbPending \in SUBSET (1..pbCount) /\ pbDropped \in SUBSET (1..pbCount)

\* Events are of orders that were given an id.
EventsOfOrders == \A i \in DOMAIN PaperEvents : PaperEvents[i].id \in 1..pbCount

\* A resting order was acknowledged and nothing else was told of it.
RestingIsAcked ==
    \A id \in pbPending :
        /\ \E i \in DOMAIN PaperEvents : PaperEvents[i].id = id
        /\ \A i \in DOMAIN PaperEvents : PaperEvents[i].id = id => PaperEvents[i].kind = "ack"

PaperInv == PaperShape /\ EventsOfOrders /\ RestingIsAcked /\ OneOutcomePerOrder

(* No order was submitted at the start. *)
LEMMA PaperStarts == PaperInit => PaperInv
  <1> SUFFICES ASSUME PaperInit PROVE PaperInv
    OBVIOUS
  <1>1. PaperEvents = <<>> /\ DOMAIN PaperEvents = {} BY DEF PaperInit, PaperEvents
  <1>2. PaperShape BY DEF PaperInit, PaperShape
  <1>3. EventsOfOrders /\ OneOutcomePerOrder BY <1>1 DEF EventsOfOrders, OneOutcomePerOrder
  <1>4. RestingIsAcked BY DEF PaperInit, RestingIsAcked
  <1> QED BY <1>2, <1>3, <1>4 DEF PaperInv

(* Where an event put at the end of the queue lands. *)
LEMMA EventAppended ==
    ASSUME PaperShape, NEW e \in PaperEvent, pbQueue' = Append(pbQueue, e), pbTaken' = pbTaken
    PROVE  /\ pbQueue' \in Seq(PaperEvent)
           /\ Len(PaperEvents) \in Nat /\ DOMAIN PaperEvents = 1..Len(PaperEvents)
           /\ DOMAIN PaperEvents' = 1..(Len(PaperEvents) + 1)
           /\ \A i \in 1..Len(PaperEvents) : PaperEvents'[i] = PaperEvents[i]
           /\ PaperEvents'[Len(PaperEvents) + 1] = e
  <1>1. pbQueue \in Seq(PaperEvent) /\ pbTaken \in Seq(PaperEvent) BY DEF PaperShape
  <1>2. pbQueue' \in Seq(PaperEvent) /\ Len(pbQueue') = Len(pbQueue) + 1 /\ pbQueue'[Len(pbQueue) + 1] = e
        /\ \A i \in 1..Len(pbQueue) : pbQueue'[i] = pbQueue[i]
    BY <1>1
  <1>3. /\ PaperEvents \in Seq(PaperEvent) /\ Len(PaperEvents) = Len(pbTaken) + Len(pbQueue)
        /\ \A i \in 1..Len(PaperEvents) : PaperEvents[i] = IF i <= Len(pbTaken) THEN pbTaken[i] ELSE pbQueue[i - Len(pbTaken)]
    BY <1>1 DEF PaperEvents
  <1>4. /\ PaperEvents' \in Seq(PaperEvent) /\ Len(PaperEvents') = Len(pbTaken) + Len(pbQueue')
        /\ \A i \in 1..Len(PaperEvents') : PaperEvents'[i] = IF i <= Len(pbTaken) THEN pbTaken[i] ELSE pbQueue'[i - Len(pbTaken)]
    BY <1>1, <1>2 DEF PaperEvents
  <1>5. Len(pbTaken) \in Nat /\ Len(pbQueue) \in Nat BY <1>1
  <1>6. DOMAIN PaperEvents = 1..Len(PaperEvents) /\ DOMAIN PaperEvents' = 1..Len(PaperEvents')
    BY <1>3, <1>4
  <1>7. ASSUME NEW i \in 1..Len(PaperEvents)
        PROVE  PaperEvents'[i] = PaperEvents[i]
   <2>1. i \in 1..Len(PaperEvents') BY <1>2, <1>3, <1>4, <1>5
   <2>2. CASE i <= Len(pbTaken) BY <1>3, <1>4, <2>1, <2>2
   <2>3. CASE ~(i <= Len(pbTaken))
    <3>1. i - Len(pbTaken) \in 1..Len(pbQueue) BY <1>3, <1>5, <2>3
    <3> QED BY <1>2, <1>3, <1>4, <2>1, <2>3, <3>1
   <2> QED BY <2>2, <2>3
  <1>8. PaperEvents'[Len(PaperEvents) + 1] = e
   <2>1. /\ Len(PaperEvents) + 1 \in 1..Len(PaperEvents') /\ ~(Len(PaperEvents) + 1 <= Len(pbTaken))
         /\ Len(PaperEvents) + 1 - Len(pbTaken) = Len(pbQueue) + 1
     BY <1>2, <1>3, <1>4, <1>5
   <2> QED BY <1>2, <1>4, <2>1
  <1>9. Len(PaperEvents) \in Nat /\ Len(PaperEvents') = Len(PaperEvents) + 1
    BY <1>2, <1>3, <1>4, <1>5
  <1> QED BY <1>2, <1>6, <1>7, <1>8, <1>9

(* The same log, whoever holds which part of it. *)
LEMMA SameLog ==
    ASSUME PaperInv, PaperEvents' = PaperEvents, PaperShape', pbPending' \subseteq pbPending, pbCount' >= pbCount,
           pbPending \cup pbDropped = pbPending' \cup pbDropped'
    PROVE  PaperInv'
  <1>1. pbCount \in Nat /\ pbCount' \in Nat BY DEF PaperInv, PaperShape
  <1>2. EventsOfOrders' /\ RestingIsAcked' BY <1>1 DEF PaperInv, EventsOfOrders, RestingIsAcked
  <1>3. OneOutcomePerOrder' BY DEF PaperInv, OneOutcomePerOrder
  <1> QED BY <1>2, <1>3 DEF PaperInv

(* An order is acknowledged when it is given its id, and then rests. *)
LEMMA RestingKeeps ==
    ASSUME PaperInv, SubmitResting
    PROVE  PaperInv'
  <1> DEFINE n == Len(PaperEvents)
             e == Event("ack", pbCount + 1)
  <1>1. pbCount \in Nat /\ e \in PaperEvent /\ e.id = pbCount + 1 /\ e.kind = "ack"
    BY DEF PaperInv, PaperShape, PaperEvent, Event
  <1>2. /\ pbQueue' = Append(pbQueue, e) /\ pbTaken' = pbTaken /\ pbDropped' = pbDropped
        /\ pbCount' = pbCount + 1 /\ pbPending' = pbPending \cup {pbCount + 1}
    BY DEF SubmitResting
  <1> HIDE DEF e
  <1>3. /\ pbQueue' \in Seq(PaperEvent)
        /\ n \in Nat /\ DOMAIN PaperEvents = 1..n /\ DOMAIN PaperEvents' = 1..(n + 1)
        /\ \A i \in 1..n : PaperEvents'[i] = PaperEvents[i]
        /\ PaperEvents'[n + 1] = e
    BY <1>1, <1>2, EventAppended DEF PaperInv
  <1> HIDE DEF n
  <1>4. PaperShape' BY <1>1, <1>2, <1>3 DEF PaperInv, PaperShape
  <1>5. \A i \in 1..n : PaperEvents[i].id \in 1..pbCount BY <1>3 DEF PaperInv, EventsOfOrders
  <1>6. EventsOfOrders' BY <1>1, <1>2, <1>3, <1>5 DEF EventsOfOrders
  <1>7. RestingIsAcked'
   <2> SUFFICES ASSUME NEW id \in pbPending'
                PROVE  /\ \E i \in 1..(n + 1) : PaperEvents'[i].id = id
                       /\ \A i \in 1..(n + 1) : PaperEvents'[i].id = id => PaperEvents'[i].kind = "ack"
     BY <1>3 DEF RestingIsAcked
   <2>1. CASE id = pbCount + 1 BY <1>1, <1>3, <1>5, <2>1
   <2>2. CASE id # pbCount + 1
    <3>1. id \in pbPending BY <1>2, <2>2
    <3>2. /\ \E i \in 1..n : PaperEvents[i].id = id
          /\ \A i \in 1..n : PaperEvents[i].id = id => PaperEvents[i].kind = "ack"
      BY <1>3, <3>1 DEF PaperInv, RestingIsAcked
    <3> QED BY <1>1, <1>3, <3>2
   <2> QED BY <2>1, <2>2
  <1>8. OneOutcomePerOrder'
   <2> SUFFICES ASSUME NEW i \in 1..(n + 1)
                PROVE  LET id == PaperEvents'[i].id IN
                       IF PaperEvents'[i].kind = "ack"
                       THEN /\ \A j \in 1..(i - 1) : PaperEvents'[j].id # id
                            /\ \/ \E j \in 1..(n + 1) : j > i /\ PaperEvents'[j].id = id
                               \/ id \in pbPending' \cup pbDropped'
                       ELSE /\ \E j \in 1..(i - 1) : PaperEvents'[j].id = id
                            /\ \A j \in 1..(n + 1) : j > i => PaperEvents'[j].id # id
                            /\ id \notin pbPending'
     BY <1>3 DEF OneOutcomePerOrder
   <2>1. CASE i = n + 1 BY <1>1, <1>2, <1>3, <1>5, <2>1
   <2>2. CASE i # n + 1
    <3> DEFINE id == PaperEvents[i].id
    <3>0. i \in 1..n /\ PaperEvents'[i] = PaperEvents[i] /\ id \in 1..pbCount BY <1>3, <1>5, <2>2
    <3>1. IF PaperEvents[i].kind = "ack"
          THEN /\ \A j \in 1..(i - 1) : PaperEvents[j].id # id
               /\ \/ \E j \in 1..n : j > i /\ PaperEvents[j].id = id
                  \/ id \in pbPending \cup pbDropped
          ELSE /\ \E j \in 1..(i - 1) : PaperEvents[j].id = id
               /\ \A j \in 1..n : j > i => PaperEvents[j].id # id
               /\ id \notin pbPending
      BY <1>3, <3>0 DEF PaperInv, OneOutcomePerOrder
    <3> HIDE DEF id
    <3>2. \A j \in 1..(i - 1) : PaperEvents'[j] = PaperEvents[j] BY <1>3, <3>0
    <3>3. id # pbCount + 1 BY <1>1, <3>0
    <3>4. \A j \in 1..(i - 1) : PaperEvents'[j].id = PaperEvents[j].id BY <3>2
    <3>5. /\ \A j \in 1..n : j \in 1..(n + 1) /\ PaperEvents'[j].id = PaperEvents[j].id
          /\ \A j \in 1..(n + 1) : j \in 1..n \/ PaperEvents'[j].id = pbCount + 1
      BY <1>1, <1>3
    <3>6. id \in pbPending' <=> id \in pbPending BY <1>2, <3>3
    <3>7. PaperEvents'[i].id = id /\ PaperEvents'[i].kind = PaperEvents[i].kind BY <3>0 DEF id
    <3>8. CASE PaperEvents[i].kind = "ack"
     <4>1. \A j \in 1..(i - 1) : PaperEvents'[j].id # id BY <3>1, <3>4, <3>8
     <4>2. \/ \E j \in 1..(n + 1) : j > i /\ PaperEvents'[j].id = id
           \/ id \in pbPending' \cup pbDropped'
       BY <1>2, <3>1, <3>5, <3>6, <3>8
     <4> QED BY <3>7, <3>8, <4>1, <4>2
    <3>9. CASE PaperEvents[i].kind # "ack"
     <4>1. \E j \in 1..(i - 1) : PaperEvents'[j].id = id BY <3>1, <3>4, <3>9
     <4>2. \A j \in 1..(n + 1) : j > i => PaperEvents'[j].id # id BY <3>1, <3>3, <3>5, <3>9
     <4>3. id \notin pbPending' BY <3>1, <3>6, <3>9
     <4> QED BY <3>7, <3>9, <4>1, <4>2, <4>3
    <3> QED BY <3>8, <3>9
   <2> QED BY <2>1, <2>2
  <1> QED BY <1>4, <1>6, <1>7, <1>8 DEF PaperInv

(* A resting order that is cancelled or filled has its one outcome. *)
LEMMA OutcomeKeeps ==
    ASSUME PaperInv, NEW x \in pbPending, NEW k \in {"fill", "cancel"},
           pbQueue' = Append(pbQueue, Event(k, x)), pbPending' = pbPending \ {x},
           UNCHANGED <<pbTaken, pbCount, pbDropped>>
    PROVE  PaperInv'
  <1> DEFINE n == Len(PaperEvents)
             e == Event(k, x)
  <1>1. pbCount \in Nat /\ x \in 1..pbCount /\ e \in PaperEvent /\ e.id = x /\ e.kind = k
    BY DEF PaperInv, PaperShape, PaperEvent, Event
  <1>2. /\ pbQueue' = Append(pbQueue, e) /\ pbTaken' = pbTaken
    OBVIOUS
  <1> HIDE DEF e
  <1>3. /\ pbQueue' \in Seq(PaperEvent)
        /\ n \in Nat /\ DOMAIN PaperEvents = 1..n /\ DOMAIN PaperEvents' = 1..(n + 1)
        /\ \A i \in 1..n : PaperEvents'[i] = PaperEvents[i]
        /\ PaperEvents'[n + 1] = e
    BY <1>1, <1>2, EventAppended DEF PaperInv
  <1> HIDE DEF n
  <1>4. PaperShape' BY <1>1, <1>2, <1>3 DEF PaperInv, PaperShape
  <1>5. \A i \in 1..n : PaperEvents[i].id \in 1..pbCount BY <1>3 DEF PaperInv, EventsOfOrders
  <1>6. EventsOfOrders' BY <1>1, <1>3, <1>5 DEF EventsOfOrders
  <1>7. RestingIsAcked'
   <2> SUFFICES ASSUME NEW id \in pbPending, id # x
                PROVE  /\ \E i \in 1..(n + 1) : PaperEvents'[i].id = id
                       /\ \A i \in 1..(n + 1) : PaperEvents'[i].id = id => PaperEvents'[i].kind = "ack"
     BY <1>3 DEF RestingIsAcked
   <2>2. /\ \E i \in 1..n : PaperEvents[i].id = id
         /\ \A i \in 1..n : PaperEvents[i].id = id => PaperEvents[i].kind = "ack"
     BY <1>3 DEF PaperInv, RestingIsAcked
   <2> QED BY <1>1, <1>3, <2>2
  <1>8. /\ \E i \in 1..n : PaperEvents[i].id = x
        /\ \A i \in 1..n : PaperEvents[i].id = x => PaperEvents[i].kind = "ack"
    BY <1>3 DEF PaperInv, RestingIsAcked
  <1>9. OneOutcomePerOrder'
   <2> SUFFICES ASSUME NEW i \in 1..(n + 1)
                PROVE  LET id == PaperEvents'[i].id IN
                       IF PaperEvents'[i].kind = "ack"
                       THEN /\ \A j \in 1..(i - 1) : PaperEvents'[j].id # id
                            /\ \/ \E j \in 1..(n + 1) : j > i /\ PaperEvents'[j].id = id
                               \/ id \in pbPending' \cup pbDropped'
                       ELSE /\ \E j \in 1..(i - 1) : PaperEvents'[j].id = id
                            /\ \A j \in 1..(n + 1) : j > i => PaperEvents'[j].id # id
                            /\ id \notin pbPending'
     BY <1>3 DEF OneOutcomePerOrder
   <2>1. CASE i = n + 1 BY <1>1, <1>3, <1>8, <2>1
   <2>2. CASE i # n + 1
    <3> DEFINE id == PaperEvents[i].id
    <3>0. i \in 1..n /\ PaperEvents'[i] = PaperEvents[i] /\ id \in 1..pbCount BY <1>3, <1>5, <2>2
    <3>1. IF PaperEvents[i].kind = "ack"
          THEN /\ \A j \in 1..(i - 1) : PaperEvents[j].id # id
               /\ \/ \E j \in 1..n : j > i /\ PaperEvents[j].id = id
                  \/ id \in pbPending \cup pbDropped
          ELSE /\ \E j \in 1..(i - 1) : PaperEvents[j].id = id
               /\ \A j \in 1..n : j > i => PaperEvents[j].id # id
               /\ id \notin pbPending
      BY <1>3, <3>0 DEF PaperInv, OneOutcomePerOrder
    <3>2. \A j \in 1..(i - 1) : PaperEvents'[j] = PaperEvents[j] BY <1>3, <3>0
    <3>3. PaperEvents[i].kind # "ack" => id # x BY <1>8, <3>0
    <3> HIDE DEF id
    <3>4. n + 1 \in 1..(n + 1) /\ n + 1 > i /\ \A j \in 1..(n + 1) : j \in 1..n \/ j = n + 1
      BY <1>3, <3>0
    <3>5. CASE PaperEvents[i].kind = "ack"
     <4>1. \A j \in 1..(i - 1) : PaperEvents'[j].id # id BY <3>1, <3>2, <3>5
     <4>2. (\E j \in 1..(n + 1) : j > i /\ PaperEvents'[j].id = id) \/ id \in pbPending' \cup pbDropped'
      <5>1. CASE id = x BY <1>1, <1>3, <3>4, <5>1
      <5>2. CASE id # x BY <1>3, <3>1, <3>4, <3>5, <5>2
      <5> QED BY <5>1, <5>2
     <4> QED BY <3>0, <3>5, <4>1, <4>2 DEF id
    <3>6. CASE PaperEvents[i].kind # "ack"
     <4>1. \E j \in 1..(i - 1) : PaperEvents'[j].id = id BY <3>1, <3>2, <3>6
     <4>2. \A j \in 1..(n + 1) : j > i => PaperEvents'[j].id # id
       BY <1>1, <1>3, <3>1, <3>3, <3>4, <3>6
     <4>3. id \notin pbPending' BY <3>1, <3>6
     <4> QED BY <3>0, <3>6, <4>1, <4>2, <4>3 DEF id
    <3> QED BY <3>5, <3>6
   <2> QED BY <2>1, <2>2
  <1> QED BY <1>4, <1>6, <1>7, <1>9 DEF PaperInv

(* A market order is acknowledged and filled in one step. *)
LEMMA MarketKeeps ==
    ASSUME PaperInv, SubmitMarket(TRUE)
    PROVE  PaperInv'
  <1> DEFINE n == Len(PaperEvents)
             a == Event("ack", pbCount + 1)
             f == Event("fill", pbCount + 1)
  <1>1. /\ pbCount \in Nat /\ a \in PaperEvent /\ a.id = pbCount + 1 /\ a.kind = "ack"
        /\ f \in PaperEvent /\ f.id = pbCount + 1 /\ f.kind = "fill"
    BY DEF PaperInv, PaperShape, PaperEvent, Event
  <1>2. /\ pbQueue' = pbQueue \o <<a, f>> /\ pbTaken' = pbTaken /\ pbDropped' = pbDropped
        /\ pbCount' = pbCount + 1 /\ pbPending' = pbPending
    BY DEF SubmitMarket
  <1> HIDE DEF a, f
  <1>3. /\ pbQueue' \in Seq(PaperEvent)
        /\ n \in Nat /\ DOMAIN PaperEvents = 1..n /\ DOMAIN PaperEvents' = 1..(n + 2)
        /\ \A i \in 1..n : PaperEvents'[i] = PaperEvents[i]
        /\ PaperEvents'[n + 1] = a /\ PaperEvents'[n + 2] = f
   <2>1. pbQueue \in Seq(PaperEvent) /\ pbTaken \in Seq(PaperEvent) /\ <<a, f>> \in Seq(PaperEvent)
     BY <1>1 DEF PaperInv, PaperShape
   <2>2. /\ pbQueue' \in Seq(PaperEvent) /\ Len(pbQueue') = Len(pbQueue) + 2
         /\ pbQueue'[Len(pbQueue) + 1] = a /\ pbQueue'[Len(pbQueue) + 2] = f
         /\ \A i \in 1..Len(pbQueue) : pbQueue'[i] = pbQueue[i]
     BY <1>2, <2>1
   <2>3. /\ PaperEvents \in Seq(PaperEvent) /\ n = Len(pbTaken) + Len(pbQueue)
         /\ \A i \in 1..n : PaperEvents[i] = IF i <= Len(pbTaken) THEN pbTaken[i] ELSE pbQueue[i - Len(pbTaken)]
     BY <2>1 DEF PaperEvents
   <2>4. /\ PaperEvents' \in Seq(PaperEvent) /\ Len(PaperEvents') = Len(pbTaken) + Len(pbQueue')
         /\ \A i \in 1..Len(PaperEvents') : PaperEvents'[i] = IF i <= Len(pbTaken) THEN pbTaken[i] ELSE pbQueue'[i - Len(pbTaken)]
     BY <1>2, <2>1, <2>2 DEF PaperEvents
   <2>5. Len(pbTaken) \in Nat /\ Len(pbQueue) \in Nat BY <2>1
   <2>6. DOMAIN PaperEvents = 1..n /\ DOMAIN PaperEvents' = 1..Len(PaperEvents') BY <2>3, <2>4
   <2> HIDE DEF n
   <2>7. ASSUME NEW i \in 1..n
         PROVE  PaperEvents'[i] = PaperEvents[i]
    <3>1. i \in 1..Len(PaperEvents') BY <2>2, <2>3, <2>4, <2>5
    <3>2. CASE i <= Len(pbTaken) BY <2>3, <2>4, <3>1, <3>2
    <3>3. CASE ~(i <= Len(pbTaken))
     <4>1. i - Len(pbTaken) \in 1..Len(pbQueue) BY <2>3, <2>5, <3>3
     <4> QED BY <2>2, <2>3, <2>4, <3>1, <3>3, <4>1
    <3> QED BY <3>2, <3>3
   <2>8. /\ n + 1 \in 1..Len(PaperEvents') /\ ~(n + 1 <= Len(pbTaken)) /\ n + 1 - Len(pbTaken) = Len(pbQueue) + 1
         /\ n + 2 \in 1..Len(PaperEvents') /\ ~(n + 2 <= Len(pbTaken)) /\ n + 2 - Len(pbTaken) = Len(pbQueue) + 2
         /\ n \in Nat /\ Len(PaperEvents') = n + 2
     BY <2>2, <2>3, <2>4, <2>5
   <2>9. PaperEvents'[n + 1] = a /\ PaperEvents'[n + 2] = f BY <2>2, <2>4, <2>8
   <2> QED BY <2>2, <2>6, <2>7, <2>8, <2>9
  <1> HIDE DEF n
  <1>4. PaperShape' BY <1>1, <1>2, <1>3 DEF PaperInv, PaperShape
  <1>5. \A i \in 1..n : PaperEvents[i].id \in 1..pbCount BY <1>3 DEF PaperInv, EventsOfOrders
  <1>6. EventsOfOrders'
   <2>1. \A i \in 1..(n + 2) : i \in 1..n \/ i = n + 1 \/ i = n + 2 BY <1>3
   <2>2. ASSUME NEW i \in 1..(n + 2)
         PROVE  PaperEvents'[i].id \in 1..(pbCount + 1)
    <3>1. CASE i \in 1..n BY <1>1, <1>3, <1>5, <3>1
    <3>2. CASE i = n + 1 \/ i = n + 2 BY <1>1, <1>3, <3>2
    <3> QED BY <2>1, <3>1, <3>2
   <2> QED BY <1>2, <1>3, <2>2 DEF EventsOfOrders
  <1>7. pbPending \subseteq 1..pbCount BY DEF PaperInv, PaperShape
  <1>8. RestingIsAcked'
   <2> SUFFICES ASSUME NEW id \in pbPending
                PROVE  /\ \E i \in 1..(n + 2) : PaperEvents'[i].id = id
                       /\ \A i \in 1..(n + 2) : PaperEvents'[i].id = id => PaperEvents'[i].kind = "ack"
     BY <1>2, <1>3 DEF RestingIsAcked
   <2>2. /\ \E i \in 1..n : PaperEvents[i].id = id
         /\ \A i \in 1..n : PaperEvents[i].id = id => PaperEvents[i].kind = "ack"
     BY <1>3 DEF PaperInv, RestingIsAcked
   <2>3. \A i \in 1..(n + 2) : i \in 1..n \/ i = n + 1 \/ i = n + 2 BY <1>3
   <2>4. \A i \in 1..n : i \in 1..(n + 2) BY <1>3
   <2> HIDE DEF n
   <2>5. \E i \in 1..(n + 2) : PaperEvents'[i].id = id BY <1>3, <2>2, <2>4
   <2>6. ASSUME NEW i \in 1..(n + 2), PaperEvents'[i].id = id
         PROVE  PaperEvents'[i].kind = "ack"
    <3>1. CASE i \in 1..n BY <1>3, <2>2, <2>6, <3>1
    <3>2. CASE i = n + 1 \/ i = n + 2 BY <1>1, <1>3, <1>7, <2>6, <3>2
    <3> QED BY <2>3, <3>1, <3>2
   <2> QED BY <2>5, <2>6
  <1>9. OneOutcomePerOrder'
   <2> SUFFICES ASSUME NEW i \in 1..(n + 2)
                PROVE  LET id == PaperEvents'[i].id IN
                       IF PaperEvents'[i].kind = "ack"
                       THEN /\ \A j \in 1..(i - 1) : PaperEvents'[j].id # id
                            /\ \/ \E j \in 1..(n + 2) : j > i /\ PaperEvents'[j].id = id
                               \/ id \in pbPending' \cup pbDropped'
                       ELSE /\ \E j \in 1..(i - 1) : PaperEvents'[j].id = id
                            /\ \A j \in 1..(n + 2) : j > i => PaperEvents'[j].id # id
                            /\ id \notin pbPending'
     BY <1>3 DEF OneOutcomePerOrder
   <2>1. CASE i = n + 1
    <3>1. n + 2 \in 1..(n + 2) /\ n + 2 > i /\ PaperEvents'[n + 2].id = PaperEvents'[i].id
      BY <1>1, <1>3, <2>1
    <3> QED BY <1>1, <1>3, <1>5, <2>1, <3>1
   <2>2. CASE i = n + 2
    <3>1. n + 1 \in 1..(i - 1) /\ PaperEvents'[n + 1].id = PaperEvents'[i].id BY <1>1, <1>3, <2>2
    <3>2. \A j \in 1..(n + 2) : ~(j > i) BY <1>3, <2>2
    <3> QED BY <1>1, <1>2, <1>3, <1>7, <2>2, <3>1, <3>2
   <2>3. CASE i \in 1..n
    <3> DEFINE id == PaperEvents[i].id
    <3>0. PaperEvents'[i] = PaperEvents[i] /\ id \in 1..pbCount BY <1>3, <1>5, <2>3
    <3>1. IF PaperEvents[i].kind = "ack"
          THEN /\ \A j \in 1..(i - 1) : PaperEvents[j].id # id
               /\ \/ \E j \in 1..n : j > i /\ PaperEvents[j].id = id
                  \/ id \in pbPending \cup pbDropped
          ELSE /\ \E j \in 1..(i - 1) : PaperEvents[j].id = id
               /\ \A j \in 1..n : j > i => PaperEvents[j].id # id
               /\ id \notin pbPending
      BY <1>3, <2>3 DEF PaperInv, OneOutcomePerOrder
    <3> HIDE DEF id
    <3>2. \A j \in 1..(i - 1) : PaperEvents'[j] = PaperEvents[j] BY <1>3, <2>3
    <3>3. id # pbCount + 1 BY <1>1, <3>0
    <3>4. \A j \in 1..(n + 2) : j \in 1..n \/ j = n + 1 \/ j = n + 2 BY <1>3
    <3>5. CASE PaperEvents[i].kind = "ack"
     <4>1. \A j \in 1..(i - 1) : PaperEvents'[j].id # id BY <3>1, <3>2, <3>5
     <4>2. (\E j \in 1..(n + 2) : j > i /\ PaperEvents'[j].id = id) \/ id \in pbPending' \cup pbDropped'
       BY <1>2, <1>3, <3>1, <3>5
     <4> QED BY <3>0, <3>5, <4>1, <4>2 DEF id
    <3>6. CASE PaperEvents[i].kind # "ack"
     <4>1. \E j \in 1..(i - 1) : PaperEvents'[j].id = id BY <3>1, <3>2, <3>6
     <4>2. \A j \in 1..(n + 2) : j > i => PaperEvents'[j].id # id
       BY <1>1, <1>3, <3>1, <3>3, <3>4, <3>6
     <4>3. id \notin pbPending' BY <1>2, <3>1, <3>6
     <4> QED BY <3>0, <3>6, <4>1, <4>2, <4>3 DEF id
    <3> QED BY <3>5, <3>6
   <2> QED BY <1>3, <2>1, <2>2, <2>3
  <1> QED BY <1>4, <1>6, <1>8, <1>9 DEF PaperInv

(* Every step of the paper broker. *)
LEMMA PaperSteps ==
    ASSUME PaperInv, [PaperNext]_pbVars
    PROVE  PaperInv'
  <1>1. PaperShape /\ pbCount \in Nat BY DEF PaperInv, PaperShape
  <1>2. CASE UNCHANGED pbVars
   <2>1. PaperEvents' = PaperEvents /\ PaperShape' BY <1>1, <1>2 DEF pbVars, PaperShape, PaperEvents
   <2> QED BY <1>1, <1>2, <2>1, SameLog DEF pbVars
  <1>3. ASSUME NEW priced \in BOOLEAN, SubmitMarket(priced)
        PROVE  PaperInv'
   <2>1. CASE priced BY <1>3, <2>1, MarketKeeps
   <2>2. CASE ~priced
    <3>1. PaperEvents' = PaperEvents BY <1>3, <2>2 DEF SubmitMarket, PaperEvents
    <3>2. PaperShape' BY <1>1, <1>3, <2>2 DEF SubmitMarket, PaperShape
    <3> QED BY <1>1, <1>3, <3>1, <3>2, SameLog DEF SubmitMarket
   <2> QED BY <2>1, <2>2
  <1>4. ASSUME NEW id \in pbPending, CancelResting(id)
        PROVE  PaperInv'
    BY <1>4, OutcomeKeeps DEF CancelResting, PendingAfterCancel
  <1>5. ASSUME NEW id \in pbPending, NEW priced \in BOOLEAN, SimulateFill(id, priced)
        PROVE  PaperInv'
   <2>1. CASE priced BY <1>5, <2>1, OutcomeKeeps DEF SimulateFill
   <2>2. CASE ~priced
    <3>1. PaperEvents' = PaperEvents BY <1>5, <2>2 DEF SimulateFill, PaperEvents
    <3>2. PaperShape' BY <1>1, <1>5, <2>2 DEF SimulateFill, PaperShape
    <3> QED BY <1>1, <1>5, <2>2, <3>1, <3>2, SameLog DEF SimulateFill
   <2> QED BY <2>1, <2>2
  <1>6. CASE TakeEvent
   <2>1. /\ pbQueue \in Seq(PaperEvent) /\ pbTaken \in Seq(PaperEvent) /\ pbQueue # <<>>
         /\ pbTaken' = Append(pbTaken, Head(pbQueue)) /\ pbQueue' = Tail(pbQueue)
     BY <1>1, <1>6 DEF TakeEvent, PaperShape
   <2>2. pbTaken' \in Seq(PaperEvent) /\ pbQueue' \in Seq(PaperEvent) BY <2>1
   <2>3. PaperEvents' = PaperEvents
    <3>1. PaperEvents \in Seq(PaperEvent) /\ PaperEvents' \in Seq(PaperEvent)
      BY <2>1, <2>2 DEF PaperEvents
    <3>2. Len(PaperEvents') = Len(PaperEvents) BY <2>1, <2>2 DEF PaperEvents
    <3>3. \A i \in 1..Len(PaperEvents) : PaperEvents'[i] = PaperEvents[i]
      BY <2>1, <2>2 DEF PaperEvents
    <3> QED BY <3>1, <3>2, <3>3, SeqEqual
   <2>4. PaperShape' BY <1>1, <1>6, <2>2 DEF TakeEvent, PaperShape
   <2> QED BY <1>1, <1>6, <2>3, <2>4, SameLog DEF TakeEvent
  <1>7. CASE DrainEvents
   <2>1. pbQueue \in Seq(PaperEvent) /\ pbTaken \in Seq(PaperEvent) /\ pbTaken' = pbTaken \o pbQueue /\ pbQueue' = <<>>
     BY <1>1, <1>7 DEF DrainEvents, PaperShape
   <2>2. pbTaken' \in Seq(PaperEvent) /\ pbQueue' \in Seq(PaperEvent) BY <2>1
   <2>3. PaperEvents' = PaperEvents BY <2>1, <2>2 DEF PaperEvents
   <2>4. PaperShape' BY <1>1, <1>7, <2>2 DEF DrainEvents, PaperShape
   <2> QED BY <1>1, <1>7, <2>3, <2>4, SameLog DEF DrainEvents
  <1> QED BY <1>2, <1>3, <1>4, <1>5, <1>6, <1>7, RestingKeeps DEF PaperNext

----------------------------------------
(* A list without one of its entries. *)

\* k tells the entries of s other than h, for every prefix up to n.
Leaves(k, s, h, n) ==
    k = [i \in 0..n |-> IF i = 0 THEN <<>> ELSE IF s[i] = h THEN k[i - 1] ELSE Append(k[i - 1], s[i])]

(* The entries left can be collected from first to last. *)
LEMMA LeavesExists ==
    ASSUME NEW s, NEW h, NEW n \in Nat
    PROVE  \E k : Leaves(k, s, h, n)
  <1> DEFINE Bad == {i \in Nat : ~ \E k : Leaves(k, s, h, i)}
  <1> SUFFICES ASSUME Bad # {} PROVE FALSE
    BY SMT
  <1>1. PICK m \in Bad : \A i \in Bad : m <= i
   <2>1. Bad \subseteq Nat OBVIOUS
   <2> HIDE DEF Bad
   <2> QED BY <2>1, LeastNatural
  <1>2. m # 0
   <2> DEFINE k == [i \in 0..0 |-> <<>>]
   <2>1. Leaves(k, s, h, 0) BY DEF Leaves
   <2> QED BY <2>1
  <1>3. PICK k : Leaves(k, s, h, m - 1)
    BY <1>1, <1>2
  <1> DEFINE step(f, i) == IF i = 0 THEN <<>> ELSE IF s[i] = h THEN f[i - 1] ELSE Append(f[i - 1], s[i])
             g == [i \in 0..m |-> IF i < m THEN k[i] ELSE step(k, m)]
  <1>4. Leaves(g, s, h, m)
   <2>1. ASSUME NEW i \in 0..m, i < m PROVE g[i] = step(g, i)
    <3>1. i \in 0..(m - 1) BY <2>1
    <3>2. k[i] = step(k, i) BY <1>3, <3>1 DEF Leaves
    <3>3. i # 0 => i - 1 \in 0..m /\ i - 1 < m BY <2>1
    <3>4. g[i] = k[i] /\ (i # 0 => g[i - 1] = k[i - 1]) BY <2>1, <3>3
    <3> HIDE DEF g
    <3> QED BY <3>2, <3>4
   <2>2. g[m] = step(g, m) BY <1>1, <1>2
   <2>3. ASSUME NEW i \in 0..m
         PROVE  g[i] = step(g, i)
    <3>1. i < m \/ i = m BY <1>1
    <3> HIDE DEF g, step
    <3> QED BY <3>1, <2>1, <2>2
   <2>4. g = [i \in 0..m |-> g[i]] OBVIOUS
   <2> HIDE DEF g
   <2> QED BY <2>3, <2>4 DEF Leaves
  <1> QED BY <1>1, <1>4

(* A handler list without a handler is a handler list (EventBus.unsubscribe). *)
LEMMA WithoutType ==
    ASSUME NEW S, NEW s \in Seq(S), NEW h
    PROVE  Without(s, h) \in Seq(S)
  <1> DEFINE n == Len(s)
             k == CHOOSE f : Leaves(f, s, h, n)
  <1>1. n \in Nat /\ DOMAIN s = 1..n OBVIOUS
  <1>2. Leaves(k, s, h, n) BY <1>1, LeavesExists
  <1>3. Without(s, h) = k[n] BY DEF Without, Leaves
  <1> HIDE DEF n, k
  <1> DEFINE Bad == {i \in 0..n : k[i] \notin Seq(S)}
  <1>4. Bad = {}
   <2> SUFFICES ASSUME Bad # {} PROVE FALSE
     OBVIOUS
   <2>1. PICK m \in Bad : \A i \in Bad : m <= i
    <3>1. Bad \subseteq Nat BY <1>1
    <3> HIDE DEF Bad
    <3> QED BY <3>1, LeastNatural
   <2>2. m \in 0..n /\ k[m] \notin Seq(S) BY <2>1
   <2>3. k[m] = IF m = 0 THEN <<>> ELSE IF s[m] = h THEN k[m - 1] ELSE Append(k[m - 1], s[m])
     BY <1>2, <2>2 DEF Leaves
   <2>4. m # 0 BY <2>2, <2>3
   <2>5. m - 1 \in 0..n /\ m \in 1..n BY <1>1, <2>2, <2>4
   <2>6. k[m - 1] \in Seq(S) /\ s[m] \in S BY <1>1, <2>1, <2>5
   <2>7. Append(k[m - 1], s[m]) \in Seq(S) BY <2>6
   <2> QED BY <2>2, <2>3, <2>4, <2>6, <2>7
  <1> QED BY <1>1, <1>3, <1>4

----------------------------------------
(* Counting the entries of a list. *)

\* How often the first n entries of a list name a handler.
CountTo(s, n, h) == Cardinality({i \in 1..n : s[i] = h})

(* Counts are natural numbers, and a count of nothing is zero. *)
LEMMA CountType ==
    ASSUME NEW s, NEW n \in Nat, NEW h
    PROVE  /\ IsFiniteSet({i \in 1..n : s[i] = h})
           /\ CountTo(s, n, h) \in Nat
           /\ CountTo(s, 0, h) = 0
  <1>1. IsFiniteSet(1..n)
   <2>1. 1 \in Int /\ n \in Int OBVIOUS
   <2> QED BY <2>1, FS_Interval
  <1>2. IsFiniteSet({i \in 1..n : s[i] = h})
   <2>1. {i \in 1..n : s[i] = h} \subseteq 1..n OBVIOUS
   <2> QED BY <1>1, <2>1, FS_Subset
  <1>3. {i \in 1..0 : s[i] = h} = {} OBVIOUS
  <1> QED BY <1>2, <1>3, FS_CardinalityType, FS_EmptySet DEF CountTo

(* One entry more adds one to the count of what it names. *)
LEMMA CountNext ==
    ASSUME NEW s, NEW n \in Nat, NEW h
    PROVE  CountTo(s, n + 1, h) = CountTo(s, n, h) + (IF s[n + 1] = h THEN 1 ELSE 0)
  <1> DEFINE A == {i \in 1..n : s[i] = h}
             B == {i \in 1..(n + 1) : s[i] = h}
  <1>1. IsFiniteSet(A) /\ CountTo(s, n, h) \in Nat BY CountType
  <1>2. n + 1 \notin A OBVIOUS
  <1>3. CASE s[n + 1] = h
   <2>1. B = A \cup {n + 1} BY <1>3
   <2>2. Cardinality(A \cup {n + 1}) = Cardinality(A) + 1 BY <1>1, <1>2, FS_AddElement
   <2> HIDE DEF A, B
   <2>3. Cardinality(B) = Cardinality(A) + 1 BY <2>1, <2>2
   <2> QED BY <1>3, <2>3 DEF CountTo, A, B
  <1>4. CASE s[n + 1] # h
   <2>1. B = A BY <1>4
   <2> QED BY <1>1, <1>4, <2>1 DEF CountTo
  <1> QED BY <1>3, <1>4

(* The count depends on the entries only. *)
LEMMA CountSame ==
    ASSUME NEW s, NEW t, NEW n \in Nat, NEW h, \A i \in 1..n : s[i] = t[i]
    PROVE  CountTo(s, n, h) = CountTo(t, n, h)
  <1>1. {i \in 1..n : s[i] = h} = {i \in 1..n : t[i] = h} OBVIOUS
  <1> QED BY <1>1 DEF CountTo

(* A list that is appended to counts as before up to its end, and one more for the entry. *)
LEMMA CountAppended ==
    ASSUME NEW S, NEW s \in Seq(S), NEW e \in S, NEW h
    PROVE  /\ Count(s, h) = CountTo(s, Len(s), h) /\ Count(s, h) \in Nat
           /\ Count(Append(s, e), h) = Count(s, h) + (IF e = h THEN 1 ELSE 0)
           /\ \A n \in 0..Len(s) : CountTo(Append(s, e), n, h) = CountTo(s, n, h)
  <1> DEFINE t == Append(s, e)
  <1>1. /\ Len(s) \in Nat /\ DOMAIN s = 1..Len(s)
        /\ t \in Seq(S) /\ Len(t) = Len(s) + 1 /\ DOMAIN t = 1..(Len(s) + 1)
        /\ t[Len(s) + 1] = e /\ \A i \in 1..Len(s) : t[i] = s[i]
    OBVIOUS
  <1> HIDE DEF t
  <1>2. Count(s, h) = CountTo(s, Len(s), h) /\ Count(t, h) = CountTo(t, Len(s) + 1, h)
    BY <1>1 DEF Count, CountTo
  <1>3. ASSUME NEW n \in 0..Len(s)
        PROVE  CountTo(t, n, h) = CountTo(s, n, h)
   <2>1. n \in Nat /\ \A i \in 1..n : t[i] = s[i] BY <1>1
   <2> QED BY <2>1, CountSame
  <1>4. CountTo(t, Len(s) + 1, h) = CountTo(t, Len(s), h) + (IF e = h THEN 1 ELSE 0)
    BY <1>1, CountNext
  <1>5. CountTo(s, Len(s), h) \in Nat BY <1>1, CountType
  <1> QED BY <1>1, <1>2, <1>3, <1>4, <1>5 DEF t

----------------------------------------
(* The event bus. *)

BusRec == [pc : {"new", "waiting", "connecting", "idle", "walking", "awaiting"},
           bus : Nat, event : Nat, list : Nat, i : Nat]

Calling == [Handlers -> Nat]

BusHistory == [changes : Nat, calls : Seq(Calling), offers : Seq(Calling), standing : Seq(Calling),
               ended : Seq(Nat)]

BusShape ==
    /\ busLists \in Seq(Seq(Handlers)) /\ busCur \in DOMAIN busLists
    /\ busPub \in [Publishers -> BusRec]
    /\ busState \in [bus : Nat, built : Nat, lock : BOOLEAN]
    /\ busHist \in BusHistory
    /\ Len(busHist.offers) = Len(busHist.calls) /\ Len(busHist.standing) = Len(busHist.calls)
    /\ \A k \in DOMAIN busHist.ended : busHist.ended[k] \in DOMAIN busHist.calls

\* One bus is built, under the lock, and its client answered before anyone has it.
BusMade ==
    /\ busState.bus \in {0, 1}
    /\ busState.lock => busState.bus = 0
    /\ busState.bus = 0 /\ ~busState.lock => busState.built = 0
    /\ busState.bus = 1 => busRedis # "pinging"
    /\ \A p \in Publishers :
          /\ busPub[p].pc \in {"idle", "walking", "awaiting"} => busPub[p].bus = 1 /\ busState.bus = 1
          /\ busPub[p].pc = "connecting" => busState.lock /\ busPub[p].bus = 1
    /\ \A p, q \in Publishers : busPub[p].pc = "connecting" /\ busPub[q].pc = "connecting" => p = q


Walking(r) == r.pc \in {"walking", "awaiting"}
\* The entries of its list a publication has called.
Reached(r) == IF r.pc = "awaiting" THEN r.i ELSE r.i - 1

WalkSound(r) ==
    /\ r.event \in DOMAIN busHist.calls /\ r.list \in DOMAIN busLists /\ r.i >= 1
    /\ Reached(r) <= Len(busLists[r.list]) /\ Running(r.event)
    /\ \A h \in Handlers :
          /\ busHist.calls[r.event][h] = CountTo(busLists[r.list], Reached(r), h)
          /\ busHist.standing[r.event][h] <= Count(busLists[r.list], h)
          /\ Count(busLists[r.list], h) <= busHist.offers[r.event][h]

WalksAreSound ==
    /\ \A p \in Publishers : Walking(busPub[p]) => WalkSound(busPub[p])
    /\ \A p, q \in Publishers : Walking(busPub[p]) /\ Walking(busPub[q])
                                    /\ busPub[p].event = busPub[q].event => p = q

BusInv == BusShape /\ BusMade /\ WalksAreSound /\ StandingHandlersCalled /\ LogHoldsLatest

(* Nobody subscribed, published or has a bus. *)
LEMMA BusStarts == BusInit => BusInv
  <1> SUFFICES ASSUME BusInit PROVE BusInv
    OBVIOUS
  <1> USE DEF BusInit
  <1>1. BusShape
   <2>1. <<>> \in Seq(Handlers) /\ <<>> \in Seq(Calling) /\ <<>> \in Seq(Nat) /\ << <<>> >> \in Seq(Seq(Handlers))
     OBVIOUS
   <2>2. busHist \in BusHistory BY <2>1 DEF BusHistory
   <2>3. busPub \in [Publishers -> BusRec] BY DEF BusRec
   <2> QED BY <2>1, <2>2, <2>3 DEF BusShape
  <1>2. BusMade BY DEF BusMade
  <1>3. WalksAreSound BY DEF WalksAreSound, Walking
  <1>4. StandingHandlersCalled BY DEF StandingHandlersCalled
  <1>5. LogHoldsLatest
   <2>1. busHist.ended = <<>> /\ Len(<<>>) = 0 /\ busLog = <<>> OBVIOUS
   <2>2. ~(0 > MaxLogSize) BY BusAssumption
   <2>3. SubSeq(<<>>, 1, 0) = <<>> OBVIOUS
   <2> QED BY <2>1, <2>2, <2>3 DEF LogHoldsLatest
  <1> QED BY <1>1, <1>2, <1>3, <1>4, <1>5 DEF BusInv

\* What a publisher does with the bus it has.
Served == {"idle", "walking", "awaiting"}

(* Whoever has the bus keeps it. *)
LEMMA MadeKept ==
    ASSUME BusMade, UNCHANGED <<busState, busRedis>>,
           \A p \in Publishers : /\ busPub'[p].bus = busPub[p].bus
                                 /\ \/ busPub'[p].pc = busPub[p].pc
                                    \/ busPub[p].pc \in Served /\ busPub'[p].pc \in Served
    PROVE  BusMade'
  BY DEF BusMade, Served

(* A step that touches neither lists nor events leaves the publications alone. *)
LEMMA PublicationsStay ==
    ASSUME BusInv, UNCHANGED <<busLists, busCur, busLog, busHist>>,
           busState' \in [bus : Nat, built : Nat, lock : BOOLEAN],
           busPub' \in [Publishers -> BusRec],
           \A p \in Publishers : Walking(busPub'[p]) => busPub'[p] = busPub[p]
    PROVE  BusShape' /\ WalksAreSound' /\ StandingHandlersCalled' /\ LogHoldsLatest'
  <1>1. BusShape' BY DEF BusInv, BusShape
  <1>2. ASSUME NEW r, WalkSound(r)
        PROVE  WalkSound(r)'
    BY <1>2 DEF WalkSound, Running
  <1>3. WalksAreSound' BY <1>2 DEF BusInv, WalksAreSound
  <1>4. StandingHandlersCalled' /\ LogHoldsLatest'
    BY DEF BusInv, StandingHandlersCalled, LogHoldsLatest
  <1> QED BY <1>1, <1>3, <1>4

(* A publisher that goes on with a bus keeps its other fields. *)
LEMMA TakesBus ==
    ASSUME busPub \in [Publishers -> BusRec], NEW p \in Publishers, NEW b \in Nat,
           NEW pc \in {"idle", "connecting"},
           busPub' = [busPub EXCEPT ![p].pc = pc, ![p].bus = b]
    PROVE  /\ busPub' \in [Publishers -> BusRec] /\ busPub'[p].pc = pc /\ busPub'[p].bus = b
           /\ \A q \in Publishers \ {p} : busPub'[q] = busPub[q]
           /\ ~Walking(busPub'[p])
  <1> DEFINE r == [busPub[p] EXCEPT !.pc = pc, !.bus = b]
  <1>1. busPub[p] \in BusRec OBVIOUS
  <1>2. r \in BusRec /\ r.pc = pc /\ r.bus = b BY <1>1 DEF BusRec
  <1>3. busPub' = [busPub EXCEPT ![p] = r] OBVIOUS
  <1> HIDE DEF r
  <1> QED BY <1>2, <1>3 DEF Walking

(* The lock is taken or given back with the bus. *)
LEMMA LockMoves ==
    ASSUME NEW st \in [bus : Nat, built : Nat, lock : BOOLEAN], NEW b \in Nat
    PROVE  /\ [st EXCEPT !.lock = TRUE, !.built = @ + 1] \in [bus : Nat, built : Nat, lock : BOOLEAN]
           /\ [st EXCEPT !.lock = TRUE, !.built = @ + 1].bus = st.bus
           /\ [st EXCEPT !.lock = TRUE, !.built = @ + 1].lock
           /\ [st EXCEPT !.lock = FALSE, !.bus = b] \in [bus : Nat, built : Nat, lock : BOOLEAN]
           /\ [st EXCEPT !.lock = FALSE, !.bus = b].bus = b
           /\ ~[st EXCEPT !.lock = FALSE, !.bus = b].lock
  <1>1. [st EXCEPT !.lock = TRUE, !.built = @ + 1] \in [bus : Nat, built : Nat, lock : BOOLEAN]
   <2> DEFINE n == st.built + 1
   <2>1. n \in Nat OBVIOUS
   <2> HIDE DEF n
   <2>2. [st EXCEPT !.lock = TRUE, !.built = n] \in [bus : Nat, built : Nat, lock : BOOLEAN] BY <2>1
   <2> QED BY <2>2 DEF n
  <1>2. [st EXCEPT !.lock = TRUE, !.built = @ + 1].bus = st.bus OBVIOUS
  <1>3. [st EXCEPT !.lock = TRUE, !.built = @ + 1].lock OBVIOUS
  <1>4. [st EXCEPT !.lock = FALSE, !.bus = b] \in [bus : Nat, built : Nat, lock : BOOLEAN] OBVIOUS
  <1>5. [st EXCEPT !.lock = FALSE, !.bus = b].bus = b OBVIOUS
  <1>6. ~[st EXCEPT !.lock = FALSE, !.bus = b].lock OBVIOUS
  <1> QED BY <1>1, <1>2, <1>3, <1>4, <1>5, <1>6

(* There is no second bus. *)
LEMMA OnlyBus ==
    ASSUME BusMade
    PROVE  /\ busState.bus # 0 => busState.bus = 1 /\ busState.bus \in Nat
           /\ busState.bus = 0 /\ ~busState.lock => busState.built + 1 = 1 /\ busState.built + 1 \in Nat
  <1>1. busState.bus \in {0, 1} BY DEF BusMade
  <1>2. busState.bus = 0 /\ ~busState.lock => busState.built = 0 BY DEF BusMade
  <1> QED BY <1>1, <1>2

(* Obtaining the bus and closing its client keep the invariant (get_event_bus, connect,
   disconnect). *)
LEMMA BusIsMade ==
    ASSUME BusInv, (\E p \in Publishers : BusFast(p) \/ BusWaits(p) \/ BusLocked(p) \/ BusConnected(p))
                       \/ BusDisconnect
    PROVE  BusInv'
  <1> USE DEF BusInv
  <1>1. /\ busPub \in [Publishers -> BusRec] /\ busState \in [bus : Nat, built : Nat, lock : BOOLEAN]
        /\ BusMade
    BY DEF BusShape
  <1>2. CASE BusDisconnect
   <2>1. BusMade' BY <1>1, <1>2 DEF BusDisconnect, BusMade
   <2>2. BusShape' /\ WalksAreSound' /\ StandingHandlersCalled' /\ LogHoldsLatest'
     BY <1>1, <1>2, PublicationsStay DEF BusDisconnect
   <2> QED BY <2>1, <2>2
  <1>3. ASSUME NEW p \in Publishers, BusFast(p) \/ BusWaits(p) \/ BusLocked(p) \/ BusConnected(p)
        PROVE  BusInv'
   <2>1. UNCHANGED <<busLists, busCur, busLog, busHist>>
     BY <1>3 DEF BusFast, BusWaits, BusLocked, BusConnected
   <2>2. CASE BusFast(p)
    <3>1. /\ busPub'[p].pc = "idle" /\ busPub'[p].bus = busState.bus /\ busPub' \in [Publishers -> BusRec]
          /\ ~Walking(busPub'[p]) /\ \A q \in Publishers \ {p} : busPub'[q] = busPub[q]
          /\ busState.bus = 1
     <4>1. busState.bus = 1 /\ busState.bus \in Nat BY <1>1, <2>2, OnlyBus DEF BusFast
     <4> QED BY <1>1, <2>2, <4>1, TakesBus DEF BusFast
    <3>2. BusMade' BY <1>1, <2>2, <3>1 DEF BusFast, BusMade
    <3> QED BY <1>1, <2>1, <2>2, <3>1, <3>2, PublicationsStay DEF BusFast
   <2>3. CASE BusWaits(p)
    <3>1. /\ busPub'[p].pc = "waiting" /\ busPub' \in [Publishers -> BusRec]
          /\ ~Walking(busPub'[p]) /\ \A q \in Publishers \ {p} : busPub'[q] = busPub[q]
      BY <1>1, <2>3 DEF BusWaits, GoesTo, BusRec, Walking
    <3>2. BusMade' BY <1>1, <2>3, <3>1 DEF BusWaits, BusMade
    <3> QED BY <1>1, <2>1, <2>3, <3>1, <3>2, PublicationsStay DEF BusWaits
   <2>4. CASE BusLocked(p)
    <3>1. CASE /\ busState.bus # 0
               /\ busPub' = [busPub EXCEPT ![p].pc = "idle", ![p].bus = busState.bus]
               /\ UNCHANGED <<busState, busRedis>>
     <4>1. /\ busPub'[p].pc = "idle" /\ busPub'[p].bus = busState.bus /\ busPub' \in [Publishers -> BusRec]
           /\ ~Walking(busPub'[p]) /\ \A q \in Publishers \ {p} : busPub'[q] = busPub[q]
           /\ busState.bus = 1
      <5>1. busState.bus = 1 /\ busState.bus \in Nat BY <1>1, <3>1, OnlyBus
      <5> QED BY <1>1, <3>1, <5>1, TakesBus
     <4>2. BusMade' BY <1>1, <3>1, <4>1 DEF BusMade
     <4> QED BY <1>1, <2>1, <3>1, <4>1, <4>2, PublicationsStay
    <3>2. CASE /\ busState.bus = 0 /\ ~busState.lock
               /\ busState' = [busState EXCEPT !.lock = TRUE, !.built = @ + 1]
               /\ busRedis' = "pinging"
               /\ busPub' = [busPub EXCEPT ![p].pc = "connecting", ![p].bus = busState.built + 1]
     <4>1. busState.built + 1 = 1 /\ busState.built + 1 \in Nat BY <1>1, <3>2, OnlyBus
     <4>2. /\ busPub'[p].pc = "connecting" /\ busPub'[p].bus = 1 /\ busPub' \in [Publishers -> BusRec]
           /\ ~Walking(busPub'[p]) /\ \A q \in Publishers \ {p} : busPub'[q] = busPub[q]
       BY <1>1, <3>2, <4>1, TakesBus
     <4>3. /\ busState'.bus = 0 /\ busState'.lock /\ busState' \in [bus : Nat, built : Nat, lock : BOOLEAN]
       BY <1>1, <3>2, LockMoves
     <4>4. BusMade' BY <1>1, <3>2, <4>2, <4>3 DEF BusMade
     <4> QED BY <2>1, <4>2, <4>3, <4>4, PublicationsStay
    <3> QED BY <2>4, <3>1, <3>2 DEF BusLocked
   <2>5. CASE BusConnected(p)
    <3>1. /\ busPub[p].pc = "connecting" /\ busPub[p].bus = 1
      BY <1>1, <2>5 DEF BusConnected, AtBus, BusMade
    <3>2. /\ busPub'[p].pc = "idle" /\ busPub'[p].bus = 1 /\ busPub' \in [Publishers -> BusRec]
          /\ ~Walking(busPub'[p]) /\ \A q \in Publishers \ {p} : busPub'[q] = busPub[q]
      BY <1>1, <2>5, <3>1 DEF BusConnected, GoesTo, BusRec, Walking
    <3>3. /\ busState'.bus = 1 /\ ~busState'.lock /\ busState' \in [bus : Nat, built : Nat, lock : BOOLEAN]
      BY <1>1, <2>5, <3>1, LockMoves DEF BusConnected
    <3>4. busRedis' # "pinging" BY <2>5 DEF BusConnected
    <3>5. BusMade' BY <1>1, <3>1, <3>2, <3>3, <3>4 DEF BusMade
    <3> QED BY <2>1, <3>2, <3>3, <3>5, PublicationsStay
   <2> QED BY <1>3, <2>2, <2>3, <2>4, <2>5
  <1> QED BY <1>2, <1>3

(* A function on the first numbers is a sequence. *)
LEMMA FunctionIsSeq ==
    ASSUME NEW S, NEW n \in Nat, NEW f \in [1..n -> S]
    PROVE  f \in Seq(S) /\ Len(f) = n /\ DOMAIN f = 1..n
  OBVIOUS

(* One more for one handler. *)
LEMMA TallyUp ==
    ASSUME NEW t \in Calling, NEW h \in Handlers
    PROVE  /\ [t EXCEPT ![h] = @ + 1] \in Calling /\ [t EXCEPT ![h] = @ + 1][h] = t[h] + 1
           /\ \A x \in Handlers \ {h} : [t EXCEPT ![h] = @ + 1][x] = t[x]
  BY DEF Calling

(* The list of a subscription gets longer, and so does what is offered to publications under
   way (EventBus.subscribe). *)
LEMMA SubscribeKeeps ==
    ASSUME BusInv, NEW h \in Handlers, Subscribe(h)
    PROVE  BusInv'
  <1> DEFINE off == [e \in DOMAIN busHist.offers |->
                        IF Running(e) THEN [busHist.offers[e] EXCEPT ![h] = @ + 1] ELSE busHist.offers[e]]
             list == Append(busLists[busCur], h)
  <1>1. /\ BusShape /\ BusMade /\ WalksAreSound /\ StandingHandlersCalled /\ LogHoldsLatest
    BY DEF BusInv
  <1>2. /\ busLists \in Seq(Seq(Handlers)) /\ busCur \in DOMAIN busLists /\ busPub \in [Publishers -> BusRec]
        /\ busHist \in BusHistory
        /\ Len(busHist.offers) = Len(busHist.calls) /\ Len(busHist.standing) = Len(busHist.calls)
        /\ \A k \in DOMAIN busHist.ended : busHist.ended[k] \in DOMAIN busHist.calls
    BY <1>1 DEF BusShape
  <1>3. /\ busHist.calls \in Seq(Calling) /\ busHist.offers \in Seq(Calling) /\ busHist.standing \in Seq(Calling)
        /\ busHist.ended \in Seq(Nat) /\ busHist.changes \in Nat
    BY <1>2 DEF BusHistory
  <1>4. off \in Seq(Calling) /\ Len(off) = Len(busHist.offers) /\ DOMAIN off = DOMAIN busHist.offers
   <2>1. Len(busHist.offers) \in Nat /\ DOMAIN busHist.offers = 1..Len(busHist.offers) BY <1>3
   <2>2. ASSUME NEW e \in 1..Len(busHist.offers)
         PROVE  off[e] \in Calling
    <3>1. busHist.offers[e] \in Calling BY <1>3, <2>2
    <3>2. [busHist.offers[e] EXCEPT ![h] = @ + 1] \in Calling BY <3>1, TallyUp
    <3> QED BY <2>1, <2>2, <3>1, <3>2
   <2>3. off \in [1..Len(busHist.offers) -> Calling] BY <2>1, <2>2
   <2> QED BY <2>1, <2>3, FunctionIsSeq
  <1>5. ASSUME NEW e \in DOMAIN busHist.offers, NEW x \in Handlers
        PROVE  /\ Running(e) => off[e][x] = busHist.offers[e][x] + (IF x = h THEN 1 ELSE 0)
               /\ ~Running(e) => off[e] = busHist.offers[e]
               /\ busHist.offers[e][x] \in Nat
   <2>1. busHist.offers[e] \in Calling BY <1>3, <1>5
   <2>2. busHist.offers[e][x] \in Nat BY <2>1 DEF Calling
   <2>3. CASE Running(e)
    <3>1. off[e] = [busHist.offers[e] EXCEPT ![h] = @ + 1] BY <1>5, <2>3
    <3> HIDE DEF off
    <3>2. off[e][x] = busHist.offers[e][x] + (IF x = h THEN 1 ELSE 0)
      BY <2>1, <2>2, <3>1 DEF Calling
    <3> QED BY <2>2, <2>3, <3>2
   <2>4. CASE ~Running(e) BY <1>5, <2>2, <2>4
   <2> QED BY <2>3, <2>4
  <1>6. busHist' = [busHist EXCEPT !.changes = @ + 1, !.offers = off] BY DEF Subscribe, Offered
  <1>7. /\ busHist'.calls = busHist.calls /\ busHist'.standing = busHist.standing
        /\ busHist'.ended = busHist.ended /\ busHist'.offers = off
    BY <1>2, <1>6 DEF BusHistory
  <1>8. busHist' \in BusHistory
   <2>1. busHist.changes + 1 \in Nat BY <1>3
   <2> HIDE DEF off
   <2> QED BY <1>2, <1>4, <1>6, <2>1 DEF BusHistory
  <1> HIDE DEF off
  <1>9. /\ busLists' = [busLists EXCEPT ![busCur] = list]
        /\ UNCHANGED <<busCur, busState, busRedis, busPub, busLog>>
    BY DEF Subscribe
  <1>10. /\ list \in Seq(Handlers) /\ busLists[busCur] \in Seq(Handlers)
         /\ Len(list) = Len(busLists[busCur]) + 1
    BY <1>2
  <1>11. /\ busLists' \in Seq(Seq(Handlers)) /\ DOMAIN busLists' = DOMAIN busLists
         /\ busLists'[busCur] = list /\ \A l \in DOMAIN busLists : l # busCur => busLists'[l] = busLists[l]
   <2> HIDE DEF list
   <2> QED BY <1>2, <1>9, <1>10
  <1>12. BusShape' BY <1>1, <1>2, <1>4, <1>7, <1>8, <1>9, <1>11 DEF BusShape
  <1>13. ASSUME NEW r \in BusRec, Walking(r), WalkSound(r)
         PROVE  WalkSound(r)'
   <2>1. /\ r.event \in DOMAIN busHist.calls /\ r.list \in DOMAIN busLists /\ r.i >= 1
         /\ Reached(r) <= Len(busLists[r.list]) /\ Running(r.event)
         /\ r.event \in DOMAIN busHist.offers /\ r.i \in Nat
     BY <1>2, <1>3, <1>13, SMTT(30) DEF WalkSound, BusRec
   <2>2. Reached(r) \in 0..Len(busLists[r.list]) /\ busLists[r.list] \in Seq(Handlers)
     BY <1>2, <2>1, SMTT(30) DEF Reached
   <2>3. Running(r.event)' BY <1>7, <2>1 DEF Running
   <2>4. ASSUME NEW x \in Handlers
         PROVE  /\ Len(busLists[r.list]) <= Len(busLists'[r.list])
                /\ CountTo(busLists'[r.list], Reached(r), x) = CountTo(busLists[r.list], Reached(r), x)
                /\ Count(busLists[r.list], x) <= Count(busLists'[r.list], x)
                /\ Count(busLists'[r.list], x) <= Count(busLists[r.list], x) + (IF x = h THEN 1 ELSE 0)
                /\ Count(busLists[r.list], x) \in Nat /\ Count(busLists'[r.list], x) \in Nat
    <3>1. CASE r.list = busCur
     <4>1. /\ Count(busLists[busCur], x) \in Nat
           /\ Count(list, x) = Count(busLists[busCur], x) + (IF h = x THEN 1 ELSE 0)
           /\ \A n \in 0..Len(busLists[busCur]) : CountTo(list, n, x) = CountTo(busLists[busCur], n, x)
       BY <1>10, CountAppended
     <4>2. Len(busLists[busCur]) \in Nat BY <1>10
     <4> HIDE DEF list
     <4> QED BY <1>10, <1>11, <2>2, <3>1, <4>1, <4>2
    <3>2. CASE r.list # busCur
     <4>1. busLists'[r.list] = busLists[r.list] BY <1>11, <2>1, <3>2
     <4>2. Count(busLists[r.list], x) \in Nat /\ Len(busLists[r.list]) \in Nat
       BY <2>2, CountAppended
     <4> QED BY <4>1, <4>2
    <3> QED BY <3>1, <3>2
   <2>5. ASSUME NEW x \in Handlers
         PROVE  /\ busHist.calls[r.event][x] = CountTo(busLists'[r.list], Reached(r), x)
                /\ busHist.standing[r.event][x] <= Count(busLists'[r.list], x)
                /\ Count(busLists'[r.list], x) <= off[r.event][x]
    <3>1. /\ busHist.calls[r.event][x] = CountTo(busLists[r.list], Reached(r), x)
          /\ busHist.standing[r.event][x] <= Count(busLists[r.list], x)
          /\ Count(busLists[r.list], x) <= busHist.offers[r.event][x]
      BY <1>13 DEF WalkSound
    <3>2. /\ off[r.event][x] = busHist.offers[r.event][x] + (IF x = h THEN 1 ELSE 0)
          /\ busHist.offers[r.event][x] \in Nat
      BY <1>5, <2>1
    <3>3. busHist.standing[r.event][x] \in Nat
     <4>1. r.event \in DOMAIN busHist.standing BY <1>2, <1>3, <2>1
     <4>2. busHist.standing[r.event] \in Calling BY <1>3, <4>1
     <4> QED BY <4>2 DEF Calling
    <3> QED BY <2>4, <3>1, <3>2, <3>3
   <2>6. Reached(r) <= Len(busLists'[r.list])
    <3>1. Reached(r) \in Nat /\ Len(busLists[r.list]) \in Nat /\ Len(busLists'[r.list]) \in Nat
      BY <1>11, <2>1, <2>2
    <3>2. Len(busLists[r.list]) <= Len(busLists'[r.list]) BY <2>4
    <3> QED BY <2>1, <3>1, <3>2
   <2> QED BY <1>7, <1>11, <2>1, <2>3, <2>5, <2>6 DEF WalkSound
  <1>14. WalksAreSound'
   <2>1. ASSUME NEW p \in Publishers, Walking(busPub[p]) PROVE WalkSound(busPub[p])'
    <3>1. busPub[p] \in BusRec /\ WalkSound(busPub[p]) /\ busPub'[p] = busPub[p]
      BY <1>1, <1>2, <1>9, <2>1 DEF WalksAreSound
    <3> QED BY <1>13, <2>1, <3>1 DEF WalkSound, Reached
   <2> QED BY <1>1, <1>9, <2>1 DEF WalksAreSound
  <1>15. StandingHandlersCalled'
   <2>1. ASSUME NEW k \in DOMAIN busHist.ended, NEW x \in Handlers
         PROVE  LET e == busHist.ended[k] IN
                busHist.standing[e][x] <= busHist.calls[e][x] /\ busHist.calls[e][x] <= off[e][x]
    <3> DEFINE e == busHist.ended[k]
    <3>1. ~Running(e) /\ e \in DOMAIN busHist.offers BY <1>2, <1>3, <2>1, SMTT(30) DEF Running
    <3>2. off[e] = busHist.offers[e] BY <1>5, <3>1
    <3> QED BY <1>1, <2>1, <3>2 DEF StandingHandlersCalled
   <2> QED BY <1>7, <2>1 DEF StandingHandlersCalled
  <1>16. BusMade' /\ LogHoldsLatest' BY <1>1, <1>7, <1>9, MadeKept DEF LogHoldsLatest
  <1> QED BY <1>12, <1>14, <1>15, <1>16 DEF BusInv

(* What a publication has done stays done when its list and its counts do. *)
LEMMA WalkStays ==
    ASSUME NEW r, WalkSound(r), r.event \in DOMAIN busHist'.calls, r.list \in DOMAIN busLists',
           busLists'[r.list] = busLists[r.list], Running(r.event)',
           busHist'.calls[r.event] = busHist.calls[r.event],
           busHist'.offers[r.event] = busHist.offers[r.event],
           \A x \in Handlers : busHist'.standing[r.event][x] <= Count(busLists[r.list], x)
    PROVE  WalkSound(r)'
  BY DEF WalkSound

(* A new list leaves those that are walked alone, and what no longer stands is not owed
   (EventBus.unsubscribe). *)
LEMMA UnsubscribeKeeps ==
    ASSUME BusInv, NEW h \in Handlers, Unsubscribe(h)
    PROVE  BusInv'
  <1> DEFINE st == Standing(h)
             list == Without(busLists[busCur], h)
  <1>1. /\ BusShape /\ BusMade /\ WalksAreSound /\ StandingHandlersCalled /\ LogHoldsLatest
    BY DEF BusInv
  <1>2. /\ busLists \in Seq(Seq(Handlers)) /\ busCur \in DOMAIN busLists /\ busPub \in [Publishers -> BusRec]
        /\ busHist \in BusHistory
        /\ Len(busHist.offers) = Len(busHist.calls) /\ Len(busHist.standing) = Len(busHist.calls)
        /\ \A k \in DOMAIN busHist.ended : busHist.ended[k] \in DOMAIN busHist.calls
    BY <1>1 DEF BusShape
  <1>3. /\ busHist.calls \in Seq(Calling) /\ busHist.offers \in Seq(Calling) /\ busHist.standing \in Seq(Calling)
        /\ busHist.ended \in Seq(Nat) /\ busHist.changes \in Nat
    BY <1>2 DEF BusHistory
  <1>4. ASSUME NEW e \in DOMAIN busHist.standing
        PROVE  /\ st[e] \in Calling /\ busHist.standing[e] \in Calling
               /\ \A x \in Handlers : st[e][x] = IF Running(e) /\ x = h THEN 0 ELSE busHist.standing[e][x]
               /\ ~Running(e) => st[e] = busHist.standing[e]
   <2>1. busHist.standing[e] \in Calling BY <1>3, <1>4
   <2>2. [busHist.standing[e] EXCEPT ![h] = 0] \in Calling BY <2>1 DEF Calling
   <2> QED BY <1>4, <2>1, <2>2 DEF Standing, Calling
  <1>5. st \in Seq(Calling) /\ Len(st) = Len(busHist.standing) /\ DOMAIN st = DOMAIN busHist.standing
   <2>1. Len(busHist.standing) \in Nat /\ DOMAIN busHist.standing = 1..Len(busHist.standing) BY <1>3
   <2>2. st = [e \in 1..Len(busHist.standing) |-> st[e]] BY <2>1 DEF Standing
   <2> HIDE DEF st
   <2>3. st \in [1..Len(busHist.standing) -> Calling] BY <1>4, <2>1, <2>2
   <2> QED BY <2>1, <2>3, FunctionIsSeq
  <1>6. busHist' = [busHist EXCEPT !.changes = @ + 1, !.standing = st] BY DEF Unsubscribe, Withdrawn
  <1> HIDE DEF st
  <1>7. /\ busHist'.calls = busHist.calls /\ busHist'.offers = busHist.offers
        /\ busHist'.ended = busHist.ended /\ busHist'.standing = st
    BY <1>2, <1>6 DEF BusHistory
  <1>8. busHist' \in BusHistory
   <2>1. busHist.changes + 1 \in Nat BY <1>3
   <2> QED BY <1>2, <1>5, <1>6, <2>1 DEF BusHistory
  <1>9. /\ busLists' = Append(busLists, list) /\ busCur' = Len(busLists) + 1
        /\ UNCHANGED <<busState, busRedis, busPub, busLog>>
    BY DEF Unsubscribe
  <1>10. list \in Seq(Handlers)
   <2>1. busLists[busCur] \in Seq(Handlers) BY <1>2
   <2> QED BY <2>1, WithoutType
  <1>11. /\ busLists' \in Seq(Seq(Handlers)) /\ busCur' \in DOMAIN busLists'
         /\ \A l \in DOMAIN busLists : l \in DOMAIN busLists' /\ busLists'[l] = busLists[l]
   <2> HIDE DEF list
   <2> QED BY <1>2, <1>9, <1>10
  <1>12. BusShape' BY <1>1, <1>2, <1>5, <1>7, <1>8, <1>9, <1>11 DEF BusShape
  <1>13. ASSUME NEW r \in BusRec, WalkSound(r)
         PROVE  WalkSound(r)'
   <2>1. /\ r.event \in DOMAIN busHist.calls /\ r.list \in DOMAIN busLists /\ Running(r.event)
         /\ \A x \in Handlers : busHist.standing[r.event][x] <= Count(busLists[r.list], x)
     BY <1>13 DEF WalkSound
   <2>2. Running(r.event)' /\ r.event \in DOMAIN busHist.standing
     BY <1>2, <1>3, <1>7, <2>1 DEF Running
   <2>3. ASSUME NEW x \in Handlers
         PROVE  st[r.event][x] <= Count(busLists[r.list], x)
    <3>1. busLists[r.list] \in Seq(Handlers) BY <1>2, <2>1
    <3>2. Count(busLists[r.list], x) \in Nat BY <3>1, CountAppended
    <3> QED BY <1>4, <2>1, <2>2, <3>2
   <2> QED BY <1>7, <1>11, <1>13, <2>1, <2>2, <2>3, WalkStays
  <1>14. WalksAreSound'
   <2>1. ASSUME NEW p \in Publishers, Walking(busPub[p]) PROVE WalkSound(busPub[p])'
    <3>1. busPub[p] \in BusRec /\ WalkSound(busPub[p]) /\ busPub'[p] = busPub[p]
      BY <1>1, <1>2, <1>9, <2>1 DEF WalksAreSound
    <3> QED BY <1>13, <2>1, <3>1 DEF WalkSound, Reached
   <2> QED BY <1>1, <1>9, <2>1 DEF WalksAreSound
  <1>15. StandingHandlersCalled'
   <2>1. ASSUME NEW k \in DOMAIN busHist.ended
         PROVE  st[busHist.ended[k]] = busHist.standing[busHist.ended[k]]
    <3>1. ~Running(busHist.ended[k]) /\ busHist.ended[k] \in DOMAIN busHist.standing
      BY <1>2, <1>3, <2>1, SMTT(30) DEF Running
    <3> QED BY <1>4, <3>1
   <2> QED BY <1>1, <1>7, <2>1 DEF StandingHandlersCalled
  <1>16. BusMade' /\ LogHoldsLatest' BY <1>1, <1>7, <1>9, MadeKept DEF LogHoldsLatest
  <1> QED BY <1>12, <1>14, <1>15, <1>16 DEF BusInv

(* What a sequence is after an append. *)
LEMMA Appended ==
    ASSUME NEW S, NEW s \in Seq(S), NEW e \in S, NEW n, n = Len(s)
    PROVE  /\ n \in Nat /\ DOMAIN s = 1..n /\ DOMAIN Append(s, e) = 1..(n + 1)
           /\ Append(s, e) \in Seq(S) /\ Len(Append(s, e)) = n + 1 /\ Append(s, e)[n + 1] = e
           /\ \A i \in 1..n : Append(s, e)[i] = s[i]
  OBVIOUS

(* A publication starts at the head of the list and owes it what it holds
   (EventBus.publish). *)
LEMMA PublishKeeps ==
    ASSUME BusInv, NEW p \in Publishers, Publish(p)
    PROVE  BusInv'
  <1> DEFINE all == Counts(busLists[busCur])
  <1>0. SUFFICES ASSUME NEW n, n = Len(busHist.calls), NEW r,
                        r = [busPub[p] EXCEPT !.pc = "walking", !.event = n + 1, !.list = busCur, !.i = 1]
                 PROVE  BusInv'
    OBVIOUS
  <1>1. /\ BusShape /\ BusMade /\ WalksAreSound /\ StandingHandlersCalled /\ LogHoldsLatest
    BY DEF BusInv
  <1>2. /\ busLists \in Seq(Seq(Handlers)) /\ busCur \in DOMAIN busLists /\ busPub \in [Publishers -> BusRec]
        /\ busHist \in BusHistory
        /\ Len(busHist.offers) = n /\ Len(busHist.standing) = n
        /\ \A k \in DOMAIN busHist.ended : busHist.ended[k] \in DOMAIN busHist.calls
    BY <1>0, <1>1 DEF BusShape
  <1>3. /\ busHist.calls \in Seq(Calling) /\ busHist.offers \in Seq(Calling) /\ busHist.standing \in Seq(Calling)
        /\ busHist.ended \in Seq(Nat) /\ n \in Nat /\ DOMAIN busHist.calls = 1..n
    BY <1>0, <1>2 DEF BusHistory
  <1>4. busLists[busCur] \in Seq(Handlers) /\ busCur \in Nat BY <1>2
  <1>5. all \in Calling /\ None \in Calling /\ \A x \in Handlers : all[x] = Count(busLists[busCur], x) /\ None[x] = 0
   <2>1. \A x \in Handlers : Count(busLists[busCur], x) \in Nat BY <1>4, CountAppended
   <2> QED BY <2>1 DEF Counts, None, Calling
  <1>6. busHist' = [busHist EXCEPT !.calls = Append(@, None), !.offers = Append(@, all),
                                   !.standing = Append(@, all)]
    BY DEF Publish
  <1>7. /\ busPub' = [busPub EXCEPT ![p] = r]
        /\ UNCHANGED <<busLists, busCur, busState, busRedis, busLog>>
        /\ busPub[p].pc = "idle" /\ busPub[p] \in BusRec
    BY <1>0, <1>2 DEF Publish, AtBus
  <1>8. /\ r \in BusRec /\ r.pc = "walking" /\ r.event = n + 1 /\ r.list = busCur /\ r.i = 1
        /\ r.bus = busPub[p].bus
   <2> DEFINE e == n + 1
              l == busCur
              b == busPub[p]
   <2>1. e \in Nat /\ l \in Nat /\ b \in BusRec BY <1>3, <1>4, <1>7
   <2>2. r = [b EXCEPT !.pc = "walking", !.event = e, !.list = l, !.i = 1] BY <1>0
   <2>3. r \in BusRec /\ r.pc = "walking" /\ r.event = e /\ r.list = l /\ r.i = 1 /\ r.bus = b.bus
    <3> HIDE DEF e, l, b
    <3>1. r = [f \in {"pc", "bus", "event", "list", "i"} |->
                  IF f = "pc" THEN "walking" ELSE IF f = "event" THEN e ELSE IF f = "list" THEN l
                  ELSE IF f = "i" THEN 1 ELSE b[f]]
      BY <2>1, <2>2 DEF BusRec
    <3>2. b.bus \in Nat BY <2>1 DEF BusRec
    <3> QED BY <2>1, <3>1, <3>2 DEF BusRec
   <2> QED BY <2>3
  <1> HIDE DEF all
  <1>9. /\ busPub'[p] = r /\ busPub' \in [Publishers -> BusRec]
        /\ \A q \in Publishers \ {p} : busPub'[q] = busPub[q]
    BY <1>2, <1>7, <1>8
  <1>10. /\ busHist'.calls = Append(busHist.calls, None) /\ busHist'.offers = Append(busHist.offers, all)
         /\ busHist'.standing = Append(busHist.standing, all) /\ busHist'.ended = busHist.ended
    BY <1>2, <1>6 DEF BusHistory
  <1>11. busHist' \in BusHistory
   <2> DEFINE c == Append(busHist.calls, None)
              o == Append(busHist.offers, all)
              t == Append(busHist.standing, all)
   <2>1. c \in Seq(Calling) /\ o \in Seq(Calling) /\ t \in Seq(Calling) BY <1>3, <1>5, Appended
   <2>2. busHist' = [busHist EXCEPT !.calls = c, !.offers = o, !.standing = t] BY <1>6
   <2> HIDE DEF c, o, t
   <2> QED BY <1>2, <2>1, <2>2 DEF BusHistory
  <1>12. /\ DOMAIN busHist'.calls = 1..(n + 1) /\ busHist'.calls[n + 1] = None
         /\ busHist'.offers[n + 1] = all /\ busHist'.standing[n + 1] = all
         /\ Len(busHist'.calls) = n + 1 /\ Len(busHist'.offers) = n + 1 /\ Len(busHist'.standing) = n + 1
         /\ \A e \in 1..n : /\ busHist'.calls[e] = busHist.calls[e]
                            /\ busHist'.offers[e] = busHist.offers[e]
                            /\ busHist'.standing[e] = busHist.standing[e]
   <2>1. /\ DOMAIN busHist'.calls = 1..(n + 1) /\ Len(busHist'.calls) = n + 1 /\ busHist'.calls[n + 1] = None
         /\ \A e \in 1..n : busHist'.calls[e] = busHist.calls[e]
     BY <1>0, <1>3, <1>5, <1>10, Appended
   <2>2. /\ Len(busHist'.offers) = n + 1 /\ busHist'.offers[n + 1] = all
         /\ \A e \in 1..n : busHist'.offers[e] = busHist.offers[e]
    <3>1. n = Len(busHist.offers) BY <1>2
    <3> QED BY <1>3, <1>5, <1>10, <3>1, Appended
   <2>3. /\ Len(busHist'.standing) = n + 1 /\ busHist'.standing[n + 1] = all
         /\ \A e \in 1..n : busHist'.standing[e] = busHist.standing[e]
    <3>1. n = Len(busHist.standing) BY <1>2
    <3> QED BY <1>3, <1>5, <1>10, <3>1, Appended
   <2> QED BY <2>1, <2>2, <2>3
  <1>13. BusShape' BY <1>1, <1>2, <1>3, <1>7, <1>9, <1>10, <1>11, <1>12 DEF BusShape
  <1>14. ASSUME NEW q \in BusRec, WalkSound(q)
         PROVE  WalkSound(q)'
   <2>1. /\ q.event \in 1..n /\ q.list \in DOMAIN busLists /\ Running(q.event)
         /\ \A x \in Handlers : busHist.standing[q.event][x] <= Count(busLists[q.list], x)
     BY <1>3, <1>14 DEF WalkSound
   <2>2. Running(q.event)' /\ q.event \in DOMAIN busHist'.calls
     BY <1>3, <1>10, <1>12, <2>1 DEF Running
   <2> QED BY <1>7, <1>12, <1>14, <2>1, <2>2, WalkStays
  <1>15. WalkSound(r)'
   <2>1. Reached(r) = 0 BY <1>8 DEF Reached
   <2>2. Running(n + 1)' BY <1>2, <1>3, <1>10 DEF Running
   <2>3. \A x \in Handlers : Count(busLists[busCur], x) \in Nat /\ CountTo(busLists[busCur], 0, x) = 0
     BY <1>4, CountAppended, CountType
   <2>4. Len(busLists[busCur]) \in Nat BY <1>4
   <2> QED BY <1>2, <1>5, <1>7, <1>8, <1>12, <2>1, <2>2, <2>3, <2>4 DEF WalkSound
  <1>16. WalksAreSound'
   <2>1. ASSUME NEW q \in Publishers, Walking(busPub'[q]) PROVE WalkSound(busPub[q])'
    <3>1. CASE q = p BY <1>9, <1>15, <3>1 DEF WalkSound, Reached
    <3>2. CASE q # p
     <4>1. busPub[q] \in BusRec /\ WalkSound(busPub[q]) /\ busPub'[q] = busPub[q]
       BY <1>1, <1>2, <1>9, <2>1, <3>2 DEF WalksAreSound
     <4> QED BY <1>14, <4>1 DEF WalkSound, Reached
    <3> QED BY <3>1, <3>2
   <2>2. ASSUME NEW q \in Publishers \ {p}, Walking(busPub[q]) PROVE busPub[q].event # n + 1
    <3>1. busPub[q].event \in 1..n BY <1>1, <1>3, <2>2 DEF WalksAreSound, WalkSound
    <3> QED BY <1>3, <3>1
   <2> QED BY <1>1, <1>8, <1>9, <2>1, <2>2 DEF WalksAreSound
  <1>17. StandingHandlersCalled'
   <2>1. \A k \in DOMAIN busHist.ended : busHist.ended[k] \in 1..n BY <1>2, <1>3
   <2>2. ASSUME NEW k \in DOMAIN busHist.ended
         PROVE  LET e == busHist.ended[k] IN
                /\ busHist'.calls[e] = busHist.calls[e] /\ busHist'.offers[e] = busHist.offers[e]
                /\ busHist'.standing[e] = busHist.standing[e]
     BY <1>12, <2>1
   <2> QED BY <1>1, <1>10, <2>2, ZenonT(60) DEF StandingHandlersCalled
  <1>18. BusMade' BY <1>1, <1>7, <1>8, <1>9, MadeKept DEF Served
  <1>19. LogHoldsLatest' BY <1>1, <1>7, <1>10 DEF LogHoldsLatest
  <1> QED BY <1>13, <1>16, <1>17, <1>18, <1>19 DEF BusInv

(* The handler that is called is the next one in the list (EventBus.publish). *)
LEMMA CallKeeps ==
    ASSUME BusInv, NEW p \in Publishers, CallHandler(p)
    PROVE  BusInv'
  <1>0. SUFFICES ASSUME NEW r, r = busPub[p], NEW x, x = busLists[r.list][r.i],
                        NEW n, n = Len(busHist.calls)
                 PROVE  BusInv'
    OBVIOUS
  <1> DEFINE e == r.event
             row == [busHist.calls[e] EXCEPT ![x] = @ + 1]
             cs == [busHist.calls EXCEPT ![e] = row]
  <1>1. /\ BusShape /\ BusMade /\ WalksAreSound /\ StandingHandlersCalled /\ LogHoldsLatest
    BY DEF BusInv
  <1>2. /\ busLists \in Seq(Seq(Handlers)) /\ busCur \in DOMAIN busLists /\ busPub \in [Publishers -> BusRec]
        /\ busHist \in BusHistory
        /\ Len(busHist.offers) = n /\ Len(busHist.standing) = n
        /\ \A k \in DOMAIN busHist.ended : busHist.ended[k] \in DOMAIN busHist.calls
    BY <1>0, <1>1 DEF BusShape
  <1>3. /\ busHist.calls \in Seq(Calling) /\ busHist.offers \in Seq(Calling) /\ busHist.standing \in Seq(Calling)
        /\ busHist.ended \in Seq(Nat) /\ n \in Nat /\ DOMAIN busHist.calls = 1..n
    BY <1>0, <1>2 DEF BusHistory
  <1>4. /\ r.pc = "walking" /\ r.i <= Len(busLists[r.list]) /\ r \in BusRec
        /\ GoesTo(p, "awaiting") /\ UNCHANGED <<busLists, busCur, busState, busRedis, busLog>>
    BY <1>0, <1>2 DEF CallHandler, AtBus
  <1>5. busHist' = [busHist EXCEPT !.calls = cs] BY <1>0 DEF CallHandler
  <1>6. WalkSound(r) /\ Walking(r) /\ Reached(r) = r.i - 1
    BY <1>0, <1>1, <1>4 DEF WalksAreSound, Walking, Reached
  <1>7. /\ e \in 1..n /\ r.list \in DOMAIN busLists /\ r.i >= 1 /\ Running(e) /\ r.i \in Nat
        /\ r.i \in 1..Len(busLists[r.list]) /\ busLists[r.list] \in Seq(Handlers) /\ x \in Handlers
   <2>1. /\ e \in 1..n /\ r.list \in DOMAIN busLists /\ r.i >= 1 /\ Running(e) /\ r.i \in Nat
     BY <1>3, <1>4, <1>6 DEF WalkSound, BusRec
   <2>2. busLists[r.list] \in Seq(Handlers) BY <1>2, <2>1
   <2>3. r.i \in 1..Len(busLists[r.list]) BY <1>4, <2>1, <2>2
   <2> QED BY <1>0, <2>1, <2>2, <2>3
  <1>8. /\ row \in Calling /\ busHist.calls[e] \in Calling /\ row[x] = busHist.calls[e][x] + 1
        /\ \A y \in Handlers \ {x} : row[y] = busHist.calls[e][y]
   <2>1. busHist.calls[e] \in Calling BY <1>3, <1>7
   <2> QED BY <1>7, <2>1, TallyUp, ZenonT(60)
  <1> HIDE DEF row
  <1>9. /\ cs \in Seq(Calling) /\ Len(cs) = n /\ DOMAIN cs = 1..n /\ cs[e] = row
        /\ \A f \in 1..n : f # e => cs[f] = busHist.calls[f]
   <2> HIDE DEF e
   <2> QED BY <1>0, <1>3, <1>7, <1>8
  <1> HIDE DEF cs
  <1>10. /\ busHist'.calls = cs /\ busHist'.offers = busHist.offers
         /\ busHist'.standing = busHist.standing /\ busHist'.ended = busHist.ended
    BY <1>2, <1>5 DEF BusHistory
  <1>11. busHist' \in BusHistory BY <1>2, <1>5, <1>9 DEF BusHistory
  <1>12. SUFFICES ASSUME NEW u, u = [r EXCEPT !.pc = "awaiting"]
                  PROVE  BusInv'
    OBVIOUS
  <1>13. /\ u \in BusRec /\ u.pc = "awaiting" /\ u.event = e /\ u.list = r.list /\ u.i = r.i /\ u.bus = r.bus
    BY <1>4, <1>12 DEF BusRec
  <1>14. /\ busPub' \in [Publishers -> BusRec] /\ busPub'[p] = u
         /\ \A q \in Publishers \ {p} : busPub'[q] = busPub[q]
   <2>1. busPub' = [busPub EXCEPT ![p] = u] BY <1>0, <1>2, <1>4, <1>12 DEF GoesTo
   <2> QED BY <1>2, <1>13, <2>1
  <1>15. BusShape' BY <1>1, <1>2, <1>3, <1>4, <1>9, <1>10, <1>11, <1>14 DEF BusShape
  <1>16. ASSUME NEW q \in BusRec, WalkSound(q), q.event # e
         PROVE  WalkSound(q)'
   <2>1. /\ q.event \in 1..n /\ q.list \in DOMAIN busLists /\ Running(q.event)
         /\ \A y \in Handlers : busHist.standing[q.event][y] <= Count(busLists[q.list], y)
     BY <1>3, <1>16 DEF WalkSound
   <2>2. Running(q.event)' /\ q.event \in DOMAIN busHist'.calls BY <1>9, <1>10, <2>1 DEF Running
   <2> QED BY <1>4, <1>9, <1>10, <1>16, <2>1, <2>2, WalkStays
  <1>17. WalkSound(u)'
   <2>1. Reached(u) = r.i /\ r.i = (r.i - 1) + 1 /\ r.i - 1 \in Nat BY <1>7, <1>13 DEF Reached
   <2>2. Running(e)' BY <1>7, <1>10 DEF Running
   <2>3. ASSUME NEW y \in Handlers
         PROVE  row[y] = CountTo(busLists[r.list], r.i, y)
    <3>1. busHist.calls[e][y] = CountTo(busLists[r.list], r.i - 1, y) BY <1>6 DEF WalkSound
    <3>2. CountTo(busLists[r.list], r.i, y) =
              CountTo(busLists[r.list], r.i - 1, y) + (IF busLists[r.list][r.i] = y THEN 1 ELSE 0)
      BY <2>1, CountNext
    <3>3. CountTo(busLists[r.list], r.i - 1, y) \in Nat BY <2>1, CountType
    <3>4. CASE y = x
     <4>1. row[y] = busHist.calls[e][y] + 1 BY <1>8, <3>4
     <4>2. busLists[r.list][r.i] = y BY <1>0, <3>4
     <4> QED BY <3>1, <3>2, <4>1, <4>2
    <3>5. CASE y # x
     <4>1. row[y] = busHist.calls[e][y] BY <1>8, <3>5
     <4>2. busLists[r.list][r.i] # y BY <1>0, <3>5
     <4> QED BY <3>1, <3>2, <3>3, <4>1, <4>2
    <3> QED BY <3>4, <3>5
   <2>4. ASSUME NEW y \in Handlers
         PROVE  /\ busHist.standing[e][y] <= Count(busLists[r.list], y)
                /\ Count(busLists[r.list], y) <= busHist.offers[e][y]
     BY <1>6 DEF WalkSound
   <2>5. /\ u.event \in DOMAIN cs /\ u.list \in DOMAIN busLists /\ u.i >= 1
         /\ Reached(u) <= Len(busLists[u.list])
     BY <1>4, <1>7, <1>9, <1>13, <2>1
   <2> QED BY <1>4, <1>9, <1>10, <1>13, <2>1, <2>2, <2>3, <2>4, <2>5 DEF WalkSound
  <1>18. WalksAreSound'
   <2>1. ASSUME NEW q \in Publishers, Walking(busPub'[q]) PROVE WalkSound(busPub[q])'
    <3>1. CASE q = p BY <1>14, <1>17, <3>1 DEF WalkSound, Reached
    <3>2. CASE q # p
     <4>1. busPub[q] \in BusRec /\ WalkSound(busPub[q]) /\ busPub'[q] = busPub[q] /\ busPub[q].event # e
       BY <1>0, <1>1, <1>2, <1>6, <1>14, <2>1, <3>2 DEF WalksAreSound
     <4> QED BY <1>16, <4>1 DEF WalkSound, Reached
    <3> QED BY <3>1, <3>2
   <2>2. \A q \in Publishers : busPub'[q].event = busPub[q].event /\ (Walking(busPub'[q]) <=> Walking(busPub[q]))
     BY <1>0, <1>4, <1>13, <1>14 DEF Walking
   <2> QED BY <1>1, <2>1, <2>2 DEF WalksAreSound
  <1>19. StandingHandlersCalled'
   <2>1. \A k \in DOMAIN busHist.ended : busHist.ended[k] \in 1..n /\ busHist.ended[k] # e
     BY <1>2, <1>3, <1>7 DEF Running
   <2>2. \A k \in DOMAIN busHist.ended : cs[busHist.ended[k]] = busHist.calls[busHist.ended[k]]
     BY <1>9, <2>1
   <2> QED BY <1>1, <1>10, <2>2 DEF StandingHandlersCalled
  <1>20. BusMade' BY <1>0, <1>1, <1>4, <1>13, <1>14, MadeKept DEF Served
  <1>21. LogHoldsLatest' BY <1>1, <1>4, <1>10 DEF LogHoldsLatest
  <1> QED BY <1>15, <1>18, <1>19, <1>20, <1>21 DEF BusInv

(* A handler that returns or raises has been called (EventBus.publish). *)
LEMMA HandlerEndKeeps ==
    ASSUME BusInv, NEW p \in Publishers, HandlerEnds(p)
    PROVE  BusInv'
  <1>1. /\ BusShape /\ BusMade /\ WalksAreSound /\ StandingHandlersCalled /\ LogHoldsLatest
    BY DEF BusInv
  <1>2. busPub \in [Publishers -> BusRec] BY <1>1 DEF BusShape
  <1>3. SUFFICES ASSUME NEW r, r = busPub[p], NEW u, u = [r EXCEPT !.pc = "walking", !.i = @ + 1]
                 PROVE  BusInv'
    OBVIOUS
  <1>4. /\ r \in BusRec /\ r.pc = "awaiting" /\ busPub' = [busPub EXCEPT ![p] = u]
        /\ UNCHANGED <<busLists, busCur, busState, busRedis, busLog, busHist>>
    BY <1>2, <1>3 DEF HandlerEnds, AtBus
  <1>5. /\ u \in BusRec /\ u.pc = "walking" /\ u.event = r.event /\ u.list = r.list /\ u.i = r.i + 1
        /\ u.bus = r.bus /\ r.i \in Nat
   <2> DEFINE i == r.i + 1
   <2>1. r.i \in Nat /\ i \in Nat BY <1>4 DEF BusRec
   <2>2. u = [r EXCEPT !.pc = "walking", !.i = i] BY <1>3
   <2> HIDE DEF i
   <2>3. /\ u \in BusRec /\ u.pc = "walking" /\ u.event = r.event /\ u.list = r.list /\ u.i = i
         /\ u.bus = r.bus
     BY <1>4, <2>1, <2>2 DEF BusRec
   <2> QED BY <2>1, <2>3 DEF i
  <1>6. /\ busPub' \in [Publishers -> BusRec] /\ busPub'[p] = u
        /\ \A q \in Publishers \ {p} : busPub'[q] = busPub[q]
    BY <1>2, <1>4, <1>5
  <1>7. BusShape' BY <1>1, <1>4, <1>6 DEF BusShape
  <1>8. ASSUME NEW q, WalkSound(q)
        PROVE  WalkSound(q)'
    BY <1>4, <1>8 DEF WalkSound, Running
  <1>9. WalkSound(u)'
   <2>1. WalkSound(r) BY <1>1, <1>3, <1>4 DEF WalksAreSound, Walking
   <2>2. Reached(u) = Reached(r) /\ u.i >= 1 BY <1>4, <1>5, <2>1 DEF Reached, WalkSound
   <2>3. WalkSound(u) BY <1>5, <2>1, <2>2 DEF WalkSound
   <2> QED BY <1>8, <2>3
  <1>10. WalksAreSound'
   <2>1. ASSUME NEW q \in Publishers, Walking(busPub'[q]) PROVE WalkSound(busPub[q])'
    <3>1. CASE q = p BY <1>6, <1>9, <3>1 DEF WalkSound, Reached
    <3>2. CASE q # p
     <4>1. WalkSound(busPub[q]) /\ busPub'[q] = busPub[q]
       BY <1>1, <1>6, <2>1, <3>2 DEF WalksAreSound
     <4> QED BY <1>8, <4>1 DEF WalkSound, Reached
    <3> QED BY <3>1, <3>2
   <2>2. \A q \in Publishers : busPub'[q].event = busPub[q].event /\ (Walking(busPub'[q]) <=> Walking(busPub[q]))
     BY <1>3, <1>4, <1>5, <1>6 DEF Walking
   <2> QED BY <1>1, <2>1, <2>2 DEF WalksAreSound
  <1>11. BusMade' BY <1>1, <1>3, <1>4, <1>5, <1>6, MadeKept DEF Served
  <1>12. StandingHandlersCalled' /\ LogHoldsLatest'
    BY <1>1, <1>4 DEF StandingHandlersCalled, LogHoldsLatest
  <1> QED BY <1>7, <1>10, <1>11, <1>12 DEF BusInv

\* Where the last m entries of n begin.
From(n, m) == IF n > m THEN n - m + 1 ELSE 1

\* The last m entries of a sequence.
LastOf(s, m) == SubSeq(s, From(Len(s), m), Len(s))

(* What a part of a sequence holds. *)
LEMMA SliceHolds ==
    ASSUME NEW S, NEW s \in Seq(S), NEW a \in Nat \ {0}, a <= Len(s) + 1
    PROVE  /\ SubSeq(s, a, Len(s)) \in Seq(S)
           /\ Len(SubSeq(s, a, Len(s))) = Len(s) - a + 1
           /\ \A i \in 1..(Len(s) - a + 1) : SubSeq(s, a, Len(s))[i] = s[a + i - 1]
  OBVIOUS

(* What the last entries are. *)
LEMMA LastEntries ==
    ASSUME NEW S, NEW s \in Seq(S), NEW m \in Nat \ {0}, NEW n, n = Len(s), NEW a, a = From(n, m)
    PROVE  /\ n \in Nat /\ a \in Nat \ {0} /\ a <= n + 1
           /\ LastOf(s, m) \in Seq(S) /\ Len(LastOf(s, m)) = n - a + 1
           /\ \A i \in 1..(n - a + 1) : LastOf(s, m)[i] = s[a + i - 1]
  <1>1. n \in Nat OBVIOUS
  <1>2. a \in Nat \ {0} /\ a <= n + 1 BY <1>1 DEF From
  <1>3. LastOf(s, m) = SubSeq(s, a, n) BY DEF LastOf
  <1> QED BY <1>1, <1>2, <1>3, SliceHolds

(* Adding to the latest entries and dropping the oldest gives the latest entries. *)
LEMMA LatestMoves ==
    ASSUME NEW S, NEW s \in Seq(S), NEW e \in S, NEW m \in Nat \ {0}
    PROVE  LastOf(Append(LastOf(s, m), e), m) = LastOf(Append(s, e), m)
  <1>1. SUFFICES ASSUME NEW n \in Nat, n = Len(s), NEW a, a = From(n, m), NEW k, k = n - a + 1,
                        NEW c, c = From(k + 1, m), NEW d, d = From(n + 1, m)
                 PROVE  LastOf(Append(LastOf(s, m), e), m) = LastOf(Append(s, e), m)
   <2>1. Len(s) \in Nat OBVIOUS
   <2> QED BY <2>1
  <1>2. /\ a \in Nat \ {0} /\ k \in Nat /\ c \in Nat \ {0} /\ d \in Nat \ {0}
        /\ a + c - 1 = d /\ (k + 1) - c + 1 = (n + 1) - d + 1 /\ k + a = n + 1
   <2>1. CASE n > m
    <3>1. a = n - m + 1 /\ k = m BY <1>1, <2>1 DEF From
    <3>2. c = 2 /\ d = n - m + 2 BY <1>1, <2>1, <3>1 DEF From
    <3> QED BY <2>1, <3>1, <3>2
   <2>2. CASE n = m
    <3>1. a = 1 /\ k = n BY <1>1, <2>2 DEF From
    <3>2. c = 2 /\ d = 2 BY <1>1, <2>2, <3>1 DEF From
    <3> QED BY <2>2, <3>1, <3>2
   <2>3. CASE n < m
    <3>1. a = 1 /\ k = n BY <1>1, <2>3 DEF From
    <3>2. c = 1 /\ d = 1
     <4>1. ~(n + 1 > m) /\ ~(k + 1 > m) BY <1>1, <2>3, <3>1
     <4> QED BY <1>1, <4>1 DEF From
    <3> QED BY <2>3, <3>1, <3>2
   <2> QED BY <2>1, <2>2, <2>3
  <1> DEFINE log == LastOf(s, m)
             all == Append(log, e)
             t == Append(s, e)
  <1>3. /\ log \in Seq(S) /\ Len(log) = k /\ \A i \in 1..k : log[i] = s[a + i - 1]
   <2> HIDE DEF log
   <2> QED BY <1>1, LastEntries, SMTT(30) DEF log
  <1> HIDE DEF log
  <1>4. /\ all \in Seq(S) /\ Len(all) = k + 1 /\ all[k + 1] = e /\ \A i \in 1..k : all[i] = log[i]
    BY <1>3, Appended
  <1>5. /\ t \in Seq(S) /\ Len(t) = n + 1 /\ t[n + 1] = e /\ \A i \in 1..n : t[i] = s[i]
    BY <1>1, Appended
  <1> HIDE DEF all, t
  <1>6. /\ LastOf(all, m) \in Seq(S) /\ Len(LastOf(all, m)) = (k + 1) - c + 1
        /\ \A i \in 1..((k + 1) - c + 1) : LastOf(all, m)[i] = all[c + i - 1]
   <2> DEFINE j == k + 1
   <2>1. j = Len(all) /\ all \in Seq(S) BY <1>4
   <2>2. c = From(j, m) BY <1>1
   <2> HIDE DEF j
   <2>3. /\ LastOf(all, m) \in Seq(S) /\ Len(LastOf(all, m)) = j - c + 1
         /\ \A i \in 1..(j - c + 1) : LastOf(all, m)[i] = all[c + i - 1]
     BY <2>1, <2>2, LastEntries
   <2> QED BY <2>3 DEF j
  <1>7. /\ LastOf(t, m) \in Seq(S) /\ Len(LastOf(t, m)) = (n + 1) - d + 1
        /\ \A i \in 1..((n + 1) - d + 1) : LastOf(t, m)[i] = t[d + i - 1]
   <2> DEFINE j == n + 1
   <2>1. j = Len(t) /\ t \in Seq(S) BY <1>5
   <2>2. d = From(j, m) BY <1>1
   <2> HIDE DEF j
   <2>3. /\ LastOf(t, m) \in Seq(S) /\ Len(LastOf(t, m)) = j - d + 1
         /\ \A i \in 1..(j - d + 1) : LastOf(t, m)[i] = t[d + i - 1]
     BY <2>1, <2>2, LastEntries
   <2> QED BY <2>3 DEF j
  <1>9. ASSUME NEW i \in 1..((k + 1) - c + 1)
        PROVE  LastOf(all, m)[i] = LastOf(t, m)[i]
   <2>1. LastOf(all, m)[i] = all[c + i - 1] /\ LastOf(t, m)[i] = t[d + i - 1]
     BY <1>2, <1>6, <1>7, <1>9
   <2>2. CASE c + i - 1 <= k
    <3>1. c + i - 1 \in 1..k /\ a + (c + i - 1) - 1 = d + i - 1 /\ d + i - 1 \in 1..n
      BY <1>2, <1>9, <2>2
    <3>2. all[c + i - 1] = s[a + (c + i - 1) - 1] BY <1>3, <1>4, <3>1
    <3>3. t[d + i - 1] = s[d + i - 1] BY <1>5, <3>1
    <3> QED BY <2>1, <3>1, <3>2, <3>3
   <2>3. CASE ~(c + i - 1 <= k)
    <3>1. c + i - 1 = k + 1 /\ d + i - 1 = n + 1 BY <1>2, <1>9, <2>3
    <3> QED BY <1>4, <1>5, <2>1, <3>1
   <2> QED BY <2>2, <2>3
  <1>10. LastOf(all, m) = LastOf(t, m) BY <1>2, <1>6, <1>7, <1>9, SeqEqual
  <1> QED BY <1>10 DEF all, t, log

(* An event is logged when all of its list was called (EventBus.publish). *)
LEMMA LoggedKeeps ==
    ASSUME BusInv, NEW p \in Publishers, RedisThenLog(p)
    PROVE  BusInv'
  <1>1. /\ BusShape /\ BusMade /\ WalksAreSound /\ StandingHandlersCalled /\ LogHoldsLatest
    BY DEF BusInv
  <1>2. /\ busLists \in Seq(Seq(Handlers)) /\ busCur \in DOMAIN busLists /\ busPub \in [Publishers -> BusRec]
        /\ busHist \in BusHistory
        /\ Len(busHist.offers) = Len(busHist.calls) /\ Len(busHist.standing) = Len(busHist.calls)
        /\ \A k \in DOMAIN busHist.ended : busHist.ended[k] \in DOMAIN busHist.calls
    BY <1>1 DEF BusShape
  <1>3. SUFFICES ASSUME NEW r, r = busPub[p], NEW u, u = [r EXCEPT !.pc = "idle"]
                 PROVE  BusInv'
    OBVIOUS
  <1> DEFINE e == r.event
             done == Append(busHist.ended, e)
  <1>4. /\ r \in BusRec /\ r.pc = "walking" /\ r.i > Len(busLists[r.list])
        /\ busPub' = [busPub EXCEPT ![p] = u]
        /\ UNCHANGED <<busLists, busCur, busState, busRedis>>
        /\ busLog' = Logged(e)
    BY <1>2, <1>3 DEF RedisThenLog, AtBus, GoesTo
  <1>5. busHist' = [busHist EXCEPT !.ended = done] BY <1>3 DEF RedisThenLog
  <1>6. /\ u \in BusRec /\ u.pc = "idle" /\ u.event = r.event /\ u.bus = r.bus
    BY <1>3, <1>4 DEF BusRec
  <1>7. /\ busPub' \in [Publishers -> BusRec] /\ busPub'[p] = u
        /\ \A q \in Publishers \ {p} : busPub'[q] = busPub[q]
    BY <1>2, <1>4, <1>6
  <1>8. WalkSound(r) /\ Reached(r) = r.i - 1 /\ Walking(r)
    BY <1>1, <1>3, <1>4 DEF WalksAreSound, Walking, Reached
  <1>9. /\ e \in DOMAIN busHist.calls /\ e \in Nat /\ busHist.ended \in Seq(Nat) /\ Running(e)
    BY <1>2, <1>4, <1>8 DEF WalkSound, BusRec, BusHistory
  <1>10. /\ done \in Seq(Nat) /\ Len(done) = Len(busHist.ended) + 1 /\ DOMAIN done = 1..Len(done)
         /\ DOMAIN busHist.ended = 1..Len(busHist.ended) /\ Len(busHist.ended) \in Nat
         /\ done[Len(busHist.ended) + 1] = e
         /\ \A k \in DOMAIN busHist.ended : done[k] = busHist.ended[k]
    BY <1>9
  <1> HIDE DEF done
  <1>11. /\ busHist'.calls = busHist.calls /\ busHist'.offers = busHist.offers
         /\ busHist'.standing = busHist.standing /\ busHist'.ended = done
         /\ busHist' \in BusHistory
    BY <1>2, <1>5, <1>10 DEF BusHistory
  <1>12. ASSUME NEW k \in DOMAIN done
         PROVE  \/ k \in DOMAIN busHist.ended /\ done[k] = busHist.ended[k]
                \/ k = Len(busHist.ended) + 1 /\ done[k] = e
    BY <1>10, <1>12
  <1>13. BusShape' BY <1>1, <1>2, <1>4, <1>7, <1>9, <1>11, <1>12 DEF BusShape
  <1>14. ASSUME NEW q, WalkSound(q), q.event # e
         PROVE  WalkSound(q)'
   <2>1. Running(q.event)' BY <1>11, <1>12, <1>14 DEF WalkSound, Running
   <2> QED BY <1>4, <1>11, <1>14, <2>1 DEF WalkSound
  <1>15. WalksAreSound'
   <2>1. ~Walking(busPub'[p]) BY <1>6, <1>7 DEF Walking
   <2>2. ASSUME NEW q \in Publishers, Walking(busPub'[q])
         PROVE  /\ WalkSound(busPub[q])' /\ q # p /\ busPub'[q] = busPub[q]
    <3>1. q # p /\ busPub'[q] = busPub[q] BY <1>7, <2>1, <2>2
    <3>2. WalkSound(busPub[q]) /\ busPub[q].event # e
      BY <1>1, <1>3, <1>8, <2>2, <3>1 DEF WalksAreSound
    <3>3. WalkSound(busPub[q])' BY <1>14, <3>1, <3>2, SMTT(60) DEF WalkSound, Reached
    <3> QED BY <3>1, <3>3
   <2> QED BY <1>1, <2>2 DEF WalksAreSound
  <1>16. StandingHandlersCalled'
   <2>1. ASSUME NEW x \in Handlers
         PROVE  busHist.standing[e][x] <= busHist.calls[e][x] /\ busHist.calls[e][x] <= busHist.offers[e][x]
    <3>1. /\ r.i \in Nat /\ r.i >= 1 /\ busLists[r.list] \in Seq(Handlers)
          /\ r.i - 1 <= Len(busLists[r.list])
      BY <1>2, <1>4, <1>8 DEF WalkSound, BusRec
    <3>2. Reached(r) = Len(busLists[r.list]) BY <1>4, <1>8, <3>1
    <3>3. Count(busLists[r.list], x) = CountTo(busLists[r.list], Len(busLists[r.list]), x)
     <4>1. DOMAIN busLists[r.list] = 1..Len(busLists[r.list]) BY <3>1
     <4> QED BY <4>1 DEF Count, CountTo
    <3> QED BY <1>8, <3>2, <3>3 DEF WalkSound
   <2>2. ASSUME NEW k \in DOMAIN done, NEW x \in Handlers
         PROVE  /\ busHist.standing[done[k]][x] <= busHist.calls[done[k]][x]
                /\ busHist.calls[done[k]][x] <= busHist.offers[done[k]][x]
     BY <1>1, <1>12, <2>1, <2>2 DEF StandingHandlersCalled
   <2> QED BY <1>11, <2>2 DEF StandingHandlersCalled
  <1>17. LogHoldsLatest'
   <2>1. busLog = LastOf(busHist.ended, MaxLogSize) BY <1>1 DEF LogHoldsLatest, LastOf, From
   <2>2. busLog' = LastOf(Append(busLog, e), MaxLogSize) BY <1>4 DEF Logged, LastOf, From
   <2>3. busLog' = LastOf(done, MaxLogSize) BY <1>9, <2>1, <2>2, LatestMoves, BusAssumption DEF done
   <2> QED BY <1>11, <2>3 DEF LogHoldsLatest, LastOf, From
  <1>18. BusMade' BY <1>1, <1>3, <1>4, <1>6, <1>7, MadeKept DEF Served
  <1> QED BY <1>13, <1>15, <1>16, <1>17, <1>18 DEF BusInv

(* Every step of the bus keeps its invariant. *)
LEMMA BusSteps ==
    ASSUME BusInv, [BusNext]_busVars
    PROVE  BusInv'
  <1>1. CASE UNCHANGED busVars
   <2>1. BusShape' /\ BusMade' /\ StandingHandlersCalled' /\ LogHoldsLatest'
     BY <1>1 DEF busVars, BusInv, BusShape, BusMade, StandingHandlersCalled, LogHoldsLatest
   <2>2. WalksAreSound'
     BY <1>1 DEF busVars, BusInv, WalksAreSound, WalkSound, Walking, Reached, Running
   <2> QED BY <2>1, <2>2 DEF BusInv
  <1>2. ASSUME NEW p \in Publishers, BusStep(p) \/ Publish(p)
        PROVE  BusInv'
    BY <1>2, BusIsMade, CallKeeps, HandlerEndKeeps, LoggedKeeps, PublishKeeps DEF BusStep
  <1>3. ASSUME NEW h \in Handlers, Subscribe(h) \/ Unsubscribe(h)
        PROVE  BusInv'
    BY <1>3, SubscribeKeeps, UnsubscribeKeeps
  <1> QED BY <1>1, <1>2, <1>3, BusIsMade DEF BusNext

(* One bus for all, and its client known. *)
LEMMA BusDelivers == BusInv => StandingHandlersCalled /\ LogHoldsLatest /\ OneBus
  BY DEF BusInv, BusMade, OneBus

----------------------------------------
(* The life of the process. *)

Resources == {"bus", "bridge", "orderBridge", "manager", "broker", "valkey", "engine", "sentry"}
Needed == {"valkey", "manager", "bus", "bridge", "orderBridge"}

LifeShape ==
    /\ lsStage \in {"created", "observed", "keyed", "stated", "wired", "serving", "stopping", "stopped", "aborted"}
    /\ lsOpen \subseteq Resources /\ lsBroken \subseteq Resources
    /\ lsFile \in {"none", "read", "failed"}
    /\ lsDone \in 0..8

\* What was opened up to each stage, and what a shutdown has been through is closed or broken.
OpenedInOrder ==
    /\ lsStage \in {"created", "observed", "keyed", "stated", "aborted"}
           => lsOpen \cap {"bridge", "orderBridge"} = {}
    /\ lsStage = "stated" => "valkey" \in lsOpen
    /\ lsStage \in {"observed", "keyed", "stated", "wired", "serving"} => {"engine", "sentry"} \subseteq lsOpen \cup lsBroken
    /\ lsStage = "serving" => "broker" \in lsOpen \cup lsBroken
    /\ lsStage \in {"wired", "serving"} => Needed \subseteq lsOpen
    /\ lsStage \notin {"stopping", "stopped"} => lsDone = 0
    /\ lsStage \in {"stopping", "stopped"} => \A n \in 1..lsDone : CleanupSteps[n] \in lsOpen => CleanupSteps[n] \in lsBroken
    /\ lsStage = "stopped" => lsDone = 8
    /\ lsStage = "stopping" => lsDone < 8
    /\ lsStage = "stopping" => \A n \in (lsDone + 1)..6 : CleanupSteps[n] \in Needed => CleanupSteps[n] \in lsOpen
    /\ lsStage \in {"stated", "wired", "serving"} => (lsFile # "read" \/ FileProviders # {} => lsProviders # {})

LifeInv == LifeShape /\ OpenedInOrder

(* The process was only created. *)
LEMMA LifeStarts == LifespanInit => LifeInv
  BY DEF LifespanInit, LifeInv, LifeShape, OpenedInOrder

\* The resources in the order they are closed.
CleanupOrder(n, r) ==
    \/ (n = 1 /\ r = "bridge") \/ (n = 2 /\ r = "orderBridge") \/ (n = 3 /\ r = "manager")
    \/ (n = 4 /\ r = "bus") \/ (n = 5 /\ r = "broker") \/ (n = 6 /\ r = "valkey")
    \/ (n = 7 /\ r = "engine") \/ (n = 8 /\ r = "sentry")

(* The steps of the shutdown by their number. *)
LEMMA CleanupNumbers == Len(CleanupSteps) = 8 /\ \A n \in 1..8 : CleanupOrder(n, CleanupSteps[n])
  <1>1. /\ Len(CleanupSteps) = 8
        /\ CleanupSteps[1] = "bridge" /\ CleanupSteps[2] = "orderBridge" /\ CleanupSteps[3] = "manager"
        /\ CleanupSteps[4] = "bus" /\ CleanupSteps[5] = "broker" /\ CleanupSteps[6] = "valkey"
        /\ CleanupSteps[7] = "engine" /\ CleanupSteps[8] = "sentry"
    BY DEF CleanupSteps
  <1>2. \A n \in 1..8 : n = 1 \/ n = 2 \/ n = 3 \/ n = 4 \/ n = 5 \/ n = 6 \/ n = 7 \/ n = 8 OBVIOUS
  <1> QED BY <1>1, <1>2 DEF CleanupOrder

(* A step of the start opens what comes next (lifespan). *)
LEMMA StartKeeps ==
    ASSUME LifeInv,
           \/ \E b \in BOOLEAN : CheckSecretKey(b) \/ InitTaskiqBroker(b)
           \/ \E b, sentry \in BOOLEAN : InitObservability(b, sentry)
           \/ \E file \in {"none", "read", "failed"}, loaded \in SUBSET FileProviders, b \in BOOLEAN :
                 InitAppState(file, loaded, b)
           \/ AppStateRaises \/ InitWebsocketsAndEvents \/ EngineInRequest
    PROVE  LifeInv'
  <1> USE DEF LifeInv, LifeShape, OpenedInOrder, Needed, Resources
  <1>1. ASSUME NEW b \in BOOLEAN, NEW sentry \in BOOLEAN, InitObservability(b, sentry) PROVE LifeInv'
    BY <1>1 DEF InitObservability
  <1>2. ASSUME NEW b \in BOOLEAN, CheckSecretKey(b) PROVE LifeInv'
    BY <1>2 DEF CheckSecretKey, Aborts
  <1>3. ASSUME NEW b \in BOOLEAN, InitTaskiqBroker(b) PROVE LifeInv' BY <1>3 DEF InitTaskiqBroker
  <1>4. ASSUME NEW file \in {"none", "read", "failed"}, NEW loaded \in SUBSET FileProviders,
               NEW b \in BOOLEAN, InitAppState(file, loaded, b)
        PROVE  LifeInv'
   <2>1. lsFile' = file /\ (file # "read" \/ FileProviders # {} => lsProviders' # {})
     BY <1>4 DEF InitAppState, ConfigureDataProviders
   <2> QED BY <1>4, <2>1 DEF InitAppState, EngineAsked
  <1>5. CASE AppStateRaises BY <1>5 DEF AppStateRaises
  <1>6. CASE InitWebsocketsAndEvents BY <1>6 DEF InitWebsocketsAndEvents
  <1>7. CASE EngineInRequest BY <1>7 DEF EngineInRequest, EngineAsked
  <1> QED BY <1>1, <1>2, <1>3, <1>4, <1>5, <1>6, <1>7

(* A step of the shutdown takes one resource down or marks it (_shutdown). *)
LEMMA ShutdownKeeps ==
    ASSUME LifeInv, NEW ok \in BOOLEAN, ShutdownStep(ok)
    PROVE  LifeInv'
  <1>1. LifeShape /\ OpenedInOrder BY DEF LifeInv
  <1>2. /\ lsStage \in {"serving", "stopping"} /\ lsDone \in 0..7 /\ lsDone' = lsDone + 1 /\ lsDone' \in 1..8
        /\ lsStage' = (IF lsDone' = 8 THEN "stopped" ELSE "stopping")
        /\ UNCHANGED <<lsProviders, lsFile>>
    BY <1>1, CleanupNumbers DEF ShutdownStep, LifeShape, OpenedInOrder
  <1>3. SUFFICES ASSUME NEW r, r = CleanupSteps[lsDone']
                 PROVE  LifeInv'
    OBVIOUS
  <1>4. /\ lsOpen' = (IF ok THEN lsOpen \ {r} ELSE lsOpen)
        /\ lsBroken' = (IF ok THEN lsBroken ELSE lsBroken \cup {r})
    BY <1>3 DEF ShutdownStep, Closing
  <1>5. r \in Resources /\ \A n \in 1..8 : n # lsDone' => CleanupSteps[n] # r
    BY <1>2, <1>3, CleanupNumbers DEF CleanupOrder, Resources
  <1>6. LifeShape' BY <1>1, <1>2, <1>4, <1>5 DEF LifeShape
  <1>7. \A n \in 1..lsDone' : CleanupSteps[n] \in lsOpen' => CleanupSteps[n] \in lsBroken'
   <2>1. \A n \in 1..lsDone : CleanupSteps[n] \in lsOpen => CleanupSteps[n] \in lsBroken
     BY <1>1, <1>2 DEF OpenedInOrder, LifeShape
   <2> QED BY <1>2, <1>3, <1>4, <2>1
  <1>8. \A n \in (lsDone' + 1)..6 : CleanupSteps[n] \in Needed => CleanupSteps[n] \in lsOpen'
   <2>1. \A n \in (lsDone + 1)..6 : CleanupSteps[n] \in Needed => CleanupSteps[n] \in lsOpen
     BY <1>1, <1>2 DEF OpenedInOrder
   <2> QED BY <1>2, <1>4, <1>5, <2>1
  <1>9. OpenedInOrder' BY <1>2, <1>7, <1>8 DEF OpenedInOrder
  <1> QED BY <1>6, <1>9 DEF LifeInv

(* Every step of the process keeps what it has open in order. *)
LEMMA LifeSteps ==
    ASSUME LifeInv, [LifespanNext]_lsVars
    PROVE  LifeInv'
  <1>1. CASE UNCHANGED lsVars BY <1>1 DEF lsVars, LifeInv, LifeShape, OpenedInOrder
  <1>2. ASSUME NEW ok \in BOOLEAN, ShutdownStep(ok)
        PROVE  LifeInv'
    BY <1>2, ShutdownKeeps
  <1> QED BY <1>1, <1>2, StartKeeps DEF LifespanNext

(* The process serves with all it needs and leaves open what refused to close. *)
LEMMA LifeIsOrderly == LifeInv => LifespanOrderly
  <1> SUFFICES ASSUME LifeInv PROVE LifespanOrderly
    OBVIOUS
  <1>1. lsStage = "serving" => /\ {"valkey", "manager", "bus", "bridge", "orderBridge"} \subseteq lsOpen
                               /\ {"engine", "sentry", "broker"} \subseteq lsOpen \cup lsBroken
                               /\ lsFile # "read" \/ FileProviders # {} => lsProviders # {}
    BY DEF LifeInv, OpenedInOrder, Needed
  <1>2. lsStage = "stopped" => lsOpen \subseteq lsBroken
   <2>1. \A r \in Resources : \E n \in 1..8 : CleanupSteps[n] = r
     BY CleanupNumbers DEF Resources, CleanupOrder
   <2> QED BY <2>1 DEF LifeInv, LifeShape, OpenedInOrder
  <1>3. ASSUME NEW r \in {"bridge", "orderBridge"}, r \in lsOpen, r \notin lsBroken
        PROVE  {"bus", "manager"} \subseteq lsOpen
   <2>1. CASE lsStage \in {"wired", "serving"} BY <2>1 DEF LifeInv, OpenedInOrder, Needed
   <2>2. CASE lsStage \in {"stopping", "stopped"}
    <3>1. PICK n \in 1..2 : CleanupSteps[n] = r
      BY CleanupNumbers DEF CleanupOrder
    <3>2. lsDone \in 0..8 /\ ~(n \in 1..lsDone)
      BY <1>3, <2>2, <3>1 DEF LifeInv, LifeShape, OpenedInOrder
    <3>3. lsDone < 2 /\ lsStage = "stopping" BY <2>2, <3>2 DEF LifeInv, OpenedInOrder
    <3>4. CleanupSteps[3] = "manager" /\ CleanupSteps[4] = "bus" BY CleanupNumbers DEF CleanupOrder
    <3>5. 3 \in (lsDone + 1)..6 /\ 4 \in (lsDone + 1)..6 BY <3>2, <3>3
    <3> QED BY <3>3, <3>4, <3>5 DEF LifeInv, OpenedInOrder, Needed
   <2> QED BY <1>3, <2>1, <2>2 DEF LifeInv, LifeShape, OpenedInOrder
  <1>4. DOMAIN Uses = {"bridge", "orderBridge"} /\ \A r \in DOMAIN Uses : Uses[r] = {"bus", "manager"}
    BY DEF Uses
  <1> QED BY <1>1, <1>2, <1>3, <1>4 DEF LifespanOrderly

----------------------------------------
(* The rate limiter. *)

BucketRecord == [key : Keys, tokens : Nat, last : Nat]

LimiterShape ==
    /\ rlState \in Seq(BucketRecord) /\ rlNow \in 0..MaxTime
    /\ rlAdmitted \in [Keys -> Seq(Nat)]
    /\ rlPromise \in [Keys -> [tier : Tiers, at : Int]]
    /\ \A i \in DOMAIN rlState : rlState[i].last <= rlNow

OneBucketEach == \A i, j \in DOMAIN rlState : rlState[i].key = rlState[j].key => i = j

\* What a bucket still holds, and all it let through since some admission, came from one
\* full burst and what was refilled since.
Accounted(b) ==
    LET adm == rlAdmitted[b.key] IN
    \A i \in DOMAIN adm :
        /\ adm[i] <= b.last
        /\ (Len(adm) - i + 1) * Parts + b.tokens <= MaxCap * Parts + (b.last - adm[i]) * MaxRefill

\* A bucket holds the token it promised by the time it promised it for.
Promised(b) ==
    LET p == rlPromise[b.key] IN
    p.at >= 0 => /\ b.last <= p.at
                 /\ p.at > MaxTime \/ b.tokens + (p.at - b.last) * p.tier.refill >= Parts

BucketsAccounted == \A i \in DOMAIN rlState : Accounted(rlState[i]) /\ Promised(rlState[i])

\* A key without a bucket has no history.
NoBucketNoHistory ==
    \A k \in Keys : Place(k) = {} => rlAdmitted[k] = <<>> /\ rlPromise[k].at = -1

LimiterInv ==
    LimiterShape /\ OneBucketEach /\ BucketsAccounted /\ NoBucketNoHistory /\ AdmittedWithinRate

(* The lesser of two numbers. *)
LEMMA LesserOf ==
    ASSUME NEW a \in Int, NEW b \in Int
    PROVE  Min({a, b}) = IF a <= b THEN a ELSE b
  BY DEF Min

(* The largest burst and the fastest refill are those of some tier. *)
LEMMA LargestTier ==
    /\ MaxCap \in Nat /\ MaxRefill \in Nat
    /\ \A t \in Tiers : t.cap <= MaxCap /\ t.refill <= MaxRefill
  <1> DEFINE caps == [t \in Tiers |-> t.cap]
             refills == [t \in Tiers |-> t.refill]
  <1>1. /\ \A t \in Tiers : t.cap \in Nat /\ t.refill \in Nat
        /\ Tiers # {} /\ IsFiniteSet(Tiers)
    BY LimiterAssumption
  <1>2. PICK c \in Tiers : \A t \in Tiers : caps[t] <= caps[c]
    BY <1>1, GreatestAt
  <1>3. PICK r \in Tiers : \A t \in Tiers : refills[t] <= refills[r]
    BY <1>1, GreatestAt
  <1>4. MaxCap \in {t.cap : t \in Tiers} /\ \A t \in Tiers : MaxCap >= t.cap
   <2>1. \A t \in Tiers : c.cap >= t.cap BY <1>1, <1>2
   <2> QED BY <2>1 DEF MaxCap, Max
  <1>5. MaxRefill \in {t.refill : t \in Tiers} /\ \A t \in Tiers : MaxRefill >= t.refill
   <2>1. \A t \in Tiers : r.refill >= t.refill BY <1>1, <1>3
   <2> QED BY <2>1 DEF MaxRefill, Max
  <1> QED BY <1>1, <1>4, <1>5

(* Nothing was asked yet. *)
LEMMA LimiterStarts == LimiterInit => LimiterInv
  <1> SUFFICES ASSUME LimiterInit PROVE LimiterInv
    OBVIOUS
  <1>1. NoPromise \in [tier : Tiers, at : Int] /\ NoPromise.at = -1
    BY LimiterAssumption DEF NoPromise
  <1>2. LimiterShape BY <1>1, LimiterAssumption DEF LimiterShape, LimiterInit
  <1>3. OneBucketEach /\ BucketsAccounted BY DEF LimiterInit, OneBucketEach, BucketsAccounted
  <1>4. NoBucketNoHistory /\ AdmittedWithinRate
    BY <1>1 DEF LimiterInit, NoBucketNoHistory, AdmittedWithinRate
  <1> QED BY <1>2, <1>3, <1>4 DEF LimiterInv

(* Storing a bucket keeps it and some of the others, and one bucket per key
   (InMemoryBucketBackend.update, _evict_if_needed). *)
LEMMA StoredBuckets ==
    ASSUME rlState \in Seq(BucketRecord), OneBucketEach, NEW b \in BucketRecord,
           rlState' = LruStored(b)
    PROVE  /\ rlState' \in Seq(BucketRecord) /\ OneBucketEach'
           /\ \E n \in DOMAIN rlState' : rlState'[n] = b
           /\ \A n \in DOMAIN rlState' :
                 rlState'[n] = b \/ (rlState'[n].key # b.key /\ \E m \in DOMAIN rlState : rlState'[n] = rlState[m])
  <1> DEFINE i == CHOOSE j \in Place(b.key) : TRUE
             rest == IF Place(b.key) = {} THEN rlState ELSE RemoveAt(rlState, i)
             all == Append(rest, b)
  <1>1. /\ rest \in Seq(BucketRecord)
        /\ \A n \in DOMAIN rest : rest[n].key # b.key /\ \E m \in DOMAIN rlState : rest[n] = rlState[m]
        /\ \A n, m \in DOMAIN rest : rest[n].key = rest[m].key => n = m
   <2>1. CASE Place(b.key) = {} BY <2>1 DEF Place, OneBucketEach
   <2>2. CASE Place(b.key) # {}
    <3>1. i \in DOMAIN rlState /\ rlState[i].key = b.key /\ i \in 1..Len(rlState) /\ Len(rlState) \in Nat
      BY <2>2 DEF Place
    <3> HIDE DEF i
    <3> DEFINE head == SubSeq(rlState, 1, i - 1)
               tail == SubSeq(rlState, i + 1, Len(rlState))
    <3>2. /\ head \in Seq(BucketRecord) /\ Len(head) = i - 1
          /\ \A n \in 1..(i - 1) : head[n] = rlState[n]
      BY <3>1
    <3>3. /\ tail \in Seq(BucketRecord) /\ Len(tail) = Len(rlState) - i
          /\ \A n \in 1..(Len(rlState) - i) : tail[n] = rlState[n + i]
      BY <3>1
    <3>4. rest = head \o tail BY <2>2 DEF RemoveAt, i
    <3> HIDE DEF rest, head, tail
    <3>5. /\ rest \in Seq(BucketRecord) /\ Len(rest) = Len(rlState) - 1
          /\ \A n \in 1..(Len(rlState) - 1) : rest[n] = IF n < i THEN rlState[n] ELSE rlState[n + 1]
      BY <3>1, <3>2, <3>3, <3>4, SMTT(60)
    <3> DEFINE at(n) == IF n < i THEN n ELSE n + 1
    <3>6. \A n \in DOMAIN rest : at(n) \in DOMAIN rlState /\ at(n) # i /\ rest[n] = rlState[at(n)]
      BY <3>1, <3>5
    <3>7. \A n, m \in DOMAIN rest : at(n) = at(m) => n = m BY <3>1, <3>5
    <3> HIDE DEF at
    <3> QED BY <3>1, <3>5, <3>6, <3>7 DEF OneBucketEach
   <2> QED BY <2>1, <2>2
  <1>2. rlState' = IF Len(all) > MaxKeys THEN Tail(all) ELSE all BY DEF LruStored
  <1> HIDE DEF rest
  <1>3. /\ all \in Seq(BucketRecord) /\ Len(all) = Len(rest) + 1 /\ all[Len(all)] = b /\ Len(rest) \in Nat
        /\ \A n \in 1..Len(rest) : all[n] = rest[n]
    BY <1>1
  <1> HIDE DEF all
  <1>4. /\ \A n \in 1..Len(all) : all[n] = b
              \/ (all[n].key # b.key /\ \E m \in DOMAIN rlState : all[n] = rlState[m])
        /\ \A n, m \in 1..Len(all) : all[n].key = all[m].key => n = m
   <2>1. DOMAIN rest = 1..Len(rest) /\ 1..Len(all) = 1..Len(rest) \cup {Len(all)} BY <1>1, <1>3
   <2>2. \A n \in 1..Len(rest) : all[n].key # b.key /\ \E m \in DOMAIN rlState : all[n] = rlState[m]
     BY <1>1, <1>3, <2>1
   <2>3. \A n, m \in 1..Len(rest) : all[n].key = all[m].key => n = m BY <1>1, <1>3, <2>1
   <2> QED BY <1>3, <2>1, <2>2, <2>3
  <1>5. CASE ~(Len(all) > MaxKeys) BY <1>2, <1>3, <1>4, <1>5 DEF OneBucketEach
  <1>6. CASE Len(all) > MaxKeys
   <2>1. Len(all) >= 2 BY <1>3, <1>6, LimiterAssumption
   <2>2. /\ Tail(all) \in Seq(BucketRecord) /\ Len(Tail(all)) = Len(all) - 1
         /\ \A n \in 1..(Len(all) - 1) : Tail(all)[n] = all[n + 1]
     BY <1>3, <2>1
   <2>3. rlState' = Tail(all) BY <1>2, <1>6
   <2>4. DOMAIN rlState' = 1..(Len(all) - 1) /\ Len(all) \in Nat BY <1>3, <2>2, <2>3
   <2>5. \A n \in DOMAIN rlState' : n + 1 \in 1..Len(all) /\ rlState'[n] = all[n + 1]
     BY <2>2, <2>3, <2>4
   <2>6. Len(all) - 1 \in DOMAIN rlState' /\ rlState'[Len(all) - 1] = b BY <1>3, <2>1, <2>4, <2>5
   <2>7. OneBucketEach' BY <1>4, <2>4, <2>5 DEF OneBucketEach
   <2>8. rlState' \in Seq(BucketRecord) BY <2>2, <2>3
   <2> QED BY <1>4, <2>5, <2>6, <2>7, <2>8
  <1> QED BY <1>5, <1>6

(* The bucket that is used is the stored one, or a full one for a key without. *)
LEMMA BucketFound ==
    ASSUME LimiterInv, NEW k \in Keys, NEW tier \in Tiers
    PROVE  /\ BucketOf(k, tier) \in BucketRecord /\ BucketOf(k, tier).key = k
           /\ BucketOf(k, tier).last <= rlNow /\ Accounted(BucketOf(k, tier))
  <1>1. /\ LimiterShape /\ BucketsAccounted /\ NoBucketNoHistory
    BY DEF LimiterInv
  <1>2. tier.cap \in Nat /\ Parts \in Nat /\ rlNow \in Nat /\ tier.cap * Parts \in Nat
    BY <1>1, LimiterAssumption DEF LimiterShape
  <1>3. CASE Place(k) = {}
   <2>1. BucketOf(k, tier) = [key |-> k, tokens |-> tier.cap * Parts, last |-> rlNow]
     BY <1>3 DEF BucketOf
   <2>2. rlAdmitted[k] = <<>> BY <1>1, <1>3 DEF NoBucketNoHistory
   <2> HIDE DEF BucketOf
   <2> QED BY <1>2, <2>1, <2>2 DEF BucketRecord, Accounted
  <1>4. CASE Place(k) # {}
   <2>1. PICK i \in Place(k) : BucketOf(k, tier) = rlState[i]
     BY <1>4 DEF BucketOf
   <2>2. i \in DOMAIN rlState /\ rlState[i].key = k BY <2>1 DEF Place
   <2> QED BY <1>1, <2>1, <2>2 DEF LimiterShape, BucketsAccounted
  <1> QED BY <1>3, <1>4

(* A refill leaves between what was there and a full bucket (InMemoryBucketBackend.update). *)
LEMMA RefillBounds ==
    ASSUME LimiterInv, NEW b \in BucketRecord, b.last <= rlNow, NEW tier \in Tiers
    PROVE  /\ Refilled(b, tier) \in Nat
           /\ Refilled(b, tier) <= MaxCap * Parts
           /\ Refilled(b, tier) <= b.tokens + (rlNow - b.last) * MaxRefill
           /\ b.tokens + (rlNow - b.last) * tier.refill >= Parts => Refilled(b, tier) >= Parts
  <1>1. /\ tier.cap \in Nat /\ tier.cap >= 1 /\ tier.refill \in Nat /\ Parts \in Nat /\ Parts >= 1
        /\ MaxCap \in Nat /\ MaxRefill \in Nat /\ tier.cap <= MaxCap /\ tier.refill <= MaxRefill
    BY LargestTier, LimiterAssumption
  <1>2. rlNow \in Nat /\ b.last \in Nat /\ b.tokens \in Nat /\ rlNow - b.last \in Nat
    BY DEF LimiterInv, LimiterShape, BucketRecord
  <1> DEFINE full == tier.cap * Parts
             more == (rlNow - b.last) * tier.refill
  <1>3. full \in Nat /\ full >= Parts /\ full <= MaxCap * Parts
   <2>1. (tier.cap - 1) * Parts \in Nat /\ (MaxCap - tier.cap) * Parts \in Nat BY <1>1
   <2> QED BY <1>1, <2>1
  <1>4. more \in Nat /\ more <= (rlNow - b.last) * MaxRefill /\ (rlNow - b.last) * MaxRefill \in Nat
   <2>1. (rlNow - b.last) * (MaxRefill - tier.refill) \in Nat BY <1>1, <1>2
   <2> QED BY <1>1, <1>2, <2>1
  <1>5. Refilled(b, tier) = IF full <= b.tokens + more THEN full ELSE b.tokens + more
   <2> HIDE DEF full, more
   <2>1. b.tokens + more \in Int /\ full \in Int BY <1>2, <1>3, <1>4
   <2>2. Refilled(b, tier) = Min({full, b.tokens + more}) BY DEF Refilled, full, more
   <2> QED BY <2>1, <2>2, LesserOf
  <1> HIDE DEF full
  <1>6. MaxCap * Parts \in Nat BY <1>1
  <1> QED
   <2>1. more = (rlNow - b.last) * tier.refill OBVIOUS
   <2> HIDE DEF more
   <2> DEFINE most == (rlNow - b.last) * MaxRefill
              caps == MaxCap * Parts
   <2>2. most \in Nat /\ more <= most /\ caps \in Nat /\ full <= caps BY <1>3, <1>4, <1>6
   <2> HIDE DEF most, caps
   <2>3. /\ Refilled(b, tier) \in Nat /\ Refilled(b, tier) <= caps /\ Refilled(b, tier) <= b.tokens + most
         /\ b.tokens + more >= Parts => Refilled(b, tier) >= Parts
     BY <1>1, <1>2, <1>3, <1>4, <1>5, <2>2
   <2> QED BY <2>1, <2>3 DEF most, caps

(* A quotient rounded up, multiplied back, is enough. *)
LEMMA RoundedUpCovers ==
    ASSUME NEW m \in Nat, NEW r \in Nat, r > 0
    PROVE  /\ (m + r - 1) \div r \in Nat
           /\ ((m + r - 1) \div r) * r >= m
  <1>1. m + r - 1 \in Nat OBVIOUS
  <1>2. \A n \in Nat : n \div r \in Nat /\ n < (n \div r) * r + r
   <2>1. ASSUME NEW n \in Nat PROVE n \div r \in Nat /\ n < (n \div r) * r + r OBVIOUS
   <2> QED BY <2>1
  <1> DEFINE q == (m + r - 1) \div r
  <1>3. q \in Nat /\ m + r - 1 < q * r + r BY <1>1, <1>2
  <1> HIDE DEF q
  <1>4. q * r \in Nat BY <1>3
  <1>5. q * r >= m BY <1>3, <1>4
  <1> QED BY <1>3, <1>5 DEF q

(* Enough is refilled in the ticks a refused client is told to wait (_build_429). *)
LEMMA RetryRefills ==
    ASSUME NEW tokens \in Nat, tokens < Parts, NEW tier \in Tiers, tier.refill > 0
    PROVE  /\ RetryAfter(tokens, tier) \in Nat
           /\ tokens + RetryAfter(tokens, tier) * tier.refill >= Parts
  <1>1. tier.refill \in Nat /\ tier.refill > 0 /\ Parts - tokens \in Nat /\ Parts \in Nat
    BY LimiterAssumption
  <1>2. /\ (Parts - tokens + tier.refill - 1) \div tier.refill \in Nat
        /\ ((Parts - tokens + tier.refill - 1) \div tier.refill) * tier.refill >= Parts - tokens
    BY <1>1, RoundedUpCovers
  <1>3. RetryAfter(tokens, tier) \in Nat /\ RetryAfter(tokens, tier) * tier.refill >= Parts - tokens
    BY <1>2 DEF RetryAfter
  <1> DEFINE gain == RetryAfter(tokens, tier) * tier.refill
  <1>4. gain \in Nat BY <1>1, <1>3
  <1> HIDE DEF gain
  <1>5. tokens + gain >= Parts BY <1>1, <1>3, <1>4 DEF gain
  <1> QED BY <1>3, <1>5 DEF gain

(* What is refilled in two spans of time is what is refilled in both. *)
LEMMA SpansAdd ==
    ASSUME NEW a \in Int, NEW b \in Int, NEW c \in Int, NEW r \in Int
    PROVE  /\ (a - c) * r = (b - c) * r + (a - b) * r
           /\ (a - c) * r \in Int /\ (b - c) * r \in Int /\ (a - b) * r \in Int
  OBVIOUS

(* A bucket whose key's history stays is accounted as before. *)
LEMMA OthersAccounted ==
    ASSUME LimiterInv, NEW b, \E m \in DOMAIN rlState : b = rlState[m],
           rlAdmitted'[b.key] = rlAdmitted[b.key], rlPromise'[b.key] = rlPromise[b.key]
    PROVE  Accounted(b)' /\ Promised(b)'
  <1>1. Accounted(b) /\ Promised(b) BY DEF LimiterInv, BucketsAccounted
  <1> QED BY <1>1 DEF Accounted, Promised

(* A step that stores one bucket, accounts for it and forgets the history of what it evicts
   keeps the invariant. *)
LEMMA StoringKeeps ==
    ASSUME LimiterInv, NEW b \in BucketRecord, rlState' = LruStored(b), b.last <= rlNow, rlNow' = rlNow,
           rlAdmitted' \in [Keys -> Seq(Nat)], rlPromise' \in [Keys -> [tier : Tiers, at : Int]],
           \A x \in Keys \ {b.key} : Kept(x) => rlAdmitted'[x] = rlAdmitted[x] /\ rlPromise'[x] = rlPromise[x],
           \A x \in Keys : ~Kept(x) => rlAdmitted'[x] = <<>> /\ rlPromise'[x].at = -1,
           Accounted(b)', Promised(b)'
    PROVE  LimiterShape' /\ OneBucketEach' /\ BucketsAccounted' /\ NoBucketNoHistory'
  <1>1. rlState \in Seq(BucketRecord) /\ OneBucketEach BY DEF LimiterInv, LimiterShape
  <1>2. /\ rlState' \in Seq(BucketRecord) /\ OneBucketEach'
        /\ \A n \in DOMAIN rlState' :
              rlState'[n] = b \/ (rlState'[n].key # b.key /\ \E m \in DOMAIN rlState : rlState'[n] = rlState[m])
    BY <1>1, StoredBuckets
  <1>3. LimiterShape'
   <2>1. \A n \in DOMAIN rlState' : rlState'[n].last <= rlNow BY <1>2 DEF LimiterInv, LimiterShape
   <2> QED BY <1>2, <2>1 DEF LimiterInv, LimiterShape
  <1>4. ASSUME NEW n \in DOMAIN rlState', NEW c, c = rlState'[n]
        PROVE  Accounted(c)' /\ Promised(c)'
   <2>1. CASE c = b BY <2>1
   <2>2. CASE c.key # b.key /\ \E m \in DOMAIN rlState : c = rlState[m]
    <3>1. c.key \in Keys /\ Kept(c.key)
     <4>1. c \in BucketRecord BY <1>2, <1>4
     <4> QED BY <1>4, <4>1 DEF Kept, BucketRecord
    <3>2. rlAdmitted'[c.key] = rlAdmitted[c.key] /\ rlPromise'[c.key] = rlPromise[c.key]
      BY <2>2, <3>1
    <3> QED BY <2>2, <3>2, OthersAccounted
   <2> QED BY <1>2, <1>4, <2>1, <2>2
  <1>5. BucketsAccounted'
   <2>1. ASSUME NEW n \in DOMAIN rlState'
         PROVE  Accounted(rlState[n])' /\ Promised(rlState[n])'
    <3>1. PICK c : c = rlState'[n]
      OBVIOUS
    <3>2. Accounted(c)' /\ Promised(c)' BY <1>4, <3>1
    <3> QED BY <3>1, <3>2 DEF Accounted, Promised
   <2> QED BY <2>1 DEF BucketsAccounted
  <1>6. NoBucketNoHistory' BY DEF NoBucketNoHistory, Place, Kept
  <1> QED BY <1>2, <1>3, <1>5, <1>6

(* An admission costs a token and is on the account of the bucket (TokenBucket.consume). *)
LEMMA AdmitKeeps ==
    ASSUME LimiterInv, NEW k \in Keys, NEW tier \in Tiers, Admit(k, tier)
    PROVE  LimiterInv'
  <1>1. /\ LimiterShape /\ AdmittedWithinRate
        /\ rlAdmitted \in [Keys -> Seq(Nat)] /\ rlPromise \in [Keys -> [tier : Tiers, at : Int]] /\ rlNow \in Nat
    BY DEF LimiterInv, LimiterShape
  <1>2. PICK old \in BucketRecord : old = BucketOf(k, tier) /\ old.key = k /\ old.last <= rlNow /\ Accounted(old)
    BY BucketFound
  <1>3. PICK tokens \in Nat : /\ tokens = Refilled(old, tier)
                              /\ tokens <= MaxCap * Parts
                              /\ tokens <= old.tokens + (rlNow - old.last) * MaxRefill
    BY <1>2, RefillBounds
  <1>4. PICK b : b = [key |-> k, tokens |-> tokens - Parts, last |-> rlNow]
    OBVIOUS
  <1>5. Parts \in Nat /\ tokens >= Parts /\ MaxCap * Parts \in Nat /\ MaxRefill \in Nat
    BY <1>2, <1>3, LargestTier, LimiterAssumption DEF Admit
  <1>6. /\ b \in BucketRecord /\ b.key = k /\ b.last = rlNow /\ b.tokens = tokens - Parts
    BY <1>1, <1>4, <1>5 DEF BucketRecord
  <1>7. /\ rlState' = LruStored(b) /\ rlNow' = rlNow
        /\ rlAdmitted' = [x \in Keys |-> IF x = k THEN Append(rlAdmitted[x], rlNow)
                                          ELSE IF Kept(x) THEN rlAdmitted[x] ELSE <<>>]
        /\ rlPromise' = [x \in Keys |-> IF x = k \/ ~Kept(x) THEN NoPromise ELSE rlPromise[x]]
   <2>1. SavedBucket(old, tokens - Parts) = b
    <3> DEFINE saved == [old EXCEPT !.tokens = tokens - Parts, !.last = rlNow]
    <3>1. /\ saved = [f \in {"key", "tokens", "last"} |-> saved[f]]
          /\ saved.key = k /\ saved.tokens = tokens - Parts /\ saved.last = rlNow
      BY <1>2 DEF BucketRecord
    <3> HIDE DEF saved
    <3>2. saved = b BY <1>4, <3>1
    <3> QED BY <3>2 DEF SavedBucket, saved
   <2> QED BY <1>2, <1>3, <2>1 DEF Admit
  <1>8. Kept(k)
   <2>1. rlState \in Seq(BucketRecord) /\ OneBucketEach BY DEF LimiterInv, LimiterShape
   <2>2. \E n \in DOMAIN rlState' : rlState'[n] = b BY <1>6, <1>7, <2>1, StoredBuckets
   <2> QED BY <1>6, <2>2 DEF Kept
  <1>9. NoPromise \in [tier : Tiers, at : Int] /\ NoPromise.at = -1
    BY LimiterAssumption DEF NoPromise
  <1>10. /\ rlAdmitted' \in [Keys -> Seq(Nat)] /\ rlPromise' \in [Keys -> [tier : Tiers, at : Int]]
         /\ rlAdmitted'[k] = Append(rlAdmitted[k], rlNow) /\ rlPromise'[k].at = -1
    BY <1>1, <1>7, <1>9
  <1> DEFINE adm == rlAdmitted[k]
             adm2 == rlAdmitted'[k]
  <1>11. /\ adm \in Seq(Nat) /\ Len(adm) \in Nat /\ Len(adm2) = Len(adm) + 1 /\ adm2[Len(adm2)] = rlNow
         /\ DOMAIN adm2 = 1..(Len(adm) + 1)
         /\ \A i \in 1..Len(adm) : adm2[i] = adm[i]
    BY <1>1, <1>10
  <1>12. \A i \in 1..Len(adm) : /\ adm[i] \in Nat /\ adm[i] <= old.last
                                /\ (Len(adm) - i + 1) * Parts + old.tokens
                                      <= MaxCap * Parts + (old.last - adm[i]) * MaxRefill
    BY <1>2, <1>11 DEF Accounted
  <1> HIDE DEF adm2
  <1>13. \A i \in DOMAIN adm2 :
            /\ adm2[i] \in Nat /\ adm2[i] <= rlNow
            /\ (Len(adm2) - i + 1) * Parts + (tokens - Parts) <= MaxCap * Parts + (rlNow - adm2[i]) * MaxRefill
   <2>1. ASSUME NEW i \in 1..Len(adm)
         PROVE  /\ adm2[i] \in Nat /\ adm2[i] <= rlNow
                /\ (Len(adm2) - i + 1) * Parts + (tokens - Parts) <= MaxCap * Parts + (rlNow - adm2[i]) * MaxRefill
    <3>1. /\ adm2[i] = adm[i] /\ adm[i] \in Nat /\ adm[i] <= old.last /\ old.last \in Nat /\ old.tokens \in Nat
          /\ (Len(adm) - i + 1) * Parts + old.tokens <= MaxCap * Parts + (old.last - adm[i]) * MaxRefill
      BY <1>11, <1>12, <2>1 DEF BucketRecord
    <3>7. rlNow \in Int /\ adm[i] \in Int /\ old.last \in Int /\ MaxRefill \in Int
      BY <1>1, <1>5, <3>1
    <3>2. (Len(adm2) - i + 1) * Parts = (Len(adm) - i + 1) * Parts + Parts BY <1>5, <1>11
    <3>3. (rlNow - adm[i]) * MaxRefill = (old.last - adm[i]) * MaxRefill + (rlNow - old.last) * MaxRefill
      BY <3>7, SpansAdd
    <3> DEFINE n == (Len(adm) - i + 1) * Parts
               s == (old.last - adm[i]) * MaxRefill
               t == (rlNow - old.last) * MaxRefill
    <3>4. n \in Int /\ s \in Int /\ t \in Int
     <4>1. s \in Int /\ t \in Int BY <3>7, SpansAdd
     <4>2. Len(adm) - i + 1 \in Int BY <1>11
     <4> QED BY <1>5, <4>1, <4>2
    <3> HIDE DEF n, s, t
    <3>5. n + Parts + (tokens - Parts) <= MaxCap * Parts + (s + t)
     <4>1. n + old.tokens <= MaxCap * Parts + s /\ tokens <= old.tokens + t
       BY <1>3, <3>1 DEF n, s, t
     <4> QED BY <1>5, <3>1, <3>4, <4>1, SMTT(30)
    <3>6. (Len(adm2) - i + 1) * Parts + (tokens - Parts) <= MaxCap * Parts + (rlNow - adm[i]) * MaxRefill
      BY <3>2, <3>3, <3>5 DEF n, s, t
    <3> QED BY <1>1, <1>2, <3>1, <3>6, SMTT(30)
   <2>2. ASSUME NEW i, i = Len(adm) + 1
         PROVE  /\ adm2[i] \in Nat /\ adm2[i] <= rlNow
                /\ (Len(adm2) - i + 1) * Parts + (tokens - Parts) <= MaxCap * Parts + (rlNow - adm2[i]) * MaxRefill
     BY <1>1, <1>3, <1>5, <1>11, <2>2
   <2>3. DOMAIN adm2 = 1..Len(adm) \cup {Len(adm) + 1} BY <1>11
   <2> QED BY <2>1, <2>2, <2>3
  <1>14. Accounted(b)' /\ Promised(b)' BY <1>6, <1>10, <1>13, SMTT(30) DEF Accounted, Promised, adm2
  <1>15. LimiterShape' /\ OneBucketEach' /\ BucketsAccounted' /\ NoBucketNoHistory'
   <2>1. \A x \in Keys \ {b.key} :
            Kept(x) => rlAdmitted'[x] = rlAdmitted[x] /\ rlPromise'[x] = rlPromise[x]
     BY <1>6, <1>7
   <2>2. \A x \in Keys : ~Kept(x) => rlAdmitted'[x] = <<>> /\ rlPromise'[x].at = -1
     BY <1>7, <1>8, <1>9
   <2>3. b.last <= rlNow BY <1>1, <1>6
   <2> QED BY <1>6, <1>7, <1>10, <1>14, <2>1, <2>2, <2>3, StoringKeeps
  <1>16. AdmittedWithinRate'
   <2>1. ASSUME NEW x \in Keys \ {k}, NEW i \in DOMAIN rlAdmitted'[x], NEW j \in DOMAIN rlAdmitted'[x], i <= j
         PROVE  (j - i + 1) * Parts <= MaxCap * Parts + (rlAdmitted'[x][j] - rlAdmitted'[x][i]) * MaxRefill
    <3>1. rlAdmitted'[x] = rlAdmitted[x] BY <1>7, <2>1
    <3> QED BY <1>1, <2>1, <3>1 DEF AdmittedWithinRate
   <2>2. ASSUME NEW i \in DOMAIN adm2, NEW j \in DOMAIN adm2, i <= j
         PROVE  (j - i + 1) * Parts <= MaxCap * Parts + (adm2[j] - adm2[i]) * MaxRefill
    <3>1. CASE j <= Len(adm)
     <4>1. i \in DOMAIN adm /\ j \in DOMAIN adm /\ adm2[i] = adm[i] /\ adm2[j] = adm[j]
       BY <1>11, <2>2, <3>1
     <4> QED BY <1>1, <2>2, <4>1 DEF AdmittedWithinRate
    <3>2. CASE j = Len(adm) + 1
     <4>1. Len(adm2) = j /\ adm2[j] = rlNow /\ i \in Nat /\ j \in Nat BY <1>11, <2>2, <3>2
     <4>2. (j - i + 1) * Parts + (tokens - Parts) <= MaxCap * Parts + (rlNow - adm2[i]) * MaxRefill
       BY <1>13, <2>2, <4>1
     <4> DEFINE n == (j - i + 1) * Parts
                m == (rlNow - adm2[i]) * MaxRefill
     <4>3. n \in Int /\ m \in Int
      <5>1. j - i + 1 \in Int /\ rlNow - adm2[i] \in Int
       <6>1. adm2[i] \in Nat BY <1>13, <2>2
       <6> QED BY <1>1, <4>1, <6>1
      <5> QED BY <1>5, <5>1
     <4> HIDE DEF n, m
     <4>4. n <= MaxCap * Parts + m BY <1>5, <4>2, <4>3 DEF n, m
     <4> QED BY <4>1, <4>4 DEF n, m
    <3> QED BY <1>11, <2>2, <3>1, <3>2
   <2> QED BY <2>1, <2>2 DEF AdmittedWithinRate, adm2
  <1> QED BY <1>15, <1>16 DEF LimiterInv

(* A refusal keeps what was refilled, which is there when the client was told to come back
   (TokenBucket.consume, _build_429). *)
LEMMA RefuseKeeps ==
    ASSUME LimiterInv, NEW k \in Keys, NEW tier \in Tiers, Refuse(k, tier)
    PROVE  LimiterInv'
  <1>1. /\ LimiterShape /\ AdmittedWithinRate
        /\ rlAdmitted \in [Keys -> Seq(Nat)] /\ rlPromise \in [Keys -> [tier : Tiers, at : Int]] /\ rlNow \in Nat
    BY DEF LimiterInv, LimiterShape
  <1>2. PICK old \in BucketRecord : old = BucketOf(k, tier) /\ old.key = k /\ old.last <= rlNow /\ Accounted(old)
    BY BucketFound
  <1>3. PICK tokens \in Nat : /\ tokens = Refilled(old, tier)
                              /\ tokens <= MaxCap * Parts
                              /\ tokens <= old.tokens + (rlNow - old.last) * MaxRefill
    BY <1>2, RefillBounds
  <1>4. PICK b : b = [key |-> k, tokens |-> tokens, last |-> rlNow]
    OBVIOUS
  <1>5. /\ Parts \in Nat /\ tokens < Parts /\ MaxCap * Parts \in Nat /\ MaxRefill \in Nat /\ MaxTime \in Nat
        /\ tier.refill \in Nat
    BY <1>2, <1>3, LargestTier, LimiterAssumption DEF Refuse
  <1>6. /\ b \in BucketRecord /\ b.key = k /\ b.last = rlNow /\ b.tokens = tokens
    BY <1>1, <1>4, <1>5 DEF BucketRecord
  <1>7. PICK at \in Int : /\ at = rlNow + (IF tier.refill > 0 THEN RetryAfter(tokens, tier) ELSE MaxTime + 1)
                          /\ at >= rlNow
                          /\ at > MaxTime \/ tokens + (at - rlNow) * tier.refill >= Parts
   <2>1. CASE tier.refill > 0
    <3>1. RetryAfter(tokens, tier) \in Nat /\ tokens + RetryAfter(tokens, tier) * tier.refill >= Parts
      BY <1>5, <2>1, RetryRefills
    <3>2. PICK r \in Nat : r = RetryAfter(tokens, tier) /\ tokens + r * tier.refill >= Parts
      BY <3>1
    <3>3. rlNow + r \in Int /\ rlNow + r >= rlNow /\ (rlNow + r) - rlNow = r BY <1>1, <3>2
    <3> QED BY <2>1, <3>2, <3>3
   <2>2. CASE ~(tier.refill > 0)
    <3>1. rlNow + (MaxTime + 1) \in Int /\ rlNow + (MaxTime + 1) >= rlNow /\ rlNow + (MaxTime + 1) > MaxTime
      BY <1>1, <1>5
    <3> QED BY <2>2, <3>1
   <2> QED BY <2>1, <2>2
  <1>8. /\ rlState' = LruStored(b) /\ rlNow' = rlNow
        /\ rlAdmitted' = [x \in Keys |-> IF Kept(x) THEN rlAdmitted[x] ELSE <<>>]
        /\ rlPromise' = [x \in Keys |-> IF ~Kept(x) THEN NoPromise ELSE IF x # k THEN rlPromise[x]
                                        ELSE [tier |-> tier, at |-> at]]
   <2>1. SavedBucket(old, tokens) = b
    <3> DEFINE saved == [old EXCEPT !.tokens = tokens, !.last = rlNow]
    <3>1. /\ saved = [f \in {"key", "tokens", "last"} |-> saved[f]]
          /\ saved.key = k /\ saved.tokens = tokens /\ saved.last = rlNow
      BY <1>2 DEF BucketRecord
    <3> HIDE DEF saved
    <3>2. saved = b BY <1>4, <3>1
    <3> QED BY <3>2 DEF SavedBucket, saved
   <2>2. /\ rlState' = LruStored(SavedBucket(old, tokens)) /\ rlNow' = rlNow
         /\ rlAdmitted' = [x \in Keys |-> IF Kept(x) THEN rlAdmitted[x] ELSE <<>>]
         /\ rlPromise' = [x \in Keys |-> IF ~Kept(x) THEN NoPromise ELSE IF x # k THEN rlPromise[x]
                ELSE [tier |-> tier, at |-> rlNow + (IF tier.refill > 0 THEN RetryAfter(tokens, tier)
                                                     ELSE MaxTime + 1)]]
     BY <1>2, <1>3 DEF Refuse
   <2> QED BY <1>7, <2>1, <2>2
  <1>9. Kept(k)
   <2>1. rlState \in Seq(BucketRecord) /\ OneBucketEach BY DEF LimiterInv, LimiterShape
   <2>2. \E n \in DOMAIN rlState' : rlState'[n] = b BY <1>6, <1>8, <2>1, StoredBuckets
   <2> QED BY <1>6, <2>2 DEF Kept
  <1>10. NoPromise \in [tier : Tiers, at : Int] /\ NoPromise.at = -1
    BY LimiterAssumption DEF NoPromise
  <1>11. /\ rlAdmitted' \in [Keys -> Seq(Nat)] /\ rlPromise' \in [Keys -> [tier : Tiers, at : Int]]
         /\ rlAdmitted'[k] = rlAdmitted[k] /\ rlPromise'[k] = [tier |-> tier, at |-> at]
    BY <1>1, <1>7, <1>8, <1>9, <1>10
  <1> DEFINE adm == rlAdmitted[k]
  <1>12. \A i \in DOMAIN adm :
            /\ adm[i] <= rlNow
            /\ (Len(adm) - i + 1) * Parts + tokens <= MaxCap * Parts + (rlNow - adm[i]) * MaxRefill
   <2>1. ASSUME NEW i \in DOMAIN adm
         PROVE  /\ adm[i] <= rlNow
                /\ (Len(adm) - i + 1) * Parts + tokens <= MaxCap * Parts + (rlNow - adm[i]) * MaxRefill
    <3>1. /\ adm[i] \in Nat /\ adm[i] <= old.last /\ old.last \in Nat /\ old.tokens \in Nat
          /\ (Len(adm) - i + 1) * Parts + old.tokens <= MaxCap * Parts + (old.last - adm[i]) * MaxRefill
      BY <1>1, <1>2, <2>1 DEF Accounted, BucketRecord
    <3>2. rlNow \in Int /\ adm[i] \in Int /\ old.last \in Int /\ MaxRefill \in Int
      BY <1>1, <1>5, <3>1
    <3>3. (rlNow - adm[i]) * MaxRefill = (old.last - adm[i]) * MaxRefill + (rlNow - old.last) * MaxRefill
      BY <3>2, SpansAdd
    <3> DEFINE n == (Len(adm) - i + 1) * Parts
               s == (old.last - adm[i]) * MaxRefill
               t == (rlNow - old.last) * MaxRefill
    <3>4. n \in Int /\ s \in Int /\ t \in Int
     <4>1. s \in Int /\ t \in Int BY <3>2, SpansAdd
     <4>2. Len(adm) - i + 1 \in Int BY <1>1, <2>1
     <4> QED BY <1>5, <4>1, <4>2
    <3>5. n + old.tokens <= MaxCap * Parts + s /\ tokens <= old.tokens + t BY <1>3, <3>1
    <3> HIDE DEF n, s, t
    <3>6. n + tokens <= MaxCap * Parts + (s + t) BY <1>5, <3>1, <3>4, <3>5, SMTT(30)
    <3>7. (Len(adm) - i + 1) * Parts + tokens <= MaxCap * Parts + (rlNow - adm[i]) * MaxRefill
      BY <3>3, <3>6 DEF n, s, t
    <3>8. adm[i] <= rlNow
     <4>1. adm[i] <= old.last /\ old.last <= rlNow BY <1>2, <3>1
     <4> QED BY <3>2, <4>1
    <3> QED BY <3>7, <3>8
   <2> QED BY <2>1
  <1>13. Accounted(b)' BY <1>6, <1>11, <1>12 DEF Accounted
  <1>14. Promised(b)' BY <1>6, <1>7, <1>11 DEF Promised
  <1>15. LimiterShape' /\ OneBucketEach' /\ BucketsAccounted' /\ NoBucketNoHistory'
   <2>1. \A x \in Keys \ {b.key} :
            Kept(x) => rlAdmitted'[x] = rlAdmitted[x] /\ rlPromise'[x] = rlPromise[x]
     BY <1>6, <1>8
   <2>2. \A x \in Keys : ~Kept(x) => rlAdmitted'[x] = <<>> /\ rlPromise'[x].at = -1 BY <1>8, <1>10
   <2>3. b.last <= rlNow BY <1>1, <1>6
   <2> QED BY <1>6, <1>8, <1>11, <1>13, <1>14, <2>1, <2>2, <2>3, StoringKeeps
  <1>16. AdmittedWithinRate'
   <2>1. \A x \in Keys : rlAdmitted'[x] = rlAdmitted[x] \/ rlAdmitted'[x] = <<>> BY <1>8
   <2>2. ASSUME NEW x \in Keys, NEW i \in DOMAIN rlAdmitted'[x], NEW j \in DOMAIN rlAdmitted'[x], i <= j
         PROVE  (j - i + 1) * Parts <= MaxCap * Parts + (rlAdmitted'[x][j] - rlAdmitted'[x][i]) * MaxRefill
    <3>1. CASE rlAdmitted'[x] = rlAdmitted[x] BY <1>1, <2>2, <3>1 DEF AdmittedWithinRate
    <3>2. CASE rlAdmitted'[x] = <<>> BY <2>2, <3>2
    <3> QED BY <2>1, <3>1, <3>2
   <2> QED BY <2>2 DEF AdmittedWithinRate
  <1> QED BY <1>15, <1>16 DEF LimiterInv

(* Every step of the limiter keeps its invariant. *)
LEMMA LimiterSteps == LimiterInv /\ [LimiterNext]_rlVars => LimiterInv'
  <1> SUFFICES ASSUME LimiterInv, [LimiterNext]_rlVars PROVE LimiterInv'
    OBVIOUS
  <1>1. ASSUME UNCHANGED <<rlState, rlAdmitted, rlPromise>>, rlNow' \in 0..MaxTime, rlNow' >= rlNow
        PROVE  LimiterInv'
   <2>1. LimiterShape'
    <3>1. rlState \in Seq(BucketRecord) /\ rlNow \in Nat BY DEF LimiterInv, LimiterShape
    <3>2. \A i \in DOMAIN rlState : rlState[i] \in BucketRecord BY <3>1
    <3>3. \A i \in DOMAIN rlState : rlState[i].last \in Nat BY <3>2 DEF BucketRecord
    <3> QED BY <1>1, <3>3 DEF LimiterInv, LimiterShape
   <2>2. OneBucketEach' /\ NoBucketNoHistory' /\ AdmittedWithinRate'
     BY <1>1 DEF LimiterInv, OneBucketEach, NoBucketNoHistory, AdmittedWithinRate, Place
   <2>3. BucketsAccounted' BY <1>1 DEF LimiterInv, BucketsAccounted, Accounted, Promised
   <2> QED BY <2>1, <2>2, <2>3 DEF LimiterInv
  <1>2. rlNow \in 0..MaxTime BY DEF LimiterInv, LimiterShape
  <1>3. CASE UNCHANGED rlVars BY <1>1, <1>2, <1>3 DEF rlVars
  <1>4. CASE LimiterTick
   <2>1. rlNow' \in 0..MaxTime /\ rlNow' >= rlNow BY <1>2, <1>4, LimiterAssumption DEF LimiterTick
   <2> QED BY <1>1, <1>4, <2>1 DEF LimiterTick
  <1> QED BY <1>3, <1>4, AdmitKeeps, RefuseKeeps DEF LimiterNext

(* Whoever waits as long as told is admitted. *)
LEMMA LimiterKeepsWord == LimiterInv => RetryAfterIsEnough
  <1> SUFFICES ASSUME LimiterInv, NEW k \in Keys, rlPromise[k].at >= 0, rlNow >= rlPromise[k].at
               PROVE  Refilled(BucketOf(k, rlPromise[k].tier), rlPromise[k].tier) >= Parts
    BY DEF RetryAfterIsEnough
  <1>1. PICK p \in [tier : Tiers, at : Int] : p = rlPromise[k] /\ p.at >= 0 /\ rlNow >= p.at
    BY DEF LimiterInv, LimiterShape
  <1>2. Place(k) # {} BY <1>1 DEF LimiterInv, NoBucketNoHistory
  <1>3. PICK i \in Place(k) : BucketOf(k, p.tier) = rlState[i]
    BY <1>2 DEF BucketOf
  <1>4. PICK b \in BucketRecord : /\ b = rlState[i] /\ b.key = k /\ b = BucketOf(k, p.tier)
                                  /\ b.last <= rlNow /\ Promised(b)
    BY <1>3 DEF LimiterInv, LimiterShape, BucketsAccounted, Place
  <1>5. /\ rlNow \in Nat /\ rlNow <= MaxTime /\ MaxTime \in Nat /\ b.last \in Nat /\ b.tokens \in Nat
        /\ p.tier.refill \in Nat /\ Parts \in Nat
   <2>1. p.tier.refill \in Nat /\ Parts \in Nat /\ MaxTime \in Nat BY LimiterAssumption
   <2>2. rlNow \in 0..MaxTime BY DEF LimiterInv, LimiterShape
   <2>3. b.last \in Nat /\ b.tokens \in Nat BY DEF BucketRecord
   <2> QED BY <2>1, <2>2, <2>3
  <1>6. b.last <= p.at /\ b.tokens + (p.at - b.last) * p.tier.refill >= Parts
    BY <1>1, <1>4, <1>5 DEF Promised
  <1>7. b.tokens + (rlNow - b.last) * p.tier.refill >= Parts
   <2>1. /\ (rlNow - b.last) * p.tier.refill = (p.at - b.last) * p.tier.refill + (rlNow - p.at) * p.tier.refill
         /\ (p.at - b.last) * p.tier.refill \in Int
     BY <1>5, SpansAdd
   <2>2. (rlNow - p.at) * p.tier.refill \in Nat
    <3>1. rlNow - p.at \in Nat BY <1>1, <1>5
    <3> QED BY <1>5, <3>1
   <2> QED BY <1>5, <1>6, <2>1, <2>2
  <1> QED BY <1>1, <1>4, <1>7, RefillBounds

----------------------------------------
(* The velocity of orders. *)

\* What is left of the approved orders after the first k, which the window has passed.
LeftAfter(seq, k) ==
    /\ seq = SubSeq(gaApproved, k + 1, Len(gaApproved))
    /\ \A i \in 1..k : gaApproved[i] < gaNow - Window

\* The orders are in the order of the clock, and no window has room for more than allowed.
Spaced(orders, now) ==
    /\ \A i, j \in 1..Len(orders) : i <= j => orders[i] <= orders[j]
    /\ \A i \in 1..Len(orders) : orders[i] <= now
    /\ \A i \in 1..Len(orders) : i > MaxOrders => orders[i - MaxOrders] < orders[i] - Window

WindowInv ==
    /\ gaNow \in Nat /\ gaApproved \in Seq(Nat)
    /\ \E k \in 0..Len(gaApproved) : LeftAfter(gaTimes, k)
    /\ Spaced(gaApproved, gaNow)

(* Nothing was approved at the start. *)
LEMMA WindowStarts == GateInit => WindowInv
  <1> SUFFICES ASSUME GateInit PROVE WindowInv
    OBVIOUS
  <1>1. gaApproved = <<>> /\ gaTimes = <<>> /\ gaNow = 0 /\ Len(<<>>) = 0 /\ <<>> \in Seq(Nat)
    BY DEF GateInit
  <1>2. SubSeq(<<>>, 1, 0) = <<>> OBVIOUS
  <1>3. LeftAfter(gaTimes, 0) BY <1>1, <1>2 DEF LeftAfter
  <1>4. Spaced(gaApproved, gaNow) BY <1>1 DEF Spaced
  <1> QED BY <1>1, <1>3, <1>4 DEF WindowInv

(* What counts is what is left when more of the first orders are passed. *)
LEMMA CountingIsLeft ==
    ASSUME WindowInv
    PROVE  \E k \in 0..Len(gaApproved) : LeftAfter(InWindow, k)
  <1> DEFINE a == gaApproved
             n == Len(gaApproved)
             c == {i \in DOMAIN gaTimes : gaTimes[i] >= gaNow - Window}
  <1>1. PICK k \in 0..n : LeftAfter(gaTimes, k)
    BY DEF WindowInv
  <1>2. a \in Seq(Nat) /\ n \in Nat /\ gaNow \in Nat /\ Window \in Nat /\ k \in Nat /\ k <= n
    BY GateAssumption DEF WindowInv
  <1>3. /\ gaTimes \in Seq(Nat) /\ Len(gaTimes) = n - k /\ DOMAIN gaTimes = 1 .. n - k
        /\ \A i \in 1 .. n - k : gaTimes[i] = a[k + i]
    BY <1>1, <1>2 DEF LeftAfter
  <1>4. \A i \in 1..n : a[i] \in Nat BY <1>2
  <1>5. CASE c = {}
   <2>1. InWindow = <<>> BY <1>5 DEF InWindow, LeftFrom
   <2>2. SubSeq(a, n + 1, n) = <<>> BY <1>2
   <2>3. \A i \in 1..n : a[i] < gaNow - Window
    <3> TAKE i \in 1..n
    <3>1. CASE i <= k BY <1>1, <3>1 DEF LeftAfter
    <3>2. CASE i > k
     <4>1. i - k \in 1 .. n - k /\ k + (i - k) = i BY <1>2, <3>2
     <4>2. ~(gaTimes[i - k] >= gaNow - Window) BY <1>3, <1>5, <4>1
     <4>3. gaTimes[i - k] = a[i] BY <1>3, <4>1
     <4> QED BY <1>2, <1>4, <4>2, <4>3
    <3> QED BY <1>2, <3>1, <3>2
   <2> QED BY <1>2, <2>1, <2>2, <2>3, SMTT(30) DEF LeftAfter
  <1>6. CASE c # {}
   <2>1. c \subseteq Nat /\ c \subseteq 1 .. n - k BY <1>2, <1>3
   <2>2. PICK m \in c : m = Min(c) /\ \A y \in c : m <= y
    <3>1. \E x \in c : \A y \in c : x <= y BY <1>6, <2>1, LeastNatural
    <3> QED BY <3>1 DEF Min
   <2> DEFINE p == k + m - 1
   <2>3. InWindow = SubSeq(gaTimes, m, Len(gaTimes)) BY <1>6, <2>2 DEF InWindow, LeftFrom
   <2>c. \A i \in 1 .. n - k : i < m => ~(gaTimes[i] >= gaNow - Window)
    <3> SUFFICES ASSUME NEW i \in 1 .. n - k, i < m PROVE i \notin c
      BY <1>3
    <3>1. m \in Nat BY <2>1, <2>2
    <3>2. i \in c => m <= i BY <2>2
    <3> HIDE DEF c
    <3> QED BY <3>1, <3>2
   <2>m. m \in 1 .. n - k BY <2>1, <2>2
   <2> HIDE DEF c
   <2>4. m \in 1 .. n - k /\ p \in 0..n /\ m \in Nat /\ p \in Nat /\ p + 1 = k + m BY <1>2, <2>m
   <2> HIDE DEF p
   <2>5. InWindow = SubSeq(a, p + 1, n)
    <3>1. /\ k + 1 \in 1..n /\ n \in 1..n /\ m \in 1 .. n - (k + 1) + 1
          /\ n - k \in 1 .. n - (k + 1) + 1 /\ (k + 1) + m - 1 = p + 1 /\ (k + 1) + (n - k) - 1 = n
      BY <1>2, <2>4
    <3>2. SubSeq(SubSeq(a, k + 1, n), m, n - k) = SubSeq(a, (k + 1) + m - 1, (k + 1) + (n - k) - 1)
      BY <1>2, <3>1, SubSeqOfSubSeq
    <3>3. gaTimes = SubSeq(a, k + 1, n) BY <1>1 DEF LeftAfter
    <3> QED BY <1>3, <2>3, <3>1, <3>2, <3>3
   <2>6. \A i \in 1..p : a[i] < gaNow - Window
    <3> TAKE i \in 1..p
    <3>1. CASE i <= k BY <1>1, <3>1 DEF LeftAfter
    <3>2. CASE i > k
     <4>1. i - k \in 1 .. n - k /\ k + (i - k) = i /\ i - k < m /\ i \in 1..n BY <1>2, <2>4, <3>2
     <4>2. ~(gaTimes[i - k] >= gaNow - Window) BY <2>c, <4>1
     <4>3. gaTimes[i - k] = a[i] BY <1>3, <4>1
     <4> QED BY <1>2, <1>4, <4>1, <4>2, <4>3
    <3> QED BY <1>2, <3>1, <3>2
   <2> QED BY <2>4, <2>5, <2>6 DEF LeftAfter
  <1> QED BY <1>5, <1>6

(* What is left of a longer sequence is longer by the same. *)
LEMMA LeftGrows ==
    ASSUME NEW a \in Seq(Nat), NEW x \in Nat, NEW n, n = Len(a), NEW k \in 0..n
    PROVE  SubSeq(Append(a, x), k + 1, n + 1) = Append(SubSeq(a, k + 1, n), x)
  <1> DEFINE b == Append(a, x)
             l == SubSeq(b, k + 1, n + 1)
             s == SubSeq(a, k + 1, n)
             r == Append(s, x)
  <1>0. n \in Nat /\ k \in Nat /\ k <= n OBVIOUS
  <1>1. b \in Seq(Nat) /\ Len(b) = n + 1 /\ b[n + 1] = x /\ \A i \in 1..n : b[i] = a[i] /\ a[i] \in Nat
    OBVIOUS
  <1> HIDE DEF b
  <1>2. /\ s \in Seq(Nat) /\ Len(s) = n - k /\ \A i \in 1 .. n - k : s[i] = a[k + i]
   <2>1. \A i \in (k + 1)..n : a[i] \in Nat BY <1>0, <1>1
   <2>2. /\ s \in Seq(Nat) /\ Len(s) = (IF k + 1 <= n THEN n - (k + 1) + 1 ELSE 0)
         /\ \A i \in 1 .. n - (k + 1) + 1 : s[i] = a[(k + 1) + i - 1]
    <3> DEFINE j == k + 1
    <3>1. j \in Int /\ n \in Int /\ \A i \in j..n : a[i] \in Nat BY <1>0, <2>1
    <3> HIDE DEF j
    <3>2. /\ SubSeq(a, j, n) \in Seq(Nat) /\ Len(SubSeq(a, j, n)) = (IF j <= n THEN n - j + 1 ELSE 0)
          /\ \A i \in 1 .. n - j + 1 : SubSeq(a, j, n)[i] = a[j + i - 1]
      BY <3>1, SubSeqProperties
    <3> QED BY <3>2 DEF j
   <2> HIDE DEF s
   <2>3. \A i \in 1 .. n - k : i \in 1 .. n - (k + 1) + 1 /\ (k + 1) + i - 1 = k + i BY <1>0
   <2> QED BY <1>0, <2>2, <2>3
  <1>3. /\ l \in Seq(Nat) /\ Len(l) = n - k + 1 /\ \A i \in 1 .. n - k + 1 : l[i] = b[k + i]
   <2>1. \A i \in (k + 1) .. n + 1 : b[i] \in Nat BY <1>0, <1>1
   <2>2. /\ l \in Seq(Nat) /\ Len(l) = (IF k + 1 <= n + 1 THEN (n + 1) - (k + 1) + 1 ELSE 0)
         /\ \A i \in 1 .. (n + 1) - (k + 1) + 1 : l[i] = b[(k + 1) + i - 1]
     BY <1>0, <2>1, SubSeqProperties
   <2> HIDE DEF l
   <2>3. \A i \in 1 .. n - k + 1 : i \in 1 .. (n + 1) - (k + 1) + 1 /\ (k + 1) + i - 1 = k + i
     BY <1>0
   <2> QED BY <1>0, <2>2, <2>3
  <1> HIDE DEF s, l
  <1>4. r \in Seq(Nat) /\ Len(r) = n - k + 1 /\ r[n - k + 1] = x /\ \A i \in 1 .. n - k : r[i] = s[i]
    BY <1>0, <1>2
  <1> HIDE DEF r
  <1>5. \A i \in 1 .. n - k + 1 : l[i] = r[i]
   <2> TAKE i \in 1 .. n - k + 1
   <2>1. CASE i = n - k + 1
    <3>1. k + i = n + 1 BY <1>0, <2>1
    <3>2. l[i] = b[k + i] BY <1>3
    <3> QED BY <1>1, <1>4, <2>1, <3>1, <3>2
   <2>2. CASE i # n - k + 1
    <3>1. i \in 1 .. n - k /\ k + i \in 1..n BY <1>0, <2>2
    <3> QED BY <1>1, <1>2, <1>3, <1>4, <3>1
   <2> QED BY <2>1, <2>2
  <1>6. l = r
   <2>1. l \in Seq(Nat) /\ r \in Seq(Nat) /\ Len(l) = Len(r) BY <1>3, <1>4
   <2>2. \A i \in 1 .. Len(l) : l[i] = r[i] BY <1>3, <1>5
   <2> QED BY <2>1, <2>2, SeqEqual
  <1> QED BY <1>6 DEF l, r, s, b

(* One more order, when less than allowed are not yet passed by the window. *)
LEMMA OneMoreOrder ==
    ASSUME NEW a \in Seq(Nat), NEW b \in Seq(Nat), NEW n \in Nat, NEW now \in Nat, NEW k \in 0..n,
           n = Len(a), Len(b) = n + 1, b[n + 1] = now, \A i \in 1..n : b[i] = a[i],
           Spaced(a, now), n - k < MaxOrders, \A i \in 1..k : a[i] < now - Window
    PROVE  Spaced(b, now)
  <1>0. /\ Window \in Nat /\ MaxOrders \in Nat
        /\ \A i \in 1..n : a[i] \in Nat /\ a[i] <= now /\ b[i] = a[i]
        /\ \A i, j \in 1..n : i <= j => a[i] <= a[j]
        /\ \A i \in 1..n : i > MaxOrders => a[i - MaxOrders] < a[i] - Window
    BY GateAssumption DEF Spaced
  <1>1. \A i, j \in 1 .. n + 1 : i <= j => b[i] <= b[j]
   <2> TAKE i, j \in 1 .. n + 1
   <2>1. CASE j = n + 1 /\ i # n + 1
    <3>1. i \in 1..n BY <2>1
    <3> QED BY <1>0, <2>1, <3>1
   <2>2. CASE j # n + 1 /\ i <= j
    <3>1. i \in 1..n /\ j \in 1..n BY <2>2, SMTT(30)
    <3> QED BY <1>0, <2>2, <3>1
   <2>3. CASE i = n + 1 /\ j = n + 1 BY <2>3
   <2> QED BY <2>1, <2>2, <2>3
  <1>2. \A i \in 1 .. n + 1 : b[i] <= now
   <2> TAKE i \in 1 .. n + 1
   <2>1. i = n + 1 \/ i \in 1..n OBVIOUS
   <2> QED BY <1>0, <2>1
  <1>3. \A i \in 1 .. n + 1 : i > MaxOrders => b[i - MaxOrders] < b[i] - Window
   <2> SUFFICES ASSUME NEW i \in 1 .. n + 1, i > MaxOrders
                PROVE  b[i - MaxOrders] < b[i] - Window
     OBVIOUS
   <2>1. i - MaxOrders \in 1..n BY <1>0
   <2>2. CASE i = n + 1
    <3>1. i - MaxOrders \in 1..k BY <1>0, <2>1, <2>2
    <3> QED BY <1>0, <2>1, <2>2, <3>1
   <2>3. CASE i # n + 1
    <3>1. i \in 1..n BY <2>3
    <3> QED BY <1>0, <2>1, <3>1
   <2> QED BY <2>2, <2>3
  <1> QED BY <1>1, <1>2, <1>3 DEF Spaced

(* No step of the gate makes a window that holds more orders than allowed. *)
LEMMA WindowSteps ==
    ASSUME WindowInv, [GateNext]_gaVars
    PROVE  WindowInv'
  <1> DEFINE a == gaApproved
             n == Len(gaApproved)
  <1>0. /\ a \in Seq(Nat) /\ n \in Nat /\ gaNow \in Nat /\ Window \in Nat /\ MaxOrders \in Nat
        /\ \A i \in 1..n : a[i] \in Nat /\ a[i] <= gaNow
    BY GateAssumption DEF WindowInv, Spaced
  <1>1. ASSUME gaApproved' = gaApproved, gaNow' \in Nat, gaNow <= gaNow',
               \E k \in 0..n : LeftAfter(gaTimes', k)
        PROVE  WindowInv'
   <2>1. PICK k \in 0..n : LeftAfter(gaTimes', k)
     BY <1>1
   <2>2. LeftAfter(gaTimes, k)'
    <3>1. \A i \in 1..k : a[i] < gaNow - Window BY <2>1 DEF LeftAfter
    <3>2. \A i \in 1..k : a[i] < gaNow' - Window BY <1>0, <1>1, <3>1
    <3> QED BY <1>1, <2>1, <3>2 DEF LeftAfter
   <2>3. Spaced(gaApproved, gaNow)' BY <1>0, <1>1 DEF WindowInv, Spaced
   <2> QED BY <1>0, <1>1, <2>2, <2>3 DEF WindowInv
  <1>2. CASE UNCHANGED gaVars \/ ResetCircuitBreaker \/ GateTick
   <2>1. /\ gaApproved' = gaApproved /\ gaTimes' = gaTimes /\ gaNow' \in Nat /\ gaNow <= gaNow'
     BY <1>0, <1>2 DEF gaVars, ResetCircuitBreaker, GateTick
   <2> QED BY <1>1, <2>1 DEF WindowInv
  <1>3. ASSUME NEW side \in {"buy", "sell"}, NEW q \in Notionals, NEW pnl \in Pnls, NEW held \in Exposures,
               Check(side, q, pnl, held)
        PROVE  WindowInv'
   <2> DEFINE ok == ~Breaches(side, q, pnl, held) /\ Len(InWindow) < MaxOrders
   <2>1. PICK k \in 0..n : LeftAfter(InWindow, k)
     BY CountingIsLeft
   <2>2. /\ gaTimes' = IF ok THEN Append(InWindow, gaNow) ELSE InWindow
         /\ gaApproved' = IF ok THEN Append(a, gaNow) ELSE a
         /\ gaNow' = gaNow
     BY <1>3 DEF Check
   <2>3. CASE ~ok BY <1>0, <1>1, <2>1, <2>2, <2>3
   <2>4. CASE ok
    <3>1. Len(InWindow) < MaxOrders /\ InWindow = SubSeq(a, k + 1, n) BY <2>1, <2>4 DEF LeftAfter
    <3>a. \A i \in 1..k : a[i] < gaNow - Window BY <2>1 DEF LeftAfter
    <3>k. k \in Nat /\ k <= n BY <1>0
    <3>l. n - k < MaxOrders BY <1>0, <3>1, <3>k
    <3> DEFINE b == Append(a, gaNow)
    <3>2. b \in Seq(Nat) /\ Len(b) = n + 1 /\ b[n + 1] = gaNow BY <1>0
    <3>b. \A i \in 1..n : b[i] = a[i] BY <1>0
    <3>3. gaApproved' = b /\ gaTimes' = Append(InWindow, gaNow) BY <2>2, <2>4
    <3>4. SubSeq(b, k + 1, n + 1) = Append(SubSeq(a, k + 1, n), gaNow)
     <4>1. a \in Seq(Nat) /\ gaNow \in Nat BY <1>0
     <4> QED BY <4>1, LeftGrows
    <3>s. Spaced(a, gaNow) BY DEF WindowInv
    <3> HIDE DEF b
    <3>6. LeftAfter(gaTimes, k)'
     <4>1. \A i \in 1..k : b[i] < gaNow - Window
      <5> TAKE i \in 1..k
      <5>1. i \in 1..n BY <3>k
      <5> QED BY <3>a, <3>b, <5>1
     <4> QED BY <2>2, <3>1, <3>2, <3>3, <3>4, <4>1 DEF LeftAfter
    <3>7. Spaced(b, gaNow)
     <4>1. k \in 0..n /\ a \in Seq(Nat) /\ n \in Nat /\ gaNow \in Nat /\ n = Len(a) BY <1>0
     <4> HIDE DEF a, n
     <4> QED BY <3>2, <3>b, <3>a, <3>l, <3>s, <4>1, OneMoreOrder
    <3>8. k \in 0..Len(b) /\ b \in Seq(Nat) /\ gaNow \in Nat BY <1>0, <3>k, <3>2
    <3> QED BY <2>2, <3>3, <3>6, <3>7, <3>8 DEF WindowInv
   <2> QED BY <2>3, <2>4
  <1> QED BY <1>2, <1>3 DEF GateNext

(* So no window holds more approved orders than allowed. *)
LEMMA WindowHolds ==
    ASSUME WindowInv
    PROVE  VelocityHolds
  <1> DEFINE a == gaApproved
             n == Len(gaApproved)
  <1>0. /\ a \in Seq(Nat) /\ n \in Nat /\ Window \in Nat /\ MaxOrders \in Nat /\ DOMAIN a = 1..n
        /\ \A i \in 1..n : a[i] \in Nat
        /\ \A i, j \in 1..n : i <= j => a[i] <= a[j]
        /\ \A i \in 1..n : i > MaxOrders => a[i - MaxOrders] < a[i] - Window
    BY GateAssumption DEF WindowInv, Spaced
  <1> SUFFICES ASSUME NEW i \in 1..n
               PROVE  Cardinality({j \in 1..n : a[j] \in (a[i] - Window)..a[i]}) <= MaxOrders
    BY <1>0 DEF VelocityHolds
  <1> DEFINE J == {j \in 1..n : a[j] \in (a[i] - Window)..a[i]}
  <1>1. i \in J /\ J \subseteq 1..n BY <1>0
  <1>2. PICK m \in J : \A j \in J : j <= m
    BY <1>0, <1>1, LastPosition
  <1>3. J \subseteq (m - MaxOrders + 1)..m
   <2> SUFFICES ASSUME NEW j \in J PROVE j >= m - MaxOrders + 1 /\ j <= m
     BY <1>0, <1>1
   <2>1. j \in 1..n /\ m \in 1..n /\ j <= m BY <1>1, <1>2
   <2>2. ASSUME j <= m - MaxOrders PROVE FALSE
    <3>1. m > MaxOrders /\ m - MaxOrders \in 1..n BY <1>0, <2>1, <2>2
    <3>2. a[j] <= a[m - MaxOrders] /\ a[m - MaxOrders] < a[m] - Window BY <1>0, <2>1, <2>2, <3>1
    <3>3. a[j] >= a[i] - Window /\ a[m] <= a[i]
     <4>1. a[j] \in (a[i] - Window)..a[i] /\ a[m] \in (a[i] - Window)..a[i] BY <1>2
     <4>2. a[i] \in Nat BY <1>0
     <4> HIDE DEF a
     <4> QED BY <1>0, <4>1, <4>2
    <3>4. a[j] \in Nat /\ a[i] \in Nat /\ a[m] \in Nat /\ a[m - MaxOrders] \in Nat
      BY <1>0, <2>1, <3>1
    <3> HIDE DEF a
    <3> QED BY <1>0, <3>2, <3>3, <3>4, SMTT(30)
   <2> QED BY <1>0, <2>1, <2>2
  <1>4. /\ IsFiniteSet((m - MaxOrders + 1)..m)
        /\ Cardinality((m - MaxOrders + 1)..m) = MaxOrders
   <2>1. m \in Int /\ m - MaxOrders + 1 \in Int BY <1>0, <1>1, <1>2
   <2>2. /\ IsFiniteSet((m - MaxOrders + 1)..m)
         /\ Cardinality((m - MaxOrders + 1)..m) =
               IF (m - MaxOrders + 1) > m THEN 0 ELSE m - (m - MaxOrders + 1) + 1
     BY <2>1, FS_Interval
   <2> QED BY <1>0, <2>1, <2>2
  <1> HIDE DEF J
  <1>5. Cardinality(J) <= MaxOrders BY <1>3, <1>4, FS_Subset, ZenonT(60)
  <1> QED BY <1>5 DEF J

----------------------------------------
(* One version serves. *)

\* No two versions serve, and while a call is about to promote its version no other does.
OneServes ==
    /\ \A i, j \in VersionIds : veRows[i].status = "active" /\ veRows[j].status = "active" => i = j
    /\ \A c \in VersionCalls : veCall[c].pc = "demoted" =>
          \A i \in VersionIds : veRows[i].status = "active" => i = veCall[c].n

NumbersCount == \A i \in VersionIds : veRows[i].num \in Nat

ServingInv == OneServes /\ NumbersCount /\ VersionsDistinct

(* No version was deployed at the start. *)
LEMMA ServingStarts == VersionInit => ServingInv
  <1> SUFFICES ASSUME VersionInit PROVE ServingInv
    OBVIOUS
  <1>1. VersionIds = {} /\ \A c \in VersionCalls : veCall[c].pc = "idle"
    BY DEF VersionInit, VersionIds, NoVersionCall
  <1> QED BY <1>1 DEF ServingInv, OneServes, NumbersCount, VersionsDistinct

(* The next number is beyond those given. *)
LEMMA NextNumber ==
    ASSUME NumbersCount, NEW n \in Nat, VersionIds = 1..n,
           NEW S, S = {0} \cup {veRows[k].num : k \in DOMAIN veRows}
    PROVE  1 + Max(S) \in Nat /\ \A i \in VersionIds : veRows[i].num < 1 + Max(S)
  <1> DEFINE A == 0..n
             v == [i \in A |-> IF i = 0 THEN 0 ELSE veRows[i].num]
  <1>1. \A i \in A : v[i] \in Nat BY DEF NumbersCount
  <1>2. IsFiniteSet(A) /\ A # {}
   <2>1. 0 \in Int /\ n \in Int /\ 0 \in A OBVIOUS
   <2> QED BY <2>1, FS_Interval
  <1>a. \A i \in 1..n : v[i] = veRows[i].num OBVIOUS
  <1>b. v[0] = 0 /\ 0 \in A /\ 1..n \subseteq A /\ \A i \in A : i = 0 \/ i \in 1..n OBVIOUS
  <1> HIDE DEF v, A
  <1>3. PICK m \in A : \A i \in A : v[i] <= v[m]
    BY <1>1, <1>2, GreatestAt
  <1>4. /\ \A y \in S : \E i \in A : y = v[i]
        /\ \A i \in A : v[i] \in S
    BY <1>a, <1>b DEF VersionIds
  <1>5. v[m] \in S /\ \A y \in S : v[m] >= y BY <1>1, <1>3, <1>4
  <1>6. Max(S) \in S /\ \A y \in S : Max(S) >= y BY <1>5 DEF Max
  <1>7. Max(S) \in Nat BY <1>1, <1>4, <1>6
  <1>8. \A i \in VersionIds : veRows[i].num \in S /\ veRows[i].num \in Nat
    BY DEF VersionIds, NumbersCount
  <1> QED BY <1>6, <1>7, <1>8

(* Rows that keep their contents and numbers stay distinct. *)
LEMMA SameNumbers ==
    ASSUME NumbersCount, VersionsDistinct, VersionIds' = VersionIds,
           \A i \in VersionIds : veRows'[i].content = veRows[i].content /\ veRows'[i].num = veRows[i].num
    PROVE  NumbersCount' /\ VersionsDistinct'
  BY DEF NumbersCount, VersionsDistinct

(* Every step of the versions leaves one of them serving at most, all distinct. *)
LEMMA ServingSteps ==
    ASSUME VersionInv, ServingInv, [VersionNext]_veVars
    PROVE  ServingInv'
  <1>0. PICK N : veRows \in Seq(RowsOf(N)) /\ veCall \in [VersionCalls -> VersionCallsOf(N)]
    BY DEF VersionInv, VersionShape
  <1>b. VersionIds = 1..Len(veRows) /\ Len(veRows) \in Nat /\ \A i \in VersionIds : veRows[i] \in RowsOf(N)
    BY <1>0 DEF VersionIds
  <1>s. OneServes /\ NumbersCount /\ VersionsDistinct BY DEF ServingInv
  <1>1. CASE UNCHANGED veVars
    BY <1>1, <1>s DEF veVars, ServingInv, OneServes, NumbersCount, VersionsDistinct, VersionIds
  <1>2. ASSUME NEW c \in VersionCalls, NEW r, veRows' = veRows, veCall' = [veCall EXCEPT ![c] = r], r.pc # "demoted"
        PROVE  ServingInv'
   <2>1. \A d \in VersionCalls : veCall'[d].pc = "demoted" => veCall[d].pc = "demoted" /\ veCall'[d] = veCall[d]
     BY <1>0, <1>2
   <2>2. OneServes' BY <1>2, <1>s, <2>1 DEF OneServes, VersionIds
   <2>3. NumbersCount' /\ VersionsDistinct'
     BY <1>2, <1>s DEF NumbersCount, VersionsDistinct, VersionIds
   <2> QED BY <2>2, <2>3 DEF ServingInv
  <1>3. ASSUME NEW c \in VersionCalls, VersionCall(c)
        PROVE  ServingInv'
   <2>1. \E r : veCall' = [veCall EXCEPT ![c] = r] /\ r.pc = "wait"
    <3>1. CASE \E k \in Contents : veCall' = [veCall EXCEPT ![c] =
                  [pc |-> "wait", op |-> "deploy", arg |-> k, n |-> 0, seen |-> <<>>]]
     <4>0. PICK k \in Contents : veCall' = [veCall EXCEPT ![c] =
                 [pc |-> "wait", op |-> "deploy", arg |-> k, n |-> 0, seen |-> <<>>]]
       BY <3>1
     <4> DEFINE r == [pc |-> "wait", op |-> "deploy", arg |-> k, n |-> 0, seen |-> <<>>]
     <4>1. veCall' = [veCall EXCEPT ![c] = r] BY <4>0
     <4>2. r.pc = "wait" OBVIOUS
     <4> HIDE DEF r
     <4> QED BY <4>1, <4>2
    <3>2. CASE \E i \in VersionIds, op \in {"activate", "retire", "retireActive"} : veCall' = [veCall EXCEPT ![c] =
                  [pc |-> "wait", op |-> op, arg |-> "none", n |-> i, seen |-> <<>>]]
     <4>0. PICK i \in VersionIds, op \in {"activate", "retire", "retireActive"} : veCall' = [veCall EXCEPT ![c] =
                 [pc |-> "wait", op |-> op, arg |-> "none", n |-> i, seen |-> <<>>]]
       BY <3>2
     <4> DEFINE r == [pc |-> "wait", op |-> op, arg |-> "none", n |-> i, seen |-> <<>>]
     <4>1. veCall' = [veCall EXCEPT ![c] = r] BY <4>0
     <4>2. r.pc = "wait" OBVIOUS
     <4> HIDE DEF r
     <4> QED BY <4>1, <4>2
    <3>3. CASE veCall' = [veCall EXCEPT ![c] =
                  [pc |-> "wait", op |-> "rollback", arg |-> "none", n |-> 0, seen |-> <<>>]]
     <4> DEFINE r == [pc |-> "wait", op |-> "rollback", arg |-> "none", n |-> 0, seen |-> <<>>]
     <4>1. veCall' = [veCall EXCEPT ![c] = r] BY <3>3
     <4>2. r.pc = "wait" OBVIOUS
     <4> HIDE DEF r
     <4> QED BY <4>1, <4>2
    <3> QED BY <1>3, <3>1, <3>2, <3>3 DEF VersionCall
   <2>2. veRows' = veRows BY <1>3 DEF VersionCall
   <2> QED BY <1>2, <2>1, <2>2, Zenon
  <1>4. ASSUME NEW c \in VersionCalls, VersionRead(c)
        PROVE  ServingInv'
   <2> DEFINE r == [veCall[c] EXCEPT !.pc = "read", !.seen = veRows]
   <2>1. r.pc = "read" BY <1>0 DEF VersionCallsOf
   <2>2. veCall' = [veCall EXCEPT ![c] = r] /\ veRows' = veRows BY <1>4 DEF VersionRead
   <2> HIDE DEF r
   <2> QED BY <1>2, <2>1, <2>2
  <1>5. ASSUME NEW c \in VersionCalls, VersionRaises(c)
        PROVE  ServingInv'
   <2>1. NoVersionCall.pc = "idle" /\ veCall' = [veCall EXCEPT ![c] = NoVersionCall] /\ veRows' = veRows
     BY <1>5 DEF VersionRaises, VersionEnds, NoVersionCall
   <2> QED BY <1>2, <2>1
  <1>6. ASSUME NEW c \in VersionCalls, veCall[c].pc \in {"read", "demoted"}
        PROVE  \A d \in VersionCalls : d # c => veCall[d].pc # "demoted"
    BY <1>6 DEF VersionInv, HolderSees
  <1>7. ASSUME NEW c \in VersionCalls, Deploy(c)
        PROVE  ServingInv'
   <2>1. veCall[c].pc = "read" /\ veCall' = [veCall EXCEPT ![c] = NoVersionCall] /\ NoVersionCall.pc = "idle"
     BY <1>7 DEF Deploy, VersionEnds, AtVersion, NoVersionCall
   <2>2. veCall[c].seen = veRows BY <2>1 DEF VersionInv, HolderSees
   <2>3. CASE veRows' = veRows BY <1>2, <2>1, <2>3
   <2>4. CASE veRows' # veRows
    <3> DEFINE S == {0} \cup {veRows[k].num : k \in DOMAIN veRows}
               x == 1 + Max(S)
               r == [content |-> veCall[c].arg, status |-> "draft", last |-> 0, num |-> x]
               n == Len(veRows)
    <3>1. /\ veRows' = Append(veRows, r)
          /\ \A i \in DOMAIN veRows : veRows[i].content # veCall[c].arg
     <4> DEFINE seen == veCall[c].seen
                T == {0} \cup {seen[k].num : k \in DOMAIN seen}
     <4>1. /\ veRows' = Append(veRows, [content |-> veCall[c].arg, status |-> "draft", last |-> 0,
                                        num |-> 1 + Max(T)])
           /\ ~ \E i \in DOMAIN seen : seen[i].content = veCall[c].arg
       BY <1>7, <2>4, Zenon DEF Deploy
     <4>2. T = S BY <2>2
     <4> HIDE DEF T, S
     <4> QED BY <2>2, <4>1, <4>2
    <3>2. x \in Nat /\ \A i \in VersionIds : veRows[i].num < x BY <1>b, <1>s, NextNumber
    <3> HIDE DEF x, S
    <3>3. r.num = x /\ r.status = "draft" /\ r.content = veCall[c].arg OBVIOUS
    <3> HIDE DEF r
    <3>4. /\ VersionIds' = 1 .. n + 1 /\ veRows'[n + 1] = r /\ n \in Nat
          /\ \A i \in VersionIds : veRows'[i] = veRows[i]
      BY <1>b, <3>1 DEF VersionIds
    <3>5. \A i \in VersionIds' : i \in VersionIds \/ i = n + 1 BY <1>b, <3>4
    <3>6. \A d \in VersionCalls : veCall'[d].pc # "demoted"
     <4>1. \A d \in VersionCalls : d # c => veCall[d].pc # "demoted" BY <1>6, <2>1
     <4> QED BY <1>0, <2>1, <4>1
    <3>7. OneServes' BY <1>s, <3>3, <3>4, <3>5, <3>6 DEF OneServes
    <3>8. NumbersCount' BY <1>s, <3>2, <3>3, <3>4, <3>5 DEF NumbersCount
    <3>9. VersionsDistinct'
     <4> SUFFICES ASSUME NEW i \in VersionIds', NEW j \in VersionIds', i # j
                  PROVE  veRows'[i].content # veRows'[j].content /\ veRows'[i].num # veRows'[j].num
       BY DEF VersionsDistinct
     <4>0. \A k \in VersionIds : veRows[k].num # x /\ veRows[k].content # veCall[c].arg
       BY <1>s, <3>1, <3>2 DEF VersionIds, NumbersCount
     <4>1. CASE i \in VersionIds /\ j \in VersionIds BY <1>s, <3>4, <4>1 DEF VersionsDistinct
     <4>2. CASE i = n + 1 /\ j \in VersionIds BY <3>3, <3>4, <4>0, <4>2
     <4>3. CASE j = n + 1 /\ i \in VersionIds BY <3>3, <3>4, <4>0, <4>3
     <4> QED BY <3>5, <4>1, <4>2, <4>3
    <3> QED BY <3>7, <3>8, <3>9 DEF ServingInv
   <2> QED BY <2>3, <2>4
  <1>8. ASSUME NEW c \in VersionCalls, DemoteSiblings(c)
        PROVE  ServingInv'
   <2> DEFINE n == IF veCall[c].op = "rollback" THEN Latest(veCall[c].seen) ELSE veCall[c].n
              r == [veCall[c] EXCEPT !.pc = "demoted", !.n = n]
   <2>1. /\ veCall[c].pc = "read" /\ veRows' = Demoted(c, n) /\ veCall' = [veCall EXCEPT ![c] = r]
     BY <1>8 DEF DemoteSiblings, AtVersion
   <2>2. veCall[c].seen = veRows BY <2>1 DEF VersionInv, HolderSees
   <2> HIDE DEF n
   <2>3. r.n = n BY <1>0 DEF VersionCallsOf
   <2> HIDE DEF r
   <2>4. veRows' = [i \in VersionIds |-> IF i # n /\ veRows[i].status = "active"
                                         THEN [veRows[i] EXCEPT !.status = "retired"] ELSE veRows[i]]
     BY <2>1, <2>2 DEF Demoted, Having, VersionIds
   <2>5. VersionIds' = VersionIds BY <2>4 DEF VersionIds
   <2>6. \A i \in VersionIds : /\ veRows'[i].content = veRows[i].content /\ veRows'[i].num = veRows[i].num
                               /\ veRows'[i].status = "active" => i = n
     BY <1>b, <2>4 DEF RowsOf
   <2>7. \A d \in VersionCalls : veCall'[d].pc = "demoted" => veCall'[d].n = n
    <3>1. \A d \in VersionCalls : d # c => veCall[d].pc # "demoted" BY <1>6, <2>1
    <3> QED BY <1>0, <2>1, <2>3, <3>1
   <2>8. OneServes' BY <2>5, <2>6, <2>7 DEF OneServes
   <2> QED BY <1>s, <2>5, <2>6, <2>8, SameNumbers DEF ServingInv
  <1>9. ASSUME NEW c \in VersionCalls, NEW n \in VersionIds, veCall[c].pc \in {"read", "demoted"},
               veRows'[n].content = veRows[n].content, veRows'[n].num = veRows[n].num,
               \A i \in VersionIds : veRows[i].status = "active" => i = n \/ veRows'[n].status # "active",
               VersionIds' = VersionIds, \A i \in VersionIds : i # n => veRows'[i] = veRows[i],
               veCall' = [veCall EXCEPT ![c] = NoVersionCall]
        PROVE  ServingInv'
   <2>1. NoVersionCall.pc = "idle" BY DEF NoVersionCall
   <2>2. \A d \in VersionCalls : veCall'[d].pc # "demoted"
    <3>1. \A d \in VersionCalls : d # c => veCall[d].pc # "demoted" BY <1>6, <1>9
    <3> QED BY <1>0, <1>9, <2>1, <3>1
   <2>4. \A i \in VersionIds : veRows'[i].content = veRows[i].content /\ veRows'[i].num = veRows[i].num
     BY <1>9
   <2>5. OneServes' BY <1>9, <1>s, <2>2 DEF OneServes
   <2> QED BY <1>9, <1>s, <2>4, <2>5, SameNumbers DEF ServingInv
  <1>10. ASSUME NEW c \in VersionCalls, Promote(c)
         PROVE  ServingInv'
   <2> DEFINE n == veCall[c].n
              r == [veCall[c].seen[n] EXCEPT !.status = "active", !.last = veClock']
   <2>1. /\ veCall[c].pc = "demoted" /\ veRows' = [veRows EXCEPT ![n] = r]
         /\ veCall' = [veCall EXCEPT ![c] = NoVersionCall]
     BY <1>10 DEF Promote, AtVersion, VersionEnds
   <2>2. n \in VersionIds /\ veCall[c].seen[n] = veRows[n] BY <2>1 DEF VersionInv, HolderSees
   <2>3. r.content = veRows[n].content /\ r.num = veRows[n].num /\ r.status = "active"
     BY <1>b, <2>2 DEF RowsOf
   <2>4. \A i \in VersionIds : veRows[i].status = "active" => i = n BY <1>s, <2>1 DEF OneServes
   <2> HIDE DEF n, r
   <2> QED
    <3>1. PICK m \in VersionIds : m = n
      BY <2>2
    <3>2. VersionIds' = VersionIds /\ veRows'[m] = r /\ \A i \in VersionIds : i # m => veRows'[i] = veRows[i]
      BY <1>b, <2>1, <2>2, <3>1 DEF VersionIds
    <3>3. \A i \in VersionIds : veRows[i].status = "active" => i = m \/ veRows'[m].status # "active"
      BY <2>3, <2>4, <3>1, <3>2
    <3>4. veRows'[m].content = veRows[m].content /\ veRows'[m].num = veRows[m].num
      BY <2>3, <3>1, <3>2
    <3> QED BY <1>9, <2>1, <3>2, <3>3, <3>4
  <1>11. ASSUME NEW c \in VersionCalls, Retire(c)
         PROVE  ServingInv'
   <2> DEFINE n == veCall[c].n
              r == [veCall[c].seen[n] EXCEPT !.status = "retired"]
   <2>1. /\ veCall[c].pc = "read" /\ veRows' = [veRows EXCEPT ![n] = r]
         /\ veCall' = [veCall EXCEPT ![c] = NoVersionCall] /\ veCall[c].op \in {"retire", "retireActive"}
     BY <1>11 DEF Retire, AtVersion, VersionEnds
   <2>2. n \in VersionIds /\ veCall[c].seen[n] = veRows[n] BY <2>1 DEF VersionInv, HolderSees
   <2>3. r.content = veRows[n].content /\ r.num = veRows[n].num /\ r.status # "active"
     BY <1>b, <2>2 DEF RowsOf
   <2>4. veCall[c].pc \in {"read", "demoted"} BY <2>1
   <2> HIDE DEF n, r
   <2> QED
    <3>1. PICK m \in VersionIds : m = n
      BY <2>2
    <3>2. VersionIds' = VersionIds /\ veRows'[m] = r /\ \A i \in VersionIds : i # m => veRows'[i] = veRows[i]
      BY <1>b, <2>1, <2>2, <3>1 DEF VersionIds
    <3>3. \A i \in VersionIds : veRows[i].status = "active" => i = m \/ veRows'[m].status # "active"
      BY <2>3, <2>4, <3>1, <3>2
    <3>4. veRows'[m].content = veRows[m].content /\ veRows'[m].num = veRows[m].num
      BY <2>3, <3>1, <3>2
    <3> QED BY <1>9, <2>1, <3>2, <3>3, <3>4
  <1> QED BY <1>1, <1>3, <1>4, <1>5, <1>7, <1>8, <1>10, <1>11 DEF VersionNext

(* So there is one active version at most. *)
LEMMA ServingIsOne ==
    ASSUME ServingInv, VersionInv
    PROVE  OneActiveVersion /\ VersionsDistinct
  <1>4. VersionsDistinct BY DEF ServingInv
  <1>1. \A i, j \in Having(veRows, "active") : i = j
    BY DEF ServingInv, OneServes, Having, VersionIds
  <1>2. CASE Having(veRows, "active") = {}
   <2>1. Cardinality(Having(veRows, "active")) = 0 BY <1>2, FS_EmptySet
   <2> QED BY <1>4, <2>1 DEF OneActiveVersion
  <1>3. CASE Having(veRows, "active") # {}
   <2>1. PICK i \in Having(veRows, "active") : TRUE
     BY <1>3
   <2>2. Having(veRows, "active") = {i} BY <1>1, <2>1
   <2>3. Cardinality({i}) = 1 BY FS_Singleton
   <2>4. Cardinality(Having(veRows, "active")) = 1 BY <2>2, <2>3
   <2> QED BY <1>4, <2>4 DEF OneActiveVersion
  <1> QED BY <1>1, <1>2, <1>3, <1>4

----------------------------------------
(* The stages. *)

StageInv ==
    /\ leStage \in {"none"} \cup Stages
    /\ leHist.gates \subseteq {"backtest", "paper"}
    /\ leStage \in {"paper", "live"} => "backtest" \in leHist.gates
    /\ leStage = "live" => "paper" \in leHist.gates

(* A new strategy has no stage. *)
LEMMA StageStarts == LifecycleInit => StageInv
  BY DEF LifecycleInit, StageInv

(* No stage is reached around its gates. *)
LEMMA StageSteps ==
    ASSUME StageInv, [LifecycleNext]_leVars
    PROVE  StageInv'
  <1>1. CASE UNCHANGED leVars BY <1>1 DEF leVars, StageInv
  <1>2. ASSUME NEW s \in Stages, SetStage(s)
        PROVE  StageInv'
   <2>1. leStage' = s /\ leHist'.gates = IF s = "live" THEN {"backtest", "paper"}
                                         ELSE IF s = "paper" THEN {"backtest"} ELSE {}
     BY <1>2 DEF SetStage
   <2> QED BY <2>1 DEF StageInv, Stages
  <1>3. ASSUME NEW s \in Stages, PromoteStage(s)
        PROVE  StageInv'
   <2>1. /\ leStage # "none" /\ s \in ValidTransitions[leStage] /\ leStage' = s
         /\ leHist'.gates = leHist.gates \cup (IF leStage = "backtest" /\ s = "paper" THEN {"backtest"}
                                               ELSE IF leStage = "paper" /\ s = "live" THEN {"paper"} ELSE {})
     BY <1>3 DEF PromoteStage
   <2>2. /\ s = "paper" => leStage = "backtest"
         /\ s = "live" => leStage = "paper"
     BY <2>1 DEF StageInv, Stages, ValidTransitions
   <2> QED BY <2>1, <2>2 DEF StageInv, Stages
  <1> QED BY <1>1, <1>2, <1>3 DEF LifecycleNext

(* So a live strategy passed both gates. *)
LEMMA StageGated ==
    ASSUME StageInv
    PROVE  LiveWasGated
  BY DEF StageInv, LiveWasGated

----------------------------------------
(* The shares of strategies. *)

ShareTables == [Strategies -> -1..100]

EvalFields == {"pc", "copy", "todo", "result", "errors"}

\* An evaluation works from a copy of registrations within the whole; whom it has walked
\* past is in its results, within the share, or in its errors.
EvalSound(e) ==
    /\ e = [f \in EvalFields |-> e[f]]
    /\ e.pc \in {"idle", "walking", "done"}
    /\ e.copy \in ShareTables /\ e.result \in ShareTables
    /\ TotalPct(e.copy) <= 100
    /\ \A s \in Registered(e.result) : e.copy[s] # Absent /\ e.result[s] <= e.copy[s]
    /\ Registered(e.result) \cup e.errors \cup e.todo = Registered(e.copy)
    /\ Registered(e.result) \cap e.errors = {}
    /\ e.todo \cap (Registered(e.result) \cup e.errors) = {}
    /\ e.pc # "walking" => e.todo = {}

ManagerInv ==
    /\ mmRegs \in ShareTables /\ TotalPct(mmRegs) <= 100
    /\ EvalSound(mmEval)

(* The total is a sum over the registered. *)
LEMMA TotalIsSum ==
    ASSUME NEW r \in ShareTables
    PROVE  /\ TotalPct(r) = SumOn(r, Registered(r))
           /\ IsFiniteSet(Registered(r)) /\ Registered(r) \subseteq Strategies
           /\ \A s \in Registered(r) : r[s] \in Nat /\ r[s] \in Int
           /\ TotalPct(r) \in Int
  <1>1. TotalPct(r) = SumOn(r, Registered(r)) BY DEF TotalPct, SumOn
  <1>2. IsFiniteSet(Registered(r)) /\ Registered(r) \subseteq Strategies
    BY ManagerAssumption, FS_Subset DEF Registered
  <1>3. \A s \in Registered(r) : r[s] \in Nat /\ r[s] \in Int BY DEF Registered, Absent, ShareTables
  <1>4. SumOn(r, Registered(r)) \in Int BY <1>2, <1>3, SumType
  <1> QED BY <1>1, <1>2, <1>3, <1>4

(* Nothing is registered, nor shared out, at first. *)
LEMMA NothingShared ==
    /\ [s \in Strategies |-> Absent] \in ShareTables
    /\ TotalPct([s \in Strategies |-> Absent]) = 0
    /\ Registered([s \in Strategies |-> Absent]) = {}
  <1> DEFINE none == [s \in Strategies |-> Absent]
  <1>1. none \in ShareTables /\ Registered(none) = {} BY DEF ShareTables, Absent, Registered
  <1> HIDE DEF none
  <1>2. TotalPct(none) = SumOn(none, {}) BY <1>1, TotalIsSum
  <1>3. TotalPct(none) = 0 BY <1>2, SumEmpty
  <1> QED BY <1>1, <1>3 DEF none

(* One more share, where there was none. *)
LEMMA ShareAdded ==
    ASSUME NEW r \in ShareTables, NEW s \in Strategies, r[s] = Absent, NEW pct \in 0..100
    PROVE  /\ [r EXCEPT ![s] = pct] \in ShareTables
           /\ TotalPct([r EXCEPT ![s] = pct]) = TotalPct(r) + pct
           /\ Registered([r EXCEPT ![s] = pct]) = Registered(r) \cup {s}
  <1> DEFINE n == [r EXCEPT ![s] = pct]
             R == Registered(r)
  <1>1. n \in ShareTables /\ n[s] = pct /\ \A x \in Strategies : x # s => n[x] = r[x]
    BY DEF ShareTables
  <1> HIDE DEF n
  <1>2. Registered(n) = R \cup {s} /\ s \notin R BY <1>1 DEF Registered, Absent
  <1>3. /\ TotalPct(n) = SumOn(n, R \cup {s}) /\ TotalPct(r) = SumOn(r, R)
        /\ IsFiniteSet(R) /\ R \subseteq Strategies
    BY <1>1, <1>2, TotalIsSum
  <1>4. \A x \in R \cup {s} : n[x] \in Int BY <1>1, <1>2, TotalIsSum
  <1>5. \A x \in R : n[x] = r[x] BY <1>1, <1>2, <1>3
  <1> HIDE DEF R
  <1>6. SumOn(n, R \cup {s}) = SumOn(n, R) + n[s] BY <1>2, <1>3, <1>4, SumAdd
  <1>7. SumOn(n, R) = SumOn(r, R) BY <1>3, <1>5, SumSame
  <1>8. TotalPct(n) = TotalPct(r) + pct BY <1>1, <1>3, <1>6, <1>7
  <1> QED BY <1>1, <1>2, <1>8 DEF n, R

(* One share less. *)
LEMMA ShareRemoved ==
    ASSUME NEW r \in ShareTables, NEW s \in Strategies, r[s] # Absent
    PROVE  /\ [r EXCEPT ![s] = Absent] \in ShareTables
           /\ TotalPct([r EXCEPT ![s] = Absent]) <= TotalPct(r)
  <1> DEFINE n == [r EXCEPT ![s] = Absent]
             R == Registered(r)
  <1>1. n \in ShareTables /\ n[s] = Absent /\ \A x \in Strategies : x # s => n[x] = r[x]
    BY DEF ShareTables, Absent
  <1> HIDE DEF n
  <1>2. Registered(n) = R \ {s} /\ s \in R BY <1>1 DEF Registered
  <1>3. /\ TotalPct(n) = SumOn(n, R \ {s}) /\ TotalPct(r) = SumOn(r, R)
        /\ IsFiniteSet(R) /\ IsFiniteSet(R \ {s}) /\ R \subseteq Strategies
        /\ \A x \in R : r[x] \in Int /\ r[x] \in Nat
    BY <1>1, <1>2, TotalIsSum
  <1>5. \A x \in R \ {s} : n[x] = r[x] BY <1>1, <1>3
  <1> HIDE DEF R
  <1>6. SumOn(r, R) = r[s] + SumOn(r, R \ {s}) BY <1>2, <1>3, SumSplit
  <1>7. SumOn(n, R \ {s}) = SumOn(r, R \ {s}) BY <1>3, <1>5, SumSame
  <1>8. SumOn(r, R \ {s}) \in Int /\ r[s] \in Nat BY <1>2, <1>3, SumType
  <1>9. TotalPct(n) <= TotalPct(r) BY <1>3, <1>6, <1>7, <1>8
  <1> QED BY <1>1, <1>9 DEF n

(* There is no evaluation at first. *)
LEMMA NoEvalSound == EvalSound(NoEval)
  <1> DEFINE none == [s \in Strategies |-> Absent]
  <1>1. none \in ShareTables /\ TotalPct(none) = 0 /\ Registered(none) = {} BY NothingShared
  <1> HIDE DEF none
  <1>2. /\ NoEval = [f \in EvalFields |-> NoEval[f]]
        /\ NoEval.pc = "idle" /\ NoEval.copy = none /\ NoEval.todo = {} /\ NoEval.result = none
        /\ NoEval.errors = {}
    BY DEF NoEval, EvalFields, none
  <1> HIDE DEF NoEval
  <1> QED BY <1>1, <1>2 DEF EvalSound

(* The manager starts without strategies. *)
LEMMA ManagerStarts == ManagerInit => ManagerInv
  BY NothingShared, NoEvalSound DEF ManagerInit, ManagerInv

(* A strategy's answer stays within its share. *)
LEMMA CappedWithin ==
    ASSUME NEW pct \in 0..100, NEW w \in Nat
    PROVE  Capped(pct, w) \in 0..pct
  <1>1. CASE pct <= 0 BY <1>1 DEF Capped
  <1>2. CASE pct > 0
   <2>1. Min({pct, w}) = IF pct <= w THEN pct ELSE w
    <3>1. \A x \in {pct, w} : (\A y \in {pct, w} : x <= y) => x = IF pct <= w THEN pct ELSE w
      OBVIOUS
    <3>2. \E x \in {pct, w} : \A y \in {pct, w} : x <= y BY SMT
    <3> QED BY <3>1, <3>2 DEF Min
   <2> QED BY <1>2, <2>1 DEF Capped
  <1> QED BY <1>1, <1>2

(* The walk goes past a strategy that failed. *)
LEMMA FailedSound ==
    ASSUME NEW e, EvalSound(e), NEW s \in Strategies, s \in e.todo, e.pc = "walking"
    PROVE  EvalSound([e EXCEPT !.todo = e.todo \ {s}, !.errors = e.errors \cup {s}])
  <1> DEFINE n == [e EXCEPT !.todo = e.todo \ {s}, !.errors = e.errors \cup {s}]
  <1>1. /\ n = [f \in EvalFields |-> n[f]] /\ n.pc = e.pc /\ n.copy = e.copy /\ n.result = e.result
        /\ n.todo = e.todo \ {s} /\ n.errors = e.errors \cup {s}
    BY DEF EvalSound, EvalFields
  <1> HIDE DEF n
  <1>2. EvalSound(n) BY <1>1 DEF EvalSound
  <1> QED BY <1>2 DEF n

(* The walk goes past a strategy that answered. *)
LEMMA AnsweredSound ==
    ASSUME NEW e, EvalSound(e), NEW s \in Strategies, s \in e.todo, e.pc = "walking",
           NEW v \in 0 .. e.copy[s]
    PROVE  EvalSound([e EXCEPT !.todo = e.todo \ {s}, !.result[s] = v])
  <1> DEFINE n == [e EXCEPT !.todo = e.todo \ {s}, !.result[s] = v]
             r == [e.result EXCEPT ![s] = v]
  <1>1. /\ n = [f \in EvalFields |-> n[f]] /\ n.pc = e.pc /\ n.copy = e.copy /\ n.errors = e.errors
        /\ n.todo = e.todo \ {s} /\ n.result = r
    BY DEF EvalSound, EvalFields
  <1>2. e.copy \in ShareTables /\ e.result \in ShareTables /\ e.result[s] = Absent /\ e.copy[s] # Absent
    BY DEF EvalSound, Registered
  <1>3. v \in 0..100 /\ v <= e.copy[s] BY <1>2 DEF ShareTables
  <1>4. r \in ShareTables /\ Registered(r) = Registered(e.result) \cup {s} BY <1>2, <1>3, ShareAdded
  <1>5. r[s] = v /\ \A x \in Strategies : x # s => r[x] = e.result[x] BY <1>2 DEF ShareTables
  <1> HIDE DEF n, r
  <1>6. \A x \in Registered(r) : e.copy[x] # Absent /\ r[x] <= e.copy[x]
   <2> TAKE x \in Registered(r)
   <2>1. CASE x = s BY <1>2, <1>3, <1>5, <2>1
   <2>2. CASE x # s
    <3>1. x \in Registered(e.result) /\ x \in Strategies BY <1>4, <2>2 DEF Registered
    <3> QED BY <1>5, <2>2, <3>1 DEF EvalSound
   <2> QED BY <2>1, <2>2
  <1>7. EvalSound(n) BY <1>1, <1>4, <1>6 DEF EvalSound
  <1> QED BY <1>7 DEF n

(* No step gives away more than there is, and the walk loses no strategy. *)
LEMMA ManagerSteps ==
    ASSUME ManagerInv, [ManagerNext]_mmVars
    PROVE  ManagerInv'
  <1>0. mmRegs \in ShareTables /\ TotalPct(mmRegs) <= 100 /\ EvalSound(mmEval) BY DEF ManagerInv
  <1>a. ASSUME mmRegs' \in ShareTables, TotalPct(mmRegs') <= 100, mmEval' = mmEval
        PROVE  ManagerInv'
   <2>1. EvalSound(mmEval') BY <1>0, <1>a
   <2> QED BY <1>a, <2>1 DEF ManagerInv
  <1>b. ASSUME mmRegs' = mmRegs, EvalSound(mmEval')
        PROVE  ManagerInv'
   <2>1. mmRegs' \in ShareTables /\ TotalPct(mmRegs') <= 100 BY <1>0, <1>b
   <2> QED BY <1>b, <2>1 DEF ManagerInv
  <1>1. CASE UNCHANGED mmVars
   <2>1. mmRegs' = mmRegs /\ mmEval' = mmEval BY <1>1 DEF mmVars
   <2>2. EvalSound(mmEval') BY <1>0, <2>1
   <2> QED BY <1>b, <2>1, <2>2
  <1>2. ASSUME NEW s \in Strategies, NEW pct \in Percents, RegisterStrategy(s, pct)
        PROVE  ManagerInv'
   <2>1. pct \in 0..100 /\ mmRegs[s] = Absent /\ TotalPct(mmRegs) + pct <= 100
         /\ mmRegs' = [mmRegs EXCEPT ![s] = pct] /\ mmEval' = mmEval
     BY <1>2 DEF RegisterStrategy
   <2>2. mmRegs' \in ShareTables /\ TotalPct(mmRegs') = TotalPct(mmRegs) + pct
     BY <1>0, <2>1, ShareAdded
   <2> QED BY <1>a, <2>1, <2>2
  <1>3. ASSUME NEW s \in Strategies, UnregisterStrategy(s)
        PROVE  ManagerInv'
   <2>1. mmRegs[s] # Absent /\ mmRegs' = [mmRegs EXCEPT ![s] = Absent] /\ mmEval' = mmEval
     BY <1>3 DEF UnregisterStrategy
   <2>2. mmRegs' \in ShareTables /\ TotalPct(mmRegs') <= TotalPct(mmRegs)
     BY <1>0, <2>1, ShareRemoved
   <2>3. TotalPct(mmRegs) \in Int /\ TotalPct(mmRegs') \in Int BY <1>0, <2>2, TotalIsSum
   <2>4. TotalPct(mmRegs') <= 100 BY <1>0, <2>2, <2>3
   <2> QED BY <1>a, <2>1, <2>2, <2>4
  <1>4. CASE EvaluateAll
   <2> DEFINE n == [NoEval EXCEPT !.pc = "walking", !.copy = mmRegs, !.todo = Registered(mmRegs)]
   <2>1. mmEval' = n /\ mmRegs' = mmRegs BY <1>4 DEF EvaluateAll
   <2> DEFINE none == [s \in Strategies |-> Absent]
   <2>2. /\ n = [f \in EvalFields |-> n[f]] /\ n.pc = "walking" /\ n.copy = mmRegs
         /\ n.todo = Registered(mmRegs) /\ n.result = none /\ n.errors = {}
     BY DEF NoEval, EvalFields
   <2>3. none \in ShareTables /\ Registered(none) = {} BY NothingShared
   <2> HIDE DEF n, none
   <2>4. EvalSound(n) BY <1>0, <2>2, <2>3 DEF EvalSound
   <2> QED BY <1>b, <2>1, <2>4
  <1>5. ASSUME NEW s \in Strategies, NEW w \in ActiveWeights, StrategyAnswers(s, w)
        PROVE  ManagerInv'
   <2> DEFINE v == Capped(Share(s), w)
   <2>1. /\ mmEval.pc = "walking" /\ s \in mmEval.todo /\ mmRegs' = mmRegs
         /\ mmEval' = [mmEval EXCEPT !.todo = mmEval.todo \ {s}, !.result[s] = v]
     BY <1>5 DEF StrategyAnswers
   <2>2. mmEval.copy[s] \in 0..100 BY <1>0, <2>1 DEF EvalSound, ShareTables, Registered, Absent
   <2>3. v \in 0 .. mmEval.copy[s] BY <2>2, CappedWithin, ManagerAssumption DEF Share
   <2> HIDE DEF v
   <2>4. EvalSound([mmEval EXCEPT !.todo = mmEval.todo \ {s}, !.result[s] = v])
     BY <1>0, <2>1, <2>3, AnsweredSound
   <2> QED BY <1>b, <2>1, <2>4
  <1>6. ASSUME NEW s \in Strategies, StrategyFails(s)
        PROVE  ManagerInv'
   <2>1. /\ mmEval.pc = "walking" /\ s \in mmEval.todo /\ mmRegs' = mmRegs
         /\ mmEval' = [mmEval EXCEPT !.todo = mmEval.todo \ {s}, !.errors = mmEval.errors \cup {s}]
     BY <1>6 DEF StrategyFails
   <2>2. EvalSound([mmEval EXCEPT !.todo = mmEval.todo \ {s}, !.errors = mmEval.errors \cup {s}])
     BY <1>0, <2>1, FailedSound
   <2> QED BY <1>b, <2>1, <2>2
  <1>7. CASE Evaluated
   <2> DEFINE n == [mmEval EXCEPT !.pc = "done"]
   <2>1. mmEval' = n /\ mmRegs' = mmRegs /\ mmEval.todo = {} BY <1>7 DEF Evaluated
   <2>2. /\ n = [f \in EvalFields |-> n[f]] /\ n.pc = "done" /\ n.copy = mmEval.copy
         /\ n.todo = {} /\ n.result = mmEval.result /\ n.errors = mmEval.errors
     BY <1>0, <2>1 DEF EvalSound, EvalFields
   <2> HIDE DEF n
   <2>3. EvalSound(n) BY <1>0, <2>1, <2>2 DEF EvalSound
   <2> QED BY <1>b, <2>1, <2>3
  <1>8. CASE NextEvaluation BY <1>b, <1>8, NoEvalSound DEF NextEvaluation
  <1>9. ASSUME NEW s \in Strategies, StrategyGarbles(s)
        PROVE  ManagerInv'
    BY <1>b, <1>9, NoEvalSound DEF StrategyGarbles
  <1> QED BY <1>1, <1>2, <1>3, <1>4, <1>5, <1>6, <1>7, <1>8, <1>9 DEF ManagerNext

(* So an evaluation asks for the whole capital at most, and reports every strategy. *)
LEMMA ManagerKeeps ==
    ASSUME ManagerInv
    PROVE  EvaluationWithinCapital /\ EveryStrategyReported
  <1> DEFINE r == mmEval.result
             c == mmEval.copy
  <1>1. /\ r \in ShareTables /\ c \in ShareTables /\ TotalPct(c) <= 100
        /\ \A s \in Registered(r) : c[s] # Absent /\ r[s] <= c[s]
    BY DEF ManagerInv, EvalSound
  <1> HIDE DEF r, c
  <1>2. /\ TotalPct(r) = SumOn(r, Registered(r)) /\ TotalPct(r) \in Int /\ IsFiniteSet(Registered(r))
        /\ Registered(r) \subseteq Strategies /\ \A s \in Registered(r) : r[s] \in Int
    BY <1>1, TotalIsSum
  <1>3. /\ TotalPct(c) = SumOn(c, Registered(c)) /\ TotalPct(c) \in Int /\ IsFiniteSet(Registered(c))
        /\ \A s \in Registered(c) : c[s] \in Nat /\ c[s] \in Int
    BY <1>1, TotalIsSum
  <1>4. Registered(r) \subseteq Registered(c) BY <1>1, <1>2 DEF Registered
  <1>5. SumOn(r, Registered(r)) <= SumOn(c, Registered(r)) BY <1>1, <1>2, <1>3, <1>4, SumMore
  <1>6. SumOn(c, Registered(r)) <= SumOn(c, Registered(c)) BY <1>3, <1>4, SumOfPart
  <1>7. SumOn(c, Registered(r)) \in Int BY <1>2, <1>3, <1>4, SumType
  <1>8. TotalPct(r) <= 100 BY <1>1, <1>2, <1>3, <1>5, <1>6, <1>7
  <1>9. EvaluationWithinCapital BY <1>8 DEF EvaluationWithinCapital, r
  <1>10. EveryStrategyReported BY DEF ManagerInv, EvalSound, EveryStrategyReported
  <1> QED BY <1>9, <1>10

----------------------------------------
(* The votes of strategies. *)

VoterRegs == [Voters -> VoteWeights \cup {Unregistered}]

VoteFields == {"pc", "method", "regs", "todo", "answer", "errors", "decision"}

SignalRow == [sym : VoteSymbols, side : {"BUY", "SELL", "HOLD"}, w : 0..2]

\* Said, Opinions, Claim and Deployed of an evaluation e; HOLD alone is no opinion, as in
\* the engine that deploys capital.
VoicesIn(e) == {p \in Voters \X (1..MaxSignals) : p[2] <= Len(e.answer[p[1]])}
SignalIn(e, p) == e.answer[p[1]][p[2]]
OpinionsIn(e) == {p \in VoicesIn(e) : SignalIn(e, p).side # "HOLD"}
AskedIn(e) == [p \in OpinionsIn(e) |-> SignalIn(e, p).w]
ClaimIn(e, s) == SumOn(AskedIn(e), {p \in OpinionsIn(e) : p[1] = s})
DeployedIn(e) == SumOn([x \in VoteSymbols |-> AbsInt(e.decision[x].net)], VoteSymbols)

\* A decision has a vote for it, and one over capital stays within the greatest claim.
Backed(e) ==
    /\ \A x \in VoteSymbols : e.decision[x].side # "HOLD" =>
          \E p \in VoicesIn(e) : SignalIn(e, p).sym = x /\ SignalIn(e, p).side = e.decision[x].side
    /\ e.method = "capital" =>
          \A t \in Voters : (\A s \in Voters : ClaimIn(e, s) <= ClaimIn(e, t)) => DeployedIn(e) <= ClaimIn(e, t) * Capital

\* Only strategies of the copy that have not failed have answered.
VoteSound(e) ==
    /\ e = [f \in VoteFields |-> e[f]]
    /\ e.regs \in VoterRegs
    /\ e.answer = [s \in Voters |-> e.answer[s]]
    /\ \A s \in Voters : e.answer[s] \in AnswerLists \cup {<<>>}
    /\ \A s \in Voters : e.answer[s] # <<>> => s \in In(e.regs) /\ s \notin e.errors \cup e.todo
    /\ e.todo \cap e.errors = {} /\ e.todo \subseteq In(e.regs)
    /\ e.pc = "decided" => Backed(e)

VoteInv == svRegs \in VoterRegs /\ VoteSound(svEval)

(* Nobody has voted at first. *)
LEMMA NoVoteSound ==
    ASSUME NEW e, e = [f \in VoteFields |-> e[f]], e.pc # "decided", e.regs \in VoterRegs,
           e.answer = [s \in Voters |-> <<>>], e.errors = {}, e.todo \subseteq In(e.regs)
    PROVE  VoteSound(e)
  <1>1. \A s \in Voters : e.answer[s] = <<>> OBVIOUS
  <1> QED BY <1>1 DEF VoteSound

(* An engine starts without an evaluation. *)
LEMMA VoteStarts == VoteInit => VoteInv
  <1> SUFFICES ASSUME VoteInit PROVE VoteInv
    OBVIOUS
  <1>1. svRegs \in VoterRegs /\ svEval = NoVote BY DEF VoteInit, VoterRegs
  <1>2. /\ NoVote = [f \in VoteFields |-> NoVote[f]] /\ NoVote.pc = "idle"
        /\ NoVote.regs = [s \in Voters |-> Unregistered] /\ NoVote.errors = {} /\ NoVote.todo = {}
        /\ NoVote.answer = [s \in Voters |-> <<>>]
    BY DEF NoVote, VoteFields
  <1>3. [s \in Voters |-> Unregistered] \in VoterRegs BY DEF VoterRegs
  <1> HIDE DEF NoVote
  <1>4. VoteSound(NoVote) BY <1>2, <1>3, NoVoteSound
  <1> QED BY <1>1, <1>4 DEF VoteInv

(* The walk goes past a strategy that answered. *)
LEMMA VoteAnswered ==
    ASSUME NEW e, VoteSound(e), e.pc = "walking", NEW s \in Voters, s \in e.todo,
           NEW a \in AnswerLists
    PROVE  VoteSound([e EXCEPT !.todo = e.todo \ {s}, !.answer = [e.answer EXCEPT ![s] = a]])
  <1> DEFINE r == [e.answer EXCEPT ![s] = a]
             n == [e EXCEPT !.todo = e.todo \ {s}, !.answer = r]
  <1>1. /\ n = [f \in VoteFields |-> n[f]] /\ n.pc = e.pc /\ n.regs = e.regs /\ n.errors = e.errors
        /\ n.todo = e.todo \ {s} /\ n.answer = r
    BY DEF VoteSound, VoteFields
  <1>2. e.answer = [x \in Voters |-> e.answer[x]] BY DEF VoteSound
  <1>3. r = [x \in Voters |-> r[x]] /\ r[s] = a /\ \A x \in Voters : x # s => r[x] = e.answer[x]
    BY <1>2
  <1>4. s \in In(e.regs) /\ s \notin e.errors BY DEF VoteSound
  <1> HIDE DEF r, n
  <1>5. VoteSound(n)
   <2>1. \A x \in Voters : n.answer[x] \in AnswerLists \cup {<<>>} BY <1>1, <1>3 DEF VoteSound
   <2>2. ASSUME NEW x \in Voters, n.answer[x] # <<>>
         PROVE  x \in In(n.regs) /\ x \notin n.errors \cup n.todo
    <3>1. CASE x = s BY <1>1, <1>4, <3>1
    <3>2. CASE x # s
     <4>1. x \in In(e.regs) /\ x \notin e.errors \cup e.todo BY <1>1, <1>3, <2>2, <3>2 DEF VoteSound
     <4> QED BY <1>1, <4>1
    <3> QED BY <3>1, <3>2
   <2> QED BY <1>1, <1>3, <2>1, <2>2 DEF VoteSound
  <1> QED BY <1>5 DEF n, r

(* The walk goes past a strategy that failed. *)
LEMMA VoteFailed ==
    ASSUME NEW e, VoteSound(e), e.pc = "walking", NEW s \in Voters, s \in e.todo
    PROVE  VoteSound([e EXCEPT !.todo = e.todo \ {s}, !.errors = e.errors \cup {s}])
  <1> DEFINE n == [e EXCEPT !.todo = e.todo \ {s}, !.errors = e.errors \cup {s}]
  <1>1. /\ n = [f \in VoteFields |-> n[f]] /\ n.pc = e.pc /\ n.regs = e.regs /\ n.answer = e.answer
        /\ n.todo = e.todo \ {s} /\ n.errors = e.errors \cup {s}
    BY DEF VoteSound, VoteFields
  <1> HIDE DEF n
  <1>2. VoteSound(n) BY <1>1 DEF VoteSound
  <1> QED BY <1>2 DEF n

(* The walk ends without a decision. *)
LEMMA VoteRaised ==
    ASSUME NEW e, VoteSound(e)
    PROVE  VoteSound([e EXCEPT !.pc = "raised"])
  <1> DEFINE n == [e EXCEPT !.pc = "raised"]
  <1>1. /\ n = [f \in VoteFields |-> n[f]] /\ n.pc = "raised" /\ n.regs = e.regs /\ n.answer = e.answer
        /\ n.todo = e.todo /\ n.errors = e.errors
    BY DEF VoteSound, VoteFields
  <1> HIDE DEF n
  <1>2. VoteSound(n) BY <1>1 DEF VoteSound
  <1> QED BY <1>2 DEF n

(* What was said is a signal of a strategy of the copy that did not fail. *)
LEMMA SaidSound ==
    ASSUME NEW e, VoteSound(e), NEW p \in VoicesIn(e)
    PROVE  /\ p[1] \in Voters /\ p[1] \in In(e.regs) \ e.errors /\ e.regs[p[1]] \in Nat
           /\ SignalIn(e, p) \in SignalRow
  <1> DEFINE s == p[1]
             i == p[2]
             list == e.answer[s]
  <1>1. s \in Voters /\ i \in 1..MaxSignals /\ i <= Len(list) BY DEF VoicesIn
  <1>2. list \in AnswerLists \cup {<<>>} BY <1>1 DEF VoteSound
  <1>3. list # <<>> BY <1>1
  <1>4. list \in Seq(SignalRow) BY <1>2, <1>3, VoteAssumption DEF SignalRow
  <1>5. s \in In(e.regs) \ e.errors /\ e.regs \in VoterRegs BY <1>1, <1>3 DEF VoteSound
  <1>6. e.regs[s] \in Nat BY <1>1, <1>5, VoteAssumption DEF VoterRegs, In
  <1> HIDE DEF s, list
  <1>7. i \in 1..Len(list) BY <1>1, <1>4
  <1>8. list[i] \in SignalRow BY <1>4, <1>7
  <1> QED BY <1>1, <1>5, <1>6, <1>8 DEF SignalIn, s, list

(* The signals of all strategies are finitely many. *)
LEMMA SaidFinite ==
    ASSUME NEW P, P \subseteq Voters \X (1..MaxSignals)
    PROVE  IsFiniteSet(P)
  <1>1. IsFiniteSet(1..MaxSignals) /\ IsFiniteSet(Voters) BY VoteAssumption, FS_Interval
  <1>2. IsFiniteSet(Voters \X (1..MaxSignals)) BY <1>1, FS_Product
  <1> QED BY <1>2, FS_Subset

\* A class of A.
Fibre(A, c, s) == {p \in A : c[p] = s}

(* A sum over classes is the sum over all. *)
LEMMA SumFibres ==
    ASSUME NEW A, IsFiniteSet(A), NEW S, IsFiniteSet(S), NEW f, \A p \in A : f[p] \in Int,
           NEW c, \A p \in A : c[p] \in S,
           NEW g, \A s \in S : g[s] = SumOn(f, Fibre(A, c, s))
    PROVE  SumOn(g, S) = SumOn(f, A)
  <1> DEFINE Of(X) == {p \in A : c[p] \in X}
             Bad == {X \in SUBSET S : SumOn(g, X) # SumOn(f, Of(X))}
  <1>0. Of(S) = A /\ \A s : Fibre(A, c, s) = {p \in A : c[p] = s} BY DEF Fibre
  <1> HIDE DEF Of
  <1> SUFFICES ASSUME Bad # {} PROVE FALSE
   <2>1. S \notin Bad => SumOn(g, S) = SumOn(f, Of(S)) OBVIOUS
   <2> QED BY <1>0, <2>1
  <1>1. PICK X \in Bad : \A Y \in SUBSET X : Y # X => Y \notin Bad
   <2>1. Bad \subseteq SUBSET S OBVIOUS
   <2> HIDE DEF Bad
   <2> QED BY <2>1, Smallest
  <1>2. X \in SUBSET S /\ SumOn(g, X) # SumOn(f, Of(X)) /\ IsFiniteSet(X) BY <1>1, FS_Subset
  <1>3. X # {}
   <2>1. Of({}) = {} BY DEF Of
   <2> QED BY <1>2, <2>1, SumEmpty
  <1>4. PICK x \in X : TRUE
    BY <1>3
  <1> DEFINE Y == X \ {x}
             F == {p \in A : c[p] = x}
  <1>5. Y \in SUBSET X /\ Y # X /\ Y \in SUBSET S OBVIOUS
  <1>6. SumOn(g, Y) = SumOn(f, Of(Y)) BY <1>1, <1>2, <1>5
  <1>7. \A s \in S : g[s] \in Int
   <2> TAKE s \in S
   <2>1. {p \in A : c[p] = s} \subseteq A OBVIOUS
   <2>2. IsFiniteSet({p \in A : c[p] = s}) BY <2>1, FS_Subset
   <2>3. SumOn(f, {p \in A : c[p] = s}) \in Int BY <2>2, SumType
   <2> QED BY <1>0, <2>3
  <1>8. SumOn(g, X) = g[x] + SumOn(g, X \ {x})
   <2>1. \A s \in X : g[s] \in Int BY <1>2, <1>7
   <2> QED BY <1>2, <1>4, <2>1, SumSplit
  <1>9. /\ Of(X) = F \cup Of(Y) /\ F \cap Of(Y) = {} /\ IsFiniteSet(F) /\ IsFiniteSet(Of(Y))
        /\ \A p \in F \cup Of(Y) : f[p] \in Int
   <2>1. F \subseteq A /\ Of(Y) \subseteq A BY DEF Of
   <2>2. IsFiniteSet(F) /\ IsFiniteSet(Of(Y)) BY <2>1, FS_Subset
   <2> QED BY <2>1, <2>2 DEF Of
  <1>10. g[x] = SumOn(f, F) BY <1>0, <1>2, <1>4
  <1> HIDE DEF F, Bad
  <1>11. SumOn(f, F \cup Of(Y)) = SumOn(f, F) + SumOn(f, Of(Y)) BY <1>9, SumParts
  <1> QED BY <1>2, <1>6, <1>8, <1>9, <1>10, <1>11

(* A sum above zero has a part above zero, one below zero a part below. *)
LEMMA SumHasSign ==
    ASSUME NEW f, NEW S, IsFiniteSet(S), \A x \in S : f[x] \in Int
    PROVE  /\ SumOn(f, S) > 0 => \E x \in S : f[x] > 0
           /\ SumOn(f, S) < 0 => \E x \in S : f[x] < 0
  <1> DEFINE z == [x \in S |-> 0]
  <1>0. \A x \in S : z[x] = 0 OBVIOUS
  <1> HIDE DEF z
  <1>1. SumOn(z, S) = 0 BY <1>0, SumZero
  <1>2. SumOn(f, S) \in Int BY SumType
  <1>3. (\A x \in S : f[x] <= 0) => SumOn(f, S) <= 0
   <2> HAVE \A x \in S : f[x] <= 0
   <2>1. \A x \in S : f[x] \in Int /\ z[x] \in Int /\ f[x] <= z[x] BY <1>0
   <2>2. SumOn(f, S) <= SumOn(z, S) BY <2>1, SumMore
   <2> QED BY <1>1, <2>2
  <1>4. (\A x \in S : f[x] >= 0) => SumOn(f, S) >= 0
   <2> HAVE \A x \in S : f[x] >= 0
   <2>1. \A x \in S : z[x] \in Int /\ f[x] \in Int /\ z[x] <= f[x] BY <1>0
   <2>2. SumOn(z, S) <= SumOn(f, S) BY <2>1, SumMore
   <2> QED BY <1>1, <1>2, <2>2
  <1> QED BY <1>2, <1>3, <1>4

(* A signed weight has the sign of its side. *)
LEMMA SignedBy ==
    ASSUME NEW side, NEW w \in Nat
    PROVE  /\ Sign(side) * w \in Int
           /\ Sign(side) * w > 0 => side = "BUY"
           /\ Sign(side) * w < 0 => side = "SELL"
           /\ Sign(side) * w <= w /\ -w <= Sign(side) * w
  <1>1. CASE side = "BUY"
   <2>1. Sign(side) = 1 BY <1>1 DEF Sign
   <2> QED BY <1>1, <2>1
  <1>2. CASE side = "SELL"
   <2>1. Sign(side) = -1 BY <1>2 DEF Sign
   <2>2. Sign(side) * w = -w BY <2>1
   <2> QED BY <1>2, <2>2
  <1>3. CASE side \notin {"BUY", "SELL"}
   <2>1. Sign(side) = 0 BY <1>3 DEF Sign
   <2>2. Sign(side) * w = 0 BY <2>1
   <2> QED BY <2>2
  <1> QED BY <1>1, <1>2, <1>3

(* A rounded-down part of the capital. *)
LEMMA PartOfCapital ==
    ASSUME NEW r \in Nat, NEW c \in Nat, NEW t \in Nat, t > 0
    PROVE  (r * c) \div t \in Nat /\ t * ((r * c) \div t) <= c * r
  <1> DEFINE m == r * c
  <1>1. m \in Nat /\ m = c * r OBVIOUS
  <1> HIDE DEF m
  <1>2. m \div t \in Nat /\ t * (m \div t) <= m BY <1>1
  <1> QED BY <1>1, <1>2 DEF m

(* What is multiplied by more than nothing keeps its order. *)
LEMMA TimesKeepsOrder ==
    ASSUME NEW a \in Int, NEW b \in Int, NEW t \in Nat, t > 0, t * a <= t * b
    PROVE  a <= b
  <1> SUFFICES ASSUME a > b PROVE FALSE
    OBVIOUS
  <1>1. a - b >= 1 /\ a - b \in Nat OBVIOUS
  <1> DEFINE d == a - b
  <1>2. a = b + d /\ d \in Nat /\ d >= 1 BY <1>1
  <1> HIDE DEF d
  <1>3. t * a = t * b + t * d BY <1>2
  <1>4. t * d > 0 BY <1>2
  <1> QED BY <1>3, <1>4

(* The shares of the capital are within it. *)
LEMMA SharesOfCapital ==
    ASSUME NEW regs \in VoterRegs, NEW A \in SUBSET In(regs)
    PROVE  /\ \A s \in In(regs) : CapitalShare(regs, s) \in Nat
           /\ SumOn([s \in In(regs) |-> CapitalShare(regs, s)], A) <= Capital
  <1> DEFINE share == [s \in In(regs) |-> CapitalShare(regs, s)]
             part == [s \in In(regs) |-> Capital * regs[s]]
             times == [s \in In(regs) |-> TotalWeight(regs) * share[s]]
             I == In(regs)
             T == TotalWeight(regs)
  <1>1. IsFiniteSet(I) /\ \A s \in I : s \in Voters /\ regs[s] \in Nat /\ regs[s] # Unregistered
   <2>1. I \subseteq Voters BY DEF In
   <2>2. \A s \in I : regs[s] # Unregistered BY DEF In
   <2>3. \A s \in I : regs[s] \in Nat BY <2>1, <2>2, VoteAssumption DEF VoterRegs
   <2> QED BY <2>1, <2>2, <2>3, VoteAssumption, FS_Subset
  <1>2. T = SumOn(regs, I) BY DEF TotalWeight, SumOn
  <1>3. \A s \in I : share[s] = CapitalShare(regs, s) /\ part[s] = Capital * regs[s] /\ times[s] = T * share[s]
    OBVIOUS
  <1>4. Capital \in Nat BY VoteAssumption
  <1> HIDE DEF share, part, times, I, T
  <1>5. T \in Nat BY <1>1, <1>2, SumNat
  <1>6. CASE T = 0
   <2>1. \A s \in I : share[s] = 0 BY <1>3, <1>6 DEF CapitalShare, T
   <2>2. A \subseteq I /\ IsFiniteSet(A) BY <1>1, FS_Subset DEF I
   <2>3. SumOn(share, A) = 0 BY <2>1, <2>2, SumZero
   <2>4. \A s \in I : CapitalShare(regs, s) \in Nat BY <1>3, <2>1
   <2> QED BY <1>4, <2>3, <2>4 DEF share, I
  <1>7. CASE T > 0
   <2>1. \A s \in I : share[s] \in Nat /\ times[s] <= part[s]
    <3> TAKE s \in I
    <3>1. share[s] = (regs[s] * Capital) \div T BY <1>1, <1>3, <1>7 DEF CapitalShare, T
    <3>2. regs[s] \in Nat /\ times[s] = T * share[s] /\ part[s] = Capital * regs[s] BY <1>1, <1>3
    <3> DEFINE w == regs[s]
    <3> HIDE DEF w
    <3>3. w \in Nat BY <3>2 DEF w
    <3>4. (w * Capital) \div T \in Nat /\ T * ((w * Capital) \div T) <= Capital * w
      BY <1>4, <1>5, <1>7, <3>3, PartOfCapital
    <3> QED BY <3>1, <3>2, <3>4 DEF w
   <2>2. \A s \in I : share[s] \in Int /\ times[s] \in Int /\ part[s] \in Int /\ regs[s] \in Int
    <3> TAKE s \in I
    <3>1. share[s] \in Int /\ regs[s] \in Int BY <1>1, <2>1
    <3>2. T * share[s] \in Int BY <1>5, <3>1
    <3>3. Capital * regs[s] \in Int BY <1>4, <3>1
    <3> QED BY <1>3, <3>1, <3>2, <3>3
   <2>3. SumOn(times, I) <= SumOn(part, I) BY <1>1, <2>1, <2>2, SumMore
   <2>4. SumOn(times, I) = T * SumOn(share, I) BY <1>1, <1>3, <1>5, <2>2, SumScale
   <2>5. SumOn(part, I) = Capital * SumOn(regs, I) BY <1>1, <1>3, <1>4, <2>2, SumScale
   <2>6. SumOn(share, I) \in Int BY <1>1, <2>2, SumType
   <2> DEFINE X == SumOn(share, I)
   <2>7. X \in Int /\ T * X <= Capital * T BY <1>2, <2>3, <2>4, <2>5, <2>6
   <2> HIDE DEF X
   <2>8. T * X <= T * Capital BY <1>4, <1>5, <2>7
   <2>9. X <= Capital BY <1>4, <1>5, <1>7, <2>7, <2>8, TimesKeepsOrder
   <2>10. A \in SUBSET I BY DEF I
   <2>11. SumOn(share, A) <= X BY <1>1, <2>1, <2>10, SumOfPart DEF X
   <2>12. SumOn(share, A) \in Int
    <3>1. IsFiniteSet(A) /\ \A s \in A : share[s] \in Int BY <1>1, <2>2, <2>10, FS_Subset
    <3> QED BY <3>1, SumType
   <2>13. SumOn(share, A) <= Capital BY <1>4, <2>7, <2>9, <2>11, <2>12
   <2>14. \A s \in I : CapitalShare(regs, s) \in Nat BY <1>3, <2>1
   <2> QED BY <2>13, <2>14 DEF share, I
  <1> QED BY <1>5, <1>6, <1>7

(* What the merge reads of an evaluation. *)
LEMMA OpinionsKnown ==
    /\ Said = VoicesIn(svEval) /\ \A p : SignalAt(p) = SignalIn(svEval, p)
    /\ Opinions \subseteq OpinionsIn(svEval)
    /\ svEval.method = "capital" => Opinions = OpinionsIn(svEval)
  <1>1. Said = VoicesIn(svEval) /\ \A p : SignalAt(p) = SignalIn(svEval, p)
    BY DEF Said, VoicesIn, SignalAt, SignalIn
  <1>2. svEval.method = "capital" => \A p : ~Overruled(p) BY DEF Overruled
  <1> QED BY <1>1, <1>2 DEF Opinions, OpinionsIn

Weights == [p \in Opinions |-> Weight(p)]

(* An opinion is of a strategy of the copy, for a side of a symbol, and weighs a number. *)
LEMMA WeightIsNat ==
    ASSUME VoteInv, NEW p \in Opinions
    PROVE  /\ p \in Said /\ p[1] \in In(svEval.regs) /\ SignalAt(p).sym \in VoteSymbols
           /\ SignalAt(p).side \in {"BUY", "SELL"} /\ SignalAt(p).w \in Nat
           /\ CapitalShare(svEval.regs, p[1]) \in Nat /\ Weight(p) \in Nat
  <1> DEFINE s == p[1]
             e == svEval
  <1>1. p \in VoicesIn(e) /\ SignalAt(p) = SignalIn(e, p) /\ SignalAt(p).side # "HOLD" /\ p \in Said
    BY OpinionsKnown DEF Opinions
  <1>2. /\ s \in Voters /\ s \in In(e.regs) /\ e.regs[s] \in Nat /\ SignalAt(p) \in SignalRow
        /\ e.regs \in VoterRegs /\ svRegs \in VoterRegs
   <2>1. VoteSound(e) /\ svRegs \in VoterRegs BY DEF VoteInv
   <2>2. e.regs \in VoterRegs BY <2>1 DEF VoteSound
   <2> HIDE DEF e
   <2>3. p[1] \in Voters /\ p[1] \in In(e.regs) /\ e.regs[p[1]] \in Nat /\ SignalIn(e, p) \in SignalRow
     BY <1>1, <2>1, SaidSound
   <2> QED BY <1>1, <2>1, <2>2, <2>3 DEF s
  <1>3. SignalAt(p).sym \in VoteSymbols /\ SignalAt(p).side \in {"BUY", "SELL"} /\ SignalAt(p).w \in Nat
   <2> DEFINE r == SignalAt(p)
   <2>1. r \in SignalRow /\ r.side # "HOLD" BY <1>1, <1>2
   <2> HIDE DEF r
   <2>2. r.sym \in VoteSymbols /\ r.side \in {"BUY", "SELL"} /\ r.w \in 0..2 BY <2>1 DEF SignalRow
   <2> QED BY <2>2 DEF r
  <1>4. svRegs[s] # Unregistered => svRegs[s] \in Nat BY <1>2, VoteAssumption DEF VoterRegs
  <1>5. LiveWeight(s, 1) \in Nat BY <1>4 DEF LiveWeight
  <1>6. CapitalShare(e.regs, s) \in Nat
   <2>1. {} \in SUBSET In(e.regs) OBVIOUS
   <2> QED BY <1>2, <2>1, SharesOfCapital
  <1>7. CapitalShare(e.regs, s) * SignalAt(p).w \in Nat
   <2> DEFINE a == CapitalShare(e.regs, s)
              w == SignalAt(p).w
   <2>1. a \in Nat /\ w \in Nat BY <1>3, <1>6
   <2> HIDE DEF a, w
   <2>2. a * w \in Nat BY <2>1
   <2> QED BY <2>2 DEF a, w
  <1>8. Weight(p) \in {LiveWeight(s, 1), SignalAt(p).w, e.regs[s], CapitalShare(e.regs, s) * SignalAt(p).w, 1}
    BY DEF Weight, VoteWeight, AllocationOf
  <1> QED BY <1>1, <1>2, <1>3, <1>5, <1>6, <1>7, <1>8

(* The net of a symbol has the sign of one of its opinions, and is within their weights. *)
LEMMA NetSigned ==
    ASSUME VoteInv, NEW x
    PROVE  /\ Net(x) \in Int
           /\ Net(x) > 0 => \E p \in OpinionsOn(x) : SignalAt(p).side = "BUY"
           /\ Net(x) < 0 => \E p \in OpinionsOn(x) : SignalAt(p).side = "SELL"
           /\ AbsInt(Net(x)) \in Int /\ SumOn(Weights, OpinionsOn(x)) \in Int
           /\ AbsInt(Net(x)) <= SumOn(Weights, OpinionsOn(x))
  <1> DEFINE S == OpinionsOn(x)
             minus == [p \in Opinions |-> (-1) * Weights[p]]
  <1>1. Net(x) = SumOn(Pull, S) BY DEF Net, SumOn
  <1>2. S \subseteq Opinions /\ IsFiniteSet(S)
   <2>1. S \subseteq Opinions BY DEF OpinionsOn
   <2>2. S \subseteq Voters \X (1..MaxSignals) BY <2>1 DEF Opinions, Said
   <2> HIDE DEF S
   <2> QED BY <2>1, <2>2, SaidFinite
  <1>3. ASSUME NEW p \in S
        PROVE  /\ Pull[p] \in Int /\ Weights[p] \in Nat /\ minus[p] = (-1) * Weights[p]
               /\ minus[p] = -Weights[p]
               /\ Pull[p] > 0 => SignalAt(p).side = "BUY"
               /\ Pull[p] < 0 => SignalAt(p).side = "SELL"
               /\ Pull[p] <= Weights[p] /\ -Weights[p] <= Pull[p]
   <2> DEFINE side == SignalAt(p).side
              w == Weight(p)
   <2>1. p \in Opinions BY <1>2
   <2>2. Pull[p] = Sign(side) * w /\ Weights[p] = w /\ minus[p] = (-1) * Weights[p]
     BY <2>1 DEF Pull, Weights
   <2>3. w \in Nat BY <2>1, WeightIsNat
   <2> HIDE DEF minus, side, w
   <2>4. /\ Sign(side) * w \in Int
         /\ Sign(side) * w > 0 => side = "BUY"
         /\ Sign(side) * w < 0 => side = "SELL"
         /\ Sign(side) * w <= w /\ -w <= Sign(side) * w
     BY <2>3, SignedBy
   <2>5. (-1) * w = -w BY <2>3
   <2> QED BY <2>2, <2>3, <2>4, <2>5 DEF side
  <1> HIDE DEF minus, S
  <1>4. \A p \in S : Pull[p] \in Int /\ Weights[p] \in Int /\ minus[p] \in Int BY <1>3
  <1>5. SumOn(Pull, S) \in Int /\ SumOn(Weights, S) \in Int BY <1>2, <1>4, SumType
  <1>6. SumOn(Pull, S) <= SumOn(Weights, S) BY <1>2, <1>3, <1>4, SumMore
  <1>7. SumOn(minus, S) <= SumOn(Pull, S) BY <1>2, <1>3, <1>4, SumMore
  <1>8. SumOn(minus, S) = (-1) * SumOn(Weights, S) BY <1>2, <1>3, <1>4, -1 \in Int, SumScale
  <1>9. /\ SumOn(Pull, S) > 0 => \E p \in S : Pull[p] > 0
        /\ SumOn(Pull, S) < 0 => \E p \in S : Pull[p] < 0
    BY <1>2, <1>4, SumHasSign
  <1>10. -SumOn(Weights, S) <= SumOn(Pull, S) BY <1>5, <1>7, <1>8
  <1>11. /\ SumOn(Pull, S) > 0 => \E p \in S : SignalAt(p).side = "BUY"
         /\ SumOn(Pull, S) < 0 => \E p \in S : SignalAt(p).side = "SELL"
    BY <1>3, <1>9
  <1>12. AbsInt(Net(x)) \in Int /\ AbsInt(Net(x)) <= SumOn(Weights, S)
   <2> DEFINE n == Net(x)
              g == SumOn(Weights, S)
   <2>1. n \in Int /\ g \in Int /\ n <= g /\ -g <= n BY <1>1, <1>5, <1>6, <1>10
   <2> HIDE DEF n, g
   <2>2. AbsInt(n) \in Int /\ AbsInt(n) <= g BY <2>1 DEF AbsInt
   <2> QED BY <2>2 DEF n, g
  <1> QED BY <1>1, <1>5, <1>11, <1>12 DEF S

\* A side for a symbol, and a signal for it if it is not to hold.
Voted(x, side) == side # "HOLD" => \E p \in Said : SignalAt(p).sym = x /\ SignalAt(p).side = side

(* Whatever the method, a decided side has a signal. *)
LEMMA DecidedIsVoted ==
    ASSUME VoteInv, NEW x
    PROVE  Voted(x, DecidedSide(x))
  <1>1. \A p \in OpinionsOn(x) : p \in Said /\ SignalAt(p).sym = x BY DEF OpinionsOn, Opinions
  <1>2. Voted(x, SideOfNet(Net(x)))
   <2> DEFINE n == Net(x)
   <2>1. /\ n \in Int
         /\ n > 0 => \E p \in OpinionsOn(x) : SignalAt(p).side = "BUY"
         /\ n < 0 => \E p \in OpinionsOn(x) : SignalAt(p).side = "SELL"
     BY NetSigned
   <2> HIDE DEF n
   <2>2. /\ n > 0 => SideOfNet(n) = "BUY"
         /\ n < 0 => SideOfNet(n) = "SELL"
         /\ n = 0 => SideOfNet(n) = "HOLD"
     BY <2>1 DEF SideOfNet
   <2>3. n > 0 \/ n < 0 \/ n = 0 BY <2>1
   <2>4. Voted(x, SideOfNet(n)) BY <1>1, <2>1, <2>2, <2>3 DEF Voted
   <2> QED BY <2>4 DEF n
  <1>3. ASSUME NEW ps \in SUBSET OpinionsOn(x), Agreed(ps)
        PROVE  Voted(x, TheirSide(ps))
   <2>1. SidesOf(ps) # {} BY <1>3, FS_EmptySet DEF Agreed
   <2>2. TheirSide(ps) \in SidesOf(ps) BY <2>1 DEF TheirSide
   <2>3. PICK p \in ps : SignalAt(p).side = TheirSide(ps) BY <2>2 DEF SidesOf
   <2> QED BY <1>1, <2>3 DEF Voted
  <1>4. TopOpinions(x) \in SUBSET OpinionsOn(x) BY DEF TopOpinions
  <1>5. OpinionsOn(x) \in SUBSET OpinionsOn(x) OBVIOUS
  <1>6. Agreed(TopOpinions(x)) => Voted(x, TheirSide(TopOpinions(x))) BY <1>3, <1>4
  <1>7. Agreed(OpinionsOn(x)) => Voted(x, TheirSide(OpinionsOn(x))) BY <1>3, <1>5
  <1>8. Voted(x, "HOLD") BY DEF Voted
  <1> QED BY <1>2, <1>6, <1>7, <1>8, Zenon DEF DecidedSide

(* Products grow with a factor. *)
LEMMA TimesGrows ==
    ASSUME NEW a \in Int, NEW b \in Int, NEW c \in Nat, a <= b
    PROVE  c * a <= c * b
  <1> DEFINE d == b - a
  <1>1. b = a + d /\ d \in Nat OBVIOUS
  <1> HIDE DEF d
  <1>2. c * b = c * a + c * d /\ c * d \in Nat /\ c * a \in Int BY <1>1
  <1> QED BY <1>2

(* What the nets of all symbols deploy is within the capital, as often as the strategy
   that asks for most asks for it. *)
LEMMA CapitalNotExceeded ==
    ASSUME VoteInv, svEval.method = "capital", NEW t \in Voters,
           \A s \in Voters : ClaimIn(svEval, s) <= ClaimIn(svEval, t)
    PROVE  SumOn([x \in VoteSymbols |-> AbsInt(Net(x))], VoteSymbols) <= ClaimIn(svEval, t) * Capital
  <1> DEFINE A == Opinions
             I == In(svEval.regs)
             k == ClaimIn(svEval, t)
             abs == [x \in VoteSymbols |-> AbsInt(Net(x))]
             gross == [x \in VoteSymbols |-> SumOn(Weights, OpinionsOn(x))]
             symOf == [p \in A |-> SignalAt(p).sym]
             of == [p \in A |-> p[1]]
             each == [s \in I |-> SumOn(Weights, Fibre(A, of, s))]
             share == [s \in I |-> CapitalShare(svEval.regs, s)]
             most == [s \in I |-> k * share[s]]
             asked == AskedIn(svEval)
  <1>1. /\ A = OpinionsIn(svEval) /\ IsFiniteSet(A) /\ IsFiniteSet(VoteSymbols) /\ IsFiniteSet(I)
        /\ I \subseteq Voters
   <2>1. A = OpinionsIn(svEval) BY OpinionsKnown
   <2>2. A \subseteq Voters \X (1..MaxSignals) BY DEF Opinions, Said
   <2>3. I \subseteq Voters BY DEF In
   <2> HIDE DEF A, I
   <2> QED BY <2>1, <2>2, <2>3, SaidFinite, VoteAssumption, FS_Subset
  <1>2. ASSUME NEW p \in A
        PROVE  /\ Weights[p] \in Nat /\ asked[p] \in Nat /\ symOf[p] \in VoteSymbols /\ of[p] \in I
               /\ of[p] = p[1] /\ symOf[p] = SignalAt(p).sym
               /\ Weights[p] = share[p[1]] * asked[p]
   <2>1. p[1] \in I /\ SignalAt(p).sym \in VoteSymbols /\ SignalAt(p).w \in Nat /\ Weight(p) \in Nat
     BY WeightIsNat
   <2>2. asked[p] = SignalAt(p).w BY <1>1, OpinionsKnown DEF AskedIn
   <2>3. Weights[p] = Weight(p) BY DEF Weights
   <2>4. Weight(p) = AllocationOf(p[1]) * SignalAt(p).w BY DEF Weight
   <2>5. share[p[1]] = AllocationOf(p[1]) BY <2>1 DEF AllocationOf
   <2>6. of[p] = p[1] /\ symOf[p] = SignalAt(p).sym OBVIOUS
   <2> HIDE DEF A, I, asked, share, of, symOf
   <2> QED BY <2>1, <2>2, <2>3, <2>4, <2>5, <2>6
  <1>3. SumOn(abs, VoteSymbols) <= SumOn(gross, VoteSymbols)
   <2>1. \A x \in VoteSymbols : abs[x] \in Int /\ gross[x] \in Int /\ abs[x] <= gross[x]
     BY NetSigned
   <2> HIDE DEF abs, gross
   <2> QED BY <1>1, <2>1, SumMore
  <1>4. SumOn(gross, VoteSymbols) = SumOn(Weights, A)
   <2>1. \A x \in VoteSymbols : gross[x] = SumOn(Weights, Fibre(A, symOf, x))
    <3> TAKE x \in VoteSymbols
    <3>1. gross[x] = SumOn(Weights, OpinionsOn(x)) OBVIOUS
    <3>2. OpinionsOn(x) = Fibre(A, symOf, x) BY DEF OpinionsOn, Fibre
    <3> QED BY <3>1, <3>2
   <2> HIDE DEF gross, symOf, A, of, asked, share
   <2>2. \A p \in A : Weights[p] \in Int /\ symOf[p] \in VoteSymbols BY <1>2
   <2> QED BY <1>1, <2>1, <2>2, SumFibres
  <1>5. SumOn(each, I) = SumOn(Weights, A)
   <2>1. \A s \in I : each[s] = SumOn(Weights, Fibre(A, of, s)) OBVIOUS
   <2> HIDE DEF each, of, A, I, symOf, asked, share
   <2>2. \A p \in A : Weights[p] \in Int /\ of[p] \in I BY <1>2
   <2> QED BY <1>1, <2>1, <2>2, SumFibres
  <1>6. /\ \A s \in I : share[s] \in Nat
        /\ SumOn(share, I) <= Capital
   <2>1. svEval.regs \in VoterRegs /\ I \in SUBSET I BY DEF VoteInv, VoteSound
   <2>2. /\ \A s \in I : CapitalShare(svEval.regs, s) \in Nat
         /\ SumOn(share, I) <= Capital
     BY <2>1, SharesOfCapital
   <2>3. \A s \in I : share[s] = CapitalShare(svEval.regs, s) OBVIOUS
   <2> QED BY <2>2, <2>3
  <1>7. ASSUME NEW s \in Voters
        PROVE  ClaimIn(svEval, s) = SumOn(asked, {p \in A : p[1] = s}) /\ ClaimIn(svEval, s) \in Nat
   <2> DEFINE P == {p \in A : p[1] = s}
   <2>1. ClaimIn(svEval, s) = SumOn(asked, P) BY <1>1 DEF ClaimIn
   <2>2. P \subseteq A /\ IsFiniteSet(P) BY <1>1, FS_Subset
   <2>3. \A p \in P : asked[p] \in Nat BY <1>2, <2>2
   <2> HIDE DEF P, asked
   <2>4. SumOn(asked, P) \in Nat BY <2>2, <2>3, SumNat
   <2> QED BY <2>1, <2>4 DEF P
  <1>8. ASSUME NEW s \in I
        PROVE  each[s] \in Int /\ most[s] \in Int /\ each[s] <= most[s] /\ most[s] = k * share[s]
   <2> DEFINE P == {p \in A : p[1] = s}
              c == ClaimIn(svEval, s)
              h == share[s]
   <2>1. each[s] = SumOn(Weights, P)
    <3>1. each[s] = SumOn(Weights, Fibre(A, of, s)) OBVIOUS
    <3>2. Fibre(A, of, s) = P BY <1>2 DEF Fibre
    <3> QED BY <3>1, <3>2
   <2>2. s \in Voters BY <1>1
   <2>3. c = SumOn(asked, P) /\ c \in Nat /\ c <= k /\ k \in Nat BY <1>7, <2>2
   <2>4. P \subseteq A /\ IsFiniteSet(P) BY <1>1, FS_Subset
   <2>5. h \in Nat /\ most[s] = k * h BY <1>6
   <2>6. ASSUME NEW p \in P PROVE asked[p] \in Int /\ Weights[p] = h * asked[p]
    <3>1. p \in A /\ p[1] = s OBVIOUS
    <3> HIDE DEF A, P, share, asked, of, symOf
    <3> QED BY <1>2, <3>1
   <2> HIDE DEF P, c, h, k, asked, each, most
   <2>7. SumOn(Weights, P) = h * SumOn(asked, P) BY <2>4, <2>5, <2>6, SumScale
   <2>8. h * c <= h * k /\ h * c \in Int /\ k * h \in Int /\ h * k = k * h BY <2>3, <2>5, TimesGrows
   <2> QED BY <2>1, <2>3, <2>5, <2>7, <2>8 DEF h
  <1>9. SumOn(most, I) = k * SumOn(share, I) /\ k \in Nat /\ SumOn(share, I) \in Int
   <2>1. k \in Nat BY <1>7
   <2>2. \A s \in I : share[s] \in Int /\ most[s] = k * share[s] BY <1>6, <1>8
   <2> HIDE DEF k, share, most, I
   <2>3. k \in Int BY <2>1
   <2>4. SumOn(most, I) = k * SumOn(share, I) BY <1>1, <2>2, <2>3, SumScale
   <2> QED BY <1>1, <2>1, <2>2, <2>4, SumType
  <1>10. SumOn(each, I) <= SumOn(most, I)
   <2>1. \A s \in I : each[s] \in Int /\ most[s] \in Int /\ each[s] <= most[s] BY <1>8
   <2> HIDE DEF each, most, I
   <2> QED BY <1>1, <2>1, SumMore
  <1>11. k * SumOn(share, I) <= k * Capital
   <2>1. Capital \in Int BY VoteAssumption
   <2> HIDE DEF k, share, I
   <2> QED BY <1>6, <1>9, <2>1, TimesGrows
  <1>12. SumOn(abs, VoteSymbols) \in Int /\ SumOn(Weights, A) \in Int /\ k * Capital \in Int /\ SumOn(most, I) \in Int
   <2>1. \A x \in VoteSymbols : abs[x] \in Int BY NetSigned
   <2>3. \A s \in I : most[s] \in Int BY <1>8
   <2>4. Capital \in Nat BY VoteAssumption
   <2> HIDE DEF abs, A, k, most, I, symOf, of, asked, share
   <2>2. \A p \in A : Weights[p] \in Int BY <1>2
   <2> QED BY <1>1, <1>9, <2>1, <2>2, <2>3, <2>4, SumType
  <1> HIDE DEF A, I, k, abs, gross, each, share, most
  <1>13. SumOn(abs, VoteSymbols) <= k * Capital BY <1>3, <1>4, <1>5, <1>9, <1>10, <1>11, <1>12
  <1> QED BY <1>13 DEF abs, k

(* No step of an engine decides what nobody voted, nor more than the capital claimed. *)
LEMMA VoteSteps ==
    ASSUME VoteInv, [VoteNext]_svVars
    PROVE  VoteInv'
  <1>0. svRegs \in VoterRegs /\ VoteSound(svEval) BY DEF VoteInv
  <1>a. ASSUME svRegs' \in VoterRegs, svEval' = svEval
        PROVE  VoteInv'
   <2>1. VoteSound(svEval') BY <1>0, <1>a
   <2> QED BY <1>a, <2>1 DEF VoteInv
  <1>b. ASSUME svRegs' = svRegs, VoteSound(svEval')
        PROVE  VoteInv'
   <2>1. svRegs' \in VoterRegs BY <1>0, <1>b
   <2> QED BY <1>b, <2>1 DEF VoteInv
  <1>1. CASE UNCHANGED svVars
   <2>1. svRegs' = svRegs /\ svEval' = svEval BY <1>1 DEF svVars
   <2> QED BY <1>0, <1>a, <2>1
  <1>2. ASSUME NEW s \in Voters, NEW w \in VoteWeights, RegisterVoter(s, w) \/ SetCapitalWeight(s, w)
        PROVE  VoteInv'
   <2>1. svRegs' = [svRegs EXCEPT ![s] = w] /\ svEval' = svEval
     BY <1>2 DEF RegisterVoter, SetCapitalWeight, ChangeRegs
   <2>2. svRegs' \in VoterRegs BY <1>0, <2>1 DEF VoterRegs
   <2> QED BY <1>a, <2>1, <2>2
  <1>3. ASSUME NEW s \in Voters, UnregisterVoter(s)
        PROVE  VoteInv'
   <2>1. svRegs' = [svRegs EXCEPT ![s] = Unregistered] /\ svEval' = svEval
     BY <1>3 DEF UnregisterVoter, ChangeRegs
   <2>2. svRegs' \in VoterRegs BY <1>0, <2>1 DEF VoterRegs
   <2> QED BY <1>a, <2>1, <2>2
  <1>4. ASSUME NEW s \in Voters, VoterFails(s)
        PROVE  VoteInv'
   <2>1. /\ svEval.pc = "walking" /\ s \in svEval.todo /\ svRegs' = svRegs
         /\ svEval' = [svEval EXCEPT !.todo = svEval.todo \ {s}, !.errors = svEval.errors \cup {s}]
     BY <1>4 DEF VoterFails
   <2>2. VoteSound([svEval EXCEPT !.todo = svEval.todo \ {s}, !.errors = svEval.errors \cup {s}])
     BY <1>0, <2>1, VoteFailed
   <2> QED BY <1>b, <2>1, <2>2
  <1>5. ASSUME NEW how, BeginVote(how)
        PROVE  VoteInv'
   <2> DEFINE n == [NoVote EXCEPT !.pc = "walking", !.method = how, !.regs = svRegs, !.todo = In(svRegs)]
   <2>1. svEval' = n /\ svRegs' = svRegs BY <1>5 DEF BeginVote
   <2>2. /\ n = [f \in VoteFields |-> n[f]] /\ n.pc = "walking" /\ n.regs = svRegs /\ n.errors = {}
         /\ n.todo = In(svRegs) /\ n.answer = [s \in Voters |-> <<>>]
     BY DEF NoVote, VoteFields
   <2> HIDE DEF n
   <2>3. VoteSound(n) BY <1>0, <2>2, NoVoteSound
   <2> QED BY <1>b, <2>1, <2>3
  <1>6. ASSUME NEW s \in Voters, NEW list \in AnswerLists, VoterAnswers(s, list)
        PROVE  VoteInv'
   <2>1. /\ svEval.pc = "walking" /\ s \in svEval.todo /\ svRegs' = svRegs
         /\ svEval' = [svEval EXCEPT !.todo = svEval.todo \ {s},
                                     !.answer = [svEval.answer EXCEPT ![s] = list]]
     BY <1>6 DEF VoterAnswers
   <2>2. VoteSound([svEval EXCEPT !.todo = svEval.todo \ {s}, !.answer = [svEval.answer EXCEPT ![s] = list]])
     BY <1>0, <2>1, VoteAnswered
   <2> QED BY <1>b, <2>1, <2>2
  <1>7. ASSUME svRegs' = svRegs, svEval' = [svEval EXCEPT !.pc = "raised"]
        PROVE  VoteInv'
   <2>1. VoteSound([svEval EXCEPT !.pc = "raised"]) BY <1>0, VoteRaised
   <2> QED BY <1>b, <1>7, <2>1
  <1>8. ASSUME NEW s \in Voters, VoterGarbles(s)
        PROVE  VoteInv'
   <2>1. svRegs' = svRegs /\ svEval' = [svEval EXCEPT !.pc = "raised"] BY <1>8 DEF VoterGarbles
   <2> QED BY <1>7, <2>1
  <1>9. CASE Decide
   <2> DEFINE d == [x \in VoteSymbols |-> [side |-> DecidedSide(x), net |-> Net(x)]]
              n == [svEval EXCEPT !.pc = "decided", !.decision = d]
   <2>1. svRegs' = svRegs /\ svEval' = IF AllZero THEN [svEval EXCEPT !.pc = "raised"] ELSE n
     BY <1>9 DEF Decide
   <2>2. /\ n = [f \in VoteFields |-> n[f]] /\ n.pc = "decided" /\ n.decision = d
         /\ n.method = svEval.method /\ n.regs = svEval.regs /\ n.todo = svEval.todo
         /\ n.answer = svEval.answer /\ n.errors = svEval.errors
     BY <1>0 DEF VoteSound, VoteFields
   <2>3. \A x \in VoteSymbols : d[x].side = DecidedSide(x) /\ d[x].net = Net(x) OBVIOUS
   <2> HIDE DEF d, n
   <2>4. /\ VoicesIn(n) = Said /\ \A p : SignalIn(n, p) = SignalAt(p)
         /\ \A s : ClaimIn(n, s) = ClaimIn(svEval, s)
    <3>1. VoicesIn(n) = VoicesIn(svEval) BY <2>2 DEF VoicesIn
    <3>2. \A p : SignalIn(n, p) = SignalIn(svEval, p) BY <2>2 DEF SignalIn
    <3>3. OpinionsIn(n) = OpinionsIn(svEval) BY <3>1, <3>2 DEF OpinionsIn
    <3>4. AskedIn(n) = AskedIn(svEval) BY <3>2, <3>3 DEF AskedIn
    <3>5. \A s : ClaimIn(n, s) = ClaimIn(svEval, s) BY <3>3, <3>4 DEF ClaimIn
    <3> QED BY <3>1, <3>2, <3>5, OpinionsKnown
   <2>5. ASSUME NEW x \in VoteSymbols, n.decision[x].side # "HOLD"
         PROVE  \E p \in VoicesIn(n) : SignalIn(n, p).sym = x /\ SignalIn(n, p).side = n.decision[x].side
    <3>1. n.decision[x].side = DecidedSide(x) BY <2>2, <2>3
    <3>2. Voted(x, DecidedSide(x)) BY DecidedIsVoted
    <3> QED BY <2>4, <2>5, <3>1, <3>2 DEF Voted
   <2>6. ASSUME n.method = "capital", NEW t \in Voters, \A s \in Voters : ClaimIn(n, s) <= ClaimIn(n, t)
         PROVE  DeployedIn(n) <= ClaimIn(n, t) * Capital
    <3>1. svEval.method = "capital" /\ \A s \in Voters : ClaimIn(svEval, s) <= ClaimIn(svEval, t)
      BY <2>2, <2>4, <2>6
    <3>2. SumOn([x \in VoteSymbols |-> AbsInt(Net(x))], VoteSymbols) <= ClaimIn(svEval, t) * Capital
      BY <3>1, CapitalNotExceeded
    <3>3. [x \in VoteSymbols |-> AbsInt(n.decision[x].net)] = [x \in VoteSymbols |-> AbsInt(Net(x))]
      BY <2>2, <2>3
    <3> QED BY <2>4, <3>2, <3>3 DEF DeployedIn
   <2>7. Backed(n) BY <2>5, <2>6 DEF Backed
   <2>8. VoteSound(n) BY <1>0, <2>2, <2>7 DEF VoteSound
   <2> QED BY <1>b, <1>7, <2>1, <2>8
  <1> QED BY <1>1, <1>2, <1>3, <1>4, <1>5, <1>6, <1>8, <1>9 DEF VoteNext

(* So a decided side was signalled by a strategy that counts, and what is deployed is
   within the capital claimed. *)
LEMMA VoteHolds ==
    ASSUME VoteInv
    PROVE  DecisionHasVoter /\ DeployedWithinCapital
  <1>1. VoteSound(svEval) BY DEF VoteInv
  <1>2. DeployedWithinCapital
   <2> SUFFICES ASSUME svEval.pc = "decided", svEval.method = "capital",
                       NEW t \in Voters, \A s \in Voters : Claim(s) <= Claim(t)
                PROVE  Deployed <= Claim(t) * Capital
     BY DEF DeployedWithinCapital
   <2>1. Backed(svEval) BY <1>1 DEF VoteSound
   <2>2. \A s : Claim(s) = ClaimIn(svEval, s)
    <3>1. Opinions = OpinionsIn(svEval) /\ \A p : SignalAt(p) = SignalIn(svEval, p) BY OpinionsKnown
    <3>2. Asked = AskedIn(svEval) BY <3>1 DEF Asked, AskedIn
    <3> QED BY <3>1, <3>2 DEF Claim, ClaimIn, SumOn
   <2>3. Deployed = DeployedIn(svEval)
    <3>1. Deployed = SumOn(Exposure, VoteSymbols) BY DEF Deployed, SumOn
    <3> QED BY <3>1 DEF Exposure, DeployedIn
   <2>4. \A s \in Voters : ClaimIn(svEval, s) <= ClaimIn(svEval, t) BY <2>2
   <2>5. DeployedIn(svEval) <= ClaimIn(svEval, t) * Capital BY <2>1, <2>4 DEF Backed
   <2> QED BY <2>2, <2>3, <2>5
  <1>3. DecisionHasVoter
   <2> SUFFICES ASSUME svEval.pc = "decided", NEW x \in VoteSymbols, svEval.decision[x].side # "HOLD"
                PROVE  \E p \in Said : /\ p[1] \in In(svEval.regs) \ svEval.errors
                                      /\ SignalAt(p).sym = x /\ SignalAt(p).side = svEval.decision[x].side
     BY DEF DecisionHasVoter
   <2>1. PICK p \in VoicesIn(svEval) :
            SignalIn(svEval, p).sym = x /\ SignalIn(svEval, p).side = svEval.decision[x].side
     BY <1>1 DEF VoteSound, Backed
   <2>2. p[1] \in In(svEval.regs) \ svEval.errors BY <1>1, SaidSound
   <2> QED BY <2>1, <2>2, OpinionsKnown
  <1> QED BY <1>2, <1>3

----------------------------------------
(* The scores of strategies. *)

ReportShape == [sharpe : Int, drawdown : Int, cost : Int, volatility : Int, winRate : Int,
                winner : Nat, loser : Nat, trades : Nat, rolling : Seq(Int)]

\* A kept result is the report's, with a score, grade and warnings that follow from it.
ResultSound(x) ==
    /\ x.report \in ReportShape /\ Evaluable(x.report)
    /\ x.score = Composite(x.report, ssWeights) /\ x.grade = GradeFor(x.score)
    /\ x.warnings = BuildWarnings(x.report)

KeptResults == [report : ReportShape, score : Int, grade : Nat,
            warnings : SUBSET {"negative_sharpe", "drawdown", "cost", "volatility", "win_profile"}]

EvaluatorInv ==
    /\ ssWeights \in [Dimensions -> Int] /\ ValidWeights(ssWeights)
    /\ ssResults \in Seq(KeptResults) /\ \A n \in DOMAIN ssResults : ResultSound(ssResults[n])

\* The piece of a curve between two of its points.
PieceAt(v, P, i) == P[i][2] + ((v - P[i][1]) * (P[i + 1][2] - P[i][2])) \div (P[i + 1][1] - P[i][1])

(* Within its points a curve is one of its pieces. *)
LEMMA Interpolates ==
    ASSUME NEW P, NEW n \in Nat, Len(P) = n, n >= 1, \A k \in 1..n : P[k][1] \in Int,
           NEW v \in Int
    PROVE  \/ v <= P[1][1] /\ PiecewiseLinear(v, P) = P[1][2]
           \/ v >= P[n][1] /\ PiecewiseLinear(v, P) = P[n][2]
           \/ \E i \in 1..(n - 1) : /\ P[1][1] < v /\ P[i][1] <= v /\ v <= P[i + 1][1]
                                    /\ PiecewiseLinear(v, P) = PieceAt(v, P, i)
  <1> DEFINE j == CHOOSE i \in 1..(Len(P) - 1) : P[i][1] <= v /\ v <= P[i + 1][1]
  <1>1. PiecewiseLinear(v, P) = IF v <= P[1][1] THEN P[1][2]
                                ELSE IF v >= P[n][1] THEN P[n][2] ELSE PieceAt(v, P, j)
    BY DEF PiecewiseLinear, PieceAt
  <1>2. CASE v > P[1][1] /\ v < P[n][1]
   <2> DEFINE B == {k \in 1..n : v <= P[k][1]}
   <2>1. B \subseteq Nat /\ n \in B BY <1>2
   <2>2. PICK m \in B : \A k \in B : m <= k
    <3> HIDE DEF B
    <3> QED BY <2>1, LeastNatural
   <2>3. m # 1 BY <1>2
   <2>4. m \in 2..n /\ m - 1 \in 1..(n - 1) /\ m - 1 \notin B BY <2>2, <2>3
   <2>5. P[m - 1][1] <= v /\ v <= P[(m - 1) + 1][1] BY <2>4
   <2>6. \E k \in 1..(Len(P) - 1) : P[k][1] <= v /\ v <= P[k + 1][1] BY <2>4, <2>5
   <2> HIDE DEF B
   <2>7. j \in 1..(n - 1) /\ P[j][1] <= v /\ v <= P[j + 1][1] BY <2>6
   <2> HIDE DEF j
   <2>8. ~(v <= P[1][1]) /\ ~(v >= P[n][1])
    <3>1. P[1][1] \in Int /\ P[n][1] \in Int OBVIOUS
    <3> QED BY <1>2, <3>1
   <2> QED BY <1>1, <1>2, <2>7, <2>8
  <1>3. v > P[1][1] \/ v <= P[1][1]
   <2>1. P[1][1] \in Int OBVIOUS
   <2> QED BY <2>1
  <1>4. v < P[n][1] \/ v >= P[n][1]
   <2>1. P[n][1] \in Int OBVIOUS
   <2> QED BY <2>1
  <1>5. CASE v <= P[1][1] BY <1>1, <1>5
  <1>6. CASE v >= P[n][1] /\ ~(v <= P[1][1]) BY <1>1, <1>6
  <1> QED BY <1>2, <1>3, <1>4, <1>5, <1>6

(* The curve of the Sharpe ratio. *)
LEMMA RiskAdjustedCurve ==
    ASSUME NEW s \in Int
    PROVE  \/ s <= 0 /\ RiskAdjustedScore(s) = 0
           \/ s \in 0..5 /\ RiskAdjustedScore(s) = 0 + 60 * (s - 0)
           \/ s \in 5..10 /\ RiskAdjustedScore(s) = 300 + 60 * (s - 5)
           \/ s \in 10..20 /\ RiskAdjustedScore(s) = 600 + 30 * (s - 10)
           \/ s \in 20..30 /\ RiskAdjustedScore(s) = 900 + 10 * (s - 20)
           \/ s >= 30 /\ RiskAdjustedScore(s) = 1000
  <1> DEFINE P == << <<0, 0>>, <<5, 300>>, <<10, 600>>, <<20, 900>>, <<30, 1000>> >>
  <1>1. /\ Len(P) = 5 /\ P[1] = <<0, 0>> /\ P[2] = <<5, 300>> /\ P[3] = <<10, 600>>
        /\ P[4] = <<20, 900>> /\ P[5] = <<30, 1000>>
    OBVIOUS
  <1> DEFINE v == Greater(s, 0)
  <1>2. RiskAdjustedScore(s) = PiecewiseLinear(v, P) BY DEF RiskAdjustedScore
  <1>3. v \in Int /\ (s >= 0 => v = s) /\ (s < 0 => v = 0) BY DEF Greater
  <1> HIDE DEF P, v
  <1>4. \A k \in 1..5 : P[k][1] \in Int
   <2> TAKE k \in 1..5
   <2>1. k = 1 \/ k = 2 \/ k = 3 \/ k = 4 \/ k = 5 OBVIOUS
   <2> QED BY <1>1, <2>1
  <1> DEFINE n == 5
  <1>5. /\ n \in Nat /\ n >= 1 /\ Len(P) = n /\ n - 1 = 4 /\ n = 5
        /\ \A k \in 1..n : P[k][1] \in Int
    BY <1>1, <1>4
  <1> HIDE DEF n
  <1>9. \/ v <= P[1][1] /\ PiecewiseLinear(v, P) = P[1][2]
        \/ v >= P[n][1] /\ PiecewiseLinear(v, P) = P[n][2]
        \/ \E i \in 1..(n - 1) : /\ P[1][1] < v /\ P[i][1] <= v /\ v <= P[i + 1][1]
                                 /\ PiecewiseLinear(v, P) = PieceAt(v, P, i)
    BY <1>3, <1>5, Interpolates
  <1>6. CASE v <= P[1][1] /\ PiecewiseLinear(v, P) = P[1][2] BY <1>1, <1>2, <1>3, <1>6
  <1>7. CASE v >= P[n][1] /\ PiecewiseLinear(v, P) = P[n][2] BY <1>1, <1>2, <1>3, <1>5, <1>7
  <1>8. ASSUME NEW i \in 1..(n - 1), P[1][1] < v, P[i][1] <= v, v <= P[i + 1][1],
               PiecewiseLinear(v, P) = PieceAt(v, P, i)
        PROVE  \/ s \in 0..5 /\ RiskAdjustedScore(s) = 0 + 60 * (s - 0)
               \/ s \in 5..10 /\ RiskAdjustedScore(s) = 300 + 60 * (s - 5)
               \/ s \in 10..20 /\ RiskAdjustedScore(s) = 600 + 30 * (s - 10)
               \/ s \in 20..30 /\ RiskAdjustedScore(s) = 900 + 10 * (s - 20)
   <2>1. CASE i = 1
    <3>1. PieceAt(v, P, i) = 0 + ((v - 0) * (300 - 0)) \div (5 - 0) /\ v >= 0 /\ v <= 5
      BY <1>1, <1>8, <2>1 DEF PieceAt
    <3>2. v = s /\ v > 0 BY <1>1, <1>3, <1>8
    <3>3. s \in 0..5 /\ PieceAt(v, P, i) = 0 + 60 * (s - 0) BY <1>3, <3>1, <3>2
    <3> QED BY <1>2, <1>8, <3>3
   <2>2. CASE i = 2
    <3>1. PieceAt(v, P, i) = 300 + ((v - 5) * (600 - 300)) \div (10 - 5) /\ v >= 5 /\ v <= 10
      BY <1>1, <1>8, <2>2 DEF PieceAt
    <3>2. v = s /\ v > 0 BY <1>1, <1>3, <1>8
    <3>3. s \in 5..10 /\ PieceAt(v, P, i) = 300 + 60 * (s - 5) BY <1>3, <3>1, <3>2
    <3> QED BY <1>2, <1>8, <3>3
   <2>3. CASE i = 3
    <3>1. PieceAt(v, P, i) = 600 + ((v - 10) * (900 - 600)) \div (20 - 10) /\ v >= 10 /\ v <= 20
      BY <1>1, <1>8, <2>3 DEF PieceAt
    <3>2. v = s /\ v > 0 BY <1>1, <1>3, <1>8
    <3>3. s \in 10..20 /\ PieceAt(v, P, i) = 600 + 30 * (s - 10) BY <1>3, <3>1, <3>2
    <3> QED BY <1>2, <1>8, <3>3
   <2>4. CASE i = 4
    <3>1. PieceAt(v, P, i) = 900 + ((v - 20) * (1000 - 900)) \div (30 - 20) /\ v >= 20 /\ v <= 30
      BY <1>1, <1>8, <2>4 DEF PieceAt
    <3>2. v = s /\ v > 0 BY <1>1, <1>3, <1>8
    <3>3. s \in 20..30 /\ PieceAt(v, P, i) = 900 + 10 * (s - 20) BY <1>3, <3>1, <3>2
    <3> QED BY <1>2, <1>8, <3>3
   <2> QED BY <1>5, <2>1, <2>2, <2>3, <2>4
  <1> QED BY <1>6, <1>7, <1>8, <1>9

(* The curve of the drawdown. *)
LEMMA DrawdownCurve ==
    ASSUME NEW s \in Int
    PROVE  \/ s <= 0 /\ DrawdownScore(s) = 1000
           \/ s \in 0..5 /\ DrawdownScore(s) = 1000 - 20 * (s - 0)
           \/ s \in 5..10 /\ DrawdownScore(s) = 900 - 40 * (s - 5)
           \/ s \in 10..20 /\ DrawdownScore(s) = 700 - 30 * (s - 10)
           \/ s \in 20..30 /\ DrawdownScore(s) = 400 - 20 * (s - 20)
           \/ s \in 30..50 /\ DrawdownScore(s) = 200 - 10 * (s - 30)
           \/ s >= 50 /\ DrawdownScore(s) = 0
  <1> DEFINE P == << <<0, 1000>>, <<5, 900>>, <<10, 700>>, <<20, 400>>, <<30, 200>>, <<50, 0>> >>
  <1>1. /\ Len(P) = 6 /\ P[1] = <<0, 1000>> /\ P[2] = <<5, 900>> /\ P[3] = <<10, 700>>
        /\ P[4] = <<20, 400>> /\ P[5] = <<30, 200>> /\ P[6] = <<50, 0>>
    OBVIOUS
  <1> DEFINE v == s
  <1>2. DrawdownScore(s) = PiecewiseLinear(v, P) BY DEF DrawdownScore
  <1>3. v \in Int /\ v = s OBVIOUS
  <1> HIDE DEF P, v
  <1>4. \A k \in 1..6 : P[k][1] \in Int
   <2> TAKE k \in 1..6
   <2>1. k = 1 \/ k = 2 \/ k = 3 \/ k = 4 \/ k = 5 \/ k = 6 OBVIOUS
   <2> QED BY <1>1, <2>1
  <1> DEFINE n == 6
  <1>5. /\ n \in Nat /\ n >= 1 /\ Len(P) = n /\ n - 1 = 5 /\ n = 6
        /\ \A k \in 1..n : P[k][1] \in Int
    BY <1>1, <1>4
  <1> HIDE DEF n
  <1>9. \/ v <= P[1][1] /\ PiecewiseLinear(v, P) = P[1][2]
        \/ v >= P[n][1] /\ PiecewiseLinear(v, P) = P[n][2]
        \/ \E i \in 1..(n - 1) : /\ P[1][1] < v /\ P[i][1] <= v /\ v <= P[i + 1][1]
                                 /\ PiecewiseLinear(v, P) = PieceAt(v, P, i)
    BY <1>3, <1>5, Interpolates
  <1>6. CASE v <= P[1][1] /\ PiecewiseLinear(v, P) = P[1][2] BY <1>1, <1>2, <1>3, <1>6
  <1>7. CASE v >= P[n][1] /\ PiecewiseLinear(v, P) = P[n][2] BY <1>1, <1>2, <1>3, <1>5, <1>7
  <1>8. ASSUME NEW i \in 1..(n - 1), P[1][1] < v, P[i][1] <= v, v <= P[i + 1][1],
               PiecewiseLinear(v, P) = PieceAt(v, P, i)
        PROVE  \/ s \in 0..5 /\ DrawdownScore(s) = 1000 - 20 * (s - 0)
               \/ s \in 5..10 /\ DrawdownScore(s) = 900 - 40 * (s - 5)
               \/ s \in 10..20 /\ DrawdownScore(s) = 700 - 30 * (s - 10)
               \/ s \in 20..30 /\ DrawdownScore(s) = 400 - 20 * (s - 20)
               \/ s \in 30..50 /\ DrawdownScore(s) = 200 - 10 * (s - 30)
   <2>1. CASE i = 1
    <3>1. PieceAt(v, P, i) = 1000 + ((v - 0) * (900 - 1000)) \div (5 - 0) /\ v >= 0 /\ v <= 5
      BY <1>1, <1>8, <2>1 DEF PieceAt
    <3>2. v = s BY <1>1, <1>3, <1>8
    <3>3. s \in 0..5 /\ PieceAt(v, P, i) = 1000 - 20 * (s - 0) BY <1>3, <3>1, <3>2
    <3> QED BY <1>2, <1>8, <3>3
   <2>2. CASE i = 2
    <3>1. PieceAt(v, P, i) = 900 + ((v - 5) * (700 - 900)) \div (10 - 5) /\ v >= 5 /\ v <= 10
      BY <1>1, <1>8, <2>2 DEF PieceAt
    <3>2. v = s BY <1>1, <1>3, <1>8
    <3>3. s \in 5..10 /\ PieceAt(v, P, i) = 900 - 40 * (s - 5) BY <1>3, <3>1, <3>2
    <3> QED BY <1>2, <1>8, <3>3
   <2>3. CASE i = 3
    <3>1. PieceAt(v, P, i) = 700 + ((v - 10) * (400 - 700)) \div (20 - 10) /\ v >= 10 /\ v <= 20
      BY <1>1, <1>8, <2>3 DEF PieceAt
    <3>2. v = s BY <1>1, <1>3, <1>8
    <3>3. s \in 10..20 /\ PieceAt(v, P, i) = 700 - 30 * (s - 10) BY <1>3, <3>1, <3>2
    <3> QED BY <1>2, <1>8, <3>3
   <2>4. CASE i = 4
    <3>1. PieceAt(v, P, i) = 400 + ((v - 20) * (200 - 400)) \div (30 - 20) /\ v >= 20 /\ v <= 30
      BY <1>1, <1>8, <2>4 DEF PieceAt
    <3>2. v = s BY <1>1, <1>3, <1>8
    <3>3. s \in 20..30 /\ PieceAt(v, P, i) = 400 - 20 * (s - 20) BY <1>3, <3>1, <3>2
    <3> QED BY <1>2, <1>8, <3>3
   <2>5. CASE i = 5
    <3>1. PieceAt(v, P, i) = 200 + ((v - 30) * (0 - 200)) \div (50 - 30) /\ v >= 30 /\ v <= 50
      BY <1>1, <1>8, <2>5 DEF PieceAt
    <3>2. v = s BY <1>1, <1>3, <1>8
    <3>3. s \in 30..50 /\ PieceAt(v, P, i) = 200 - 10 * (s - 30) BY <1>3, <3>1, <3>2
    <3> QED BY <1>2, <1>8, <3>3
   <2> QED BY <1>5, <2>1, <2>2, <2>3, <2>4, <2>5
  <1> QED BY <1>6, <1>7, <1>8, <1>9

(* The curve of the volatility. *)
LEMMA StabilityCurve ==
    ASSUME NEW s \in Int
    PROVE  \/ s <= 0 /\ StabilityScore(s) = 1000
           \/ s \in 0..10 /\ StabilityScore(s) = 1000 - 20 * (s - 0)
           \/ s \in 10..20 /\ StabilityScore(s) = 800 - 30 * (s - 10)
           \/ s \in 20..30 /\ StabilityScore(s) = 500 - 30 * (s - 20)
           \/ s \in 30..50 /\ StabilityScore(s) = 200 - 10 * (s - 30)
           \/ s >= 50 /\ StabilityScore(s) = 0
  <1> DEFINE P == << <<0, 1000>>, <<10, 800>>, <<20, 500>>, <<30, 200>>, <<50, 0>> >>
  <1>1. /\ Len(P) = 5 /\ P[1] = <<0, 1000>> /\ P[2] = <<10, 800>> /\ P[3] = <<20, 500>>
        /\ P[4] = <<30, 200>> /\ P[5] = <<50, 0>>
    OBVIOUS
  <1> DEFINE v == s
  <1>2. StabilityScore(s) = PiecewiseLinear(v, P) BY DEF StabilityScore
  <1>3. v \in Int /\ v = s OBVIOUS
  <1> HIDE DEF P, v
  <1>4. \A k \in 1..5 : P[k][1] \in Int
   <2> TAKE k \in 1..5
   <2>1. k = 1 \/ k = 2 \/ k = 3 \/ k = 4 \/ k = 5 OBVIOUS
   <2> QED BY <1>1, <2>1
  <1> DEFINE n == 5
  <1>5. /\ n \in Nat /\ n >= 1 /\ Len(P) = n /\ n - 1 = 4 /\ n = 5
        /\ \A k \in 1..n : P[k][1] \in Int
    BY <1>1, <1>4
  <1> HIDE DEF n
  <1>9. \/ v <= P[1][1] /\ PiecewiseLinear(v, P) = P[1][2]
        \/ v >= P[n][1] /\ PiecewiseLinear(v, P) = P[n][2]
        \/ \E i \in 1..(n - 1) : /\ P[1][1] < v /\ P[i][1] <= v /\ v <= P[i + 1][1]
                                 /\ PiecewiseLinear(v, P) = PieceAt(v, P, i)
    BY <1>3, <1>5, Interpolates
  <1>6. CASE v <= P[1][1] /\ PiecewiseLinear(v, P) = P[1][2] BY <1>1, <1>2, <1>3, <1>6
  <1>7. CASE v >= P[n][1] /\ PiecewiseLinear(v, P) = P[n][2] BY <1>1, <1>2, <1>3, <1>5, <1>7
  <1>8. ASSUME NEW i \in 1..(n - 1), P[1][1] < v, P[i][1] <= v, v <= P[i + 1][1],
               PiecewiseLinear(v, P) = PieceAt(v, P, i)
        PROVE  \/ s \in 0..10 /\ StabilityScore(s) = 1000 - 20 * (s - 0)
               \/ s \in 10..20 /\ StabilityScore(s) = 800 - 30 * (s - 10)
               \/ s \in 20..30 /\ StabilityScore(s) = 500 - 30 * (s - 20)
               \/ s \in 30..50 /\ StabilityScore(s) = 200 - 10 * (s - 30)
   <2>1. CASE i = 1
    <3>1. PieceAt(v, P, i) = 1000 + ((v - 0) * (800 - 1000)) \div (10 - 0) /\ v >= 0 /\ v <= 10
      BY <1>1, <1>8, <2>1 DEF PieceAt
    <3>2. v = s BY <1>1, <1>3, <1>8
    <3>3. s \in 0..10 /\ PieceAt(v, P, i) = 1000 - 20 * (s - 0) BY <1>3, <3>1, <3>2
    <3> QED BY <1>2, <1>8, <3>3
   <2>2. CASE i = 2
    <3>1. PieceAt(v, P, i) = 800 + ((v - 10) * (500 - 800)) \div (20 - 10) /\ v >= 10 /\ v <= 20
      BY <1>1, <1>8, <2>2 DEF PieceAt
    <3>2. v = s BY <1>1, <1>3, <1>8
    <3>3. s \in 10..20 /\ PieceAt(v, P, i) = 800 - 30 * (s - 10) BY <1>3, <3>1, <3>2
    <3> QED BY <1>2, <1>8, <3>3
   <2>3. CASE i = 3
    <3>1. PieceAt(v, P, i) = 500 + ((v - 20) * (200 - 500)) \div (30 - 20) /\ v >= 20 /\ v <= 30
      BY <1>1, <1>8, <2>3 DEF PieceAt
    <3>2. v = s BY <1>1, <1>3, <1>8
    <3>3. s \in 20..30 /\ PieceAt(v, P, i) = 500 - 30 * (s - 20) BY <1>3, <3>1, <3>2
    <3> QED BY <1>2, <1>8, <3>3
   <2>4. CASE i = 4
    <3>1. PieceAt(v, P, i) = 200 + ((v - 30) * (0 - 200)) \div (50 - 30) /\ v >= 30 /\ v <= 50
      BY <1>1, <1>8, <2>4 DEF PieceAt
    <3>2. v = s BY <1>1, <1>3, <1>8
    <3>3. s \in 30..50 /\ PieceAt(v, P, i) = 200 - 10 * (s - 30) BY <1>3, <3>1, <3>2
    <3> QED BY <1>2, <1>8, <3>3
   <2> QED BY <1>5, <2>1, <2>2, <2>3, <2>4
  <1> QED BY <1>6, <1>7, <1>8, <1>9

\* The curve of the quality of wins.
WinCurve(v) == PiecewiseLinear(v, << <<0, 0>>, <<50, 250>>, <<100, 500>>, <<200, 800>>, <<300, 1000>> >>)

(* The curve of the win quality. *)
LEMMA WinQualityCurve ==
    ASSUME NEW s \in Int
    PROVE  \/ s <= 0 /\ WinCurve(s) = 0
           \/ s \in 0..50 /\ WinCurve(s) = 0 + 5 * (s - 0)
           \/ s \in 50..100 /\ WinCurve(s) = 250 + 5 * (s - 50)
           \/ s \in 100..200 /\ WinCurve(s) = 500 + 3 * (s - 100)
           \/ s \in 200..300 /\ WinCurve(s) = 800 + 2 * (s - 200)
           \/ s >= 300 /\ WinCurve(s) = 1000
  <1> DEFINE P == << <<0, 0>>, <<50, 250>>, <<100, 500>>, <<200, 800>>, <<300, 1000>> >>
  <1>1. /\ Len(P) = 5 /\ P[1] = <<0, 0>> /\ P[2] = <<50, 250>> /\ P[3] = <<100, 500>>
        /\ P[4] = <<200, 800>> /\ P[5] = <<300, 1000>>
    OBVIOUS
  <1> DEFINE v == s
  <1>2. WinCurve(s) = PiecewiseLinear(v, P) BY DEF WinCurve
  <1>3. v \in Int /\ v = s OBVIOUS
  <1> HIDE DEF P, v
  <1>4. \A k \in 1..5 : P[k][1] \in Int
   <2> TAKE k \in 1..5
   <2>1. k = 1 \/ k = 2 \/ k = 3 \/ k = 4 \/ k = 5 OBVIOUS
   <2> QED BY <1>1, <2>1
  <1> DEFINE n == 5
  <1>5. /\ n \in Nat /\ n >= 1 /\ Len(P) = n /\ n - 1 = 4 /\ n = 5
        /\ \A k \in 1..n : P[k][1] \in Int
    BY <1>1, <1>4
  <1> HIDE DEF n
  <1>9. \/ v <= P[1][1] /\ PiecewiseLinear(v, P) = P[1][2]
        \/ v >= P[n][1] /\ PiecewiseLinear(v, P) = P[n][2]
        \/ \E i \in 1..(n - 1) : /\ P[1][1] < v /\ P[i][1] <= v /\ v <= P[i + 1][1]
                                 /\ PiecewiseLinear(v, P) = PieceAt(v, P, i)
    BY <1>3, <1>5, Interpolates
  <1>6. CASE v <= P[1][1] /\ PiecewiseLinear(v, P) = P[1][2] BY <1>1, <1>2, <1>3, <1>6
  <1>7. CASE v >= P[n][1] /\ PiecewiseLinear(v, P) = P[n][2] BY <1>1, <1>2, <1>3, <1>5, <1>7
  <1>8. ASSUME NEW i \in 1..(n - 1), P[1][1] < v, P[i][1] <= v, v <= P[i + 1][1],
               PiecewiseLinear(v, P) = PieceAt(v, P, i)
        PROVE  \/ s \in 0..50 /\ WinCurve(s) = 0 + 5 * (s - 0)
               \/ s \in 50..100 /\ WinCurve(s) = 250 + 5 * (s - 50)
               \/ s \in 100..200 /\ WinCurve(s) = 500 + 3 * (s - 100)
               \/ s \in 200..300 /\ WinCurve(s) = 800 + 2 * (s - 200)
   <2>1. CASE i = 1
    <3>1. PieceAt(v, P, i) = 0 + ((v - 0) * (250 - 0)) \div (50 - 0) /\ v >= 0 /\ v <= 50
      BY <1>1, <1>8, <2>1 DEF PieceAt
    <3>2. v = s BY <1>1, <1>3, <1>8
    <3>3. s \in 0..50 /\ PieceAt(v, P, i) = 0 + 5 * (s - 0) BY <1>3, <3>1, <3>2
    <3> QED BY <1>2, <1>8, <3>3
   <2>2. CASE i = 2
    <3>1. PieceAt(v, P, i) = 250 + ((v - 50) * (500 - 250)) \div (100 - 50) /\ v >= 50 /\ v <= 100
      BY <1>1, <1>8, <2>2 DEF PieceAt
    <3>2. v = s BY <1>1, <1>3, <1>8
    <3>3. s \in 50..100 /\ PieceAt(v, P, i) = 250 + 5 * (s - 50) BY <1>3, <3>1, <3>2
    <3> QED BY <1>2, <1>8, <3>3
   <2>3. CASE i = 3
    <3>1. PieceAt(v, P, i) = 500 + ((v - 100) * (800 - 500)) \div (200 - 100) /\ v >= 100 /\ v <= 200
      BY <1>1, <1>8, <2>3 DEF PieceAt
    <3>2. v = s BY <1>1, <1>3, <1>8
    <3>3. s \in 100..200 /\ PieceAt(v, P, i) = 500 + 3 * (s - 100) BY <1>3, <3>1, <3>2
    <3> QED BY <1>2, <1>8, <3>3
   <2>4. CASE i = 4
    <3>1. PieceAt(v, P, i) = 800 + ((v - 200) * (1000 - 800)) \div (300 - 200) /\ v >= 200 /\ v <= 300
      BY <1>1, <1>8, <2>4 DEF PieceAt
    <3>2. v = s BY <1>1, <1>3, <1>8
    <3>3. s \in 200..300 /\ PieceAt(v, P, i) = 800 + 2 * (s - 200) BY <1>3, <3>1, <3>2
    <3> QED BY <1>2, <1>8, <3>3
   <2> QED BY <1>5, <2>1, <2>2, <2>3, <2>4
  <1> QED BY <1>6, <1>7, <1>8, <1>9

\* The scale of the scores.
Scale == 0..1000

(* Every metric scores on the scale. *)
LEMMA CurvesOnScale ==
    ASSUME NEW a \in Int
    PROVE  /\ RiskAdjustedScore(a) \in Scale /\ DrawdownScore(a) \in Scale
           /\ StabilityScore(a) \in Scale /\ WinCurve(a) \in Scale
  <1>1. RiskAdjustedScore(a) \in Scale BY RiskAdjustedCurve DEF Scale
  <1>2. DrawdownScore(a) \in Scale BY DrawdownCurve DEF Scale
  <1>3. StabilityScore(a) \in Scale BY StabilityCurve DEF Scale
  <1>4. WinCurve(a) \in Scale BY WinQualityCurve DEF Scale
  <1> QED BY <1>1, <1>2, <1>3, <1>4

(* A better metric scores no less. *)
LEMMA CurvesKeepOrder ==
    ASSUME NEW a \in Int, NEW b \in Int, a <= b
    PROVE  /\ RiskAdjustedScore(a) <= RiskAdjustedScore(b)
           /\ DrawdownScore(b) <= DrawdownScore(a)
           /\ StabilityScore(b) <= StabilityScore(a)
           /\ WinCurve(a) <= WinCurve(b)
  <1>1. RiskAdjustedScore(a) <= RiskAdjustedScore(b) BY RiskAdjustedCurve
  <1>2. DrawdownScore(b) <= DrawdownScore(a) BY DrawdownCurve
  <1>3. StabilityScore(b) <= StabilityScore(a) BY StabilityCurve
  <1>4. WinCurve(a) <= WinCurve(b) BY WinQualityCurve
  <1> QED BY <1>1, <1>2, <1>3, <1>4

(* More wins and smaller losses make the wins no worse. *)
LEMMA QuotientKeepsOrder ==
    ASSUME NEW x \in Nat, NEW y \in Nat, NEW v \in Nat, NEW w \in Nat, NEW k \in Nat, NEW l \in Nat,
           x >= y, v >= w, k > 0, k <= l
    PROVE  (y * w) \div l <= (x * v) \div k /\ (y * w) \div l \in Nat /\ (x * v) \div k \in Nat
  <1> DEFINE a == x * v
             b == y * w
             p == a \div k
             q == b \div l
  <1>1. y * w <= x * w
   <2> DEFINE d == x - y
   <2>1. d \in Nat /\ x = y + d OBVIOUS
   <2> HIDE DEF d
   <2>2. x * w = y * w + d * w /\ d * w \in Nat /\ y * w \in Nat BY <2>1
   <2> QED BY <2>2
  <1>2. x * w <= x * v
   <2> DEFINE d == v - w
   <2>1. d \in Nat /\ v = w + d OBVIOUS
   <2> HIDE DEF d
   <2>2. x * v = x * w + x * d /\ x * d \in Nat /\ x * w \in Nat BY <2>1
   <2> QED BY <2>2
  <1>3. a \in Nat /\ b \in Nat /\ b <= a
   <2>1. a \in Nat /\ b \in Nat /\ x * w \in Nat OBVIOUS
   <2> QED BY <1>1, <1>2, <2>1
  <1> HIDE DEF a, b
  <1>4. p \in Nat /\ k * p <= a /\ a < k * p + k BY <1>3
  <1>5. q \in Nat /\ l * q <= b BY <1>3
  <1> HIDE DEF p, q
  <1>6. k * q <= l * q
   <2> DEFINE d == l - k
   <2>1. d \in Nat /\ l = k + d OBVIOUS
   <2> HIDE DEF d
   <2>2. l * q = k * q + d * q /\ d * q \in Nat /\ k * q \in Nat BY <1>5, <2>1
   <2> QED BY <2>2
  <1>7. q <= p
   <2> SUFFICES ASSUME q > p PROVE FALSE
     BY <1>4, <1>5
   <2> DEFINE d == q - p - 1
   <2>1. d \in Nat /\ q = p + 1 + d BY <1>4, <1>5
   <2> HIDE DEF d
   <2>2. k * q = k * p + k + k * d /\ k * d \in Nat BY <1>4, <2>1
   <2>3. k * q \in Nat /\ l * q \in Nat /\ k * p \in Nat BY <1>4, <1>5
   <2> QED BY <1>3, <1>4, <1>5, <1>6, <2>2, <2>3
  <1> QED BY <1>4, <1>5, <1>7 DEF p, q, a, b

(* The fields of a report are numbers. *)
LEMMA ReportNumbers ==
    ASSUME NEW r \in ReportShape, Evaluable(r)
    PROVE  /\ r.sharpe \in Int /\ r.drawdown \in Nat /\ r.cost \in Nat /\ r.volatility \in Nat
           /\ r.winRate \in Int /\ r.winner \in Nat /\ r.loser \in Nat /\ r.trades \in Nat
           /\ r.rolling \in Seq(Int) /\ WinFraction(r) \in 0..100
           /\ r.loser # 0 => WinQuality(r) \in Nat
  <1>1. /\ r.sharpe \in Int /\ r.drawdown \in Int /\ r.cost \in Int /\ r.volatility \in Int
        /\ r.winRate \in Int /\ r.winner \in Nat /\ r.loser \in Nat /\ r.trades \in Nat
        /\ r.rolling \in Seq(Int)
    BY DEF ReportShape
  <1>2. r.drawdown >= 0 /\ r.cost >= 0 /\ r.volatility >= 0 /\ WinFraction(r) \in 0..100
    BY DEF Evaluable
  <1>3. ASSUME r.loser # 0 PROVE WinQuality(r) \in Nat
   <2> DEFINE x == WinFraction(r)
              v == r.winner
              k == r.loser
   <2>1. x \in Nat /\ v \in Nat /\ k \in Nat /\ k > 0
    <3>1. 0..100 \subseteq Nat OBVIOUS
    <3>2. x \in Nat BY <1>2, <3>1
    <3>3. v \in Nat /\ k \in Nat /\ k # 0 BY <1>1, <1>3
    <3> HIDE DEF x, v, k
    <3> QED BY <3>2, <3>3
   <2>2. WinQuality(r) = (x * v) \div k BY DEF WinQuality
   <2> HIDE DEF x, v, k
   <2>3. (x * v) \div k \in Nat BY <2>1, QuotientKeepsOrder
   <2> QED BY <2>2, <2>3
  <1> QED BY <1>1, <1>2, <1>3

(* Wins score as they are. *)
LEMMA WinsKeepOrder ==
    ASSUME NEW a \in ReportShape, NEW b \in ReportShape, Evaluable(a), Evaluable(b), AtLeastAsGood(a, b)
    PROVE  /\ WinRateQualityScore(b) <= WinRateQualityScore(a)
           /\ a.loser # 0 => b.loser # 0 /\ WinQuality(a) >= WinQuality(b)
  <1>1. /\ a.winRate \in Int /\ b.winRate \in Int /\ a.winRate >= b.winRate
        /\ a.winRate \notin 1..100 /\ b.winRate \notin 1..100
        /\ WinFraction(a) \in 0..100 /\ WinFraction(b) \in 0..100
        /\ a.winner \in Nat /\ b.winner \in Nat /\ a.winner >= b.winner
        /\ a.loser \in Nat /\ b.loser \in Nat /\ a.loser <= b.loser
    BY ReportNumbers DEF AtLeastAsGood
  <1>2. WinFraction(a) >= WinFraction(b)
   <2> DEFINE x == a.winRate
              y == b.winRate
   <2>1. /\ WinFraction(a) = IF x > 100 THEN x \div 100 ELSE x
         /\ WinFraction(b) = IF y > 100 THEN y \div 100 ELSE y
     BY DEF WinFraction
   <2>2. /\ x \in Int /\ y \in Int /\ x >= y /\ x \notin 1..100 /\ y \notin 1..100
     BY <1>1
   <2> HIDE DEF x, y
   <2> QED BY <2>1, <2>2
  <1>3. ASSUME a.loser # 0
        PROVE  b.loser # 0 /\ WinQuality(a) >= WinQuality(b) /\ WinQuality(a) \in Int /\ WinQuality(b) \in Int
   <2> DEFINE x == WinFraction(a)
              y == WinFraction(b)
              v == a.winner
              w == b.winner
              k == a.loser
              l == b.loser
   <2>1. /\ x \in Nat /\ y \in Nat /\ v \in Nat /\ w \in Nat /\ k \in Nat /\ l \in Nat
         /\ x >= y /\ v >= w /\ k > 0 /\ k <= l
     BY <1>1, <1>2, <1>3
   <2>2. WinQuality(a) = (x * v) \div k /\ WinQuality(b) = (y * w) \div l BY DEF WinQuality
   <2>3. b.loser # 0 BY <2>1
   <2> HIDE DEF x, y, v, w, k, l
   <2>4. (y * w) \div l <= (x * v) \div k /\ (y * w) \div l \in Nat /\ (x * v) \div k \in Nat
     BY <2>1, QuotientKeepsOrder
   <2> QED BY <2>2, <2>3, <2>4
  <1>4. \A r : WinRateQualityScore(r) = IF r.loser = 0 THEN (IF WinFraction(r) = 0 THEN 500 ELSE 1000)
                                        ELSE WinCurve(WinQuality(r))
    BY DEF WinRateQualityScore, WinCurve
  <1>5. CASE a.loser # 0
   <2> DEFINE p == WinQuality(a)
              q == WinQuality(b)
   <2>1. p \in Int /\ q \in Int /\ q <= p /\ b.loser # 0 BY <1>3, <1>5
   <2>2. WinRateQualityScore(a) = WinCurve(p) /\ WinRateQualityScore(b) = WinCurve(q)
     BY <1>4, <1>5, <2>1
   <2> HIDE DEF p, q
   <2>3. WinCurve(q) <= WinCurve(p) BY <2>1, CurvesKeepOrder
   <2>4. WinRateQualityScore(b) <= WinRateQualityScore(a) BY <2>2, <2>3
   <2> QED BY <1>3, <1>5, <2>4
  <1>6. CASE a.loser = 0 /\ b.loser = 0
   <2>1. WinFraction(a) = 0 => WinFraction(b) = 0 BY <1>1, <1>2
   <2> QED BY <1>4, <1>6, <2>1
  <1>7. CASE a.loser = 0 /\ b.loser # 0
   <2>1. WinQuality(b) \in Nat BY <1>7, ReportNumbers
   <2>2. WinCurve(WinQuality(b)) \in Scale
    <3> DEFINE q == WinQuality(b)
    <3>1. q \in Int BY <2>1
    <3> HIDE DEF q
    <3>2. WinCurve(q) \in Scale BY <3>1, CurvesOnScale
    <3> QED BY <3>2 DEF q
   <2>3. CASE WinFraction(a) # 0
    <3> DEFINE c == WinCurve(WinQuality(b))
    <3>1. c <= 1000
     <4>1. c \in Scale BY <2>2
     <4> HIDE DEF c
     <4> QED BY <4>1 DEF Scale
    <3>2. WinRateQualityScore(a) = 1000 /\ WinRateQualityScore(b) = c BY <1>4, <1>7, <2>3
    <3> QED BY <1>7, <3>1, <3>2
   <2>4. CASE WinFraction(a) = 0
    <3>1. WinFraction(b) = 0 BY <1>1, <1>2, <2>4
    <3>2. WinQuality(b) = 0
     <4> DEFINE l == b.loser
     <4>1. l \in Nat /\ l > 0 /\ WinQuality(b) = (0 * b.winner) \div l
       BY <1>1, <1>7, <3>1 DEF WinQuality
     <4>2. 0 * b.winner = 0 BY <1>1
     <4> HIDE DEF l
     <4>3. 0 \div l = 0 BY <4>1
     <4> QED BY <4>1, <4>2, <4>3
    <3>3. WinCurve(0) = 0 BY WinQualityCurve
    <3> QED BY <1>4, <1>7, <2>4, <3>2, <3>3
   <2> QED BY <2>3, <2>4
  <1> QED BY <1>1, <1>3, <1>5, <1>6, <1>7

(* Costs never raise the score. *)
LEMMA CostsKeepOrder ==
    ASSUME NEW a \in Nat, NEW b \in Nat, a <= b
    PROVE  CostEfficiencyScore(a) \in Scale /\ CostEfficiencyScore(a) >= CostEfficiencyScore(b)
  <1>1. /\ Len(Halved) = 10 /\ Halved[1] = 1000 /\ Halved[2] = 500 /\ Halved[3] = 250 /\ Halved[4] = 125
        /\ Halved[5] = 62 /\ Halved[6] = 31 /\ Halved[7] = 15 /\ Halved[8] = 7 /\ Halved[9] = 3
        /\ Halved[10] = 1
    BY DEF Halved
  <1>2. ASSUME NEW n \in Nat
        PROVE  CostEfficiencyScore(n) = IF n = 0 THEN 1000 ELSE IF n = 1 THEN 500 ELSE IF n = 2 THEN 250
                 ELSE IF n = 3 THEN 125 ELSE IF n = 4 THEN 62 ELSE IF n = 5 THEN 31 ELSE IF n = 6 THEN 15
                 ELSE IF n = 7 THEN 7 ELSE IF n = 8 THEN 3 ELSE IF n = 9 THEN 1 ELSE 0
   <2>1. CostEfficiencyScore(n) = IF n < 10 THEN Halved[n + 1] ELSE 0
     BY <1>1 DEF CostEfficiencyScore
   <2>2. n < 10 => n \in 0..9 OBVIOUS
   <2>3. n \in 0..9 => n = 0 \/ n = 1 \/ n = 2 \/ n = 3 \/ n = 4 \/ n = 5 \/ n = 6 \/ n = 7 \/ n = 8 \/ n = 9
     OBVIOUS
   <2> QED BY <1>1, <2>1, <2>2, <2>3
  <1>3. CostEfficiencyScore(a) \in Scale BY <1>2 DEF Scale
  <1>4. CostEfficiencyScore(a) >= CostEfficiencyScore(b) BY <1>2
  <1> QED BY <1>3, <1>4

(* The consistency of a report is on the scale and hangs on its windows alone. *)
LEMMA ConsistencyScale ==
    ASSUME NEW r \in ReportShape
    PROVE  Consistency(r) \in Scale
  <1>1. r.rolling \in Seq(Int) BY DEF ReportShape
  <1>2. CASE Len(r.rolling) < 2 BY <1>2 DEF Consistency, Scale
  <1>3. CASE ~(Len(r.rolling) < 2)
   <2> DEFINE a == r.rolling[1]
              b == r.rolling[2]
              t == 250 * Magnitude(a - b)
              k == Greater(Magnitude(a + b), 10)
   <2>1. a \in Int /\ b \in Int BY <1>1, <1>3
   <2>2. Consistency(r) = Greater(0, 1000 - t \div k) BY <1>3 DEF Consistency
   <2> HIDE DEF a, b
   <2>3. t \in Nat /\ k \in Nat /\ k > 0
    <3>1. a - b \in Int /\ a + b \in Int BY <2>1
    <3>2. Magnitude(a - b) \in Nat /\ Magnitude(a + b) \in Nat BY <3>1 DEF Magnitude
    <3>3. k \in Nat /\ k >= 10 BY <3>2 DEF Greater
    <3> QED BY <3>2, <3>3
   <2> HIDE DEF t, k
   <2>4. t \div k \in Nat BY <2>3
   <2> QED BY <2>2, <2>4 DEF Greater, Scale
  <1> QED BY <1>2, <1>3

(* What is on the scale in each metric, and how much of the weight it takes. *)
LEMMA DimsOnScale ==
    ASSUME NEW r \in ReportShape, Evaluable(r)
    PROVE  \A k \in Dimensions : Dims(r)[k] \in Scale
  <1>1. /\ r.sharpe \in Int /\ r.drawdown \in Int /\ r.cost \in Nat /\ r.volatility \in Int
        /\ r.loser # 0 => WinQuality(r) \in Int
    BY ReportNumbers
  <1>2. RiskAdjustedScore(r.sharpe) \in Scale
   <2> DEFINE n == r.sharpe
   <2>1. n \in Int BY <1>1
   <2> HIDE DEF n
   <2>2. RiskAdjustedScore(n) \in Scale BY <2>1, CurvesOnScale
   <2> QED BY <2>2 DEF n
  <1>3. DrawdownScore(r.drawdown) \in Scale
   <2> DEFINE n == r.drawdown
   <2>1. n \in Int BY <1>1
   <2> HIDE DEF n
   <2>2. DrawdownScore(n) \in Scale BY <2>1, CurvesOnScale
   <2> QED BY <2>2 DEF n
  <1>4. StabilityScore(r.volatility) \in Scale
   <2> DEFINE n == r.volatility
   <2>1. n \in Int BY <1>1
   <2> HIDE DEF n
   <2>2. StabilityScore(n) \in Scale BY <2>1, CurvesOnScale
   <2> QED BY <2>2 DEF n
  <1>5. CostEfficiencyScore(r.cost) \in Scale
   <2> DEFINE n == r.cost
              m == r.cost
   <2>1. n \in Nat /\ m \in Nat /\ n <= m BY <1>1
   <2> HIDE DEF n, m
   <2>2. CostEfficiencyScore(n) \in Scale BY <2>1, CostsKeepOrder
   <2> QED BY <2>2 DEF n
  <1>6. WinRateQualityScore(r) \in Scale
   <2>1. CASE r.loser = 0 BY <2>1 DEF WinRateQualityScore, Scale
   <2>2. CASE r.loser # 0
    <3> DEFINE q == WinQuality(r)
    <3>1. q \in Int BY <1>1, <2>2
    <3>2. WinRateQualityScore(r) = WinCurve(q) BY <2>2 DEF WinRateQualityScore, WinCurve
    <3> HIDE DEF q
    <3>3. WinCurve(q) \in Scale BY <3>1, CurvesOnScale
    <3> QED BY <3>2, <3>3
   <2> QED BY <2>1, <2>2
  <1>7. Consistency(r) \in Scale BY ConsistencyScale
  <1> QED BY <1>2, <1>3, <1>4, <1>5, <1>6, <1>7 DEF Dims, Dimensions

(* Better in every metric is better in every score. *)
LEMMA DimsKeepOrder ==
    ASSUME NEW a \in ReportShape, NEW b \in ReportShape, Evaluable(a), Evaluable(b), AtLeastAsGood(a, b)
    PROVE  \A k \in Dimensions : Dims(b)[k] <= Dims(a)[k]
  <1>0. /\ a.sharpe \in Int /\ a.drawdown \in Int /\ a.cost \in Nat /\ a.volatility \in Int
        /\ b.sharpe \in Int /\ b.drawdown \in Int /\ b.cost \in Nat /\ b.volatility \in Int
    BY ReportNumbers
  <1>1. /\ a.sharpe \in Int /\ a.drawdown \in Int /\ a.cost \in Nat /\ a.volatility \in Int
        /\ b.sharpe \in Int /\ b.drawdown \in Int /\ b.cost \in Nat /\ b.volatility \in Int
        /\ b.sharpe <= a.sharpe /\ a.drawdown <= b.drawdown /\ a.cost <= b.cost
        /\ a.volatility <= b.volatility /\ a.rolling = b.rolling
    BY <1>0 DEF AtLeastAsGood
  <1>2. RiskAdjustedScore(b.sharpe) <= RiskAdjustedScore(a.sharpe)
   <2> DEFINE m == b.sharpe
              n == a.sharpe
   <2>1. m \in Int /\ n \in Int /\ m <= n BY <1>1
   <2> HIDE DEF m, n
   <2>2. RiskAdjustedScore(m) <= RiskAdjustedScore(n) BY <2>1, CurvesKeepOrder
   <2> QED BY <2>2 DEF m, n
  <1>3. DrawdownScore(b.drawdown) <= DrawdownScore(a.drawdown)
   <2> DEFINE m == a.drawdown
              n == b.drawdown
   <2>1. m \in Int /\ n \in Int /\ m <= n BY <1>1
   <2> HIDE DEF m, n
   <2>2. DrawdownScore(n) <= DrawdownScore(m) BY <2>1, CurvesKeepOrder
   <2> QED BY <2>2 DEF m, n
  <1>4. StabilityScore(b.volatility) <= StabilityScore(a.volatility)
   <2> DEFINE m == a.volatility
              n == b.volatility
   <2>1. m \in Int /\ n \in Int /\ m <= n BY <1>1
   <2> HIDE DEF m, n
   <2>2. StabilityScore(n) <= StabilityScore(m) BY <2>1, CurvesKeepOrder
   <2> QED BY <2>2 DEF m, n
  <1>5. CostEfficiencyScore(b.cost) <= CostEfficiencyScore(a.cost)
   <2> DEFINE m == a.cost
              n == b.cost
   <2>1. m \in Nat /\ n \in Nat /\ m <= n BY <1>1
   <2>2. CostEfficiencyScore(b.cost) \in Scale BY DimsOnScale DEF Dims, Dimensions
   <2> HIDE DEF m, n
   <2>3. CostEfficiencyScore(m) \in Scale /\ CostEfficiencyScore(m) >= CostEfficiencyScore(n)
     BY <2>1, CostsKeepOrder
   <2>4. CostEfficiencyScore(n) <= CostEfficiencyScore(m) BY <2>2, <2>3 DEF n
   <2> QED BY <2>4 DEF m, n
  <1>6. WinRateQualityScore(b) <= WinRateQualityScore(a) BY WinsKeepOrder
  <1>7. Consistency(b) <= Consistency(a)
   <2>1. Consistency(b) = Consistency(a) BY <1>1 DEF Consistency
   <2>2. Consistency(a) \in Scale BY ConsistencyScale
   <2> QED BY <2>1, <2>2 DEF Scale
  <1> QED BY <1>2, <1>3, <1>4, <1>5, <1>6, <1>7 DEF Dims, Dimensions

(* A weight keeps the order of what it weighs. *)
LEMMA WeightKeepsOrder ==
    ASSUME NEW w \in Nat, NEW x \in Scale, NEW y \in Scale, y <= x
    PROVE  w * x \in Nat /\ w * y \in Nat /\ w * y <= w * x /\ w * x <= 1000 * w
  <1> DEFINE d == x - y
             g == 1000 - x
  <1>1. d \in Nat /\ x = y + d /\ g \in Nat /\ 1000 = x + g /\ x \in Nat /\ y \in Nat BY DEF Scale
  <1> HIDE DEF d, g
  <1>2. w * x = w * y + w * d /\ w * d \in Nat /\ w * y \in Nat /\ w * x \in Nat BY <1>1
  <1>3. w * 1000 = w * x + w * g /\ w * g \in Nat BY <1>1
  <1> QED BY <1>2, <1>3

(* So it is with the weighted sum. *)
LEMMA CompositeKeepsOrder ==
    ASSUME NEW a \in ReportShape, NEW b \in ReportShape, Evaluable(a), Evaluable(b),
           \A k \in Dimensions : Dims(b)[k] <= Dims(a)[k],
           NEW w \in [Dimensions -> Int], ValidWeights(w)
    PROVE  Composite(a, w) \in 0..HighestScore /\ Composite(b, w) <= Composite(a, w) /\ Composite(b, w) \in Int
  <1> DEFINE x == Dims(a)
             y == Dims(b)
  <1>1. \A k \in Dimensions : x[k] \in Scale /\ y[k] \in Scale /\ y[k] <= x[k] /\ w[k] \in Nat
    BY DimsOnScale DEF ValidWeights
  <1>2. w.sharpe + w.drawdown + w.consistency + w.cost + w.winQuality + w.volatility = 100
    BY DEF ValidWeights
  <1>3. Composite(a, w) = w.sharpe * x.sharpe + w.drawdown * x.drawdown + w.consistency * x.consistency
                          + w.cost * x.cost + w.winQuality * x.winQuality + w.volatility * x.volatility
    BY DEF Composite
  <1>4. Composite(b, w) = w.sharpe * y.sharpe + w.drawdown * y.drawdown + w.consistency * y.consistency
                          + w.cost * y.cost + w.winQuality * y.winQuality + w.volatility * y.volatility
    BY DEF Composite
  <1> HIDE DEF x, y
  <1>5. ASSUME NEW k \in Dimensions
        PROVE  /\ w[k] * x[k] \in Nat /\ w[k] * y[k] \in Nat /\ w[k] * y[k] <= w[k] * x[k]
               /\ w[k] * x[k] <= 1000 * w[k] /\ w[k] \in Nat
   <2> DEFINE u == w[k]
              p == x[k]
              q == y[k]
   <2>1. u \in Nat /\ p \in Scale /\ q \in Scale /\ q <= p BY <1>1
   <2> HIDE DEF u, p, q
   <2>2. u * p \in Nat /\ u * q \in Nat /\ u * q <= u * p /\ u * p <= 1000 * u
     BY <2>1, WeightKeepsOrder
   <2> QED BY <2>1, <2>2 DEF u, p, q
  <1>6. \A k \in Dimensions : /\ w[k] * x[k] \in Nat /\ w[k] * y[k] \in Nat /\ w[k] * y[k] <= w[k] * x[k]
                              /\ w[k] * x[k] <= 1000 * w[k] /\ w[k] \in Nat
    BY <1>5
  <1> DEFINE X(k) == w[k] * x[k]
             Y(k) == w[k] * y[k]
  <1>7. \A k \in Dimensions : X(k) \in Nat /\ Y(k) \in Nat /\ Y(k) <= X(k) /\ X(k) <= 1000 * w[k] /\ w[k] \in Nat
    BY <1>6
  <1>8. Composite(a, w) = X("sharpe") + X("drawdown") + X("consistency") + X("cost") + X("winQuality") + X("volatility")
    BY <1>3
  <1>9. Composite(b, w) = Y("sharpe") + Y("drawdown") + Y("consistency") + Y("cost") + Y("winQuality") + Y("volatility")
    BY <1>4
  <1> HIDE DEF X, Y
  <1>10. /\ X("sharpe") \in Nat /\ Y("sharpe") \in Nat /\ Y("sharpe") <= X("sharpe")
         /\ X("sharpe") <= 1000 * w.sharpe /\ w.sharpe \in Nat
    BY <1>7 DEF Dimensions
  <1>11. /\ X("drawdown") \in Nat /\ Y("drawdown") \in Nat /\ Y("drawdown") <= X("drawdown")
         /\ X("drawdown") <= 1000 * w.drawdown /\ w.drawdown \in Nat
    BY <1>7 DEF Dimensions
  <1>12. /\ X("consistency") \in Nat /\ Y("consistency") \in Nat /\ Y("consistency") <= X("consistency")
         /\ X("consistency") <= 1000 * w.consistency /\ w.consistency \in Nat
    BY <1>7 DEF Dimensions
  <1>13. /\ X("cost") \in Nat /\ Y("cost") \in Nat /\ Y("cost") <= X("cost")
         /\ X("cost") <= 1000 * w.cost /\ w.cost \in Nat
    BY <1>7 DEF Dimensions
  <1>14. /\ X("winQuality") \in Nat /\ Y("winQuality") \in Nat /\ Y("winQuality") <= X("winQuality")
         /\ X("winQuality") <= 1000 * w.winQuality /\ w.winQuality \in Nat
    BY <1>7 DEF Dimensions
  <1>15. /\ X("volatility") \in Nat /\ Y("volatility") \in Nat /\ Y("volatility") <= X("volatility")
         /\ X("volatility") <= 1000 * w.volatility /\ w.volatility \in Nat
    BY <1>7 DEF Dimensions
  <1> DEFINE x1 == X("sharpe")
             y1 == Y("sharpe")
             w1 == w.sharpe
  <1> DEFINE x2 == X("drawdown")
             y2 == Y("drawdown")
             w2 == w.drawdown
  <1> DEFINE x3 == X("consistency")
             y3 == Y("consistency")
             w3 == w.consistency
  <1> DEFINE x4 == X("cost")
             y4 == Y("cost")
             w4 == w.cost
  <1> DEFINE x5 == X("winQuality")
             y5 == Y("winQuality")
             w5 == w.winQuality
  <1> DEFINE x6 == X("volatility")
             y6 == Y("volatility")
             w6 == w.volatility
  <1>16. Composite(a, w) = x1 + x2 + x3 + x4 + x5 + x6 /\ Composite(b, w) = y1 + y2 + y3 + y4 + y5 + y6
    BY <1>8, <1>9
  <1>17. w1 + w2 + w3 + w4 + w5 + w6 = 100 BY <1>2
  <1>18. /\ x1 \in Nat /\ y1 \in Nat /\ y1 <= x1 /\ x1 <= 1000 * w1 /\ w1 \in Nat
         /\ x2 \in Nat /\ y2 \in Nat /\ y2 <= x2 /\ x2 <= 1000 * w2 /\ w2 \in Nat
         /\ x3 \in Nat /\ y3 \in Nat /\ y3 <= x3 /\ x3 <= 1000 * w3 /\ w3 \in Nat
         /\ x4 \in Nat /\ y4 \in Nat /\ y4 <= x4 /\ x4 <= 1000 * w4 /\ w4 \in Nat
         /\ x5 \in Nat /\ y5 \in Nat /\ y5 <= x5 /\ x5 <= 1000 * w5 /\ w5 \in Nat
         /\ x6 \in Nat /\ y6 \in Nat /\ y6 <= x6 /\ x6 <= 1000 * w6 /\ w6 \in Nat
    BY <1>10, <1>11, <1>12, <1>13, <1>14, <1>15
  <1> HIDE DEF x1, x2, x3, x4, x5, x6, y1, y2, y3, y4, y5, y6, w1, w2, w3, w4, w5, w6
  <1> DEFINE all == x1 + x2 + x3 + x4 + x5 + x6
             rest == y1 + y2 + y3 + y4 + y5 + y6
  <1>19. all \in Nat /\ all <= 100000 BY <1>17, <1>18
  <1>20. rest <= all /\ rest \in Int BY <1>18
  <1>21. Composite(a, w) = all /\ Composite(b, w) = rest BY <1>16
  <1> HIDE DEF all, rest
  <1>22. HighestScore \in Nat /\ all <= HighestScore BY <1>19 DEF HighestScore
  <1>23. all \in 0..HighestScore BY <1>19, <1>22
  <1> QED BY <1>20, <1>21, <1>23

(* A higher score misses no more thresholds. *)
LEMMA GradesKeepOrder ==
    ASSUME NEW x \in Int, NEW y \in Int, y <= x
    PROVE  GradeFor(x) <= GradeFor(y) /\ GradeFor(x) \in Nat
  <1> DEFINE M(n) == {i \in DOMAIN Thresholds : n < 1000 * Thresholds[i]}
  <1>1. DOMAIN Thresholds = 1..7 BY DEF Thresholds
  <1>2. \A i \in DOMAIN Thresholds : Thresholds[i] \in Nat
   <2> TAKE i \in DOMAIN Thresholds
   <2>1. i = 1 \/ i = 2 \/ i = 3 \/ i = 4 \/ i = 5 \/ i = 6 \/ i = 7 BY <1>1
   <2>2. /\ Thresholds[1] \in Nat /\ Thresholds[2] \in Nat /\ Thresholds[3] \in Nat
         /\ Thresholds[4] \in Nat /\ Thresholds[5] \in Nat /\ Thresholds[6] \in Nat
         /\ Thresholds[7] \in Nat
     BY DEF Thresholds
   <2> QED BY <2>1, <2>2
  <1>3. M(x) \subseteq M(y)
   <2> SUFFICES ASSUME NEW i \in DOMAIN Thresholds, x < 1000 * Thresholds[i]
                PROVE  y < 1000 * Thresholds[i]
     OBVIOUS
   <2> DEFINE t == 1000 * Thresholds[i]
   <2>1. t \in Nat BY <1>2
   <2> HIDE DEF t
   <2>2. x < t => y < t BY <2>1
   <2> QED BY <2>2 DEF t
  <1>4. IsFiniteSet(DOMAIN Thresholds) BY <1>1, FS_Interval, 1 \in Int, 7 \in Int
  <1>5. IsFiniteSet(M(y)) /\ IsFiniteSet(M(x))
   <2>1. M(y) \subseteq DOMAIN Thresholds /\ M(x) \subseteq DOMAIN Thresholds OBVIOUS
   <2> HIDE DEF M
   <2> QED BY <1>4, <2>1, FS_Subset
  <1>6. GradeFor(x) = Cardinality(M(x)) /\ GradeFor(y) = Cardinality(M(y)) BY DEF GradeFor
  <1> HIDE DEF M
  <1>7. Cardinality(M(x)) <= Cardinality(M(y)) BY <1>3, <1>5, FS_Subset
  <1>8. Cardinality(M(x)) \in Nat BY <1>5, FS_CardinalityType
  <1> QED BY <1>6, <1>7, <1>8

(* Nothing has been evaluated at first. *)
LEMMA EvaluatorStarts == EvaluatorInit => EvaluatorInv
  <1> SUFFICES ASSUME EvaluatorInit PROVE EvaluatorInv
    OBVIOUS
  <1>1. ssWeights \in WeightSets /\ ValidWeights(ssWeights) /\ ssResults = <<>> BY DEF EvaluatorInit
  <1>2. ssWeights \in [Dimensions -> Int] BY <1>1, EvaluatorAssumption
  <1>3. <<>> \in Seq(KeptResults) /\ DOMAIN <<>> = {} BY EmptySeq
  <1> QED BY <1>1, <1>2, <1>3 DEF EvaluatorInv

(* The result of a report. *)
LEMMA ResultOf ==
    ASSUME ssWeights \in [Dimensions -> Int], ValidWeights(ssWeights), NEW r \in ReportShape, Evaluable(r),
           NEW x, x = [report |-> r, score |-> Composite(r, ssWeights),
                       grade |-> GradeFor(Composite(r, ssWeights)), warnings |-> BuildWarnings(r)]
    PROVE  x \in KeptResults /\ ResultSound(x)
  <1> DEFINE c == Composite(r, ssWeights)
             g == GradeFor(c)
             b == BuildWarnings(r)
  <1>1. \A k \in Dimensions : Dims(r)[k] <= Dims(r)[k]
   <2> TAKE k \in Dimensions
   <2>1. Dims(r)[k] \in Scale BY DimsOnScale
   <2> DEFINE n == Dims(r)[k]
   <2>2. n \in Scale BY <2>1
   <2> HIDE DEF n
   <2>3. n <= n BY <2>2 DEF Scale
   <2> QED BY <2>3 DEF n
  <1>2. c \in Int BY <1>1, CompositeKeepsOrder
  <1>3. b \in SUBSET {"negative_sharpe", "drawdown", "cost", "volatility", "win_profile"}
    BY DEF BuildWarnings
  <1>4. x.report = r /\ x.score = c /\ x.grade = g /\ x.warnings = b
        /\ x = [report |-> x.report, score |-> x.score, grade |-> x.grade, warnings |-> x.warnings]
    OBVIOUS
  <1> HIDE DEF c, b
  <1>5. g \in Nat BY <1>2, c <= c, GradesKeepOrder
  <1>6. x.grade = GradeFor(x.score) BY <1>4
  <1> HIDE DEF g
  <1>7. x \in KeptResults BY <1>2, <1>3, <1>4, <1>5 DEF KeptResults
  <1>8. ResultSound(x) BY <1>4, <1>6 DEF ResultSound, c, b
  <1> QED BY <1>7, <1>8

(* Every result is kept with the report it is from. *)
LEMMA EvaluatorSteps ==
    ASSUME EvaluatorInv, [EvaluatorNext]_ssVars
    PROVE  EvaluatorInv'
  <1>1. CASE UNCHANGED ssVars
   <2>1. ssWeights' = ssWeights /\ ssResults' = ssResults BY <1>1 DEF ssVars
   <2>2. ASSUME NEW n \in DOMAIN ssResults PROVE ResultSound(ssResults[n])'
     BY <2>1 DEF EvaluatorInv, ResultSound
   <2> QED BY <2>1, <2>2 DEF EvaluatorInv
  <1>2. ASSUME NEW n \in Entrants, NEW r \in Reports, Evaluate(n, r)
        PROVE  EvaluatorInv'
   <2> DEFINE e == [report |-> r, score |-> Composite(r, ssWeights),
                    grade |-> GradeFor(Composite(r, ssWeights)), warnings |-> BuildWarnings(r)]
   <2>1. PICK x : x = e
     OBVIOUS
   <2>2. Evaluable(r) /\ ssResults' = Append(ssResults, x) /\ ssWeights' = ssWeights
     BY <1>2, <2>1 DEF Evaluate
   <2>3. r \in ReportShape BY EvaluatorAssumption DEF ReportShape
   <2>4. ssWeights \in [Dimensions -> Int] /\ ValidWeights(ssWeights) /\ ssResults \in Seq(KeptResults)
     BY DEF EvaluatorInv
   <2>5. x \in KeptResults /\ ResultSound(x) BY <2>1, <2>2, <2>3, <2>4, ResultOf
   <2> HIDE DEF e
   <2>6. ssResults' \in Seq(KeptResults) /\ DOMAIN ssResults' = 1..(Len(ssResults) + 1)
     BY <2>2, <2>4, <2>5
   <2>7. ASSUME NEW k \in 1..(Len(ssResults) + 1)
         PROVE  ResultSound(ssResults'[k])
    <3>1. CASE k = Len(ssResults) + 1
     <4>1. ssResults'[k] = x BY <2>2, <2>4, <3>1
     <4> QED BY <2>5, <4>1
    <3>2. CASE k # Len(ssResults) + 1
     <4>1. k \in DOMAIN ssResults /\ ssResults'[k] = ssResults[k] BY <2>2, <2>4, <3>2
     <4> QED BY <4>1 DEF EvaluatorInv
    <3> QED BY <3>1, <3>2
   <2>8. ASSUME NEW k \in DOMAIN ssResults' PROVE ResultSound(ssResults[k])'
    <3>1. ResultSound(ssResults'[k]) BY <2>6, <2>7
    <3> QED BY <2>2, <3>1 DEF ResultSound
   <2>9. ssWeights' \in [Dimensions -> Int] /\ ValidWeights(ssWeights)'
     BY <2>2, <2>4 DEF ValidWeights
   <2> QED BY <2>6, <2>8, <2>9 DEF EvaluatorInv
  <1> QED BY <1>1, <1>2 DEF EvaluatorNext

(* So what is better in every metric is not ranked lower. *)
LEMMA EvaluatorHolds ==
    ASSUME EvaluatorInv
    PROVE  BetterNeverRanksLower
  <1>1. /\ ssWeights \in [Dimensions -> Int] /\ ValidWeights(ssWeights) /\ ssResults \in Seq(KeptResults)
        /\ \A n \in DOMAIN ssResults : ResultSound(ssResults[n])
    BY DEF EvaluatorInv
  <1>2. ASSUME NEW m \in DOMAIN ssResults, NEW n \in DOMAIN ssResults,
               \A k \in Dimensions : Dims(ssResults[n].report)[k] <= Dims(ssResults[m].report)[k]
        PROVE  /\ ssResults[m].score \in 0..HighestScore
               /\ ssResults[n].score <= ssResults[m].score
               /\ ssResults[n].score \in Int
   <2> DEFINE a == ssResults[m].report
              b == ssResults[n].report
   <2>1. a \in ReportShape /\ Evaluable(a) /\ b \in ReportShape /\ Evaluable(b)
     BY <1>1 DEF ResultSound
   <2>2. ssResults[m].score = Composite(a, ssWeights) /\ ssResults[n].score = Composite(b, ssWeights)
     BY <1>1 DEF ResultSound
   <2>3. \A k \in Dimensions : Dims(b)[k] <= Dims(a)[k] BY <1>2
   <2> HIDE DEF a, b
   <2>4. /\ Composite(a, ssWeights) \in 0..HighestScore /\ Composite(b, ssWeights) <= Composite(a, ssWeights)
         /\ Composite(b, ssWeights) \in Int
     BY <1>1, <2>1, <2>3, CompositeKeepsOrder
   <2> QED BY <2>2, <2>4
  <1>3. ASSUME NEW n \in DOMAIN ssResults
        PROVE  ssResults[n].score \in 0..HighestScore /\ ssResults[n].score \in Int
   <2>1. \A k \in Dimensions : Dims(ssResults[n].report)[k] <= Dims(ssResults[n].report)[k]
    <3> TAKE k \in Dimensions
    <3>1. Dims(ssResults[n].report)[k] \in Scale BY <1>1, DimsOnScale DEF ResultSound
    <3> DEFINE v == Dims(ssResults[n].report)[k]
    <3>2. v \in Scale BY <3>1
    <3> HIDE DEF v
    <3>3. v <= v BY <3>2 DEF Scale
    <3> QED BY <3>3 DEF v
   <2> QED BY <1>2, <2>1
  <1>4. ASSUME NEW m \in DOMAIN ssResults, NEW n \in DOMAIN ssResults,
               AtLeastAsGood(ssResults[m].report, ssResults[n].report)
        PROVE  /\ ssResults[m].score >= ssResults[n].score
               /\ ssResults[m].grade <= ssResults[n].grade
               /\ ssResults[m].warnings \subseteq ssResults[n].warnings
               /\ ssResults[m].score # ssResults[n].score => RankOf(m) < RankOf(n)
   <2> DEFINE a == ssResults[m].report
              b == ssResults[n].report
              x == ssResults[m].score
              y == ssResults[n].score
   <2>1. a \in ReportShape /\ Evaluable(a) /\ b \in ReportShape /\ Evaluable(b) /\ AtLeastAsGood(a, b)
     BY <1>1, <1>4 DEF ResultSound
   <2>2. \A k \in Dimensions : Dims(b)[k] <= Dims(a)[k]
    <3> HIDE DEF a, b
    <3> QED BY <2>1, DimsKeepOrder
   <2>3. x \in Int /\ y \in Int /\ y <= x BY <1>2, <1>3, <2>2
   <2>4. ssResults[m].grade = GradeFor(x) /\ ssResults[n].grade = GradeFor(y)
     BY <1>1 DEF ResultSound
   <2>5. GradeFor(x) <= GradeFor(y)
    <3> HIDE DEF x, y
    <3> QED BY <2>3, GradesKeepOrder
   <2>6. ssResults[m].warnings = BuildWarnings(a) /\ ssResults[n].warnings = BuildWarnings(b)
     BY <1>1 DEF ResultSound
   <2>7. BuildWarnings(a) \subseteq BuildWarnings(b)
    <3> HIDE DEF a, b
    <3> DEFINE p == WinQuality(a)
               q == WinQuality(b)
    <3>1. /\ a.sharpe \in Int /\ a.drawdown \in Nat /\ a.cost \in Nat /\ a.volatility \in Nat
          /\ a.trades \in Nat /\ (a.loser # 0 => WinQuality(a) \in Nat)
      BY <2>1, ReportNumbers
    <3>2. /\ b.sharpe \in Int /\ b.drawdown \in Nat /\ b.cost \in Nat /\ b.volatility \in Nat
          /\ (b.loser # 0 => WinQuality(b) \in Nat)
      BY <2>1, ReportNumbers
    <3>3. a.loser # 0 => b.loser # 0 /\ WinQuality(a) >= WinQuality(b) BY <2>1, WinsKeepOrder
    <3>4. /\ a.sharpe >= b.sharpe /\ a.drawdown <= b.drawdown /\ a.cost <= b.cost
          /\ a.volatility <= b.volatility /\ a.trades = b.trades
      BY <2>1 DEF AtLeastAsGood
    <3>5. a.loser # 0 /\ p < 50 => b.loser # 0 /\ q < 50
     <4>1. a.loser # 0 => p \in Nat /\ q \in Nat /\ p >= q /\ b.loser # 0 BY <3>1, <3>2, <3>3
     <4> HIDE DEF p, q
     <4> QED BY <4>1
    <3>6. /\ a.sharpe < 0 => b.sharpe < 0
          /\ a.drawdown >= 20 => b.drawdown >= 20
          /\ 4 * a.cost >= 5 => 4 * b.cost >= 5
          /\ a.volatility >= 30 => b.volatility >= 30
      BY <3>1, <3>2, <3>4
    <3> QED BY <3>4, <3>5, <3>6 DEF BuildWarnings
   <2>8. ASSUME x # y PROVE RankOf(m) < RankOf(n)
    <3> DEFINE P(k) == {i \in DOMAIN ssResults : RanksBefore(i, k)}
    <3>1. x > y
     <4> HIDE DEF x, y
     <4> QED BY <2>3, <2>8
    <3>2. m \in P(n) /\ m \notin P(m)
     <4>1. ~(ssResults[m].score > ssResults[m].score) /\ ~(m < m)
      <5>1. m \in Nat /\ x \in Int BY <1>1, <2>3
      <5> QED BY <5>1
     <4> QED BY <3>1, <4>1 DEF RanksBefore
    <3>3. P(m) \subseteq P(n)
     <4> SUFFICES ASSUME NEW i \in DOMAIN ssResults, RanksBefore(i, m) PROVE RanksBefore(i, n)
       OBVIOUS
     <4> DEFINE z == ssResults[i].score
     <4>1. z \in Int BY <1>3
     <4>2. z > x \/ z = x BY DEF RanksBefore
     <4> HIDE DEF x, y, z
     <4>3. z > y BY <2>3, <3>1, <4>1, <4>2
     <4> QED BY <4>3 DEF RanksBefore, z, y
    <3>4. IsFiniteSet(DOMAIN ssResults)
     <4>1. Len(ssResults) \in Int /\ DOMAIN ssResults = 1..Len(ssResults) BY <1>1
     <4> QED BY <4>1, FS_Interval, 1 \in Int
    <3>5. P(m) \subseteq DOMAIN ssResults /\ P(n) \subseteq DOMAIN ssResults OBVIOUS
    <3>6. RankOf(m) = 1 + Cardinality(P(m)) /\ RankOf(n) = 1 + Cardinality(P(n)) BY DEF RankOf
    <3> HIDE DEF P
    <3>7. IsFiniteSet(P(m)) /\ IsFiniteSet(P(n)) BY <3>4, <3>5, FS_Subset
    <3>8. Cardinality(P(m)) <= Cardinality(P(n)) /\ Cardinality(P(m)) # Cardinality(P(n))
     <4>1. P(m) # P(n) BY <3>2
     <4> QED BY <3>3, <3>7, <4>1, FS_Subset
    <3>9. Cardinality(P(m)) \in Nat /\ Cardinality(P(n)) \in Nat BY <3>7, FS_CardinalityType
    <3> QED BY <3>6, <3>8, <3>9
   <2>9. ssResults[m].score >= ssResults[n].score
    <3> HIDE DEF x, y
    <3>1. x >= y BY <2>3
    <3> QED BY <3>1 DEF x, y
   <2> QED BY <2>4, <2>5, <2>6, <2>7, <2>8, <2>9
  <1> QED BY <1>3, <1>4 DEF BetterNeverRanksLower
=============================================================================
