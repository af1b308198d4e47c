----------------------------- MODULE BookProofs -----------------------------
(***************************************************************************)
(* What the operations of a portfolio keep, for every sequence of lots,    *)
(* every tax method and every amount: a sale of n shares takes exactly n   *)
(* from the lots, in the order of the method, and what it takes leaves the *)
(* basis; a purchase adds what it pays for.  Then the same of the tax      *)
(* years and wash sales over those lots, of the pages of the marketplace,  *)
(* of the corporate actions and the validation of bars that a backtest is  *)
(* given, and of capital apportioned among strategies to the cent.         *)
(***************************************************************************)
EXTENDS Book, TaxYears, LotAdjustments, DataQuality, Marketplace, Allocation, SumLemmas,
        SequenceTheorems

Shares == Nat \ {0}

Position == [qty : Nat, avg : Int, price : Int]

\* While a sale is being taken from them, lots may be empty.
AnyLot == [qty : Nat, price : Int, date : Int]

Lot == [qty : Shares, price : Int, date : Int]

SellRecord == [sym : Symbols, date : Int, qty : Shares, gain : Int]

BookType(b) ==
    b \in [cash  : Int,
           pos   : [Symbols -> Position],
           lots  : [Symbols -> Seq(Lot)],
           sells : Seq(SellRecord),
           pnl   : Int]

LotsMatch(b) == \A s \in Symbols : LotShares(b.lots[s]) = b.pos[s].qty

\* The basis of all lots.
TotalBasis(b) == SumOver([s \in Symbols |-> LotBasis(b.lots[s])])

----------------------------------------
(* Sums over the lots. *)

Qty(lots) == [i \in DOMAIN lots |-> lots[i].qty]

Basis(lots) == [i \in DOMAIN lots |-> lots[i].qty * lots[i].price]

(* The lots of a book are lots that are not empty. *)
LEMMA LotsAreLots == Lot \subseteq AnyLot /\ Seq(Lot) \subseteq Seq(AnyLot)
  <1>1. Lot \subseteq AnyLot BY DEF Lot, AnyLot, Shares
  <1> QED BY <1>1, SeqMonotonic

(* A sum over a function is the sum over its domain. *)
LEMMA SumOverOn ==
    ASSUME NEW f
    PROVE  SumOver(f) = SumOn(f, DOMAIN f)
  BY DEF SumOver, SumOn

(* The shares and the basis of lots are sums over their indices, lot by lot. *)
LEMMA LotSums ==
    ASSUME NEW lots \in Seq(AnyLot)
    PROVE  /\ IsFiniteSet(DOMAIN lots)
           /\ DOMAIN lots = 1..Len(lots)
           /\ LotShares(lots) = SumOn(Qty(lots), DOMAIN lots)
           /\ LotBasis(lots) = SumOn(Basis(lots), DOMAIN lots)
           /\ \A i \in DOMAIN lots : /\ lots[i] \in AnyLot
                                     /\ Qty(lots)[i] = lots[i].qty
                                     /\ lots[i].qty \in Nat
                                     /\ Qty(lots)[i] \in Int
                                     /\ Basis(lots)[i] \in Int
                                     /\ Basis(lots)[i] = lots[i].qty * lots[i].price
                                     /\ lots[i].qty * lots[i].price \in Int
           /\ LotShares(lots) \in Nat /\ LotBasis(lots) \in Int
  <1>1. DOMAIN lots = 1..Len(lots) /\ Len(lots) \in Nat OBVIOUS
  <1>2. IsFiniteSet(DOMAIN lots) BY <1>1, FS_Interval
  <1>3. ASSUME NEW i \in DOMAIN lots
        PROVE  /\ lots[i] \in AnyLot
               /\ lots[i].qty \in Nat
               /\ lots[i].qty * lots[i].price \in Int
   <2>1. lots[i] \in AnyLot OBVIOUS
   <2>2. lots[i].qty \in Nat /\ lots[i].price \in Int BY <2>1 DEF AnyLot
   <2> QED BY <2>1, <2>2
  <1>4. LotShares(lots) = SumOn(Qty(lots), DOMAIN lots) BY DEF LotShares, SumOver, SumOn, Qty
  <1>5. LotBasis(lots) = SumOn(Basis(lots), DOMAIN lots) BY DEF LotBasis, SumOver, SumOn, Basis
  <1>6. LotShares(lots) \in Nat BY <1>2, <1>3, <1>4, SumNat DEF Qty
  <1>7. LotBasis(lots) \in Int BY <1>2, <1>3, <1>5, SumType DEF Basis
  <1>8. ASSUME NEW i \in DOMAIN lots
        PROVE  /\ Qty(lots)[i] = lots[i].qty /\ Basis(lots)[i] = lots[i].qty * lots[i].price
               /\ Qty(lots)[i] \in Int /\ Basis(lots)[i] \in Int
    BY <1>3 DEF Qty, Basis
  <1> QED BY <1>1, <1>2, <1>3, <1>4, <1>5, <1>6, <1>7, <1>8

(* A lot appended adds its shares and its basis. *)
LEMMA LotsAppend ==
    ASSUME NEW lots \in Seq(AnyLot), NEW l \in AnyLot
    PROVE  /\ LotShares(Append(lots, l)) = LotShares(lots) + l.qty
           /\ LotBasis(Append(lots, l)) = LotBasis(lots) + l.qty * l.price
  <1> DEFINE more == Append(lots, l)
             D == DOMAIN lots
             k == Len(lots) + 1
  <1>1. /\ more \in Seq(AnyLot)
        /\ k \notin D /\ DOMAIN more = D \cup {k}
        /\ more[k] = l
        /\ \A i \in D : more[i] = lots[i]
    OBVIOUS
  <1> HIDE DEF more, k
  <1>2. /\ SumOn(Qty(more), D) = SumOn(Qty(lots), D)
        /\ SumOn(Basis(more), D) = SumOn(Basis(lots), D)
   <2>1. \A i \in D : Qty(more)[i] = Qty(lots)[i] /\ Basis(more)[i] = Basis(lots)[i]
     BY <1>1 DEF Qty, Basis
   <2> QED BY <2>1, LotSums, SumSame
  <1>3. /\ SumOn(Qty(more), D \cup {k}) = SumOn(Qty(more), D) + Qty(more)[k]
        /\ SumOn(Basis(more), D \cup {k}) = SumOn(Basis(more), D) + Basis(more)[k]
   <2>1. \A i \in DOMAIN more : Qty(more)[i] \in Int /\ Basis(more)[i] \in Int BY <1>1, LotSums
   <2>2. \A i \in D \cup {k} : Qty(more)[i] \in Int /\ Basis(more)[i] \in Int BY <2>1, <1>1
   <2>3. IsFiniteSet(D) BY LotSums
   <2> HIDE DEF D
   <2> QED BY <2>2, <2>3, <1>1, SumAdd
  <1>4. Qty(more)[k] = l.qty /\ Basis(more)[k] = l.qty * l.price BY <1>1 DEF Qty, Basis
  <1> QED BY <1>1, <1>2, <1>3, <1>4, LotSums DEF more

----------------------------------------
(* Removing the emptied lots. *)

\* k tells the lots of i that are not empty, for every prefix up to n.
Keeps(k, lots, n) ==
    k = [i \in 0..n |-> IF i = 0 THEN <<>>
                        ELSE IF lots[i].qty > 0 THEN Append(k[i - 1], lots[i]) ELSE k[i - 1]]

(* The lots kept can be collected from first to last. *)
LEMMA KeepsExists ==
    ASSUME NEW lots, NEW n \in Nat
    PROVE  \E k : Keeps(k, lots, n)
  <1> DEFINE Bad == {i \in Nat : ~ \E k : Keeps(k, lots, i)}
  <1> SUFFICES ASSUME Bad # {} PROVE FALSE
    BY SMT
  <1>1. PICK m \in Bad : \A i \in Bad : m <= i
   <2>1. Bad \subseteq Nat OBVIOUS
   <2> HIDE DEF Bad
   <2> QED BY <2>1, LeastNatural
  <1>2. m # 0
   <2> DEFINE k == [i \in 0..0 |-> <<>>]
   <2>1. Keeps(k, lots, 0) BY DEF Keeps
   <2> QED BY <2>1
  <1>3. PICK k : Keeps(k, lots, m - 1)
    BY <1>1, <1>2
  <1> DEFINE h == [i \in 0..m |-> IF i < m THEN k[i]
                                  ELSE IF lots[m].qty > 0 THEN Append(k[m - 1], lots[m])
                                  ELSE k[m - 1]]
  <1>4. Keeps(h, lots, m)
   <2> DEFINE step(f, i) == IF i = 0 THEN <<>>
                       ELSE IF lots[i].qty > 0 THEN Append(f[i - 1], lots[i]) ELSE f[i - 1]
   <2>1. ASSUME NEW i \in 0..m, i < m PROVE h[i] = step(h, i)
    <3>1. i \in 0..(m - 1) BY <2>1
    <3>2. k[i] = step(k, i) BY <1>3, <3>1 DEF Keeps
    <3>3. i # 0 => i - 1 \in 0..m /\ i - 1 < m BY <2>1
    <3>4. h[i] = k[i] /\ (i # 0 => h[i - 1] = k[i - 1]) BY <2>1, <3>3
    <3> HIDE DEF h
    <3> QED BY <3>2, <3>4
   <2>2. h[m] = step(h, m) BY <1>1, <1>2
   <2>3. ASSUME NEW i \in 0..m
         PROVE  h[i] = step(h, i)
    <3>1. i < m \/ i = m BY <1>1
    <3> HIDE DEF h, step
    <3> QED BY <3>1, <2>1, <2>2
   <2>4. h = [i \in 0..m |-> h[i]] OBVIOUS
   <2> HIDE DEF h
   <2> QED BY <2>3, <2>4 DEF Keeps
  <1> QED BY <1>1, <1>4

(* What is kept holds every share and all of the basis, and no empty lot. *)
LEMMA WithoutEmptyKeeps ==
    ASSUME NEW lots \in Seq(AnyLot)
    PROVE  /\ WithoutEmpty(lots) \in Seq(Lot)
           /\ LotShares(WithoutEmpty(lots)) = LotShares(lots)
           /\ LotBasis(WithoutEmpty(lots)) = LotBasis(lots)
  <1> DEFINE n == Len(lots)
             k == CHOOSE f : Keeps(f, lots, n)
  <1>1. n \in Nat /\ DOMAIN lots = 1..n OBVIOUS
  <1>2. Keeps(k, lots, n) BY <1>1, KeepsExists
  <1>3. WithoutEmpty(lots) = k[n] BY DEF WithoutEmpty, Keeps
  <1> HIDE DEF n, k
  <1> DEFINE Good(i) == /\ k[i] \in Seq(Lot)
                        /\ LotShares(k[i]) = SumOn(Qty(lots), 1..i)
                        /\ LotBasis(k[i]) = SumOn(Basis(lots), 1..i)
             Bad == {i \in 0..n : ~Good(i)}
  <1>4. Bad = {}
   <2> SUFFICES ASSUME Bad # {} PROVE FALSE
     OBVIOUS
   <2>1. PICK m \in Bad : \A i \in Bad : m <= i
    <3>1. Bad \subseteq Nat BY <1>1
    <3> HIDE DEF Bad
    <3> QED BY <3>1, LeastNatural
   <2>2. m \in 0..n /\ ~Good(m) BY <2>1
   <2>3. CASE m = 0
    <3>1. k[0] = <<>> BY <1>1, <1>2 DEF Keeps
    <3>2. 1..0 = {} /\ <<>> \in Seq(Lot) /\ <<>> \in Seq(AnyLot) /\ DOMAIN <<>> = {} OBVIOUS
    <3>3. LotShares(<<>>) = 0 /\ LotBasis(<<>>) = 0 BY <3>2, LotSums, SumEmpty
    <3> QED BY <2>2, <2>3, <3>1, <3>2, <3>3, SumEmpty
   <2>4. CASE m # 0
    <3>1. m - 1 \in 0..n /\ m \in DOMAIN lots /\ m - 1 \in Nat BY <1>1, <2>2, <2>4
    <3>2. Good(m - 1) BY <2>1, <3>1
    <3>3. k[m] = IF lots[m].qty > 0 THEN Append(k[m - 1], lots[m]) ELSE k[m - 1]
      BY <1>2, <2>2, <2>4 DEF Keeps
    <3>4. 1..m = (1..(m - 1)) \cup {m} /\ m \notin 1..(m - 1) /\ IsFiniteSet(1..(m - 1))
     <4>1. IsFiniteSet(1..(m - 1)) BY <3>1, FS_Interval
     <4>2. 1..m = (1..(m - 1)) \cup {m} /\ m \notin 1..(m - 1) BY <3>1
     <4> QED BY <4>1, <4>2
    <3>5. \A i \in (1..(m - 1)) \cup {m} : Qty(lots)[i] \in Int /\ Basis(lots)[i] \in Int
     <4>1. \A i \in (1..(m - 1)) \cup {m} : i \in DOMAIN lots BY <1>1, <3>1
     <4> QED BY <4>1, LotSums
    <3>6. SumOn(Qty(lots), (1..(m - 1)) \cup {m}) = SumOn(Qty(lots), 1..(m - 1)) + Qty(lots)[m]
      BY <3>4, <3>5, SumAdd
    <3>7. SumOn(Basis(lots), (1..(m - 1)) \cup {m})
            = SumOn(Basis(lots), 1..(m - 1)) + Basis(lots)[m]
      BY <3>4, <3>5, SumAdd
    <3>8. /\ lots[m] \in AnyLot /\ Qty(lots)[m] = lots[m].qty
          /\ Basis(lots)[m] = lots[m].qty * lots[m].price
      BY <3>1, LotSums
    <3>9. CASE lots[m].qty > 0
     <4>1. lots[m] \in Lot BY <3>8, <3>9 DEF AnyLot, Lot, Shares
     <4>2. k[m - 1] \in Seq(AnyLot) BY <3>2, LotsAreLots
     <4>3. k[m] \in Seq(Lot) BY <3>2, <3>3, <3>9, <4>1
     <4>4. /\ LotShares(k[m]) = LotShares(k[m - 1]) + lots[m].qty
           /\ LotBasis(k[m]) = LotBasis(k[m - 1]) + lots[m].qty * lots[m].price
       BY <3>3, <3>8, <3>9, <4>2, LotsAppend
     <4>5. /\ LotShares(k[m]) = SumOn(Qty(lots), 1..m)
           /\ LotBasis(k[m]) = SumOn(Basis(lots), 1..m)
       BY <3>2, <3>4, <3>6, <3>7, <3>8, <4>4
     <4> QED BY <2>2, <4>3, <4>5
    <3>10. CASE ~ (lots[m].qty > 0)
     <4>1. lots[m].qty = 0 /\ lots[m].qty * lots[m].price = 0 BY <3>8, <3>10 DEF AnyLot
     <4>2. SumOn(Qty(lots), 1..(m - 1)) \in Int /\ SumOn(Basis(lots), 1..(m - 1)) \in Int
       BY <3>4, <3>5, SumType
     <4>3. Qty(lots)[m] = 0 /\ Basis(lots)[m] = 0 /\ k[m] = k[m - 1] BY <3>3, <3>8, <3>10, <4>1
     <4>4. /\ SumOn(Qty(lots), 1..m) = SumOn(Qty(lots), 1..(m - 1))
           /\ SumOn(Basis(lots), 1..m) = SumOn(Basis(lots), 1..(m - 1))
      <5>1. /\ SumOn(Qty(lots), 1..m) = SumOn(Qty(lots), (1..(m - 1)) \cup {m})
            /\ SumOn(Basis(lots), 1..m) = SumOn(Basis(lots), (1..(m - 1)) \cup {m})
        BY <3>4, Zenon
      <5> QED BY <5>1, <3>6, <3>7, <4>2, <4>3
     <4> QED BY <2>2, <3>2, <4>3, <4>4
    <3> QED BY <3>9, <3>10
   <2> QED BY <2>3, <2>4
  <1>5. Good(n) BY <1>1, <1>4
  <1> QED BY <1>1, <1>3, <1>5, LotSums DEF n

----------------------------------------
(* A sale takes its shares from the lots in the order of the method. *)

Ahead(lots, method, i) == {j \in DOMAIN lots : Before(lots, method, j, i)}

Taken(lots, method, n) == [i \in DOMAIN lots |-> TakenFrom(lots, method, n, i)]

\* With every lot in A are the lots before it.
AheadClosed(lots, method, A) ==
    \A i \in A, j \in DOMAIN lots : Before(lots, method, j, i) => j \in A

(* The sort of _consume_lots leaves no two lots in one place. *)
LEMMA BeforeOrders ==
    ASSUME NEW lots \in Seq(AnyLot), NEW method
    PROVE  \A i, j, k \in DOMAIN lots :
              /\ ~Before(lots, method, i, i)
              /\ Before(lots, method, i, j) /\ Before(lots, method, j, k)
                   => Before(lots, method, i, k)
              /\ i = j \/ Before(lots, method, i, j) \/ Before(lots, method, j, i)
  <1> SUFFICES ASSUME NEW i \in DOMAIN lots, NEW j \in DOMAIN lots, NEW k \in DOMAIN lots
               PROVE  /\ ~Before(lots, method, i, i)
                      /\ Before(lots, method, i, j) /\ Before(lots, method, j, k)
                           => Before(lots, method, i, k)
                      /\ i = j \/ Before(lots, method, i, j) \/ Before(lots, method, j, i)
    OBVIOUS
  <1>1. i \in Int /\ j \in Int /\ k \in Int BY LotSums
  <1>2. lots[i].date \in Int /\ lots[j].date \in Int /\ lots[k].date \in Int BY LotSums DEF AnyLot
  <1>3. CASE method = "FIFO" BY <1>1, <1>2, <1>3 DEF Before
  <1>4. CASE method = "LIFO" BY <1>1, <1>2, <1>4 DEF Before
  <1>5. CASE method # "FIFO" /\ method # "LIFO" BY <1>1, <1>2, <1>5 DEF Before
  <1> QED BY <1>3, <1>4, <1>5

(* A lot gives no more than it has, and what the lots ahead of it leave to be taken. *)
LEMMA TakenType ==
    ASSUME NEW lots \in Seq(AnyLot), NEW method, NEW n \in Nat, NEW i \in DOMAIN lots
    PROVE  /\ TakenFrom(lots, method, n, i) \in 0..lots[i].qty
           /\ TakenFrom(lots, method, n, i)
                = LET left == n - SumOn(Qty(lots), Ahead(lots, method, i))
                  IN  IF left <= 0 THEN 0 ELSE Least(left, lots[i].qty)
           /\ SumOn(Qty(lots), Ahead(lots, method, i)) \in Nat
  <1> DEFINE A == Ahead(lots, method, i)
             q == [j \in A |-> lots[j].qty]
  <1>1. A \subseteq DOMAIN lots /\ IsFiniteSet(A)
   <2>1. A \subseteq DOMAIN lots BY DEF Ahead
   <2> QED BY <2>1, LotSums, FS_Subset
  <1>2. SumOver(q) = SumOn(q, A) BY DEF SumOver, SumOn
  <1>3. SumOn(q, A) = SumOn(Qty(lots), A)
   <2>1. \A j \in A : q[j] = Qty(lots)[j] BY <1>1, LotSums
   <2> HIDE DEF q, A
   <2> QED BY <2>1, <1>1, SumSame
  <1>4. SumOn(Qty(lots), A) \in Nat
   <2>1. \A j \in A : Qty(lots)[j] \in Nat BY <1>1, LotSums
   <2> HIDE DEF A
   <2> QED BY <2>1, <1>1, SumNat
  <1>5. TakenFrom(lots, method, n, i)
          = LET left == n - SumOver(q) IN IF left <= 0 THEN 0 ELSE Least(left, lots[i].qty)
    BY DEF TakenFrom, Ahead
  <1>6. lots[i].qty \in Nat BY LotSums
  <1> HIDE DEF q
  <1> QED BY <1>2, <1>3, <1>4, <1>5, <1>6 DEF Least

(* From a set of lots that holds whatever goes before its members a sale takes all
   that it asks for, or all there is. *)
LEMMA TakenSum ==
    ASSUME NEW lots \in Seq(AnyLot), NEW method, NEW n \in Nat,
           NEW A \in SUBSET (DOMAIN lots), AheadClosed(lots, method, A)
    PROVE  SumOn(Taken(lots, method, n), A) = Least(n, SumOn(Qty(lots), A))
  <1> DEFINE t == Taken(lots, method, n)
             q == Qty(lots)
             D == DOMAIN lots
             Bad == {X \in SUBSET D : AheadClosed(lots, method, X)
                                        /\ SumOn(t, X) # Least(n, SumOn(q, X))}
  <1> SUFFICES ASSUME Bad # {} PROVE FALSE
    OBVIOUS
  <1>1. IsFiniteSet(D) /\ \A X \in SUBSET D : IsFiniteSet(X) BY LotSums, FS_Subset
  <1>2. \A i \in D : t[i] \in Int /\ q[i] \in Nat /\ q[i] = lots[i].qty
    BY LotSums, TakenType DEF Taken
  <1>3. PICK X \in Bad : \A Y \in SUBSET X : Y # X => Y \notin Bad
   <2>1. Bad \subseteq SUBSET D OBVIOUS
   <2> HIDE DEF Bad, D
   <2> QED BY <2>1, <1>1, Smallest
  <1>4. /\ X \subseteq D /\ IsFiniteSet(X) /\ AheadClosed(lots, method, X)
        /\ SumOn(t, X) # Least(n, SumOn(q, X))
    BY <1>1, <1>3
  <1>5. X # {}
   <2>1. SumOn(t, {}) = 0 /\ SumOn(q, {}) = 0 BY SumEmpty
   <2>2. SumOn(t, {}) = Least(n, SumOn(q, {})) BY <2>1 DEF Least
   <2> QED BY <1>4, <2>2
  <1>6. PICK m \in X : \A i \in X : ~Before(lots, method, m, i)
   <2> DEFINE R == {p \in X \X X : Before(lots, method, p[1], p[2])}
   <2>1. \A i, j \in X : <<i, j>> \in R <=> Before(lots, method, i, j) OBVIOUS
   <2>2. /\ \A i \in X : ~Before(lots, method, i, i)
         /\ \A i, j, k \in X : Before(lots, method, i, j) /\ Before(lots, method, j, k)
              => Before(lots, method, i, k)
     BY <1>4, BeforeOrders
   <2>3. /\ \A i \in X : <<i, i>> \notin R
         /\ \A i, j, k \in X : <<i, j>> \in R /\ <<j, k>> \in R => <<i, k>> \in R
     BY <2>1, <2>2
   <2> HIDE DEF R
   <2>4. \E m \in X : \A i \in X : <<m, i>> \notin R BY <2>3, <1>4, <1>5, LastElement
   <2> QED BY <2>1, <2>4
  <1> DEFINE r == X \ {m}
  <1>7. Ahead(lots, method, m) = r
   <2>1. \A j \in D : Before(lots, method, j, m) => j \in r
     BY <1>4, <1>6, BeforeOrders DEF AheadClosed
   <2>2. \A j \in r : j \in D /\ Before(lots, method, j, m) BY <1>4, <1>6, BeforeOrders
   <2> QED BY <2>1, <2>2 DEF Ahead
  <1>8. r \in SUBSET X /\ r # X /\ r \subseteq D /\ AheadClosed(lots, method, r)
    BY <1>4, <1>6 DEF AheadClosed
  <1>9. SumOn(t, r) = Least(n, SumOn(q, r)) BY <1>3, <1>8
  <1>10. /\ SumOn(t, X) = t[m] + SumOn(t, r)
         /\ SumOn(q, X) = q[m] + SumOn(q, r)
   <2>1. \A x \in X : t[x] \in Int /\ q[x] \in Int BY <1>2, <1>4
   <2> HIDE DEF t, q
   <2> QED BY <2>1, <1>4, SumSplit, SMTT(60)
  <1> DEFINE left == n - SumOn(q, r)
  <1>11. t[m] = IF left <= 0 THEN 0 ELSE Least(left, q[m])
   <2>1. m \in D /\ q[m] = lots[m].qty /\ t[m] = TakenFrom(lots, method, n, m)
     BY <1>2, <1>4 DEF Taken
   <2>2. TakenFrom(lots, method, n, m)
           = LET l == n - SumOn(Qty(lots), Ahead(lots, method, m))
             IN  IF l <= 0 THEN 0 ELSE Least(l, lots[m].qty)
     BY <2>1, TakenType
   <2> QED BY <2>1, <2>2, <1>7
  <1>12. SumOn(q, r) \in Nat /\ q[m] \in Nat
   <2>1. IsFiniteSet(r) /\ \A x \in r : q[x] \in Nat BY <1>1, <1>2, <1>8
   <2> HIDE DEF q, r
   <2> QED BY <2>1, <1>2, <1>4, SumNat
  <1>13. SumOn(t, X) = Least(n, SumOn(q, X))
   <2> HIDE DEF t, q, r
   <2> QED BY <1>9, <1>10, <1>11, <1>12 DEF Least
  <1> QED BY <1>4, <1>13

(* A sale of no more than there is takes exactly that, and the basis of what it takes. *)
LEMMA ConsumedExactly ==
    ASSUME NEW lots \in Seq(Lot), NEW method, NEW n \in Nat, n <= LotShares(lots)
    PROVE  /\ ConsumeLots(lots, method, n) \in Seq(Lot)
           /\ LotShares(ConsumeLots(lots, method, n)) = LotShares(lots) - n
           /\ LotBasis(ConsumeLots(lots, method, n))
                = LotBasis(lots) - ConsumedBasis(lots, method, n)
           /\ ConsumedBasis(lots, method, n) \in Int
  <1> DEFINE D == DOMAIN lots
             t == Taken(lots, method, n)
             c == [i \in D |-> TakenFrom(lots, method, n, i) * lots[i].price]
             red == ReducedLots(lots, method, n)
  <1>1. lots \in Seq(AnyLot) BY LotsAreLots
  <1>2. ASSUME NEW i \in D
        PROVE  /\ lots[i] \in AnyLot
               /\ TakenFrom(lots, method, n, i) \in 0..lots[i].qty
               /\ red[i] = Less(lots[i], TakenFrom(lots, method, n, i))
    BY <1>1, LotSums, TakenType DEF ReducedLots
  <1>3. ASSUME NEW i \in D
        PROVE  /\ red[i] \in AnyLot
               /\ red[i].qty = lots[i].qty - TakenFrom(lots, method, n, i)
               /\ red[i].price = lots[i].price
   <2> DEFINE l == lots[i]
              d == TakenFrom(lots, method, n, i)
   <2>1. l \in AnyLot /\ d \in 0..l.qty /\ red[i] = Less(l, d) BY <1>2
   <2> HIDE DEF l, d, red
   <2>2. l.qty \in Nat /\ l.qty - d \in Nat BY <2>1 DEF AnyLot
   <2>3. /\ Less(l, d) \in AnyLot
         /\ Less(l, d).qty = l.qty - d
         /\ Less(l, d).price = l.price
     BY <2>1, <2>2 DEF AnyLot, Less
   <2> QED BY <2>1, <2>3 DEF l, d
  <1>4. red \in Seq(AnyLot) /\ DOMAIN red = D
   <2>1. red \in [1..Len(lots) -> AnyLot]
    <3>1. red = [i \in D |-> red[i]] BY DEF ReducedLots
    <3> HIDE DEF red
    <3> QED BY <1>1, <1>3, <3>1
   <2> HIDE DEF red
   <2> QED BY <2>1, <1>1, IsASeq
  <1>5. SumOn(t, D) = n
   <2>1. D \in SUBSET DOMAIN lots /\ AheadClosed(lots, method, D) BY DEF AheadClosed
   <2>2. SumOn(t, D) = Least(n, SumOn(Qty(lots), D)) BY <1>1, <2>1, TakenSum
   <2>3. n <= SumOn(Qty(lots), D) BY <1>1, LotSums
   <2> QED BY <2>2, <2>3 DEF Least
  <1>6. IsFiniteSet(D) BY <1>1, LotSums
  <1>7. LotShares(lots) = SumOn(Qty(red), D) + SumOn(t, D)
   <2>1. \A i \in D : /\ Qty(red)[i] \in Int /\ t[i] \in Int
                      /\ Qty(lots)[i] = Qty(red)[i] + t[i]
     BY <1>1, <1>2, <1>3, <1>4 DEF Qty, Taken, AnyLot
   <2> HIDE DEF red, t
   <2> QED BY <1>1, <1>6, <2>1, SumPlus, LotSums
  <1>8. LotBasis(lots) = SumOn(Basis(red), D) + SumOn(c, D) /\ SumOn(c, D) \in Int
   <2>1. ASSUME NEW i \in D
         PROVE  /\ Basis(red)[i] \in Int /\ c[i] \in Int
                /\ Basis(lots)[i] = Basis(red)[i] + c[i]
    <3>1. /\ lots[i].qty \in Int /\ lots[i].price \in Int
          /\ TakenFrom(lots, method, n, i) \in Int
     <4>1. lots[i].qty \in Nat /\ lots[i].price \in Int BY <1>2 DEF AnyLot
     <4> QED BY <4>1, <1>2
    <3>2. \A a, b, p \in Int : a * p = (a - b) * p + b * p OBVIOUS
    <3>3. Basis(red)[i] = (lots[i].qty - TakenFrom(lots, method, n, i)) * lots[i].price
      BY <1>3, <1>4 DEF Basis
    <3>4. Basis(lots)[i] = lots[i].qty * lots[i].price BY DEF Basis
    <3>5. c[i] = TakenFrom(lots, method, n, i) * lots[i].price OBVIOUS
    <3> HIDE DEF c, red
    <3> QED BY <3>1, <3>2, <3>3, <3>4, <3>5
   <2> HIDE DEF c, red
   <2> QED BY <1>1, <1>6, <2>1, SumPlus, SumType, LotSums
  <1>9. ConsumedBasis(lots, method, n) = SumOn(c, D) BY DEF ConsumedBasis, SumOver, SumOn
  <1>10. LotShares(red) = SumOn(Qty(red), D) /\ LotBasis(red) = SumOn(Basis(red), D)
    BY <1>4, LotSums
  <1>11. LotShares(red) \in Int /\ LotBasis(red) \in Int BY <1>4, LotSums
  <1>12. ConsumeLots(lots, method, n) = WithoutEmpty(red) BY DEF ConsumeLots
  <1> HIDE DEF red, c, t
  <1>13. /\ WithoutEmpty(red) \in Seq(Lot)
         /\ LotShares(WithoutEmpty(red)) = LotShares(red)
         /\ LotBasis(WithoutEmpty(red)) = LotBasis(red)
    BY <1>4, WithoutEmptyKeeps
  <1> QED BY <1>5, <1>7, <1>8, <1>9, <1>10, <1>11, <1>12, <1>13

----------------------------------------
(* The operations of the portfolio. *)

(* The fields of a well-typed book. *)
LEMMA BookFields ==
    ASSUME NEW b, BookType(b), NEW s \in Symbols
    PROVE  /\ b.cash \in Int /\ b.pnl \in Int /\ b.sells \in Seq(SellRecord)
           /\ b.pos \in [Symbols -> Position] /\ b.lots \in [Symbols -> Seq(Lot)]
           /\ b.pos[s] \in Position /\ b.lots[s] \in Seq(Lot) /\ b.lots[s] \in Seq(AnyLot)
           /\ b.pos[s].qty \in Nat /\ b.pos[s].avg \in Int /\ b.pos[s].price \in Int
           /\ LotShares(b.lots[s]) \in Nat /\ LotBasis(b.lots[s]) \in Int
  <1>1. /\ b.cash \in Int /\ b.pnl \in Int /\ b.sells \in Seq(SellRecord)
        /\ b.pos \in [Symbols -> Position] /\ b.lots \in [Symbols -> Seq(Lot)]
    BY DEF BookType
  <1>2. b.pos[s] \in Position /\ b.lots[s] \in Seq(Lot) BY <1>1
  <1>3. b.lots[s] \in Seq(AnyLot) BY <1>2, LotsAreLots
  <1>4. b.pos[s].qty \in Nat /\ b.pos[s].avg \in Int /\ b.pos[s].price \in Int BY <1>2 DEF Position
  <1>5. LotShares(b.lots[s]) \in Nat /\ LotBasis(b.lots[s]) \in Int BY <1>3, LotSums
  <1> QED BY <1>1, <1>2, <1>3, <1>4, <1>5

(* A new portfolio balances. *)
LEMMA EmptyBookKeeps ==
    BookType(EmptyBook) /\ LotsMatch(EmptyBook) /\ TotalBasis(EmptyBook) = 0
  <1>1. <<>> \in Seq(Lot) /\ <<>> \in Seq(SellRecord) /\ <<>> \in Seq(AnyLot)
        /\ DOMAIN <<>> = {} /\ NoPosition \in Position
    BY DEF NoPosition, Position
  <1>2. LotShares(<<>>) = 0 /\ LotBasis(<<>>) = 0 BY <1>1, LotSums, SumEmpty
  <1>3. BookType(EmptyBook) BY <1>1, BookAssumption DEF BookType, EmptyBook
  <1>4. LotsMatch(EmptyBook) BY <1>2 DEF LotsMatch, EmptyBook, NoPosition
  <1> DEFINE f == [s \in Symbols |-> LotBasis(EmptyBook.lots[s])]
  <1>5. TotalBasis(EmptyBook) = SumOn(f, Symbols) BY DEF TotalBasis, SumOver, SumOn
  <1>6. \A s \in Symbols : f[s] = 0 BY <1>2 DEF EmptyBook
  <1>7. SumOn(f, Symbols) = 0
   <2> HIDE DEF f
   <2> QED BY <1>6, BookAssumption, SumZero
  <1> QED BY <1>3, <1>4, <1>5, <1>7

(* When the lots of one symbol change, the basis of the book follows. *)
LEMMA BasisFollows ==
    ASSUME NEW b, NEW c, BookType(b), BookType(c), NEW s \in Symbols,
           \A r \in Symbols \ {s} : c.lots[r] = b.lots[r]
    PROVE  /\ TotalBasis(c) = TotalBasis(b) + (LotBasis(c.lots[s]) - LotBasis(b.lots[s]))
           /\ TotalBasis(b) \in Int /\ TotalBasis(c) \in Int
  <1> DEFINE f == [r \in Symbols |-> LotBasis(b.lots[r])]
             g == [r \in Symbols |-> LotBasis(c.lots[r])]
  <1>1. TotalBasis(b) = SumOn(f, Symbols) /\ TotalBasis(c) = SumOn(g, Symbols)
    BY DEF TotalBasis, SumOver, SumOn
  <1>2. \A r \in Symbols : f[r] \in Int /\ g[r] \in Int BY BookFields
  <1>3. \A r \in Symbols \ {s} : g[r] = f[r] OBVIOUS
  <1>4. f[s] = LotBasis(b.lots[s]) /\ g[s] = LotBasis(c.lots[s]) OBVIOUS
  <1> HIDE DEF f, g
  <1> QED BY <1>1, <1>2, <1>3, <1>4, BookAssumption, SumChange, SumType

\* Book c is b after a sale of n shares of s that brought in net.
AfterSale(b, c, s, n, net) ==
    /\ BookType(c) /\ LotsMatch(c)
    /\ c.cash = b.cash + net
    /\ c.pos[s].qty = b.pos[s].qty - n
    /\ \A r \in Symbols \ {s} : c.pos[r] = b.pos[r] /\ c.lots[r] = b.lots[r]
    /\ c.pnl - TotalBasis(c) = b.pnl - TotalBasis(b) + net
    /\ TotalBasis(b) \in Int /\ TotalBasis(c) \in Int

\* Book c is b after a purchase of n shares of s for paid, entered at a basis of their own.
AfterPurchase(b, c, s, n, paid, basis) ==
    /\ BookType(c) /\ LotsMatch(c)
    /\ c.cash = b.cash - paid
    /\ c.pos[s].qty = b.pos[s].qty + n
    /\ \A r \in Symbols \ {s} : c.pos[r] = b.pos[r] /\ c.lots[r] = b.lots[r]
    /\ c.pnl = b.pnl
    /\ TotalBasis(c) = TotalBasis(b) + n * basis
    /\ TotalBasis(b) \in Int /\ basis \in Int

\* Book c is b with other marks.
AfterMarking(b, c) ==
    /\ BookType(c) /\ LotsMatch(c)
    /\ c.cash = b.cash /\ c.pnl = b.pnl /\ c.lots = b.lots /\ c.sells = b.sells
    /\ \A s \in Symbols : c.pos[s].qty = b.pos[s].qty
    /\ TotalBasis(c) = TotalBasis(b)

(* close_position: the lots lose what the position loses, and their basis what is booked
   as the cost of the sale. *)
LEMMA CloseKeeps ==
    ASSUME NEW b, BookType(b), LotsMatch(b), NEW s \in Symbols, NEW method,
           NEW n \in Shares, NEW price \in Int, NEW charge \in Int, NEW date \in Int,
           CanClose(b, s, n)
    PROVE  AfterSale(b, ClosePosition(b, s, method, n, price, charge, date), s, n,
                     n * price - charge)
  <1> DEFINE net == n * price - charge
             lots == b.lots[s]
             basis == ConsumedBasis(lots, method, n)
             gain == net - basis
             left == ConsumeLots(lots, method, n)
             p == Reduced(b.pos[s], n)
             sale == [sym |-> s, date |-> date, qty |-> n, gain |-> gain]
             c == ClosePosition(b, s, method, n, price, charge, date)
  <1>1. /\ b.cash \in Int /\ b.pnl \in Int /\ b.sells \in Seq(SellRecord)
        /\ b.pos \in [Symbols -> Position] /\ b.lots \in [Symbols -> Seq(Lot)]
        /\ lots \in Seq(Lot) /\ b.pos[s].qty \in Nat /\ LotShares(lots) = b.pos[s].qty
        /\ n \in Nat /\ n <= b.pos[s].qty /\ b.pos[s] \in Position
    BY BookFields DEF CanClose, Shares, LotsMatch
  <1>2. net \in Int BY <1>1
  <1>3. /\ left \in Seq(Lot) /\ LotShares(left) = LotShares(lots) - n
        /\ LotBasis(left) = LotBasis(lots) - basis /\ basis \in Int
    BY <1>1, ConsumedExactly
  <1>4. gain \in Int /\ sale \in SellRecord BY <1>2, <1>3 DEF SellRecord
  <1>5. p \in Position /\ p.qty = b.pos[s].qty - n
   <2>1. CASE b.pos[s].qty - n <= 0 BY <1>1, <2>1 DEF Reduced, NoPosition, Position
   <2>2. CASE ~ (b.pos[s].qty - n <= 0)
    <3> DEFINE q == b.pos[s]
    <3>1. q \in Position /\ q.qty - n \in Nat BY <1>1, <2>2
    <3>2. p = [q EXCEPT !.qty = q.qty - n] BY <2>2 DEF Reduced
    <3> HIDE DEF q, p
    <3>3. p \in Position /\ p.qty = q.qty - n BY <3>1, <3>2 DEF Position
    <3> QED BY <3>3 DEF q
   <2> QED BY <2>1, <2>2
  <1>6. c = [cash |-> b.cash + net, pos |-> [b.pos EXCEPT ![s] = p],
             lots |-> [b.lots EXCEPT ![s] = left],
             sells |-> Append(b.sells, sale), pnl |-> b.pnl + gain]
    BY DEF ClosePosition
  <1> HIDE DEF net, lots, basis, gain, left, p, sale, c
  <1>7. /\ c.cash = b.cash + net /\ c.pnl = b.pnl + gain
        /\ c.pos = [b.pos EXCEPT ![s] = p] /\ c.lots = [b.lots EXCEPT ![s] = left]
        /\ c.sells = Append(b.sells, sale)
    BY <1>6
  <1>8. /\ c.pos[s] = p /\ c.lots[s] = left
        /\ \A r \in Symbols \ {s} : c.pos[r] = b.pos[r] /\ c.lots[r] = b.lots[r]
    BY <1>1, <1>7
  <1>9. BookType(c)
   <2>1. /\ b.cash + net \in Int /\ b.pnl + gain \in Int
         /\ [b.pos EXCEPT ![s] = p] \in [Symbols -> Position]
         /\ [b.lots EXCEPT ![s] = left] \in [Symbols -> Seq(Lot)]
         /\ Append(b.sells, sale) \in Seq(SellRecord)
     BY <1>1, <1>2, <1>3, <1>4, <1>5, SMTT(30)
   <2> QED BY <1>6, <2>1 DEF BookType
  <1>10. LotsMatch(c)
   <2>1. LotShares(c.lots[s]) = c.pos[s].qty BY <1>1, <1>3, <1>5, <1>8
   <2> QED BY <2>1, <1>8 DEF LotsMatch
  <1>11. /\ TotalBasis(c) = TotalBasis(b) + (LotBasis(left) - LotBasis(lots))
         /\ TotalBasis(b) \in Int /\ LotBasis(lots) \in Int
   <2>1. /\ TotalBasis(c) = TotalBasis(b) + (LotBasis(c.lots[s]) - LotBasis(b.lots[s]))
         /\ TotalBasis(b) \in Int
     BY <1>8, <1>9, BasisFollows
   <2> QED BY <2>1, <1>8, BookFields DEF lots
  <1>12. c.pnl - TotalBasis(c) = b.pnl - TotalBasis(b) + net
    BY <1>1, <1>2, <1>3, <1>7, <1>11 DEF gain
  <1>13. TotalBasis(c) \in Int BY <1>3, <1>11
  <1> QED BY <1>5, <1>7, <1>8, <1>9, <1>10, <1>11, <1>12, <1>13 DEF c, net, AfterSale

(* A wash-sale adjustment is a whole amount. *)
LEMMA AdjustmentType ==
    ASSUME NEW b, BookType(b), NEW s, NEW n \in Nat, NEW date
    PROVE  WashAdjustment(b, s, n, date) \in Int
  <1> DEFINE W == WashedSells(b, s, date)
             f == [k \in W |-> CarriedLoss(b.sells[k], n)]
  <1>1. b.sells \in Seq(SellRecord) BY DEF BookType
  <1>2. W \subseteq 1..Len(b.sells) /\ IsFiniteSet(1..Len(b.sells))
   <2>1. Len(b.sells) \in Int /\ DOMAIN b.sells = 1..Len(b.sells) BY <1>1
   <2>2. IsFiniteSet(1..Len(b.sells)) BY <2>1, 1 \in Int, FS_Interval
   <2>3. W \subseteq DOMAIN b.sells BY DEF WashedSells
   <2> QED BY <2>1, <2>2, <2>3
  <1>3. IsFiniteSet(W) BY <1>2, FS_Subset
  <1>4. ASSUME NEW k \in W
        PROVE  f[k] \in Int
   <2>1. b.sells[k] \in SellRecord BY <1>1, <1>2
   <2>2. b.sells[k].qty \in Nat \ {0} /\ b.sells[k].gain \in Int BY <2>1 DEF SellRecord, Shares
   <2>3. Least(n, b.sells[k].qty) * (-b.sells[k].gain) \in Int BY <2>2 DEF Least
   <2> QED BY <2>2, <2>3 DEF CarriedLoss
  <1>5. WashAdjustment(b, s, n, date) = SumOn(f, W) BY DEF WashAdjustment, SumOver, SumOn
  <1> HIDE DEF f, W
  <1> QED BY <1>3, <1>4, <1>5, SumType

(* open_position: the new lot holds what the position gains. *)
LEMMA OpenKeeps ==
    ASSUME NEW b, BookType(b), LotsMatch(b), NEW s \in Symbols,
           NEW n \in Shares, NEW price \in Int, NEW cost \in Int, NEW date \in Int
    PROVE  AfterPurchase(b, OpenPosition(b, s, n, price, cost, date), s, n, n * price + cost,
                         AdjustedPrice(b, s, n, price, date))
  <1> DEFINE basis == AdjustedPrice(b, s, n, price, date)
             l == [qty |-> n, price |-> basis, date |-> date]
             p == Enlarged(b.pos[s], n, basis)
             paid == n * price + cost
             c == OpenPosition(b, s, n, price, cost, date)
  <1>1. /\ b.cash \in Int /\ b.pnl \in Int /\ b.sells \in Seq(SellRecord)
        /\ b.pos \in [Symbols -> Position] /\ b.lots \in [Symbols -> Seq(Lot)]
        /\ b.lots[s] \in Seq(Lot) /\ b.lots[s] \in Seq(AnyLot)
        /\ b.pos[s] \in Position /\ b.pos[s].qty \in Nat /\ b.pos[s].avg \in Int
        /\ LotShares(b.lots[s]) = b.pos[s].qty /\ n \in Nat \ {0}
    BY BookFields DEF Shares, LotsMatch
  <1>2. basis \in Int /\ paid \in Int
   <2>1. WashAdjustment(b, s, n, date) \in Int BY <1>1, AdjustmentType
   <2>2. WashAdjustment(b, s, n, date) \div n \in Int BY <1>1, <2>1
   <2> QED BY <1>1, <2>2 DEF AdjustedPrice
  <1>3. l \in Lot /\ l \in AnyLot /\ l.qty = n /\ l.price = basis
    BY <1>1, <1>2 DEF Lot, AnyLot, Shares
  <1>4. p \in Position /\ p.qty = b.pos[s].qty + n
   <2>1. CASE b.pos[s].qty = 0 BY <1>1, <1>2, <2>1 DEF Enlarged, Position
   <2>2. CASE b.pos[s].qty # 0
    <3> DEFINE q == b.pos[s]
               avg == (q.qty * q.avg + n * basis) \div (q.qty + n)
    <3>1. q \in Position /\ q.qty + n \in Nat \ {0} /\ q.qty * q.avg + n * basis \in Int
     <4>1. \A x, y \in Int : x * y \in Int OBVIOUS
     <4>2. /\ q \in Position /\ q.qty \in Nat /\ q.avg \in Int
           /\ n \in Nat \ {0} /\ basis \in Int
       BY <1>1, <1>2
     <4> HIDE DEF q, basis
     <4>3. q.qty * q.avg \in Int /\ n * basis \in Int BY <4>1, <4>2
     <4> QED BY <4>2, <4>3
    <3>2. avg \in Int BY <3>1
    <3>3. p = [q EXCEPT !.qty = q.qty + n, !.avg = avg] BY <2>2 DEF Enlarged
    <3> HIDE DEF q, p, avg
    <3>4. p \in Position /\ p.qty = q.qty + n BY <3>1, <3>2, <3>3 DEF Position
    <3> QED BY <3>4 DEF q
   <2> QED BY <2>1, <2>2
  <1>5. c = [b EXCEPT !.cash = b.cash - paid, !.pos[s] = p, !.lots[s] = Append(b.lots[s], l)]
    BY DEF OpenPosition
  <1> HIDE DEF basis, l, p, paid, c
  <1>6. /\ c.cash = b.cash - paid /\ c.pnl = b.pnl /\ c.sells = b.sells
        /\ c.pos = [b.pos EXCEPT ![s] = p]
        /\ c.lots = [b.lots EXCEPT ![s] = Append(b.lots[s], l)]
        /\ c = [cash |-> c.cash, pos |-> c.pos, lots |-> c.lots, sells |-> c.sells,
                pnl |-> c.pnl]
    BY <1>5 DEF BookType
  <1>7. /\ c.pos[s] = p /\ c.lots[s] = Append(b.lots[s], l)
        /\ \A r \in Symbols \ {s} : c.pos[r] = b.pos[r] /\ c.lots[r] = b.lots[r]
    BY <1>1, <1>6
  <1>8. BookType(c)
   <2>1. /\ c.cash \in Int /\ c.pnl \in Int /\ c.sells \in Seq(SellRecord)
         /\ c.pos \in [Symbols -> Position] /\ c.lots \in [Symbols -> Seq(Lot)]
     BY <1>1, <1>2, <1>3, <1>4, <1>6, SMTT(30)
   <2> QED BY <1>6, <2>1 DEF BookType
  <1>9. /\ LotShares(c.lots[s]) = LotShares(b.lots[s]) + n
        /\ LotBasis(c.lots[s]) = LotBasis(b.lots[s]) + n * basis
    BY <1>1, <1>3, <1>7, LotsAppend
  <1>10. LotsMatch(c) BY <1>1, <1>4, <1>7, <1>9 DEF LotsMatch
  <1>11. TotalBasis(c) = TotalBasis(b) + n * basis /\ TotalBasis(b) \in Int
   <2>1. /\ TotalBasis(c) = TotalBasis(b) + (LotBasis(c.lots[s]) - LotBasis(b.lots[s]))
         /\ TotalBasis(b) \in Int
     BY <1>7, <1>8, BasisFollows
   <2>2. LotBasis(b.lots[s]) \in Int /\ n * basis \in Int BY <1>1, <1>2, BookFields
   <2> QED BY <2>1, <2>2, <1>9
  <1> QED BY <1>2, <1>4, <1>6, <1>7, <1>8, <1>10, <1>11 DEF c, basis, paid, AfterPurchase

(* update_prices moves no share and no money. *)
LEMMA MarkKeeps ==
    ASSUME NEW b, BookType(b), LotsMatch(b), NEW prices \in [Symbols -> Int]
    PROVE  AfterMarking(b, UpdatePrices(b, prices))
  <1> DEFINE c == UpdatePrices(b, prices)
             mark(s) == IF b.pos[s].qty > 0 THEN [b.pos[s] EXCEPT !.price = prices[s]]
                        ELSE b.pos[s]
  <1>1. c = [b EXCEPT !.pos = [s \in Symbols |-> mark(s)]] BY DEF UpdatePrices
  <1>2. ASSUME NEW s \in Symbols
        PROVE  mark(s) \in Position /\ mark(s).qty = b.pos[s].qty
   <2> DEFINE q == b.pos[s]
   <2>1. q \in Position /\ prices[s] \in Int BY BookFields
   <2> HIDE DEF q
   <2>2. [q EXCEPT !.price = prices[s]] \in Position /\ [q EXCEPT !.price = prices[s]].qty = q.qty
     BY <2>1 DEF Position
   <2> QED BY <2>1, <2>2 DEF q
  <1> HIDE DEF c, mark
  <1>3. /\ c.cash = b.cash /\ c.pnl = b.pnl /\ c.lots = b.lots /\ c.sells = b.sells
        /\ c.pos = [s \in Symbols |-> mark(s)]
        /\ c = [cash |-> c.cash, pos |-> c.pos, lots |-> c.lots, sells |-> c.sells,
                pnl |-> c.pnl]
    BY <1>1 DEF BookType
  <1>4. BookType(c)
   <2>1. /\ c.cash \in Int /\ c.pnl \in Int /\ c.sells \in Seq(SellRecord)
         /\ c.pos \in [Symbols -> Position] /\ c.lots \in [Symbols -> Seq(Lot)]
     BY <1>2, <1>3 DEF BookType
   <2> QED BY <1>3, <2>1 DEF BookType
  <1>5. \A s \in Symbols : c.pos[s].qty = b.pos[s].qty BY <1>2, <1>3
  <1>6. LotsMatch(c) BY <1>3, <1>5 DEF LotsMatch
  <1>7. TotalBasis(c) = TotalBasis(b) BY <1>3 DEF TotalBasis
  <1> QED BY <1>3, <1>4, <1>5, <1>6, <1>7 DEF c, AfterMarking

----------------------------------------
(* A loss gives relief once. *)

(* What one year takes of an amount when earlier years take first. *)
TakenOf(g, A, n, y) == Smaller(g[y], AtLeastZero(n - SumOn(g, {x \in A : x < y})))

(* What is taken first come first served is the amount, or all there is. *)
LEMMA TakenInTurn ==
    ASSUME NEW E, IsFiniteSet(E), E \subseteq Int, NEW g, \A y \in E : g[y] \in Nat, NEW n \in Nat,
           NEW t, \A y \in E : t[y] = TakenOf(g, E, n, y)
    PROVE  /\ SumOn(t, E) = Smaller(n, SumOn(g, E))
           /\ \A y \in E : t[y] \in Nat /\ t[y] <= g[y]
  <1> DEFINE T(A) == [y \in A |-> TakenOf(g, A, n, y)]
             Bad == {A \in SUBSET E : SumOn(T(A), A) # Smaller(n, SumOn(g, A))}
  <1>1. ASSUME NEW A \in SUBSET E, NEW y \in A
        PROVE  TakenOf(g, A, n, y) \in Nat /\ TakenOf(g, A, n, y) <= g[y]
   <2> DEFINE before == SumOn(g, {x \in A : x < y})
   <2>1. before \in Int
    <3>1. IsFiniteSet({x \in A : x < y}) /\ {x \in A : x < y} \subseteq E BY FS_Subset
    <3>2. \A x \in {x \in A : x < y} : g[x] \in Int BY <3>1
    <3> QED BY <3>1, <3>2, SumType
   <2>2. g[y] \in Nat OBVIOUS
   <2> HIDE DEF before
   <2>3. Smaller(g[y], AtLeastZero(n - before)) \in Nat /\ Smaller(g[y], AtLeastZero(n - before)) <= g[y]
     BY <2>1, <2>2 DEF Smaller, AtLeastZero
   <2> QED BY <2>3 DEF TakenOf, before
  <1>2. Bad = {}
   <2> SUFFICES ASSUME Bad # {} PROVE FALSE
     OBVIOUS
   <2>1. PICK X \in Bad : \A Y \in SUBSET X : Y # X => Y \notin Bad
    <3>1. Bad \subseteq SUBSET E OBVIOUS
    <3> HIDE DEF Bad
    <3> QED BY <3>1, Smallest
   <2>2. X \in SUBSET E /\ IsFiniteSet(X) /\ SumOn(T(X), X) # Smaller(n, SumOn(g, X))
     BY <2>1, FS_Subset
   <2>3. X # {}
    <3>1. SumOn(T({}), {}) = 0 /\ SumOn(g, {}) = 0 BY SumEmpty
    <3>2. Smaller(n, 0) = 0 BY DEF Smaller
    <3> QED BY <2>2, <3>1, <3>2
   <2>4. PICK z \in X : \A x \in X : x <= z
    <3>1. X \subseteq Int BY <2>2
    <3> DEFINE R == {p \in X \X X : p[1] < p[2]}
    <3>2. /\ \A i, j \in X : <<i, j>> \in R <=> i < j
          /\ \A i, j : <<i, j>> \in R => i \in X /\ j \in X
      OBVIOUS
    <3> HIDE DEF R, Bad, T
    <3>3. \A i \in X : <<i, i>> \notin R BY <3>1, <3>2
    <3>4. \A i, j, k \in X : <<i, j>> \in R /\ <<j, k>> \in R => <<i, k>> \in R BY <3>1, <3>2
    <3>5. PICK m \in X : \A i \in X : <<m, i>> \notin R
      BY <2>2, <2>3, <3>3, <3>4, LastElement
    <3>6. \A i \in X : i <= m
     <4> TAKE i \in X
     <4>1. ~(m < i) /\ i \in Int /\ m \in Int BY <3>1, <3>2, <3>5
     <4> QED BY <4>1
    <3> QED BY <3>6
   <2> DEFINE Y == X \ {z}
              a == SumOn(g, Y)
              f == T(X)
              h == T(Y)
   <2>5. Y \in SUBSET X /\ Y # X /\ Y \in SUBSET E /\ IsFiniteSet(Y) /\ z \in Int /\ z \in E
     BY <2>2, <2>4, FS_Subset
   <2>6. SumOn(h, Y) = Smaller(n, a) BY <2>1, <2>5
   <2>7. \A y \in X : f[y] = TakenOf(g, X, n, y) /\ f[y] \in Int BY <1>1, <2>2
   <2>8. \A y \in Y : h[y] = TakenOf(g, Y, n, y) /\ h[y] \in Int BY <1>1, <2>5
   <2>9. \A y \in Y : f[y] = h[y]
    <3> TAKE y \in Y
    <3>1. {x \in X : x < y} = {x \in Y : x < y}
     <4>1. y <= z /\ y \in Int BY <2>2, <2>4, <2>5
     <4>2. ~(z < y) BY <2>5, <4>1
     <4> QED BY <4>2
    <3> QED BY <2>5, <2>7, <2>8, <3>1 DEF TakenOf
   <2>r. Y = X \ {z} OBVIOUS
   <2> HIDE DEF f, h, T, Bad, Y
   <2>10. SumOn(f, X) = f[z] + SumOn(f, Y)
    <3>1. z \in X /\ IsFiniteSet(X) /\ \A x \in X : f[x] \in Int BY <2>2, <2>4, <2>7
    <3>2. SumOn(f, X) = f[z] + SumOn(f, X \ {z}) BY <3>1, SumSplit
    <3> QED BY <3>2, <2>r
   <2>11. SumOn(f, Y) = SumOn(h, Y) BY <2>5, <2>7, <2>8, <2>9, SumSame
   <2>12. \A x \in X : g[x] \in Nat /\ g[x] \in Int BY <2>2
   <2>13. SumOn(g, X) = g[z] + SumOn(g, Y)
    <3>1. z \in X /\ IsFiniteSet(X) /\ \A x \in X : g[x] \in Int BY <2>2, <2>4, <2>12
    <3>2. SumOn(g, X) = g[z] + SumOn(g, X \ {z}) BY <3>1, SumSplit
    <3> QED BY <3>2, <2>r
   <2>14. a \in Nat BY <2>5, <2>12, SumNat
   <2>15. f[z] = Smaller(g[z], AtLeastZero(n - a))
    <3>1. {x \in X : x < z} = Y
     <4>1. \A x \in X : x \in Int /\ x <= z BY <2>2, <2>4
     <4>2. \A x \in X : x < z <=> x # z BY <2>5, <4>1
     <4> QED BY <2>r, <4>2
    <3> QED BY <2>4, <2>7, <3>1 DEF TakenOf
   <2> HIDE DEF a
   <2>16. SumOn(f, X) = Smaller(n, g[z] + a)
    <3>1. g[z] \in Nat BY <2>4, <2>12
    <3> QED BY <2>6, <2>10, <2>11, <2>14, <2>15, <3>1 DEF Smaller, AtLeastZero
   <2> QED BY <2>2, <2>13, <2>16 DEF f, a
  <1>3. SumOn(T(E), E) = Smaller(n, SumOn(g, E)) BY <1>2
  <1>4. SumOn(t, E) = SumOn(T(E), E)
   <2>1. \A y \in E : t[y] = T(E)[y] /\ t[y] \in Int /\ T(E)[y] \in Int BY <1>1
   <2> DEFINE f == T(E)
   <2>2. \A y \in E : t[y] = f[y] /\ t[y] \in Int /\ f[y] \in Int BY <2>1
   <2> HIDE DEF f
   <2>3. SumOn(t, E) = SumOn(f, E) BY <2>2, SumSame
   <2> QED BY <2>3 DEF f
  <1> QED BY <1>1, <1>3, <1>4

(* The sum over one or two pots. *)
LEMMA SumOfOne ==
    ASSUME NEW f, NEW a, DOMAIN f = {a}, f[a] \in Int
    PROVE  SumOf(f) = f[a]
  <1>1. SumOf(f) = SumOn(f, {a}) BY DEF SumOf, SumOn
  <1>2. IsFiniteSet({a}) /\ \A x \in {a} : f[x] \in Int BY FS_Singleton
  <1>3. SumOn(f, {a}) = f[a] + SumOn(f, {a} \ {a}) BY <1>2, SumSplit
  <1>4. {a} \ {a} = {} OBVIOUS
  <1> QED BY <1>1, <1>3, <1>4, SumEmpty

(* The sum over a domain of two is that of its two members. *)
LEMMA SumOfTwo ==
    ASSUME NEW f, NEW a, NEW b, a # b, DOMAIN f = {a, b}, f[a] \in Int, f[b] \in Int
    PROVE  SumOf(f) = f[a] + f[b]
  <1>1. SumOf(f) = SumOn(f, {a, b}) BY DEF SumOf, SumOn
  <1>2. IsFiniteSet({b}) /\ IsFiniteSet({b} \cup {a}) /\ {a, b} = {b} \cup {a}
    BY FS_Singleton, FS_AddElement
  <1>3. \A x \in {b} \cup {a} : f[x] \in Int OBVIOUS
  <1>4. SumOn(f, {b} \cup {a}) = SumOn(f, {b}) + f[a]
   <2>1. a \notin {b} OBVIOUS
   <2> QED BY <1>2, <1>3, <2>1, SumAdd
  <1>5. SumOn(f, {b}) = f[b] + SumOn(f, {b} \ {b})
   <2>1. \A x \in {b} : f[x] \in Int OBVIOUS
   <2> QED BY <1>2, <2>1, SumSplit
  <1>6. {b} \ {b} = {} OBVIOUS
  <1> QED
   <2>1. SumOn(f, {b}) = f[b] + 0 BY <1>5, <1>6, SumEmpty
   <2>2. SumOf(f) = SumOn(f, {b} \cup {a}) BY <1>1, <1>2
   <2>3. \A m, n, s, t : m \in Int /\ n \in Int /\ s = n + 0 /\ t = s + m => t = m + n OBVIOUS
   <2> QED BY <1>4, <2>1, <2>2, <2>3, Zenon

(* The net of a year's disposals is a number for each pot, none where nothing was disposed of. *)
LEMMA NetIs ==
    ASSUME NEW code, NEW n \in Nat, NEW ds \in [1..n -> Disposals]
    PROVE  /\ NetByBucket(code, ds) \in [BucketsOf(code) -> Int]
           /\ \A b \in BucketsOf(code) :
                 (\A i \in 1..n : PotOf(code, ds[i]) # b) => NetByBucket(code, ds)[b] = 0
  <1> DEFINE part(b) == [i \in 1..n |-> IF PotOf(code, ds[i]) = b THEN ds[i].gain ELSE 0]
  <1>1. \A b : SumOf(part(b)) = SumOn(part(b), 1..n) BY DEF SumOf, SumOn
  <1>2. IsFiniteSet(1..n) BY FS_Interval
  <1>3. \A i \in 1..n : ds[i].gain \in Int BY TaxAssumption, ZenonT(60) DEF Disposals
  <1>4. ASSUME NEW b PROVE SumOn(part(b), 1..n) \in Int
   <2> DEFINE f == part(b)
   <2>1. \A i \in 1..n : f[i] \in Int BY <1>3
   <2> HIDE DEF f
   <2>2. SumOn(f, 1..n) \in Int BY <1>2, <2>1, SumType
   <2> QED BY <2>2 DEF f
  <1>5. ASSUME NEW b, \A i \in 1..n : PotOf(code, ds[i]) # b PROVE SumOn(part(b), 1..n) = 0
   <2> DEFINE f == part(b)
   <2>1. \A i \in 1..n : f[i] = 0 BY <1>5
   <2> HIDE DEF f
   <2>2. SumOn(f, 1..n) = 0 BY <1>2, <2>1, SumZero
   <2> QED BY <2>2 DEF f
  <1>6. DOMAIN ds = 1..n OBVIOUS
  <1>7. NetByBucket(code, ds) = [b \in BucketsOf(code) |-> SumOf(part(b))] BY <1>6 DEF NetByBucket
  <1> HIDE DEF part
  <1> QED BY <1>1, <1>4, <1>5, <1>7

GainsOf(net) == SumOf([b \in DOMAIN net |-> AtLeastZero(net[b])])
LossesOf(net) == SumOf([b \in DOMAIN net |-> AtLeastZero(-net[b])])

\* What closing a year must do: every loss, carried or new, is carried on, set against a
\* gain, deducted or expired, and what is taxed leaves nothing to carry.
Balances(net, prior, a) ==
    /\ a.taxed \in Int /\ a.allowance \in Int /\ a.deducted \in Int /\ a.expired \in Int
    /\ SumOf(a.carry) \in Int /\ SumOf(prior) \in Int /\ GainsOf(net) \in Int /\ LossesOf(net) \in Int
    /\ SumOf(a.carry) + GainsOf(net) - a.taxed - a.allowance + a.deducted + a.expired
         = SumOf(prior) + LossesOf(net)
    /\ a.taxed > 0 => SumOf(a.carry) = 0

(* Gains and losses of two pots, and of one. *)
LEMMA TwoPots ==
    ASSUME NEW p, NEW q, p # q, NEW net \in [{p, q} -> Int]
    PROVE  /\ GainsOf(net) = AtLeastZero(net[p]) + AtLeastZero(net[q])
           /\ LossesOf(net) = AtLeastZero(-net[p]) + AtLeastZero(-net[q])
           /\ SumOf(net) = net[p] + net[q]
  <1> DEFINE g == [b \in {p, q} |-> AtLeastZero(net[b])]
             l == [b \in {p, q} |-> AtLeastZero(-net[b])]
  <1>1. net[p] \in Int /\ net[q] \in Int /\ DOMAIN net = {p, q} /\ DOMAIN g = {p, q} /\ DOMAIN l = {p, q}
    OBVIOUS
  <1>2. g[p] = AtLeastZero(net[p]) /\ g[q] = AtLeastZero(net[q])
        /\ l[p] = AtLeastZero(-net[p]) /\ l[q] = AtLeastZero(-net[q])
    OBVIOUS
  <1>3. GainsOf(net) = SumOf(g) /\ LossesOf(net) = SumOf(l) BY <1>1 DEF GainsOf, LossesOf
  <1> HIDE DEF g, l
  <1>4. g[p] \in Int /\ g[q] \in Int /\ l[p] \in Int /\ l[q] \in Int BY <1>1, <1>2 DEF AtLeastZero
  <1>5. SumOf(g) = g[p] + g[q] BY <1>1, <1>4, SumOfTwo
  <1>6. SumOf(l) = l[p] + l[q] BY <1>1, <1>4, SumOfTwo
  <1>7. SumOf(net) = net[p] + net[q] BY <1>1, SumOfTwo
  <1> QED BY <1>2, <1>3, <1>5, <1>6, <1>7

(* Gains and losses of a single pot are its own. *)
LEMMA OnePotAlone ==
    ASSUME NEW p, NEW net \in [{p} -> Int]
    PROVE  /\ GainsOf(net) = AtLeastZero(net[p]) /\ LossesOf(net) = AtLeastZero(-net[p])
           /\ SumOf(net) = net[p]
  <1> DEFINE g == [b \in {p} |-> AtLeastZero(net[b])]
             l == [b \in {p} |-> AtLeastZero(-net[b])]
  <1>1. net[p] \in Int /\ DOMAIN net = {p} /\ DOMAIN g = {p} /\ DOMAIN l = {p} OBVIOUS
  <1>2. g[p] = AtLeastZero(net[p]) /\ l[p] = AtLeastZero(-net[p]) OBVIOUS
  <1>3. GainsOf(net) = SumOf(g) /\ LossesOf(net) = SumOf(l) BY <1>1 DEF GainsOf, LossesOf
  <1> HIDE DEF g, l
  <1>4. g[p] \in Int /\ l[p] \in Int BY <1>1, <1>2 DEF AtLeastZero
  <1>5. SumOf(g) = g[p] /\ SumOf(l) = l[p] /\ SumOf(net) = net[p] BY <1>1, <1>4, SumOfOne
  <1> QED BY <1>2, <1>3, <1>5

(* The sum over the two terms. *)
LEMMA TwoTerms ==
    ASSUME NEW f \in [{"short", "long"} -> Int]
    PROVE  SumOf(f) = f["short"] + f["long"]
  BY TwoPots

(* The two terms of a year in the US: losses carried by term, a deduction of the combined loss. *)
LEMMA CarryoverSettles ==
    ASSUME NEW net \in [{"short", "long"} -> Int], NEW prior \in [{"short", "long"} -> Nat]
    PROVE  /\ Balances(net, prior, ApplyCarryover(net, prior))
           /\ ApplyCarryover(net, prior).carry \in [{"short", "long"} -> Nat]
  <1> DEFINE a == ApplyCarryover(net, prior)
             ns == net["short"]
             nl == net["long"]
             ps == prior["short"]
             pl == prior["long"]
             leg == [b \in {"short", "long"} |-> net[b] - prior[b]]
             loss == [b \in {"short", "long"} |-> AtLeastZero(-leg[b])]
             combined == SumOf(leg)
             deducted == Smaller(-combined, DeductibleCap)
             short == AtLeastZero(loss["short"] - deducted)
             long == AtLeastZero(loss["long"] - (deducted - (loss["short"] - short)))
             none == [b \in {"short", "long"} |-> 0]
             both == [short |-> short, long |-> long]
             one == [b \in {"short", "long"} |-> IF leg[b] < 0 THEN -combined - deducted ELSE 0]
  <1>1. ns \in Int /\ nl \in Int /\ ps \in Nat /\ pl \in Nat OBVIOUS
  <1>2. GainsOf(net) = AtLeastZero(ns) + AtLeastZero(nl) /\ LossesOf(net) = AtLeastZero(-ns) + AtLeastZero(-nl)
    BY TwoPots
  <1>3. SumOf(prior) = ps + pl
   <2>1. prior \in [{"short", "long"} -> Int] OBVIOUS
   <2> QED BY <2>1, TwoPots
  <1>4. leg["short"] = ns - ps /\ leg["long"] = nl - pl /\ leg \in [{"short", "long"} -> Int]
    BY <1>1
  <1>5. combined = (ns - ps) + (nl - pl)
   <2> HIDE DEF leg, ns, nl, ps, pl
   <2>1. SumOf(leg) = leg["short"] + leg["long"] BY <1>4, TwoTerms
   <2> QED BY <1>4, <2>1
  <1>6. /\ loss["short"] = AtLeastZero(-leg["short"]) /\ loss["long"] = AtLeastZero(-leg["long"])
        /\ loss["short"] \in Int /\ loss["long"] \in Int
        /\ loss \in [{"short", "long"} -> Int]
    BY <1>1 DEF AtLeastZero
  <1>7. SumOf(loss) = loss["short"] + loss["long"]
   <2> HIDE DEF loss
   <2> QED BY <1>6, TwoTerms
  <1>8. a = IF combined >= 0 THEN Applied(combined, 0, 0, 0, none)
            ELSE Applied(0, 0, deducted, 0, IF SumOf(loss) = -combined THEN both ELSE one)
    BY DEF ApplyCarryover
  <1>9. DeductibleCap \in Nat BY TaxAssumption
  <1>10. /\ none["short"] = 0 /\ none["long"] = 0 /\ none \in [{"short", "long"} -> Int]
         /\ none \in [{"short", "long"} -> Nat]
    OBVIOUS
  <1>11. /\ both["short"] = short /\ both["long"] = long
         /\ (short \in Nat /\ long \in Nat => both \in [{"short", "long"} -> Nat])
    OBVIOUS
  <1>12. /\ one["short"] = (IF leg["short"] < 0 THEN -combined - deducted ELSE 0)
         /\ one["long"] = (IF leg["long"] < 0 THEN -combined - deducted ELSE 0)
         /\ (one["short"] \in Nat /\ one["long"] \in Nat => one \in [{"short", "long"} -> Nat])
    OBVIOUS
  <1> DEFINE ls == loss["short"]
             ll == loss["long"]
             l1 == leg["short"]
             l2 == leg["long"]
  <1>13. short = AtLeastZero(ls - deducted) /\ long = AtLeastZero(ll - (deducted - (ls - short)))
         /\ deducted = Smaller(-combined, DeductibleCap)
    OBVIOUS
  <1> HIDE DEF ns, nl, ps, pl, leg, loss, combined, deducted, short, long, none, both, one, ls, ll, l1, l2
  <1>14. /\ ls \in Int /\ ll \in Int /\ ls = AtLeastZero(-l1) /\ ll = AtLeastZero(-l2)
         /\ l1 = ns - ps /\ l2 = nl - pl /\ SumOf(loss) = ls + ll
    BY <1>4, <1>6, <1>7 DEF ls, ll, l1, l2
  <1>15. CASE combined >= 0
   <2>1. a = Applied(combined, 0, 0, 0, none) BY <1>8, <1>15
   <2>2. a.taxed = combined /\ a.allowance = 0 /\ a.deducted = 0 /\ a.expired = 0 /\ a.carry = none
     BY <2>1 DEF Applied
   <2>3. SumOf(none) = 0 BY <1>10, TwoPots
   <2> HIDE DEF a
   <2>4. /\ AtLeastZero(ns) - AtLeastZero(-ns) = ns /\ AtLeastZero(nl) - AtLeastZero(-nl) = nl
         /\ AtLeastZero(ns) \in Int /\ AtLeastZero(-ns) \in Int /\ AtLeastZero(nl) \in Int /\ AtLeastZero(-nl) \in Int
     BY <1>1 DEF AtLeastZero
   <2>5. Balances(net, prior, a) BY <1>1, <1>2, <1>3, <1>5, <2>2, <2>3, <2>4 DEF Balances
   <2> QED BY <1>10, <2>2, <2>5 DEF a
  <1>16. CASE combined < 0
   <2> DEFINE c == IF SumOf(loss) = -combined THEN both ELSE one
   <2>1. a = Applied(0, 0, deducted, 0, c) BY <1>1, <1>5, <1>8, <1>16
   <2>2. a.taxed = 0 /\ a.allowance = 0 /\ a.deducted = deducted /\ a.expired = 0 /\ a.carry = c
     BY <2>1 DEF Applied
   <2>3. deducted \in Nat /\ deducted <= -combined /\ combined \in Int
     BY <1>1, <1>5, <1>9, <1>13, <1>16 DEF Smaller
   <2>4. c \in [{"short", "long"} -> Nat] /\ c["short"] + c["long"] = -combined - deducted
    <3>1. CASE SumOf(loss) = -combined
     <4>1. short \in Nat /\ long \in Nat /\ short + long = -combined - deducted
       BY <1>1, <1>5, <1>13, <1>14, <2>3, <3>1 DEF AtLeastZero
     <4> QED BY <1>11, <3>1, <4>1
    <3>2. CASE SumOf(loss) # -combined
     <4>1. \/ l1 < 0 /\ ~(l2 < 0)
           \/ ~(l1 < 0) /\ l2 < 0
       BY <1>1, <1>5, <1>14, <1>16, <3>2 DEF AtLeastZero
     <4>2. /\ one["short"] = (IF l1 < 0 THEN -combined - deducted ELSE 0)
           /\ one["long"] = (IF l2 < 0 THEN -combined - deducted ELSE 0)
       BY <1>12 DEF l1, l2
     <4>3. one["short"] \in Nat /\ one["long"] \in Nat /\ one["short"] + one["long"] = -combined - deducted
       BY <2>3, <4>1, <4>2
     <4> QED BY <1>12, <3>2, <4>3
    <3> QED BY <3>1, <3>2
   <2> HIDE DEF a, c
   <2>5. SumOf(c) = -combined - deducted
    <3>1. c \in [{"short", "long"} -> Int] BY <2>4
    <3>2. SumOf(c) = c["short"] + c["long"] BY <3>1, TwoPots
    <3> QED BY <2>4, <3>2
   <2>6. /\ AtLeastZero(ns) - AtLeastZero(-ns) = ns /\ AtLeastZero(nl) - AtLeastZero(-nl) = nl
         /\ AtLeastZero(ns) \in Int /\ AtLeastZero(-ns) \in Int /\ AtLeastZero(nl) \in Int /\ AtLeastZero(-nl) \in Int
     BY <1>1 DEF AtLeastZero
   <2>7. Balances(net, prior, a) BY <1>1, <1>2, <1>3, <1>5, <2>2, <2>3, <2>5, <2>6 DEF Balances
   <2> QED BY <2>2, <2>4, <2>7 DEF a
  <1>17. combined >= 0 \/ combined < 0 BY <1>1, <1>5
  <1> QED BY <1>15, <1>16, <1>17

(* A year in Britain: the exempt amount first, carried losses after it. *)
LEMMA CgtSettles ==
    ASSUME NEW net \in [{"all"} -> Int], NEW prior \in [{"all"} -> Nat]
    PROVE  /\ Balances(net, prior, ApplyCgtCarryover(net, prior))
           /\ ApplyCgtCarryover(net, prior).carry \in [{"all"} -> Nat]
  <1> DEFINE n == net["all"]
             p == prior["all"]
             a == ApplyCgtCarryover(net, prior)
             gain == AtLeastZero(n)
             exempt == Smaller(gain, Exemption)
             used == Smaller(p, gain - exempt)
             c == [all |-> p - used + AtLeastZero(-n)]
  <1>1. n \in Int /\ p \in Nat /\ Exemption \in Nat BY TaxAssumption
  <1>2. GainsOf(net) = AtLeastZero(n) /\ LossesOf(net) = AtLeastZero(-n) BY OnePotAlone
  <1>3. SumOf(prior) = p
   <2>1. prior \in [{"all"} -> Int] OBVIOUS
   <2> QED BY <2>1, OnePotAlone
  <1>4. a.taxed = gain - exempt - used /\ a.allowance = exempt /\ a.deducted = 0 /\ a.expired = 0 /\ a.carry = c
    BY DEF ApplyCgtCarryover, SummarizeCgt, Applied
  <1>5. c["all"] = p - used + AtLeastZero(-n) /\ (c["all"] \in Nat => c \in [{"all"} -> Nat])
    OBVIOUS
  <1> HIDE DEF a, c
  <1>6. c["all"] \in Nat BY <1>1, <1>5 DEF Smaller, AtLeastZero
  <1>7. SumOf(c) = c["all"]
   <2>1. c \in [{"all"} -> Int] BY <1>5, <1>6
   <2> QED BY <2>1, OnePotAlone
  <1> HIDE DEF n, p
  <1>8. Balances(net, prior, a)
   <2>1. /\ a.taxed \in Int /\ a.allowance \in Int /\ a.deducted \in Int /\ a.expired \in Int
     BY <1>1, <1>4 DEF Smaller, AtLeastZero
   <2>2. GainsOf(net) \in Int /\ LossesOf(net) \in Int /\ SumOf(c) \in Int
     BY <1>1, <1>2, <1>6, <1>7 DEF AtLeastZero
   <2>3. c["all"] + AtLeastZero(n) - (gain - exempt - used) - exempt + 0 + 0 = p + AtLeastZero(-n)
     BY <1>1, <1>5 DEF Smaller, AtLeastZero
   <2>4. gain - exempt - used > 0 => c["all"] = 0 BY <1>1, <1>5 DEF Smaller, AtLeastZero
   <2> QED BY <1>1, <1>2, <1>3, <1>4, <1>7, <2>1, <2>2, <2>3, <2>4 DEF Balances
  <1> QED BY <1>4, <1>5, <1>6, <1>8 DEF a

(* A German year in which one of the pots is empty: the pot's own carried loss comes off first. *)
LEMMA KestSettles ==
    ASSUME NEW net \in [{"equity", "other"} -> Int], NEW prior \in [{"equity", "other"} -> Nat],
           NEW b \in {"equity", "other"}, net[b] = 0, prior[b] = 0
    PROVE  /\ Balances(net, prior, ApplyKestCarryover(net, prior))
           /\ ApplyKestCarryover(net, prior).carry \in [{"equity", "other"} -> Nat]
           /\ ApplyKestCarryover(net, prior).carry[b] = 0
  <1> DEFINE a == ApplyKestCarryover(net, prior)
             ne == net["equity"]
             no == net["other"]
             pe == prior["equity"]
             po == prior["other"]
             base == AtLeastZero(AtLeastZero(ne - pe) + (no - po))
             allowance == Smaller(base, Exemption)
             c == [x \in {"equity", "other"} |-> AtLeastZero(-(net[x] - prior[x]))]
             ce == c["equity"]
             co == c["other"]
  <1>1. ne \in Int /\ no \in Int /\ pe \in Nat /\ po \in Nat /\ Exemption \in Nat BY TaxAssumption
  <1>2. GainsOf(net) = AtLeastZero(ne) + AtLeastZero(no) /\ LossesOf(net) = AtLeastZero(-ne) + AtLeastZero(-no)
    BY TwoPots
  <1>3. SumOf(prior) = pe + po
   <2>1. prior \in [{"equity", "other"} -> Int] OBVIOUS
   <2> QED BY <2>1, TwoPots
  <1>4. a.taxed = base - allowance /\ a.allowance = allowance /\ a.deducted = 0 /\ a.expired = 0 /\ a.carry = c
   <2> DEFINE pot == [x \in {"equity", "other"} |-> net[x] - prior[x]]
   <2>1. pot["equity"] = ne - pe /\ pot["other"] = no - po OBVIOUS
   <2>2. c = [x \in {"equity", "other"} |-> AtLeastZero(-pot[x])] OBVIOUS
   <2>3. a = Applied(SummarizeKest(pot).taxable, SummarizeKest(pot).exempt, 0, 0,
                     [x \in {"equity", "other"} |-> AtLeastZero(-pot[x])])
     BY DEF ApplyKestCarryover
   <2> HIDE DEF pot, c, a, ne, no, pe, po
   <2>4. SummarizeKest(pot).taxable = base - allowance /\ SummarizeKest(pot).exempt = allowance
     BY <2>1 DEF SummarizeKest
   <2> QED BY <2>2, <2>3, <2>4 DEF Applied
  <1>5. ce = AtLeastZero(-(ne - pe)) /\ co = AtLeastZero(-(no - po)) OBVIOUS
  <1>6. ce \in Nat /\ co \in Nat BY <1>1, <1>5 DEF AtLeastZero
  <1>7. c \in [{"equity", "other"} -> Nat] /\ c \in [{"equity", "other"} -> Int]
   <2>1. \A x \in {"equity", "other"} : c[x] \in Nat BY <1>6
   <2> QED BY <2>1
  <1>8. (ne = 0 /\ pe = 0) \/ (no = 0 /\ po = 0) OBVIOUS
  <1>9. c[b] = 0 BY <1>1 DEF AtLeastZero
  <1> HIDE DEF a, c
  <1>10. SumOf(c) = ce + co BY <1>7, TwoPots
  <1> HIDE DEF ne, no, pe, po, ce, co
  <1>11. base \in Nat /\ allowance \in Nat BY <1>1 DEF Smaller, AtLeastZero
  <1>12. /\ AtLeastZero(ne) \in Int /\ AtLeastZero(no) \in Int /\ AtLeastZero(-ne) \in Int /\ AtLeastZero(-no) \in Int
    BY <1>1 DEF AtLeastZero
  <1>13. (ce + co) + (AtLeastZero(ne) + AtLeastZero(no)) - base = pe + po + (AtLeastZero(-ne) + AtLeastZero(-no))
    BY <1>1, <1>5, <1>8 DEF AtLeastZero
  <1>14. base > 0 => ce + co = 0 BY <1>1, <1>5, <1>8 DEF AtLeastZero
  <1>15. allowance <= base BY <1>1, <1>11 DEF Smaller
  <1> HIDE DEF base, allowance
  <1>16. Balances(net, prior, a)
   <2>1. /\ a.taxed \in Int /\ a.allowance \in Int /\ a.deducted \in Int /\ a.expired \in Int
         /\ GainsOf(net) \in Int /\ LossesOf(net) \in Int /\ SumOf(prior) \in Int /\ SumOf(a.carry) \in Int
     BY <1>1, <1>2, <1>3, <1>4, <1>6, <1>10, <1>11, <1>12
   <2>2. SumOf(a.carry) + GainsOf(net) - a.taxed - a.allowance + a.deducted + a.expired
           = SumOf(prior) + LossesOf(net)
     BY <1>1, <1>2, <1>3, <1>4, <1>6, <1>10, <1>11, <1>12, <1>13
   <2>3. a.taxed > 0 => SumOf(a.carry) = 0 BY <1>4, <1>10, <1>11, <1>14, <1>15
   <2> QED BY <2>1, <2>2, <2>3 DEF Balances
  <1> QED BY <1>4, <1>7, <1>9, <1>16 DEF a

(* A French year: vintages too old are dropped, a gain uses the rest, oldest first. *)
LEMMA PfuSettles ==
    ASSUME NEW net \in [{"all"} -> Int], NEW year \in Int, NEW prior, IsFiniteSet(DOMAIN prior),
           \A y \in DOMAIN prior : y \in Int /\ y < year /\ prior[y] \in Nat
    PROVE  LET a == ApplyPfuCarryover(net, prior, year) IN
           /\ Balances(net, prior, a)
           /\ IsFiniteSet(DOMAIN a.carry)
           /\ \A y \in DOMAIN a.carry : y \in Int /\ y <= year /\ a.carry[y] \in Nat
  <1> DEFINE n == net["all"]
             D == DOMAIN prior
             fresh == {y \in D : year - y < CarryYears}
             old == D \ fresh
             gain == AtLeastZero(n)
             lost == AtLeastZero(-n)
             used == [y \in fresh |-> Smaller(prior[y], AtLeastZero(gain - SumOn(prior, {x \in fresh : x < y})))]
             kept == [y \in fresh \cup {year} |-> IF y = year THEN lost ELSE prior[y] - used[y]]
             c == FreshVintages(kept)
             a == ApplyPfuCarryover(net, prior, year)
             neg == [y \in fresh |-> (-1) * used[y]]
  <1>1. n \in Int /\ GainsOf(net) = gain /\ LossesOf(net) = lost /\ gain \in Nat /\ lost \in Nat
    BY OnePotAlone DEF AtLeastZero
  <1>2. a.taxed = gain - SumOf(used) /\ a.allowance = 0 /\ a.deducted = 0 /\ a.expired = SumOn(prior, old) /\ a.carry = c
    BY DEF ApplyPfuCarryover, SummarizePfu, Applied, SumOn
  <1>3. IsFiniteSet(D) /\ IsFiniteSet(fresh) /\ IsFiniteSet(old) /\ D = fresh \cup old BY FS_Subset
  <1>4. fresh \subseteq Int /\ \A y \in D : prior[y] \in Nat /\ prior[y] \in Int /\ y \in Int /\ y < year
    OBVIOUS
  <1>5. \A y \in fresh : used[y] = TakenOf(prior, fresh, gain, y) BY DEF TakenOf
  <1>6. fresh \subseteq D /\ old \subseteq D /\ DOMAIN used = fresh /\ fresh \cap old = {} OBVIOUS
  <1>7. /\ DOMAIN kept = fresh \cup {year} /\ \A y \in fresh \cup {year} : kept[y] = IF y = year THEN lost ELSE prior[y] - used[y]
    OBVIOUS
  <1>8. \A y \in fresh : neg[y] = (-1) * used[y] OBVIOUS
  <1> HIDE DEF n, D, fresh, old, gain, lost, used, kept, c, a, neg
  <1>9. /\ SumOn(used, fresh) = Smaller(gain, SumOn(prior, fresh))
        /\ \A y \in fresh : used[y] \in Nat /\ used[y] <= prior[y]
   <2>1. \A y \in fresh : prior[y] \in Nat BY <1>4, <1>6
   <2> QED BY <1>1, <1>3, <1>4, <1>5, <2>1, TakenInTurn
  <1>10. SumOf(used) = SumOn(used, fresh) BY <1>6 DEF SumOf, SumOn
  <1>11. SumOf(prior) = SumOn(prior, D) BY DEF SumOf, SumOn, D
  <1>12. SumOn(prior, D) = SumOn(prior, fresh) + SumOn(prior, old) /\ SumOn(prior, fresh) \in Nat /\ SumOn(prior, old) \in Nat
   <2>1. \A y \in fresh \cup old : prior[y] \in Int /\ prior[y] \in Nat BY <1>3, <1>4
   <2>2. SumOn(prior, fresh \cup old) = SumOn(prior, fresh) + SumOn(prior, old)
     BY <1>3, <1>6, <2>1, SumParts
   <2>3. SumOn(prior, fresh) \in Nat BY <1>3, <2>1, SumNat
   <2>4. SumOn(prior, old) \in Nat BY <1>3, <2>1, SumNat
   <2> QED BY <1>3, <2>2, <2>3, <2>4
  <1>13. year \notin fresh BY <1>4, <1>6
  <1>14. ASSUME NEW y \in fresh PROVE kept[y] = prior[y] + neg[y] /\ neg[y] = -used[y] /\ kept[y] \in Nat
   <2>1. y # year /\ kept[y] = prior[y] - used[y] /\ used[y] \in Nat /\ used[y] <= prior[y] /\ prior[y] \in Nat
         /\ neg[y] = (-1) * used[y]
     BY <1>4, <1>6, <1>7, <1>8, <1>9, <1>13
   <2> QED BY <2>1
  <1>15. kept[year] = lost BY <1>7
  <1>16. SumOn(kept, fresh) = SumOn(prior, fresh) - SumOn(used, fresh)
   <2>1. \A y \in fresh : prior[y] \in Int /\ neg[y] \in Int /\ used[y] \in Int /\ kept[y] = prior[y] + neg[y]
     BY <1>4, <1>6, <1>9, <1>14
   <2>2. SumOn(kept, fresh) = SumOn(prior, fresh) + SumOn(neg, fresh) BY <1>3, <2>1, SumPlus
   <2>3. SumOn(neg, fresh) = (-1) * SumOn(used, fresh) BY <1>3, <1>8, <2>1, SumScale
   <2>4. SumOn(used, fresh) \in Int BY <1>3, <2>1, SumType
   <2> QED BY <1>12, <2>2, <2>3, <2>4
  <1>17. \A y \in fresh \cup {year} : kept[y] \in Nat /\ kept[y] \in Int BY <1>1, <1>14, <1>15
  <1>18. SumOn(kept, fresh \cup {year}) = SumOn(kept, fresh) + lost
    BY <1>3, <1>13, <1>15, <1>17, SumAdd
  <1>19. IsFiniteSet(fresh \cup {year}) BY <1>3, FS_AddElement
  <1>20. SumOf(c) = SumOn(kept, fresh \cup {year}) /\ IsFiniteSet(DOMAIN c) /\ DOMAIN c \subseteq fresh \cup {year}
         /\ \A y \in DOMAIN c : c[y] = kept[y]
   <2> DEFINE P == {y \in fresh \cup {year} : kept[y] > 0}
   <2>1. c = [y \in P |-> kept[y]] BY <1>7 DEF c, FreshVintages
   <2>2. P \in SUBSET (fresh \cup {year}) /\ \A y \in (fresh \cup {year}) \ P : kept[y] = 0 BY <1>17
   <2> HIDE DEF P
   <2>3. DOMAIN c = P /\ \A y \in P : c[y] = kept[y] BY <2>1
   <2>4. IsFiniteSet(P) BY <1>19, <2>2, FS_Subset
   <2>5. SumOf(c) = SumOn(c, P) BY <2>3 DEF SumOf, SumOn
   <2>6. SumOn(c, P) = SumOn(kept, P) BY <2>3, <2>4, SumSame
   <2>7. SumOn(kept, fresh \cup {year}) = SumOn(kept, P)
    <3> DEFINE R == (fresh \cup {year}) \ P
    <3>1. IsFiniteSet(R) /\ P \cap R = {} /\ P \cup R = fresh \cup {year} BY <1>19, <2>2, FS_Subset
    <3>2. \A y \in P \cup R : kept[y] \in Int BY <1>17, <3>1
    <3>3. \A y \in R : kept[y] = 0 BY <2>2
    <3> HIDE DEF R
    <3>4. SumOn(kept, P \cup R) = SumOn(kept, P) + SumOn(kept, R) BY <2>4, <3>1, <3>2, SumParts
    <3>5. SumOn(kept, R) = 0 BY <3>1, <3>3, SumZero
    <3>6. SumOn(kept, P) \in Int BY <2>4, <3>2, SumType
    <3> QED BY <3>1, <3>4, <3>5, <3>6
   <2> QED BY <2>2, <2>3, <2>4, <2>5, <2>6, <2>7
  <1>21. Balances(net, prior, a)
   <2> DEFINE sp == SumOn(prior, fresh)
              so == SumOn(prior, old)
              su == SumOn(used, fresh)
   <2>1. sp \in Nat /\ so \in Nat /\ su = Smaller(gain, sp) BY <1>9, <1>12
   <2>2. SumOf(prior) = sp + so /\ SumOf(c) = (sp - su) + lost /\ a.taxed = gain - su /\ a.expired = so
     BY <1>2, <1>10, <1>11, <1>12, <1>16, <1>18, <1>20
   <2> HIDE DEF sp, so, su
   <2>3. su \in Nat BY <1>1, <2>1 DEF Smaller
   <2>4. gain - su > 0 => sp - su = 0 /\ lost = 0 BY <1>1, <2>1 DEF Smaller, AtLeastZero, gain, lost
   <2>5. /\ a.taxed \in Int /\ a.allowance \in Int /\ a.deducted \in Int /\ a.expired \in Int
         /\ SumOf(a.carry) \in Int /\ SumOf(prior) \in Int /\ GainsOf(net) \in Int /\ LossesOf(net) \in Int
     BY <1>1, <1>2, <2>1, <2>2, <2>3
   <2>6. SumOf(a.carry) + GainsOf(net) - a.taxed - a.allowance + a.deducted + a.expired
           = SumOf(prior) + LossesOf(net)
     BY <1>1, <1>2, <2>1, <2>2, <2>3
   <2>7. a.taxed > 0 => SumOf(a.carry) = 0 BY <1>1, <1>2, <2>1, <2>2, <2>3, <2>4
   <2> QED BY <2>5, <2>6, <2>7 DEF Balances
  <1>22. \A y \in DOMAIN c : y \in Int /\ y <= year /\ c[y] \in Nat
   <2> TAKE y \in DOMAIN c
   <2>1. y \in fresh \cup {year} /\ c[y] = kept[y] /\ kept[y] \in Nat BY <1>17, <1>20
   <2>2. y \in Int /\ y <= year
    <3>1. CASE y = year BY <3>1
    <3>2. CASE y \in fresh
     <4>1. y \in Int /\ y < year BY <1>4, <1>6, <3>2
     <4> QED BY <4>1
    <3> QED BY <2>1, <3>1, <3>2
   <2> QED BY <2>1, <2>2
  <1> QED BY <1>2, <1>20, <1>21, <1>22 DEF a

----------------------------------------
(* No German pot but one is in use: beside a second one the law the code follows lets a loss
   give relief twice (PotsUsedOnce). *)
OneGermanPot == "DE" \in TaxCodes => ~({"equity", "other"} \subseteq AssetKinds)

\* What is carried has the shape its jurisdiction gives it.
CarryShape(code, year, carry) ==
    IF code = "FR"
    THEN IsFiniteSet(DOMAIN carry) /\ \A y \in DOMAIN carry : y \in Int /\ y < year /\ carry[y] \in Nat
    ELSE /\ carry \in [BucketsOf(code) -> Nat]
         /\ code = "DE" => \A b \in BucketsOf(code) \ AssetKinds : carry[b] = 0

TaxInv ==
    /\ txCode \in TaxCodes /\ txYear \in Int /\ txTaxed \in Int /\ txFutures \in Seq(Nat)
    /\ txSum.made \in Int /\ txSum.relieved \in Int /\ txSum.expired \in Int
    /\ txSum = [made |-> txSum.made, relieved |-> txSum.relieved, expired |-> txSum.expired]
    /\ CarryShape(txCode, txYear, txCarry)
    /\ SumOf(txCarry) \in Int
    /\ txSum.made = txSum.relieved + txSum.expired + SumOf(txCarry)
    /\ txTaxed > 0 => SumOf(txCarry) = 0

\* The pots of each jurisdiction.
LEMMA Pots ==
    /\ BucketsOf("US") = {"short", "long"} /\ BucketsOf("DE") = {"equity", "other"}
    /\ BucketsOf("GB") = {"all"} /\ BucketsOf("FR") = {"all"}
  BY DEF BucketsOf

(* Nothing is carried into the first year. *)
LEMMA TaxStarts == TaxInit => TaxInv
  <1> SUFFICES ASSUME TaxInit PROVE TaxInv
    OBVIOUS
  <1> DEFINE none == [b \in BucketsOf(txCode) |-> 0]
  <1>1. /\ txCode \in TaxCodes /\ txYear = 1 /\ txTaxed = 0 /\ txFutures = <<>>
        /\ txCarry = (IF txCode = "FR" THEN <<>> ELSE none)
        /\ txSum = [made |-> 0, relieved |-> 0, expired |-> 0]
    BY DEF TaxInit
  <1>2. txCode \in {"US", "GB", "DE", "FR"} BY <1>1, TaxAssumption
  <1>3. CASE txCode = "FR"
   <2>1. txCarry = <<>> /\ DOMAIN <<>> = {} BY <1>1, <1>3
   <2>2. SumOf(txCarry) = 0
    <3>1. SumOf(txCarry) = SumOn(txCarry, DOMAIN txCarry) BY DEF SumOf, SumOn
    <3>2. DOMAIN txCarry = {} BY <2>1
    <3> QED BY <3>1, <3>2, SumEmpty
   <2>3. CarryShape(txCode, txYear, txCarry) BY <1>3, <2>1, FS_EmptySet DEF CarryShape
   <2> QED BY <1>1, <2>2, <2>3 DEF TaxInv
  <1>4. CASE txCode # "FR"
   <2>1. txCarry = none BY <1>1, <1>4
   <2>2. CarryShape(txCode, txYear, txCarry) BY <1>4, <2>1 DEF CarryShape
   <2>3. IsFiniteSet(BucketsOf(txCode))
    <3>1. IsFiniteSet({"short", "long"}) /\ IsFiniteSet({"equity", "other"}) /\ IsFiniteSet({"all"})
     <4>1. {"short", "long"} = {"long"} \cup {"short"} /\ {"equity", "other"} = {"other"} \cup {"equity"}
       OBVIOUS
     <4>2. IsFiniteSet({"long"}) /\ IsFiniteSet({"other"}) /\ IsFiniteSet({"all"}) BY FS_Singleton
     <4>3. IsFiniteSet({"long"} \cup {"short"}) BY <4>2, FS_AddElement
     <4>4. IsFiniteSet({"other"} \cup {"equity"}) BY <4>2, FS_AddElement
     <4> QED BY <4>1, <4>2, <4>3, <4>4
    <3> QED BY <1>2, <3>1, Pots
   <2>4. DOMAIN none = BucketsOf(txCode) /\ \A b \in BucketsOf(txCode) : none[b] = 0 OBVIOUS
   <2> HIDE DEF none
   <2>5. SumOf(none) = SumOn(none, BucketsOf(txCode)) BY <2>4 DEF SumOf, SumOn
   <2>6. SumOf(txCarry) = 0 BY <2>1, <2>3, <2>4, <2>5, SumZero
   <2> QED BY <1>1, <2>2, <2>6 DEF TaxInv
  <1> QED BY <1>3, <1>4

(* A year that settles keeps the balance. *)
LEMMA YearSettles ==
    ASSUME OneGermanPot, txCode \in TaxCodes, txYear \in Int, CarryShape(txCode, txYear, txCarry),
           NEW n \in Nat, NEW ds \in [1..n -> Disposals]
    PROVE  LET a == CarryoverFor(txCode, ds, txCarry, txYear) IN
           /\ Balances(NetByBucket(txCode, ds), txCarry, a)
           /\ CarryShape(txCode, txYear + 1, a.carry)
  <1> DEFINE net == NetByBucket(txCode, ds)
             a == CarryoverFor(txCode, ds, txCarry, txYear)
  <1>1. net \in [BucketsOf(txCode) -> Int] BY NetIs
  <1>2. txCode \in {"US", "GB", "DE", "FR"} BY TaxAssumption
  <1>3. /\ txCode = "US" => a = ApplyCarryover(net, txCarry)
        /\ txCode = "GB" => a = ApplyCgtCarryover(net, txCarry)
        /\ txCode = "DE" => a = ApplyKestCarryover(net, txCarry)
        /\ txCode = "FR" => a = ApplyPfuCarryover(net, txCarry, txYear)
    BY DEF CarryoverFor
  <1> SUFFICES Balances(net, txCarry, a) /\ CarryShape(txCode, txYear + 1, a.carry)
    OBVIOUS
  <1> HIDE DEF a
  <1>4. CASE txCode = "US"
   <2>1. net \in [{"short", "long"} -> Int] /\ txCarry \in [{"short", "long"} -> Nat]
     BY <1>1, <1>4, Pots DEF CarryShape
   <2> HIDE DEF net
   <2>2. Balances(net, txCarry, a) /\ a.carry \in [{"short", "long"} -> Nat]
     BY <1>3, <1>4, <2>1, CarryoverSettles
   <2> QED BY <1>4, <2>2, Pots DEF CarryShape
  <1>5. CASE txCode = "GB"
   <2>1. net \in [{"all"} -> Int] /\ txCarry \in [{"all"} -> Nat] BY <1>1, <1>5, Pots DEF CarryShape
   <2> HIDE DEF net
   <2>2. Balances(net, txCarry, a) /\ a.carry \in [{"all"} -> Nat] BY <1>3, <1>5, <2>1, CgtSettles
   <2> QED BY <1>5, <2>2, Pots DEF CarryShape
  <1>6. CASE txCode = "DE"
   <2>1. /\ net \in [{"equity", "other"} -> Int] /\ txCarry \in [{"equity", "other"} -> Nat]
         /\ \A b \in {"equity", "other"} \ AssetKinds : txCarry[b] = 0
     BY <1>1, <1>6, Pots DEF CarryShape
   <2>2. PICK b \in {"equity", "other"} : b \notin AssetKinds
     BY <1>6 DEF OneGermanPot
   <2>3. \A x \in {"equity", "other"} \ AssetKinds : net[x] = 0
    <3> TAKE x \in {"equity", "other"} \ AssetKinds
    <3>1. \A i \in 1..n : PotOf(txCode, ds[i]) # x
     <4> TAKE i \in 1..n
     <4>1. ds[i].kind \in AssetKinds BY DEF Disposals
     <4>2. PotOf(txCode, ds[i]) = ds[i].kind BY <1>6 DEF PotOf
     <4> QED BY <4>1, <4>2
    <3>2. x \in BucketsOf(txCode) BY <1>6, Pots
    <3> QED BY <3>1, <3>2, NetIs
   <2> HIDE DEF net
   <2>4. net[b] = 0 /\ txCarry[b] = 0 BY <2>1, <2>2, <2>3
   <2>5. /\ Balances(net, txCarry, a) /\ a.carry \in [{"equity", "other"} -> Nat] /\ a.carry[b] = 0
     BY <1>3, <1>6, <2>1, <2>4, KestSettles
   <2>6. \A x \in {"equity", "other"} \ AssetKinds : a.carry[x] = 0
    <3> TAKE x \in {"equity", "other"} \ AssetKinds
    <3>1. net[x] = 0 /\ txCarry[x] = 0 BY <2>1, <2>3
    <3> QED BY <1>3, <1>6, <2>1, <3>1, KestSettles
   <2> QED BY <1>6, <2>5, <2>6, Pots DEF CarryShape
  <1>7. CASE txCode = "FR"
   <2>1. /\ net \in [{"all"} -> Int] /\ IsFiniteSet(DOMAIN txCarry)
         /\ \A y \in DOMAIN txCarry : y \in Int /\ y < txYear /\ txCarry[y] \in Nat
     BY <1>1, <1>7, Pots DEF CarryShape
   <2> HIDE DEF net
   <2>2. a = ApplyPfuCarryover(net, txCarry, txYear) BY <1>3, <1>7
   <2>3. /\ Balances(net, txCarry, a) /\ IsFiniteSet(DOMAIN a.carry)
         /\ \A y \in DOMAIN a.carry : y \in Int /\ y <= txYear /\ a.carry[y] \in Nat
     BY <2>1, <2>2, PfuSettles
   <2>4. \A y \in DOMAIN a.carry : y \in Int /\ y < txYear + 1 /\ a.carry[y] \in Nat BY <2>3
   <2> QED BY <1>7, <2>3, <2>4 DEF CarryShape
  <1> QED BY <1>2, <1>4, <1>5, <1>6, <1>7

(* A closed year keeps the balance of losses. *)
LEMMA CloseYearStep ==
    ASSUME OneGermanPot, TaxInv, NEW n \in Nat, NEW ds \in [1..n -> Disposals], CloseYear(ds)
    PROVE  TaxInv'
  <1> DEFINE a == CarryoverFor(txCode, ds, txCarry, txYear)
             net == NetByBucket(txCode, ds)
  <1>1. /\ txYear' = txYear + 1 /\ txCarry' = a.carry /\ txTaxed' = a.taxed
        /\ txSum' = [made |-> txSum.made + LossesOf(net),
                     relieved |-> txSum.relieved + GainsOf(net) - a.taxed - a.allowance + a.deducted,
                     expired |-> txSum.expired + a.expired]
        /\ txCode' = txCode /\ txFutures' = txFutures
    BY DEF CloseYear, LossesOf, GainsOf
  <1>2. Balances(net, txCarry, a) /\ CarryShape(txCode, txYear + 1, a.carry)
    BY YearSettles DEF TaxInv
  <1>3. /\ txCode \in TaxCodes /\ txYear \in Int /\ txFutures \in Seq(Nat)
        /\ txSum.made \in Int /\ txSum.relieved \in Int /\ txSum.expired \in Int /\ SumOf(txCarry) \in Int
        /\ txSum.made = txSum.relieved + txSum.expired + SumOf(txCarry)
    BY DEF TaxInv
  <1> HIDE DEF a, net
  <1>4. /\ a.taxed \in Int /\ a.allowance \in Int /\ a.deducted \in Int /\ a.expired \in Int
        /\ GainsOf(net) \in Int /\ LossesOf(net) \in Int /\ SumOf(a.carry) \in Int
        /\ SumOf(a.carry) + GainsOf(net) - a.taxed - a.allowance + a.deducted + a.expired
             = SumOf(txCarry) + LossesOf(net)
        /\ a.taxed > 0 => SumOf(a.carry) = 0
    BY <1>2 DEF Balances
  <1>5. /\ txSum'.made = txSum.made + LossesOf(net)
        /\ txSum'.relieved = txSum.relieved + GainsOf(net) - a.taxed - a.allowance + a.deducted
        /\ txSum'.expired = txSum.expired + a.expired
        /\ txSum' = [made |-> txSum'.made, relieved |-> txSum'.relieved, expired |-> txSum'.expired]
    BY <1>1
  <1>6. SumOf(txCarry)' = SumOf(a.carry) BY <1>1
  <1>7. /\ txSum'.made \in Int /\ txSum'.relieved \in Int /\ txSum'.expired \in Int
        /\ txSum'.made = txSum'.relieved + txSum'.expired + SumOf(a.carry)
   <2> DEFINE g == GainsOf(net)  l == LossesOf(net)  q == SumOf(a.carry)  p == SumOf(txCarry)
              x == a.taxed  e == a.expired  w == a.allowance  d == a.deducted
   <2>1. /\ g \in Int /\ l \in Int /\ q \in Int /\ p \in Int /\ x \in Int /\ e \in Int /\ w \in Int /\ d \in Int
         /\ q + g - x - w + d + e = p + l /\ txSum.made = txSum.relieved + txSum.expired + p
         /\ txSum'.made = txSum.made + l /\ txSum'.relieved = txSum.relieved + g - x - w + d
         /\ txSum'.expired = txSum.expired + e
     BY <1>3, <1>4, <1>5
   <2> HIDE DEF g, l, q, p, x, e, w, d
   <2> DEFINE m == txSum.made  f == txSum.relieved  o == txSum.expired
              m1 == txSum'.made  f1 == txSum'.relieved  o1 == txSum'.expired
   <2>2. /\ m \in Int /\ f \in Int /\ o \in Int /\ m = f + o + p
         /\ m1 = m + l /\ f1 = f + g - x - w + d /\ o1 = o + e
     BY <1>3, <2>1
   <2> HIDE DEF m, f, o, m1, f1, o1
   <2>3. m1 \in Int /\ f1 \in Int /\ o1 \in Int /\ m1 = f1 + o1 + q BY <2>1, <2>2
   <2> QED BY <2>3 DEF m1, f1, o1, q
  <1>8. CarryShape(txCode, txYear, txCarry)' BY <1>1, <1>2 DEF CarryShape, BucketsOf
  <1> QED BY <1>1, <1>3, <1>4, <1>5, <1>6, <1>7, <1>8 DEF TaxInv

(* What a carryback takes of each year, and of all: no more than the loss, and no
   more of a year than it gained. *)
LEMMA CarrybackTakes ==
    ASSUME NEW loss \in Nat, NEW gains \in Seq(Nat)
    PROVE  LET t == Carryback(loss, gains) IN
           /\ DOMAIN t = 1..Len(gains)
           /\ \A y \in 1..Len(gains) : t[y] \in Nat /\ t[y] <= gains[y]
           /\ SumOf(t) \in Nat /\ SumOf(t) <= loss
  <1> DEFINE t == Carryback(loss, gains)
             E == {y \in 1..Len(gains) : y > Len(gains) - CarrybackYears}
             R == (1..Len(gains)) \ E
  <1>1. DOMAIN gains = 1..Len(gains) /\ Len(gains) \in Nat /\ CarrybackYears \in Nat
    BY TaxAssumption
  <1>2. /\ DOMAIN t = 1..Len(gains)
        /\ \A y \in 1..Len(gains) : t[y] = IF y \in E THEN TakenOf(gains, E, loss, y) ELSE 0
    BY <1>1 DEF Carryback, TakenOf, SumOn
  <1>3. IsFiniteSet(1..Len(gains)) /\ E \in SUBSET (1..Len(gains)) /\ E \subseteq Int
    BY <1>1, FS_Interval
  <1>4. IsFiniteSet(E) /\ IsFiniteSet(R) /\ E \cap R = {} /\ E \cup R = 1..Len(gains)
    BY <1>3, FS_Subset
  <1>5. \A y \in 1..Len(gains) : gains[y] \in Nat BY <1>1
  <1> HIDE DEF t, E, R
  <1>6. (\A y \in E : t[y] = TakenOf(gains, E, loss, y)) /\ \A y \in R : t[y] = 0
    BY <1>2, <1>3, <1>4
  <1>7. /\ SumOn(t, E) = Smaller(loss, SumOn(gains, E))
        /\ \A y \in E : t[y] \in Nat /\ t[y] <= gains[y]
   <2>1. \A y \in E : gains[y] \in Nat BY <1>3, <1>5
   <2> QED BY <1>3, <1>4, <1>6, <2>1, TakenInTurn
  <1>8. \A y \in 1..Len(gains) : t[y] \in Nat /\ t[y] <= gains[y] /\ t[y] \in Int
   <2> TAKE y \in 1..Len(gains)
   <2>1. CASE y \in E BY <1>7, <2>1
   <2>2. CASE y \in R
    <3>1. t[y] = 0 /\ gains[y] \in Nat BY <1>5, <1>6, <2>2
    <3> QED BY <3>1
   <2> QED BY <1>4, <2>1, <2>2
  <1>9. SumOf(t) = SumOn(t, E \cup R) BY <1>2, <1>4 DEF SumOf, SumOn
  <1>10. SumOn(t, E \cup R) = SumOn(t, E) + SumOn(t, R)
   <2>1. \A y \in E \cup R : t[y] \in Int BY <1>4, <1>8
   <2> QED BY <1>4, <2>1, SumParts
  <1>11. SumOn(t, R) = 0 BY <1>4, <1>6, SumZero
  <1>12. SumOn(gains, E) \in Nat
   <2>1. \A y \in E : gains[y] \in Nat BY <1>3, <1>5
   <2> QED BY <1>4, <2>1, SumNat
  <1>13. SumOf(t) = Smaller(loss, SumOn(gains, E))
   <2>1. Smaller(loss, SumOn(gains, E)) \in Nat BY <1>12 DEF Smaller
   <2> QED BY <1>7, <1>9, <1>10, <1>11, <2>1
  <1>14. Smaller(loss, SumOn(gains, E)) \in Nat /\ Smaller(loss, SumOn(gains, E)) <= loss
    BY <1>12 DEF Smaller
  <1> QED BY <1>2, <1>8, <1>13, <1>14 DEF t

(* So does a year of section 1256 contracts: what the carryback leaves of a loss
   joins the two terms, to the last unit. *)
LEMMA CloseFuturesStep ==
    ASSUME TaxInv, NEW net \in Int, CloseFutures(net)
    PROVE  TaxInv'
  <1> DEFINE lost == AtLeastZero(-net)
             t == Carryback(lost, txFutures)
             taken == SumOf(t)
             forward == lost - taken
             short == (2 * forward + 2) \div 5
             ps == txCarry["short"]
             pl == txCarry["long"]
             c == [short |-> ps + short, long |-> pl + forward - short]
             fs == Append([y \in DOMAIN txFutures |-> txFutures[y] - t[y]], AtLeastZero(net))
  <1>1. /\ txCode = "US" /\ txFutures' = fs
        /\ txCarry' = c /\ txSum' = [txSum EXCEPT !.made = @ + lost, !.relieved = @ + taken]
        /\ txTaxed' = 0 /\ txCode' = txCode /\ txYear' = txYear
    BY DEF CloseFutures
  <1>2. /\ txCode \in TaxCodes /\ txYear \in Int /\ txFutures \in Seq(Nat)
        /\ txSum.made \in Int /\ txSum.relieved \in Int /\ txSum.expired \in Int /\ SumOf(txCarry) \in Int
        /\ txSum = [made |-> txSum.made, relieved |-> txSum.relieved, expired |-> txSum.expired]
        /\ txSum.made = txSum.relieved + txSum.expired + SumOf(txCarry)
        /\ CarryShape(txCode, txYear, txCarry)
    BY DEF TaxInv
  <1>3. txCarry \in [{"short", "long"} -> Nat] BY <1>1, <1>2, Pots DEF CarryShape
  <1>4. ps \in Nat /\ pl \in Nat /\ SumOf(txCarry) = ps + pl
   <2>1. DOMAIN txCarry = {"short", "long"} /\ ps \in Nat /\ pl \in Nat BY <1>3
   <2> QED BY <2>1, SumOfTwo
  <1>5. lost \in Nat /\ AtLeastZero(net) \in Nat BY DEF AtLeastZero
  <1>6. /\ DOMAIN t = 1..Len(txFutures)
        /\ \A y \in 1..Len(txFutures) : t[y] \in Nat /\ t[y] <= txFutures[y]
        /\ taken \in Nat /\ taken <= lost
    BY <1>2, <1>5, CarrybackTakes
  <1>7. forward \in Nat BY <1>5, <1>6
  <1>8. short \in Nat /\ short <= forward
   <2> HIDE DEF forward
   <2> QED BY <1>7
  <1>9. fs \in Seq(Nat)
   <2> DEFINE rest == [y \in DOMAIN txFutures |-> txFutures[y] - t[y]]
   <2>1. DOMAIN txFutures = 1..Len(txFutures) /\ Len(txFutures) \in Nat BY <1>2
   <2>2. \A y \in 1..Len(txFutures) : txFutures[y] - t[y] \in Nat
    <3> TAKE y \in 1..Len(txFutures)
    <3>1. txFutures[y] \in Nat /\ t[y] \in Nat /\ t[y] <= txFutures[y] BY <1>2, <1>6, SMTT(30)
    <3> QED BY <3>1
   <2>3. rest \in [1..Len(txFutures) -> Nat] BY <2>1, <2>2
   <2>4. rest \in Seq(Nat) BY <2>1, <2>3
   <2> HIDE DEF rest
   <2>5. Append(rest, AtLeastZero(net)) \in Seq(Nat) BY <1>5, <2>4
   <2> QED BY <2>5 DEF rest
  <1> HIDE DEF fs, t, lost, taken, forward
  <1>10. DOMAIN c = {"short", "long"} /\ c["short"] = ps + short /\ c["long"] = pl + forward - short
    OBVIOUS
  <1> HIDE DEF short, ps, pl, c
  <1>11. c["short"] \in Nat /\ c["long"] \in Nat BY <1>4, <1>7, <1>8, <1>10
  <1>12. SumOf(c) = (ps + pl) + forward
   <2>1. SumOf(c) = c["short"] + c["long"] BY <1>10, <1>11, SumOfTwo
   <2> QED BY <1>4, <1>7, <1>8, <1>10, <2>1
  <1>13. c \in [{"short", "long"} -> Nat]
   <2>1. c = [b \in {"short", "long"} |-> c[b]] BY DEF c
   <2>2. \A b \in {"short", "long"} : c[b] \in Nat BY <1>11
   <2> QED BY <2>1, <2>2
  <1>14. /\ txSum'.made = txSum.made + lost /\ txSum'.relieved = txSum.relieved + taken
         /\ txSum'.expired = txSum.expired
         /\ txSum' = [made |-> txSum'.made, relieved |-> txSum'.relieved, expired |-> txSum'.expired]
   <2>1. /\ txSum' = [txSum EXCEPT !.made = txSum.made + lost, !.relieved = txSum.relieved + taken]
     BY <1>1
   <2>2. DOMAIN txSum = {"made", "relieved", "expired"} BY <1>2
   <2> HIDE DEF lost, taken
   <2> QED BY <2>1, <2>2
  <1>15. SumOf(txCarry)' = SumOf(c) BY <1>1
  <1>16. forward = lost - taken BY DEF forward
  <1>17. /\ txSum'.made \in Int /\ txSum'.relieved \in Int /\ txSum'.expired \in Int
         /\ SumOf(c) \in Int /\ txSum'.made = txSum'.relieved + txSum'.expired + SumOf(c)
   <2> DEFINE p == SumOf(txCarry)  n == SumOf(c)
              m == txSum.made  f == txSum.relieved  o == txSum.expired
              m1 == txSum'.made  f1 == txSum'.relieved  o1 == txSum'.expired
   <2>1. /\ m \in Int /\ f \in Int /\ o \in Int /\ p \in Int /\ m = f + o + p /\ p = ps + pl
         /\ m1 = m + lost /\ f1 = f + taken /\ o1 = o /\ n = (ps + pl) + forward
     BY <1>2, <1>4, <1>12, <1>14
   <2> HIDE DEF m, f, o, m1, f1, o1, n, p
   <2>2. n \in Int /\ m1 \in Int /\ f1 \in Int /\ o1 \in Int /\ m1 = f1 + o1 + n
     BY <1>4, <1>5, <1>6, <1>16, <2>1
   <2> QED BY <2>2 DEF m1, f1, o1, n
  <1>18. CarryShape(txCode, txYear, txCarry)' BY <1>1, <1>13, Pots DEF CarryShape
  <1>19. ~(txTaxed' > 0) BY <1>1
  <1> QED BY <1>1, <1>2, <1>9, <1>14, <1>15, <1>17, <1>18, <1>19 DEF TaxInv

(* Every step keeps the invariant. *)
LEMMA TaxSteps ==
    ASSUME OneGermanPot, TaxInv, [TaxNext]_txVars
    PROVE  TaxInv'
  <1>1. CASE TaxNext
   <2>1. ASSUME NEW n \in 0..2, NEW ds \in [1..n -> Disposals], CloseYear(ds) PROVE TaxInv'
    <3>1. n \in Nat OBVIOUS
    <3> QED BY <2>1, <3>1, CloseYearStep
   <2>2. ASSUME NEW net \in TaxResults, CloseFutures(net) PROVE TaxInv'
    <3>1. net \in Int BY TaxAssumption
    <3> QED BY <2>2, <3>1, CloseFuturesStep
   <2> QED BY <1>1, <2>1, <2>2 DEF TaxNext
  <1>2. CASE UNCHANGED txVars BY <1>2 DEF txVars, TaxInv, CarryShape
  <1> QED BY <1>1, <1>2

(* And it says of the losses what the runs check. *)
LEMMA TaxHolds == TaxInv => LossesUsedOnce
  <1> SUFFICES ASSUME TaxInv PROVE LossesUsedOnce
    OBVIOUS
  <1>1. \A b \in DOMAIN txCarry : txCarry[b] >= 0
   <2>1. \A b \in DOMAIN txCarry : txCarry[b] \in Nat BY DEF TaxInv, CarryShape
   <2> QED BY <2>1
  <1>2. \A y \in DOMAIN txFutures : txFutures[y] >= 0
   <2>1. \A y \in DOMAIN txFutures : txFutures[y] \in Nat BY DEF TaxInv
   <2> QED BY <2>1
  <1> QED BY <1>1, <1>2 DEF TaxInv, LossesUsedOnce

----------------------------------------
(* A loss is disallowed with the replacement it was matched with. *)

WashLot == [symbol : Tickers, price : Nat, day : Nat, left : Nat]
WashSale == [symbol : Tickers, size : Nat \ {0}, day : Nat, loss : Int]
WashInv == waLots \in Seq(WashLot) /\ waSales \in Seq(WashSale) /\ waDay \in Nat

(* Adjustments as <<sale, lot, shares, disallowed loss>>; what a column holds for the rows
   that name x in column k. *)
Adjustments == Nat \X Nat \X Nat \X Nat
Column(q, c) == [j \in DOMAIN q |-> q[j][c]]
Naming(q, k, x) == {j \in DOMAIN q : q[j][k] = x}
ColumnSum(q, c, k, x) == SumOn(Column(q, c), Naming(q, k, x))

(* Rounding to a whole unit adds half of one at most. *)
LEMMA QuantizedNear ==
    ASSUME NEW num \in Nat, NEW den \in Nat, den > 0
    PROVE  /\ Quantized(num, den) \in Nat
           /\ 2 * (den * Quantized(num, den)) <= 2 * num + den
  <1> DEFINE down == num \div den
             rem == num % den
  <1>1. down \in Nat /\ rem \in Nat /\ num = den * down + rem OBVIOUS
  <1>2. \/ Quantized(num, den) = down
        \/ Quantized(num, den) = down + 1 /\ 2 * rem >= den
    BY <1>1 DEF Quantized
  <1> HIDE DEF down, rem
  <1>3. CASE Quantized(num, den) = down
   <2>1. den * down \in Nat BY <1>1
   <2> DEFINE p == den * down
   <2> HIDE DEF p
   <2>2. 2 * p <= 2 * (p + rem) + den BY <1>1, <2>1 DEF p
   <2> QED BY <1>1, <1>3, <2>2 DEF p
  <1>4. CASE Quantized(num, den) = down + 1 /\ 2 * rem >= den
   <2>1. den * (down + 1) = den * down + den /\ den * down \in Nat BY <1>1
   <2> DEFINE p == den * down
   <2>2. p \in Nat /\ num = p + rem BY <1>1, <2>1
   <2> HIDE DEF p
   <2>3. 2 * (p + den) <= 2 * num + den BY <1>1, <1>4, <2>2
   <2> QED BY <1>1, <1>4, <2>1, <2>3 DEF p
  <1> QED BY <1>2, <1>3, <1>4

(* The fields of a row. *)
LEMMA AdjustmentFields ==
    ASSUME NEW q \in Seq(Adjustments)
    PROVE  /\ Len(q) \in Nat /\ DOMAIN q = 1..Len(q) /\ IsFiniteSet(DOMAIN q)
           /\ \A j \in DOMAIN q : q[j] \in Adjustments
           /\ \A j \in DOMAIN q, c \in 1..4 : q[j][c] \in Nat /\ Column(q, c)[j] = q[j][c]
  <1>1. Len(q) \in Nat /\ DOMAIN q = 1..Len(q) /\ \A j \in DOMAIN q : q[j] \in Adjustments OBVIOUS
  <1>2. IsFiniteSet(DOMAIN q) BY <1>1, FS_Interval
  <1>3. ASSUME NEW j \in DOMAIN q, NEW c \in 1..4 PROVE q[j][c] \in Nat /\ Column(q, c)[j] = q[j][c]
   <2>1. q[j] \in Adjustments BY <1>1
   <2>2. c = 1 \/ c = 2 \/ c = 3 \/ c = 4 OBVIOUS
   <2>3. q[j][1] \in Nat /\ q[j][2] \in Nat /\ q[j][3] \in Nat /\ q[j][4] \in Nat
     BY <2>1 DEF Adjustments
   <2>4. q[j][c] \in Nat BY <2>2, <2>3
   <2> QED BY <2>4 DEF Column
  <1> QED BY <1>1, <1>2, <1>3

(* A row more: it adds its field to what is held for those it names. *)
LEMMA AdjustmentAdded ==
    ASSUME NEW q \in Seq(Adjustments), NEW r \in Adjustments, NEW k \in 1..4, NEW x
    PROVE  /\ \A c \in 1..4 : /\ ColumnSum(q, c, k, x) \in Nat
                              /\ ColumnSum(Append(q, r), c, k, x) = ColumnSum(q, c, k, x) + (IF r[k] = x THEN r[c] ELSE 0)
           /\ IsFiniteSet(Naming(q, k, x)) /\ Cardinality(Naming(q, k, x)) \in Nat
           /\ Cardinality(Naming(Append(q, r), k, x))
                = Cardinality(Naming(q, k, x)) + (IF r[k] = x THEN 1 ELSE 0)
           /\ Append(q, r) \in Seq(Adjustments)
           /\ Naming(Append(q, r), k, x) = Naming(q, k, x) \cup (IF r[k] = x THEN {Len(q) + 1} ELSE {})
  <1> DEFINE p == Append(q, r)
             n == Len(q) + 1
             N == Naming(q, k, x)
             M == Naming(p, k, x)
  <1>1. /\ p \in Seq(Adjustments) /\ Len(q) \in Nat /\ DOMAIN q = 1..Len(q) /\ DOMAIN p = 1..n
        /\ p[n] = r /\ \A j \in 1..Len(q) : p[j] = q[j]
    OBVIOUS
  <1>2. DOMAIN p = DOMAIN q \cup {n} /\ n \notin DOMAIN q BY <1>1
  <1> HIDE DEF p, n
  <1>3. M = N \cup (IF r[k] = x THEN {n} ELSE {})
   <2>1. ASSUME NEW j PROVE j \in M <=> j \in N \cup (IF r[k] = x THEN {n} ELSE {})
    <3>1. CASE j \in DOMAIN q
     <4>1. p[j] = q[j] /\ j # n /\ j \in DOMAIN p BY <1>1, <1>2, <3>1
     <4> QED BY <3>1, <4>1 DEF Naming
    <3>2. CASE j = n
     <4>1. p[j] = r /\ j \in DOMAIN p /\ j \notin DOMAIN q BY <1>1, <1>2, <3>2
     <4> QED BY <3>2, <4>1 DEF Naming
    <3>3. CASE j \notin DOMAIN q /\ j # n
     <4>1. j \notin DOMAIN p BY <1>2, <3>3
     <4> QED BY <3>3, <4>1 DEF Naming
    <3> QED BY <3>1, <3>2, <3>3
   <2> QED BY <2>1
  <1>4. N \subseteq DOMAIN q /\ IsFiniteSet(N) /\ n \notin N
   <2>1. N \subseteq DOMAIN q BY DEF Naming
   <2> QED BY <1>2, <2>1, AdjustmentFields, FS_Subset
  <1>5. Cardinality(N) \in Nat BY <1>4, FS_CardinalityType
  <1>6. Cardinality(M) = Cardinality(N) + (IF r[k] = x THEN 1 ELSE 0)
   <2>1. CASE r[k] = x
    <3>1. M = N \cup {n} BY <1>3, <2>1
    <3>2. Cardinality(N \cup {n}) = Cardinality(N) + 1 BY <1>4, FS_AddElement
    <3> QED BY <2>1, <3>1, <3>2
   <2>2. CASE r[k] # x
    <3>1. M = N BY <1>3, <2>2
    <3> QED BY <1>5, <2>2, <3>1
   <2> QED BY <2>1, <2>2
  <1>7. ASSUME NEW c \in 1..4
        PROVE  /\ ColumnSum(q, c, k, x) \in Nat
               /\ ColumnSum(p, c, k, x) = ColumnSum(q, c, k, x) + (IF r[k] = x THEN r[c] ELSE 0)
   <2> DEFINE f == Column(q, c)
              g == Column(p, c)
   <2>1. \A j \in N : f[j] \in Nat /\ f[j] = q[j][c] /\ g[j] = f[j]
    <3> TAKE j \in N
    <3>1. j \in DOMAIN q /\ p[j] = q[j] /\ j \in DOMAIN p BY <1>1, <1>2, <1>4
    <3>2. f[j] = q[j][c] /\ f[j] \in Nat BY <3>1, AdjustmentFields
    <3>3. g[j] = p[j][c] BY <1>1, <3>1, AdjustmentFields
    <3> QED BY <3>1, <3>2, <3>3
   <2>2. g[n] = r[c] /\ r[c] \in Nat
    <3>1. n \in DOMAIN p /\ p[n] = r BY <1>1, <1>2
    <3> QED BY <1>1, <3>1, AdjustmentFields
   <2> HIDE DEF f, g, N, M
   <2>3. SumOn(f, N) \in Nat BY <1>4, <2>1, SumNat
   <2>4. SumOn(g, N) = SumOn(f, N) BY <1>4, <2>1, SumSame
   <2>5. CASE r[k] = x
    <3>1. M = N \cup {n} BY <1>3, <2>5
    <3>2. \A j \in N \cup {n} : g[j] \in Int
     <4> TAKE j \in N \cup {n}
     <4>1. CASE j \in N BY <2>1, <4>1
     <4>2. CASE j = n BY <2>2, <4>2
     <4> QED BY <4>1, <4>2
    <3>3. SumOn(g, N \cup {n}) = SumOn(g, N) + g[n] BY <1>4, <3>2, SumAdd
    <3> QED BY <2>2, <2>3, <2>4, <2>5, <3>1, <3>3 DEF ColumnSum, f, g, N, M
   <2>6. CASE r[k] # x
    <3>1. M = N BY <1>3, <2>6
    <3> QED BY <2>3, <2>4, <2>6, <3>1 DEF ColumnSum, f, g, N, M
   <2> QED BY <2>5, <2>6
  <1> QED BY <1>1, <1>3, <1>4, <1>5, <1>6, <1>7 DEF p, n

----------------------------------------
(* The matching loop. *)

MatchStart == [shares |-> [s \in DOMAIN waSales |-> waSales[s].size],
          loss |-> [s \in DOMAIN waSales |-> AboveZero(waSales[s].loss)],
          lots |-> [b \in DOMAIN waLots |-> waLots[b].left], adjusted |-> <<>>]
SaleAt(i) == ((i - 1) \div Len(waLots)) + 1
LotAt(i) == ((i - 1) % Len(waLots)) + 1

\* g tells the state of the loop after every round up to n.
Matches(g, n) ==
    g = [i \in 0..n |-> IF i = 0 THEN MatchStart ELSE Match(g[i - 1], SaleAt(i), LotAt(i))]

(* The loop can be run from its first round to its last. *)
LEMMA MatchesExist ==
    ASSUME NEW n \in Nat
    PROVE  \E g : Matches(g, n)
  <1> DEFINE Bad == {i \in Nat : ~ \E g : Matches(g, i)}
  <1> SUFFICES ASSUME Bad # {} PROVE FALSE
    BY SMT
  <1>1. PICK m \in Bad : \A i \in Bad : m <= i
   <2>1. Bad \subseteq Nat OBVIOUS
   <2> HIDE DEF Bad
   <2> QED BY <2>1, LeastNatural
  <1>2. m # 0
   <2> DEFINE g == [i \in 0..0 |-> MatchStart]
   <2>1. Matches(g, 0) BY DEF Matches
   <2> QED BY <2>1
  <1>3. PICK g : Matches(g, m - 1)
    BY <1>1, <1>2
  <1> DEFINE h == [i \in 0..m |-> IF i < m THEN g[i] ELSE Match(g[m - 1], SaleAt(m), LotAt(m))]
  <1>4. Matches(h, m)
   <2> DEFINE step(f, i) == IF i = 0 THEN MatchStart ELSE Match(f[i - 1], SaleAt(i), LotAt(i))
   <2>1. ASSUME NEW i \in 0..m, i < m PROVE h[i] = step(h, i)
    <3>1. i \in 0..(m - 1) BY <2>1
    <3>2. g[i] = step(g, i) BY <1>3, <3>1 DEF Matches
    <3>3. i # 0 => i - 1 \in 0..m /\ i - 1 < m BY <2>1
    <3>4. h[i] = g[i] /\ (i # 0 => h[i - 1] = g[i - 1]) BY <2>1, <3>3
    <3> HIDE DEF h
    <3> QED BY <3>2, <3>4
   <2>2. h[m] = step(h, m) BY <1>1, <1>2
   <2>3. ASSUME NEW i \in 0..m
         PROVE  h[i] = step(h, i)
    <3>1. i < m \/ i = m BY <1>1
    <3> HIDE DEF h, step
    <3> QED BY <3>1, <2>1, <2>2
   <2>4. h = [i \in 0..m |-> h[i]] OBVIOUS
   <2> HIDE DEF h
   <2> QED BY <2>3, <2>4 DEF Matches
  <1> QED BY <1>1, <1>4

(* What the loop keeps: shares of a lot are free or given to a sale, shares of a sale
   are unmatched or have a replacement, a loss is allowed or disallowed, and rounding adds
   half a unit to an adjustment at most. *)
MatchType(m) ==
    /\ m.shares \in [DOMAIN waSales -> Nat] /\ m.loss \in [DOMAIN waSales -> Int]
    /\ m.lots \in [DOMAIN waLots -> Nat] /\ m.adjusted \in Seq(Adjustments)
LotKept(m, b) == m.lots[b] + ColumnSum(m.adjusted, 3, 2, b) = waLots[b].left
SaleKept(m, s) ==
    /\ m.shares[s] + ColumnSum(m.adjusted, 3, 1, s) = waSales[s].size
    /\ m.loss[s] + ColumnSum(m.adjusted, 4, 1, s) = AboveZero(waSales[s].loss)
    /\ 2 * (waSales[s].size * ColumnSum(m.adjusted, 4, 1, s))
         <= 2 * (AboveZero(waSales[s].loss) * ColumnSum(m.adjusted, 3, 1, s))
            + waSales[s].size * Cardinality(Naming(m.adjusted, 1, s))
AdjustmentRight(r) ==
    /\ r[1] \in DOMAIN waSales /\ r[2] \in DOMAIN waLots
    /\ waSales[r[1]].loss > 0 /\ Replaces(waLots[r[2]], waSales[r[1]])
MatchInv(m) ==
    /\ MatchType(m)
    /\ \A b \in DOMAIN waLots : LotKept(m, b)
    /\ \A s \in DOMAIN waSales : SaleKept(m, s)
    /\ \A j \in DOMAIN m.adjusted : AdjustmentRight(m.adjusted[j])
\* Nothing more can be matched between a sale and a lot.
Settled(m, s, b) ==
    m.shares[s] = 0 \/ m.loss[s] <= 0 \/ m.lots[b] = 0 \/ ~Replaces(waLots[b], waSales[s])

(* The fields of lots and sales. *)
LEMMA WashFields ==
    ASSUME WashInv
    PROVE  /\ Len(waLots) \in Nat /\ DOMAIN waLots = 1..Len(waLots)
           /\ Len(waSales) \in Nat /\ DOMAIN waSales = 1..Len(waSales)
           /\ \A b \in DOMAIN waLots : /\ waLots[b] \in WashLot /\ waLots[b].left \in Nat
                                       /\ waLots[b].day \in Nat /\ waLots[b].price \in Nat
           /\ \A s \in DOMAIN waSales : /\ waSales[s].size \in Nat /\ waSales[s].size > 0
                                        /\ waSales[s].day \in Nat /\ waSales[s].loss \in Int
                                        /\ AboveZero(waSales[s].loss) \in Nat
  <1>1. waLots \in Seq(WashLot) /\ waSales \in Seq(WashSale) BY DEF WashInv
  <1>2. /\ Len(waLots) \in Nat /\ DOMAIN waLots = 1..Len(waLots)
        /\ Len(waSales) \in Nat /\ DOMAIN waSales = 1..Len(waSales)
        /\ (\A b \in DOMAIN waLots : waLots[b] \in WashLot) /\ \A s \in DOMAIN waSales : waSales[s] \in WashSale
    BY <1>1
  <1>3. ASSUME NEW b \in DOMAIN waLots
        PROVE  waLots[b].left \in Nat /\ waLots[b].day \in Nat /\ waLots[b].price \in Nat
   <2>1. waLots[b] \in WashLot BY <1>2
   <2> QED BY <2>1 DEF WashLot
  <1>4. ASSUME NEW s \in DOMAIN waSales
        PROVE  /\ waSales[s].size \in Nat /\ waSales[s].size > 0
               /\ waSales[s].day \in Nat /\ waSales[s].loss \in Int /\ AboveZero(waSales[s].loss) \in Nat
   <2>1. waSales[s] \in WashSale BY <1>2
   <2>2. waSales[s].size \in Nat /\ waSales[s].size > 0 /\ waSales[s].day \in Nat /\ waSales[s].loss \in Int
     BY <2>1 DEF WashSale
   <2> QED BY <2>2 DEF AboveZero
  <1> QED BY <1>2, <1>3, <1>4

(* Before the first round nothing is matched. *)
LEMMA MatchStarts ==
    ASSUME WashInv PROVE MatchInv(MatchStart)
  <1> DEFINE q == <<>>
  <1>1. q \in Seq(Adjustments) /\ DOMAIN q = {} OBVIOUS
  <1>2. ASSUME NEW k \in 1..4, NEW x
        PROVE  Naming(q, k, x) = {} /\ \A c \in 1..4 : ColumnSum(q, c, k, x) = 0
   <2>1. Naming(q, k, x) = {} BY <1>1 DEF Naming
   <2> HIDE DEF q
   <2> QED BY <2>1, SumEmpty DEF ColumnSum
  <1>3. Cardinality({}) = 0 BY FS_EmptySet
  <1>4. /\ MatchStart.adjusted = q
        /\ MatchStart.shares = [s \in DOMAIN waSales |-> waSales[s].size]
        /\ MatchStart.loss = [s \in DOMAIN waSales |-> AboveZero(waSales[s].loss)]
        /\ MatchStart.lots = [b \in DOMAIN waLots |-> waLots[b].left]
    BY DEF MatchStart
  <1> HIDE DEF q
  <1>5. MatchType(MatchStart) BY <1>1, <1>4, WashFields DEF MatchType
  <1>6. ASSUME NEW b \in DOMAIN waLots PROVE LotKept(MatchStart, b)
   <2>1. MatchStart.lots[b] = waLots[b].left /\ waLots[b].left \in Nat BY <1>4, WashFields
   <2>2. ColumnSum(q, 3, 2, b) = 0 BY <1>2
   <2> QED BY <1>4, <2>1, <2>2 DEF LotKept
  <1>7. ASSUME NEW s \in DOMAIN waSales PROVE SaleKept(MatchStart, s)
   <2>1. /\ MatchStart.shares[s] = waSales[s].size /\ MatchStart.loss[s] = AboveZero(waSales[s].loss)
         /\ waSales[s].size \in Nat /\ AboveZero(waSales[s].loss) \in Nat
     BY <1>4, WashFields
   <2>2. ColumnSum(q, 3, 1, s) = 0 /\ ColumnSum(q, 4, 1, s) = 0 /\ Cardinality(Naming(q, 1, s)) = 0
     BY <1>2, <1>3
   <2> QED BY <1>4, <2>1, <2>2 DEF SaleKept
  <1>8. \A j \in DOMAIN MatchStart.adjusted : AdjustmentRight(MatchStart.adjusted[j]) BY <1>1, <1>4
  <1> QED BY <1>5, <1>6, <1>7, <1>8 DEF MatchInv

\* A round that matches n shares of a sale with a lot and disallows d of its loss.
Taking(m, w, s, b, n, d) ==
    /\ n > 0 /\ n <= m.shares[s] /\ n <= m.lots[b] /\ (n = m.shares[s] \/ n = m.lots[b])
    /\ Replaces(waLots[b], waSales[s])
    /\ waSales[s].loss > 0 /\ AboveZero(waSales[s].loss) = waSales[s].loss
    /\ 2 * (waSales[s].size * d) <= 2 * (waSales[s].loss * n) + waSales[s].size
    /\ w.shares = [m.shares EXCEPT ![s] = m.shares[s] - n]
    /\ w.loss = [m.loss EXCEPT ![s] = m.loss[s] - d]
    /\ w.lots = [m.lots EXCEPT ![b] = m.lots[b] - n]
    /\ w.adjusted = Append(m.adjusted, <<s, b, n, d>>)

(* What one round does: nothing, or it matches as many shares as both have. *)
LEMMA MatchDoes ==
    ASSUME WashInv, NEW m, MatchInv(m), NEW s \in DOMAIN waSales, NEW b \in DOMAIN waLots
    PROVE  LET w == Match(m, s, b) IN
           (w = m /\ Settled(m, s, b)) \/ \E n, d \in Nat : Taking(m, w, s, b, n, d)
  <1> DEFINE n == Lesser(m.shares[s], m.lots[b])
             d == Quantized(waSales[s].loss * n, waSales[s].size)
             w == Match(m, s, b)
  <1>1. MatchType(m) /\ SaleKept(m, s) BY DEF MatchInv
  <1>2. m.shares[s] \in Nat /\ m.lots[b] \in Nat /\ m.loss[s] \in Int BY <1>1 DEF MatchType
  <1>3. n \in Nat /\ n <= m.shares[s] /\ n <= m.lots[b] /\ (n = m.shares[s] \/ n = m.lots[b])
    BY <1>2 DEF Lesser
  <1>4. ASSUME n <= 0 \/ m.loss[s] <= 0 \/ ~Replaces(waLots[b], waSales[s])
        PROVE  w = m /\ Settled(m, s, b)
   <2>1. w = m BY <1>4 DEF Match
   <2>2. n <= 0 => m.shares[s] = 0 \/ m.lots[b] = 0
    <3> HIDE DEF n
    <3> QED BY <1>2, <1>3
   <2>3. Settled(m, s, b) BY <1>4, <2>2 DEF Settled
   <2> QED BY <2>1, <2>3
  <1>5. ASSUME n > 0 /\ m.loss[s] > 0 /\ Replaces(waLots[b], waSales[s])
        PROVE  n \in Nat /\ d \in Nat /\ Taking(m, w, s, b, n, d)
   <2>1. w = [m EXCEPT !.shares[s] = m.shares[s] - n, !.loss[s] = m.loss[s] - d,
                       !.lots[b] = m.lots[b] - n, !.adjusted = Append(m.adjusted, <<s, b, n, d>>)]
     BY <1>2, <1>3, <1>5 DEF Match
   <2>2. waSales[s].loss > 0 /\ AboveZero(waSales[s].loss) = waSales[s].loss
    <3>1. ColumnSum(m.adjusted, 4, 1, s) \in Nat
     <4>1. m.adjusted \in Seq(Adjustments) /\ <<0, 0, 0, 0>> \in Adjustments
       BY <1>1 DEF MatchType, Adjustments
     <4> QED BY <4>1, AdjustmentAdded
    <3>2. m.loss[s] + ColumnSum(m.adjusted, 4, 1, s) = AboveZero(waSales[s].loss)
      BY <1>1 DEF SaleKept
    <3>3. waSales[s].loss \in Int BY WashFields
    <3>4. AboveZero(waSales[s].loss) > 0 BY <1>2, <1>5, <3>1, <3>2
    <3> QED BY <3>3, <3>4 DEF AboveZero
   <2>3. d \in Nat /\ 2 * (waSales[s].size * d) <= 2 * (waSales[s].loss * n) + waSales[s].size
    <3>1. waSales[s].loss \in Nat /\ waSales[s].size \in Nat /\ waSales[s].size > 0
      BY <2>2, WashFields
    <3> DEFINE x == waSales[s].loss * n
    <3>2. x \in Nat BY <1>3, <3>1
    <3> HIDE DEF x
    <3>3. d = Quantized(x, waSales[s].size) BY DEF x
    <3>4. 2 * (waSales[s].size * d) <= 2 * x + waSales[s].size BY <3>1, <3>2, <3>3, QuantizedNear
    <3>5. d \in Nat BY <3>1, <3>2, <3>3, QuantizedNear
    <3> HIDE DEF d
    <3> QED BY <3>4, <3>5 DEF x
   <2> HIDE DEF n, d, w
   <2>4. /\ w.shares = [m.shares EXCEPT ![s] = m.shares[s] - n]
         /\ w.loss = [m.loss EXCEPT ![s] = m.loss[s] - d]
         /\ w.lots = [m.lots EXCEPT ![b] = m.lots[b] - n]
         /\ w.adjusted = Append(m.adjusted, <<s, b, n, d>>)
     BY <2>1
   <2> QED BY <1>3, <1>5, <2>2, <2>3, <2>4 DEF Taking
  <1>6. (n <= 0 \/ m.loss[s] <= 0 \/ ~Replaces(waLots[b], waSales[s]))
        \/ (n > 0 /\ m.loss[s] > 0 /\ Replaces(waLots[b], waSales[s]))
   <2> HIDE DEF n
   <2> QED BY <1>2, <1>3
  <1>7. (w = m /\ Settled(m, s, b)) \/ (n \in Nat /\ d \in Nat /\ Taking(m, w, s, b, n, d))
    BY <1>4, <1>5, <1>6
  <1> HIDE DEF n, d, w
  <1>8. (w = m /\ Settled(m, s, b)) \/ \E x, y \in Nat : Taking(m, w, s, b, x, y) BY <1>7
  <1> QED BY <1>8 DEF w

(* A round keeps what the loop keeps, settles its pair, and unsettles none. *)
LEMMA MatchKeeps ==
    ASSUME WashInv, NEW m, MatchInv(m), NEW s \in DOMAIN waSales, NEW b \in DOMAIN waLots
    PROVE  LET w == Match(m, s, b) IN
           /\ MatchInv(w) /\ Settled(w, s, b)
           /\ \A x \in DOMAIN waSales, y \in DOMAIN waLots : Settled(m, x, y) => Settled(w, x, y)
  <1> DEFINE w == Match(m, s, b)
             size == waSales[s].size
             loss == waSales[s].loss
             q == m.adjusted
  <1>a. ASSUME w = m, Settled(m, s, b)
        PROVE  /\ MatchInv(w) /\ Settled(w, s, b)
               /\ \A x \in DOMAIN waSales, y \in DOMAIN waLots : Settled(m, x, y) => Settled(w, x, y)
    BY <1>a
  <1>b. (w = m /\ Settled(m, s, b)) \/ \E n, d \in Nat : Taking(m, w, s, b, n, d) BY MatchDoes
  <1> HIDE DEF w
  <1>c. SUFFICES ASSUME \E n, d \in Nat : Taking(m, w, s, b, n, d)
               PROVE  /\ MatchInv(w) /\ Settled(w, s, b)
                      /\ \A x \in DOMAIN waSales, y \in DOMAIN waLots : Settled(m, x, y) => Settled(w, x, y)
    BY <1>a, <1>b DEF w
  <1>0. PICK n, d \in Nat : Taking(m, w, s, b, n, d)
    BY <1>c
  <1>1. /\ n > 0 /\ n <= m.shares[s] /\ n <= m.lots[b] /\ (n = m.shares[s] \/ n = m.lots[b])
        /\ Replaces(waLots[b], waSales[s])
        /\ loss > 0 /\ AboveZero(loss) = loss
        /\ 2 * (size * d) <= 2 * (loss * n) + size
        /\ w.shares = [m.shares EXCEPT ![s] = m.shares[s] - n]
        /\ w.loss = [m.loss EXCEPT ![s] = m.loss[s] - d]
        /\ w.lots = [m.lots EXCEPT ![b] = m.lots[b] - n]
        /\ w.adjusted = Append(q, <<s, b, n, d>>)
    BY <1>0 DEF Taking
  <1> DEFINE r == <<s, b, n, d>>
             p == Append(q, r)
  <1>2. /\ m.shares \in [DOMAIN waSales -> Nat] /\ m.loss \in [DOMAIN waSales -> Int]
        /\ m.lots \in [DOMAIN waLots -> Nat] /\ q \in Seq(Adjustments)
    BY DEF MatchInv, MatchType
  <1>3. s \in Nat /\ b \in Nat /\ r \in Adjustments /\ r[1] = s /\ r[2] = b /\ r[3] = n /\ r[4] = d
    BY WashFields DEF Adjustments
  <1> HIDE DEF w, q, r, p
  <1>41. ASSUME NEW x \in DOMAIN waSales
         PROVE  /\ w.shares[x] = (IF x = s THEN m.shares[s] - n ELSE m.shares[x])
                /\ w.loss[x] = (IF x = s THEN m.loss[s] - d ELSE m.loss[x])
                /\ w.shares[x] \in Nat /\ w.loss[x] \in Int /\ w.shares[x] <= m.shares[x] /\ w.loss[x] <= m.loss[x]
                /\ m.shares[x] \in Nat /\ m.loss[x] \in Int
   <2> DEFINE f == m.shares  g == m.loss  f1 == w.shares  g1 == w.loss
   <2>1. /\ f \in [DOMAIN waSales -> Nat] /\ g \in [DOMAIN waSales -> Int]
         /\ f1 = [f EXCEPT ![s] = f[s] - n] /\ g1 = [g EXCEPT ![s] = g[s] - d] /\ n > 0 /\ n <= f[s]
     BY <1>1, <1>2
   <2> HIDE DEF f, g, f1, g1
   <2>2. f[x] \in Nat /\ g[x] \in Int /\ f[s] \in Nat /\ g[s] \in Int BY <2>1
   <2>3. f1[x] = (IF x = s THEN f[s] - n ELSE f[x]) /\ g1[x] = (IF x = s THEN g[s] - d ELSE g[x])
     BY <2>1
   <2>4. f1[x] \in Nat /\ g1[x] \in Int /\ f1[x] <= f[x] /\ g1[x] <= g[x] BY <2>1, <2>2, <2>3
   <2> QED BY <2>2, <2>3, <2>4 DEF f, g, f1, g1
  <1>42. ASSUME NEW y \in DOMAIN waLots
         PROVE  /\ w.lots[y] = (IF y = b THEN m.lots[b] - n ELSE m.lots[y])
                /\ w.lots[y] \in Nat /\ m.lots[y] \in Nat /\ w.lots[y] <= m.lots[y]
   <2> DEFINE f == m.lots  f1 == w.lots
   <2>1. /\ f \in [DOMAIN waLots -> Nat] /\ f1 = [f EXCEPT ![b] = f[b] - n] /\ n > 0 /\ n <= f[b]
     BY <1>1, <1>2
   <2> HIDE DEF f, f1
   <2>2. f[y] \in Nat /\ f[b] \in Nat /\ f1[y] = (IF y = b THEN f[b] - n ELSE f[y]) BY <2>1
   <2>3. f1[y] \in Nat /\ f1[y] <= f[y] BY <2>1, <2>2
   <2> QED BY <2>2, <2>3 DEF f, f1
  <1>4. /\ \A x \in DOMAIN waSales : /\ w.shares[x] = (IF x = s THEN m.shares[s] - n ELSE m.shares[x])
                                     /\ w.loss[x] = (IF x = s THEN m.loss[s] - d ELSE m.loss[x])
                                     /\ w.shares[x] \in Nat /\ w.loss[x] \in Int
                                     /\ m.shares[x] \in Nat /\ m.loss[x] \in Int
        /\ \A y \in DOMAIN waLots : /\ w.lots[y] = (IF y = b THEN m.lots[b] - n ELSE m.lots[y])
                                    /\ w.lots[y] \in Nat /\ m.lots[y] \in Nat
    BY <1>41, <1>42
  <1>5. w.adjusted = p /\ p \in Seq(Adjustments)
   <2>1. w.adjusted = p BY <1>1 DEF p, r
   <2>2. Append(q, r) \in Seq(Adjustments) BY <1>2, <1>3
   <2> QED BY <2>1, <2>2 DEF p
  <1>6. MatchType(w)
   <2>1. w.shares = [x \in DOMAIN waSales |-> w.shares[x]] /\ w.loss = [x \in DOMAIN waSales |-> w.loss[x]]
         /\ w.lots = [y \in DOMAIN waLots |-> w.lots[y]]
     BY <1>1, <1>2
   <2>2. w.shares \in [DOMAIN waSales -> Nat] BY <1>4, <2>1
   <2>3. w.loss \in [DOMAIN waSales -> Int] BY <1>4, <2>1
   <2>4. w.lots \in [DOMAIN waLots -> Nat] BY <1>4, <2>1
   <2> QED BY <1>5, <2>2, <2>3, <2>4 DEF MatchType
  <1>7. ASSUME NEW y \in DOMAIN waLots PROVE LotKept(w, y)
   <2>1. /\ ColumnSum(q, 3, 2, y) \in Nat /\ ColumnSum(p, 3, 2, y) = ColumnSum(q, 3, 2, y) + (IF b = y THEN n ELSE 0)
     BY <1>2, <1>3, AdjustmentAdded, SMTT(30) DEF p
   <2>2. m.lots[y] + ColumnSum(q, 3, 2, y) = waLots[y].left BY DEF MatchInv, LotKept, q
   <2>3. w.lots[y] + ColumnSum(p, 3, 2, y) = waLots[y].left
    <3>1. CASE y = b BY <1>1, <1>4, <2>1, <2>2, <3>1
    <3>2. CASE y # b BY <1>4, <2>1, <2>2, <3>2
    <3> QED BY <3>1, <3>2
   <2> QED BY <1>5, <2>3 DEF LotKept
  <1>8. ASSUME NEW x \in DOMAIN waSales PROVE SaleKept(w, x)
   <2> DEFINE h3 == ColumnSum(q, 3, 1, x)
              h4 == ColumnSum(q, 4, 1, x)
              k == Cardinality(Naming(q, 1, x))
              sz == waSales[x].size
              l == AboveZero(waSales[x].loss)
   <2>1. /\ h3 \in Nat /\ ColumnSum(p, 3, 1, x) = h3 + (IF s = x THEN n ELSE 0)
         /\ h4 \in Nat /\ ColumnSum(p, 4, 1, x) = h4 + (IF s = x THEN d ELSE 0)
         /\ k \in Nat /\ Cardinality(Naming(p, 1, x)) = k + (IF s = x THEN 1 ELSE 0)
    <3>1. /\ k \in Nat /\ Cardinality(Naming(p, 1, x)) = k + (IF s = x THEN 1 ELSE 0)
          /\ \A c \in 1..4 : /\ ColumnSum(q, c, 1, x) \in Nat
                             /\ ColumnSum(p, c, 1, x) = ColumnSum(q, c, 1, x) + (IF s = x THEN r[c] ELSE 0)
      BY <1>2, <1>3, AdjustmentAdded DEF p
    <3>2. 3 \in 1..4 /\ 4 \in 1..4 OBVIOUS
    <3> QED BY <1>3, <3>1, <3>2
   <2>2. m.shares[x] + h3 = sz /\ m.loss[x] + h4 = l /\ 2 * (sz * h4) <= 2 * (l * h3) + sz * k
     BY DEF MatchInv, SaleKept, q
   <2>3. sz \in Nat /\ l \in Nat BY WashFields
   <2>4. CASE x = s
    <3>1. /\ ColumnSum(p, 3, 1, x) = h3 + n /\ ColumnSum(p, 4, 1, x) = h4 + d /\ Cardinality(Naming(p, 1, x)) = k + 1
          /\ w.shares[x] = m.shares[x] - n /\ w.loss[x] = m.loss[x] - d
          /\ m.shares[x] \in Nat /\ m.loss[x] \in Int
      BY <1>4, <2>1, <2>4
    <3>2. 2 * (sz * d) <= 2 * (l * n) + sz BY <1>1, <2>4
    <3> HIDE DEF h3, h4, k, sz, l
    <3>3. sz * (h4 + d) = sz * h4 + sz * d /\ sz * h4 \in Int /\ sz * d \in Int BY <1>1, <2>1, <2>3
    <3>4. l * (h3 + n) = l * h3 + l * n /\ l * h3 \in Int /\ l * n \in Int BY <1>1, <2>1, <2>3
    <3>5. sz * (k + 1) = sz * k + sz /\ sz * k \in Int BY <2>1, <2>3
    <3>6. 2 * (sz * (h4 + d)) <= 2 * (l * (h3 + n)) + sz * (k + 1)
     <4> DEFINE a1 == sz * h4  a2 == sz * d  b1 == l * h3  b2 == l * n  c1 == sz * k
                a3 == sz * (h4 + d)  b3 == l * (h3 + n)  c3 == sz * (k + 1)
     <4>1. /\ a3 = a1 + a2 /\ b3 = b1 + b2 /\ c3 = c1 + sz
           /\ a1 \in Int /\ a2 \in Int /\ b1 \in Int /\ b2 \in Int /\ c1 \in Int
           /\ 2 * a1 <= 2 * b1 + c1 /\ 2 * a2 <= 2 * b2 + sz
       BY <2>2, <3>2, <3>3, <3>4, <3>5
     <4> HIDE DEF a1, a2, b1, b2, c1, a3, b3, c3
     <4>2. 2 * a3 <= 2 * b3 + c3 BY <2>3, <4>1
     <4> QED BY <4>2 DEF a3, b3, c3
    <3>7. w.shares[x] + (h3 + n) = sz /\ w.loss[x] + (h4 + d) = l BY <2>1, <2>2, <3>1
    <3> QED BY <1>5, <3>1, <3>6, <3>7 DEF SaleKept, sz, l
   <2>5. CASE x # s
    <3>1. /\ ColumnSum(p, 3, 1, x) = h3 /\ ColumnSum(p, 4, 1, x) = h4 /\ Cardinality(Naming(p, 1, x)) = k
          /\ w.shares[x] = m.shares[x] /\ w.loss[x] = m.loss[x]
      BY <1>4, <2>1, <2>5
    <3> QED BY <1>5, <2>2, <3>1 DEF SaleKept
   <2> QED BY <2>4, <2>5
  <1>9. \A j \in DOMAIN w.adjusted : AdjustmentRight(w.adjusted[j])
   <2> SUFFICES ASSUME NEW j \in DOMAIN p PROVE AdjustmentRight(p[j])
     BY <1>5
   <2>1. Len(q) \in Nat /\ DOMAIN q = 1..Len(q) /\ DOMAIN p = 1..(Len(q) + 1) /\ p[Len(q) + 1] = r
         /\ \A i \in 1..Len(q) : p[i] = q[i]
     BY <1>2, <1>3 DEF p
   <2>2. CASE j = Len(q) + 1
    <3>1. p[j] = r BY <2>1, <2>2
    <3> QED BY <1>1, <1>3, <3>1 DEF AdjustmentRight
   <2>3. CASE j # Len(q) + 1
    <3>1. j \in DOMAIN q /\ p[j] = q[j] BY <2>1, <2>3
    <3> QED BY <3>1 DEF MatchInv, q
   <2> QED BY <2>2, <2>3
  <1>10. Settled(w, s, b)
   <2>1. w.shares[s] = 0 \/ w.lots[b] = 0 BY <1>1, <1>4
   <2> QED BY <2>1 DEF Settled
  <1>11. ASSUME NEW x \in DOMAIN waSales, NEW y \in DOMAIN waLots, Settled(m, x, y) PROVE Settled(w, x, y)
   <2>1. w.shares[x] <= m.shares[x] /\ w.loss[x] <= m.loss[x] /\ w.lots[y] <= m.lots[y]
     BY <1>41, <1>42
   <2>2. /\ m.shares[x] = 0 => w.shares[x] = 0
         /\ m.loss[x] <= 0 => w.loss[x] <= 0
         /\ m.lots[y] = 0 => w.lots[y] = 0
     BY <1>4, <2>1
   <2> QED BY <1>11, <2>2 DEF Settled
  <1> QED BY <1>6, <1>7, <1>8, <1>9, <1>10, <1>11 DEF MatchInv

(* A multiple of more is more. *)
LEMMA MoreTimes ==
    ASSUME NEW x \in Nat, NEW y \in Nat, NEW n \in Nat, x <= y
    PROVE  x * n \in Nat /\ y * n \in Nat /\ x * n <= y * n
  <1>1. PICK d \in Nat : y = x + d
   <2>1. y - x \in Nat /\ y = x + (y - x) OBVIOUS
   <2> QED BY <2>1
  <1>2. (x + d) * n = x * n + d * n /\ x * n \in Nat /\ d * n \in Nat OBVIOUS
  <1> QED BY <1>1, <1>2

(* A round belongs to one pair of a sale and a lot. *)
LEMMA RoundOfPair ==
    ASSUME NEW n \in Nat, n > 0, NEW x \in Nat, NEW y \in Nat, NEW i \in 1..n, NEW j \in 1..n,
           x * n + i = y * n + j
    PROVE  x = y /\ i = j
  <1>1. ASSUME NEW u \in Nat, NEW v \in Nat, NEW k \in 1..n, NEW l \in 1..n, u < v
        PROVE  u * n + k < v * n + l
   <2>1. u + 1 <= v /\ u + 1 \in Nat BY <1>1
   <2>2. (u + 1) * n <= v * n /\ v * n \in Nat BY <2>1, MoreTimes
   <2>3. (u + 1) * n = u * n + n /\ u * n \in Nat OBVIOUS
   <2> QED BY <2>2, <2>3
  <1>2. x * n \in Nat /\ y * n \in Nat OBVIOUS
  <1>3. ~(x < y)
   <2> SUFFICES ASSUME x < y PROVE FALSE
     OBVIOUS
   <2>1. x * n + i < y * n + j BY <1>1
   <2> QED BY <1>2, <2>1
  <1>4. ~(y < x)
   <2> SUFFICES ASSUME y < x PROVE FALSE
     OBVIOUS
   <2>1. y * n + j < x * n + i BY <1>1
   <2> QED BY <1>2, <2>1
  <1>5. x = y BY <1>3, <1>4
  <1> QED BY <1>2, <1>5

(* The pair of a round. *)
LEMMA PairOfRound ==
    ASSUME WashInv, NEW i \in 1..(Len(waSales) * Len(waLots))
    PROVE  /\ Len(waLots) > 0 /\ SaleAt(i) \in DOMAIN waSales /\ LotAt(i) \in DOMAIN waLots
           /\ (SaleAt(i) - 1) * Len(waLots) + LotAt(i) = i
  <1> DEFINE n == Len(waLots)
             z == Len(waSales)
             k == (i - 1) \div n
             j == (i - 1) % n
  <1>1. n \in Nat /\ z \in Nat /\ DOMAIN waLots = 1..n /\ DOMAIN waSales = 1..z BY WashFields
  <1>2. SaleAt(i) = k + 1 /\ LotAt(i) = j + 1 BY DEF SaleAt, LotAt
  <1>3. i \in 1..(z * n) OBVIOUS
  <1> HIDE DEF n, z
  <1>4. n > 0
   <2> SUFFICES ASSUME n = 0 PROVE FALSE
     BY <1>1
   <2>1. z * n = 0 BY <1>1
   <2> QED BY <1>3, <2>1
  <1>5. z * n \in Nat BY <1>1
  <1>6. i - 1 \in Nat /\ i <= z * n BY <1>3, <1>5
  <1>7. k \in Nat /\ j \in Nat /\ j < n /\ i - 1 = n * k + j BY <1>1, <1>4, <1>6
  <1> HIDE DEF k, j
  <1>8. n * k = k * n /\ k * n \in Nat BY <1>1, <1>7
  <1>9. k < z
   <2> SUFFICES ASSUME z <= k PROVE FALSE
     BY <1>1, <1>7
   <2>1. z * n <= k * n BY <1>1, <1>7, MoreTimes
   <2> QED BY <1>5, <1>6, <1>7, <1>8, <2>1
  <1>10. k + 1 \in 1..z /\ j + 1 \in 1..n BY <1>1, <1>7, <1>9
  <1>11. k * n + (j + 1) = i BY <1>6, <1>7, <1>8
  <1>12. (k + 1) - 1 = k BY <1>7
  <1> QED BY <1>1, <1>2, <1>4, <1>10, <1>11, <1>12 DEF n, z

(* After the last round every pair is settled. *)
LEMMA DetectSettles ==
    ASSUME WashInv
    PROVE  /\ MatchInv(DetectWashSales)
           /\ \A s \in DOMAIN waSales, b \in DOMAIN waLots : Settled(DetectWashSales, s, b)
  <1> DEFINE n == Len(waLots)
             z == Len(waSales)
             last == z * n
             g == CHOOSE f : Matches(f, last)
  <1>1. n \in Nat /\ z \in Nat /\ DOMAIN waLots = 1..n /\ DOMAIN waSales = 1..z BY WashFields
  <1>2. last \in Nat
   <2> HIDE DEF n, z
   <2> QED BY <1>1
  <1>3. DetectWashSales = g[last] BY DEF DetectWashSales, Matches, MatchStart, SaleAt, LotAt
  <1> HIDE DEF last
  <1>4. Matches(g, last) BY <1>2, MatchesExist
  <1> HIDE DEF g
  <1> DEFINE Done(i, s, b) == (s - 1) * n + b <= i => Settled(g[i], s, b)
             Good(i) == MatchInv(g[i]) /\ \A s \in DOMAIN waSales, b \in DOMAIN waLots : Done(i, s, b)
             Bad == {i \in 0..last : ~Good(i)}
  <1>5. Bad = {}
   <2> SUFFICES ASSUME Bad # {} PROVE FALSE
     OBVIOUS
   <2>1. PICK i \in Bad : \A j \in Bad : i <= j
    <3>1. Bad \subseteq Nat BY <1>2
    <3> HIDE DEF Bad
    <3> QED BY <3>1, LeastNatural
   <2>2. i \in 0..last /\ ~Good(i) BY <2>1
   <2>3. CASE i = 0
    <3>1. g[0] = MatchStart BY <1>2, <1>4 DEF Matches
    <3>2. ASSUME NEW s \in DOMAIN waSales, NEW b \in DOMAIN waLots PROVE Done(0, s, b)
     <4>1. s - 1 \in Nat /\ b \in Nat /\ b > 0 BY <1>1
     <4>2. (s - 1) * n \in Nat BY <1>1, <4>1
     <4>3. ~((s - 1) * n + b <= 0) BY <4>1, <4>2
     <4> QED BY <4>3
    <3>3. MatchInv(g[0]) BY <3>1, MatchStarts
    <3> HIDE DEF Done
    <3> QED BY <2>2, <2>3, <3>2, <3>3
   <2>4. CASE i # 0
    <3>1. i - 1 \in 0..last /\ i \in 1..last BY <1>2, <2>2, <2>4
    <3>2. Good(i - 1) BY <2>1, <2>2, <3>1
    <3> DEFINE s0 == SaleAt(i)
               b0 == LotAt(i)
               m == g[i - 1]
               w == g[i]
    <3>3. w = Match(m, s0, b0) BY <1>4, <2>2, <2>4 DEF Matches
    <3>4. n > 0 /\ s0 \in DOMAIN waSales /\ b0 \in DOMAIN waLots /\ (s0 - 1) * n + b0 = i
     <4>1. i \in 1..(Len(waSales) * Len(waLots)) BY <3>1 DEF last
     <4> QED BY <4>1, PairOfRound
    <3>5. MatchInv(m) BY <3>2
    <3> HIDE DEF s0, b0
    <3>6. /\ MatchInv(w) /\ Settled(w, s0, b0)
          /\ \A x \in DOMAIN waSales, y \in DOMAIN waLots : Settled(m, x, y) => Settled(w, x, y)
     <4> HIDE DEF m, w
     <4> QED BY <3>3, <3>4, <3>5, MatchKeeps
    <3>7. ASSUME NEW s \in DOMAIN waSales, NEW b \in DOMAIN waLots, (s - 1) * n + b <= i
          PROVE  Settled(w, s, b)
     <4>1. s - 1 \in Nat /\ b \in 1..n /\ s0 - 1 \in Nat /\ b0 \in 1..n /\ b \in Nat
      <5>1. s \in 1..z /\ s0 \in 1..z /\ b \in 1..n /\ b0 \in 1..n /\ n \in Nat /\ z \in Nat
        BY <1>1, <3>4
      <5> HIDE DEF n, z
      <5> QED BY <5>1
     <4>2. (s - 1) * n \in Nat BY <1>1, <4>1
     <4>3. CASE (s - 1) * n + b = i
      <5>1. s - 1 = s0 - 1 /\ b = b0
       <6> DEFINE x == s - 1
                  y == s0 - 1
       <6>1. /\ x \in Nat /\ y \in Nat /\ x * n + b = y * n + b0
             /\ n \in Nat /\ n > 0 /\ b \in 1..n /\ b0 \in 1..n
         BY <1>1, <3>4, <4>1, <4>3
       <6> HIDE DEF x, y, n
       <6>2. x = y /\ b = b0 BY <6>1, RoundOfPair
       <6> QED BY <6>2 DEF x, y
      <5>2. s = s0 BY <1>1, <3>4, <5>1
      <5> QED BY <3>6, <5>1, <5>2
     <4>4. CASE (s - 1) * n + b # i
      <5> DEFINE t == (s - 1) * n
      <5>1. t \in Nat /\ t + b <= i /\ t + b # i BY <3>7, <4>2, <4>4
      <5> HIDE DEF t
      <5>2. t + b <= i - 1 BY <3>1, <4>1, <5>1
      <5>3. Settled(m, s, b) BY <3>2, <5>2 DEF t
      <5> QED BY <3>6, <5>3
     <4> QED BY <4>3, <4>4
    <3> QED BY <2>2, <3>6, <3>7
   <2> QED BY <2>3, <2>4
  <1>6. Good(last) BY <1>2, <1>5
  <1>7. ASSUME NEW s \in DOMAIN waSales, NEW b \in DOMAIN waLots
        PROVE  (s - 1) * n + b <= last
   <2>1. s - 1 \in Nat /\ b \in Nat /\ b <= n /\ s \in Nat /\ s <= z BY <1>1
   <2> HIDE DEF n, z
   <2>2. (s - 1) * n \in Nat /\ s * n = (s - 1) * n + n
    <3> DEFINE x == s - 1
    <3>1. x \in Nat /\ s = x + 1 BY <2>1
    <3> HIDE DEF x
    <3>2. (x + 1) * n = x * n + n /\ x * n \in Nat BY <1>1, <3>1
    <3>3. x * n \in Nat /\ s * n = x * n + n BY <3>1, <3>2
    <3> QED BY <3>3 DEF x
   <2>3. s * n <= z * n /\ z * n \in Nat BY <1>1, <2>1, MoreTimes
   <2> DEFINE t == (s - 1) * n
   <2>4. t \in Nat /\ t + n <= last BY <2>2, <2>3 DEF last
   <2> HIDE DEF t
   <2>5. t + b <= last BY <1>1, <1>2, <2>1, <2>4
   <2> QED BY <2>5 DEF t
  <1> QED BY <1>3, <1>6, <1>7

(* Half a unit per row is what rounding may add to what a sale lost. *)
LEMMA RoundedWithin ==
    ASSUME NEW size \in Nat, size > 0, NEW loss \in Nat, NEW n \in Nat, n <= size,
           NEW d \in Nat, NEW k \in Nat, 2 * (size * d) <= 2 * (loss * n) + size * k
    PROVE  2 * (d - loss) <= k
  <1>1. loss * n <= loss * size /\ loss * n \in Nat /\ loss * size \in Nat
   <2>1. n * loss <= size * loss /\ n * loss \in Nat /\ size * loss \in Nat BY MoreTimes
   <2>2. n * loss = loss * n /\ size * loss = loss * size OBVIOUS
   <2> QED BY <2>1, <2>2
  <1>2. size * d \in Nat /\ size * k \in Nat /\ size * loss = loss * size OBVIOUS
  <1>3. 2 * (size * d) <= 2 * (size * loss) + size * k BY <1>1, <1>2
  <1> SUFFICES ASSUME 2 * (d - loss) > k PROVE FALSE
    OBVIOUS
  <1>4. 2 * d >= 2 * loss + k + 1 OBVIOUS
  <1>5. (2 * loss + k + 1) * size <= (2 * d) * size BY <1>4, MoreTimes
  <1>6. (2 * loss + k + 1) * size = 2 * (size * loss) + size * k + size /\ (2 * d) * size = 2 * (size * d)
   <2>1. (2 * loss + k + 1) * size = (2 * loss) * size + k * size + size OBVIOUS
   <2>2. (2 * loss) * size = 2 * (size * loss) /\ k * size = size * k OBVIOUS
   <2>3. (2 * d) * size = 2 * (size * d) OBVIOUS
   <2> QED BY <2>1, <2>2, <2>3
  <1> DEFINE a == size * d
             b == size * loss
             c == size * k
  <1>7. a \in Nat /\ b \in Nat /\ c \in Nat OBVIOUS
  <1>8. 2 * b + c + size <= 2 * a /\ 2 * a <= 2 * b + c BY <1>3, <1>5, <1>6
  <1> HIDE DEF a, b, c
  <1> QED BY <1>7, <1>8

(* What the loop ends with is what the runs check. *)
LEMMA WashHolds == WashInv => WashSalesMatched
  <1> SUFFICES ASSUME WashInv PROVE WashSalesMatched
    OBVIOUS
  <1> DEFINE m == DetectWashSales
             q == m.adjusted
  <1>1. MatchInv(m) /\ \A s \in DOMAIN waSales, b \in DOMAIN waLots : Settled(m, s, b)
    BY DetectSettles
  <1> HIDE DEF m
  <1>2. /\ m.shares \in [DOMAIN waSales -> Nat] /\ m.loss \in [DOMAIN waSales -> Int]
        /\ m.lots \in [DOMAIN waLots -> Nat] /\ q \in Seq(Adjustments)
    BY <1>1 DEF MatchInv, MatchType
  <1>3. \A k, c \in 1..4 : \A x : ColumnSum(q, c, k, x) \in Nat
   <2>1. <<0, 0, 0, 0>> \in Adjustments BY DEF Adjustments
   <2> QED BY <1>2, <2>1, AdjustmentAdded
  <1>4. \A k \in 1..4 : \A x : IsFiniteSet(Naming(q, k, x)) /\ Cardinality(Naming(q, k, x)) \in Nat
   <2>1. <<0, 0, 0, 0>> \in Adjustments BY DEF Adjustments
   <2> QED BY <1>2, <2>1, AdjustmentAdded
  <1>5. ASSUME NEW b \in DOMAIN waLots
        PROVE  /\ ColumnSum(q, 3, 2, b) <= waLots[b].left
               /\ m.lots[b] = 0 => ColumnSum(q, 3, 2, b) = waLots[b].left
   <2>1. m.lots[b] \in Nat /\ waLots[b].left \in Nat /\ ColumnSum(q, 3, 2, b) \in Nat
     BY <1>2, <1>3, WashFields
   <2>2. m.lots[b] + ColumnSum(q, 3, 2, b) = waLots[b].left BY <1>1 DEF MatchInv, LotKept
   <2> QED BY <2>1, <2>2
  <1>6. ASSUME NEW j \in DOMAIN q
        PROVE  LET lot == waLots[q[j][2]] sale == waSales[q[j][1]] IN
               /\ q[j][1] \in DOMAIN waSales /\ q[j][2] \in DOMAIN waLots
               /\ sale.loss > 0
               /\ lot.day - sale.day <= WashDays /\ -(lot.day - sale.day) <= WashDays
   <2> DEFINE s == q[j][1]
              b == q[j][2]
   <2>1. s \in DOMAIN waSales /\ b \in DOMAIN waLots /\ waSales[s].loss > 0 /\ Replaces(waLots[b], waSales[s])
     BY <1>1 DEF MatchInv, AdjustmentRight
   <2> HIDE DEF s, b, q
   <2>2. waLots[b].day \in Nat /\ waSales[s].day \in Nat /\ WashDays \in Nat
     BY <2>1, WashFields, WashAssumption
   <2>3. waLots[b].day \in waSales[s].day - WashDays .. waSales[s].day + WashDays
     BY <2>1 DEF Replaces
   <2>4. waLots[b].day - waSales[s].day <= WashDays /\ -(waLots[b].day - waSales[s].day) <= WashDays
     BY <2>2, <2>3
   <2> QED BY <2>1, <2>4 DEF s, b
  <1>7. ASSUME NEW s \in DOMAIN waSales
        PROVE  /\ ColumnSum(q, 3, 1, s) <= waSales[s].size
               /\ ColumnSum(q, 3, 1, s) < waSales[s].size => m.shares[s] > 0
               /\ ColumnSum(q, 4, 1, s) < waSales[s].loss => m.loss[s] > 0
               /\ waSales[s].loss > 0 =>
                     2 * (ColumnSum(q, 4, 1, s) - waSales[s].loss) <= Cardinality(Naming(q, 1, s))
   <2> DEFINE n == ColumnSum(q, 3, 1, s)
              d == ColumnSum(q, 4, 1, s)
              k == Cardinality(Naming(q, 1, s))
              size == waSales[s].size
              loss == waSales[s].loss
   <2>1. /\ m.shares[s] \in Nat /\ m.loss[s] \in Int /\ n \in Nat /\ d \in Nat /\ k \in Nat
         /\ size \in Nat /\ size > 0 /\ loss \in Int
     BY <1>2, <1>3, <1>4, WashFields, SMTT(30)
   <2>2. m.shares[s] + n = size /\ m.loss[s] + d = AboveZero(loss)
         /\ 2 * (size * d) <= 2 * (AboveZero(loss) * n) + size * k
     BY <1>1 DEF MatchInv, SaleKept
   <2> HIDE DEF n, d, k, size, loss
   <2>3. n <= size /\ (n < size => m.shares[s] > 0) BY <2>1, <2>2
   <2>4. d < loss => m.loss[s] > 0 BY <2>1, <2>2 DEF AboveZero
   <2>5. loss > 0 => 2 * (d - loss) <= k
    <3> SUFFICES ASSUME loss > 0 PROVE 2 * (d - loss) <= k
      OBVIOUS
    <3>1. loss \in Nat /\ AboveZero(loss) = loss BY <2>1 DEF AboveZero
    <3>2. 2 * (size * d) <= 2 * (loss * n) + size * k BY <2>2, <3>1
    <3> QED BY <2>1, <2>3, <3>1, <3>2, RoundedWithin
   <2> QED BY <2>3, <2>4, <2>5 DEF n, d, k, size, loss
  <1>8. ASSUME NEW s \in DOMAIN waSales, NEW b \in DOMAIN waLots,
               ColumnSum(q, 3, 1, s) < waSales[s].size, ColumnSum(q, 4, 1, s) < waSales[s].loss
        PROVE  LET gap == waLots[b].day - waSales[s].day IN
               \/ WashDays = 0 \/ waLots[b].symbol # waSales[s].symbol
               \/ gap > WashDays \/ -gap > WashDays \/ ColumnSum(q, 3, 2, b) = waLots[b].left
   <2>1. m.shares[s] > 0 /\ m.loss[s] > 0 BY <1>7, <1>8
   <2>2. m.shares[s] \in Nat /\ m.loss[s] \in Int BY <1>2
   <2>3. m.lots[b] = 0 \/ ~Replaces(waLots[b], waSales[s])
    <3>1. Settled(m, s, b) BY <1>1
    <3> QED BY <2>1, <2>2, <3>1 DEF Settled
   <2>4. waLots[b].day \in Nat /\ waSales[s].day \in Nat /\ WashDays \in Nat
     BY WashFields, WashAssumption
   <2>5. ~Replaces(waLots[b], waSales[s]) =>
            \/ WashDays = 0 \/ waLots[b].symbol # waSales[s].symbol
            \/ waLots[b].day - waSales[s].day > WashDays \/ -(waLots[b].day - waSales[s].day) > WashDays
     BY <2>4 DEF Replaces
   <2> QED BY <1>5, <2>3, <2>5
  <1> DEFINE of(k, x) == {j \in DOMAIN q : q[j][k] = x}
             column(c) == [j \in DOMAIN q |-> q[j][c]]
             total(c, js) == MapThenSumSet(LAMBDA j : column(c)[j], js)
  <1>9. ASSUME NEW c, NEW k, NEW x PROVE total(c, of(k, x)) = ColumnSum(q, c, k, x) /\ of(k, x) = Naming(q, k, x)
    BY DEF ColumnSum, SumOn, Column, Naming
  <1> HIDE DEF total, of
  <1>10. \A b \in DOMAIN waLots : total(3, of(2, b)) <= waLots[b].left BY <1>5, <1>9
  <1>11. ASSUME NEW s \in DOMAIN waSales
         PROVE  /\ total(3, of(1, s)) <= waSales[s].size
                /\ of(1, s) # {} => /\ waSales[s].loss > 0
                                   /\ 2 * (total(4, of(1, s)) - waSales[s].loss) <= Cardinality(of(1, s))
   <2>1. total(3, of(1, s)) = ColumnSum(q, 3, 1, s) /\ total(4, of(1, s)) = ColumnSum(q, 4, 1, s) /\ of(1, s) = Naming(q, 1, s)
     BY <1>9
   <2>2. of(1, s) # {} => waSales[s].loss > 0 BY <1>6 DEF of
   <2> QED BY <1>7, <2>1, <2>2
  <1>12. ASSUME NEW s \in DOMAIN waSales, NEW j \in of(1, s)
         PROVE  LET gap == waLots[q[j][2]].day - waSales[s].day IN gap <= WashDays /\ -gap <= WashDays
   <2>1. j \in DOMAIN q /\ q[j][1] = s BY DEF of
   <2> QED BY <1>6, <2>1
  <1>13. ASSUME NEW s \in DOMAIN waSales, NEW b \in DOMAIN waLots,
                total(3, of(1, s)) < waSales[s].size /\ total(4, of(1, s)) < waSales[s].loss
         PROVE  LET gap == waLots[b].day - waSales[s].day IN
                \/ WashDays = 0 \/ waLots[b].symbol # waSales[s].symbol
                \/ gap > WashDays \/ -gap > WashDays \/ total(3, of(2, b)) = waLots[b].left
   <2>1. total(3, of(1, s)) = ColumnSum(q, 3, 1, s) /\ total(4, of(1, s)) = ColumnSum(q, 4, 1, s)
         /\ total(3, of(2, b)) = ColumnSum(q, 3, 2, b)
     BY <1>9
   <2> QED BY <1>8, <1>13, <2>1
  <1> DEFINE Right(s) ==
        /\ total(3, of(1, s)) <= waSales[s].size
        /\ of(1, s) # {} => /\ waSales[s].loss > 0
                           /\ 2 * (total(4, of(1, s)) - waSales[s].loss) <= Cardinality(of(1, s))
        /\ \A j \in of(1, s) :
              LET gap == waLots[q[j][2]].day - waSales[s].day
              IN gap <= WashDays /\ -gap <= WashDays
        /\ total(3, of(1, s)) < waSales[s].size /\ total(4, of(1, s)) < waSales[s].loss =>
              \A b \in DOMAIN waLots :
                 LET gap == waLots[b].day - waSales[s].day
                 IN \/ WashDays = 0 \/ waLots[b].symbol # waSales[s].symbol
                    \/ gap > WashDays \/ -gap > WashDays
                    \/ total(3, of(2, b)) = waLots[b].left
  <1>14. \A s \in DOMAIN waSales : Right(s) BY <1>11, <1>12, <1>13
  <1> HIDE DEF Right
  <1>15. (\A b \in DOMAIN waLots : total(3, of(2, b)) <= waLots[b].left) /\ \A s \in DOMAIN waSales : Right(s)
    BY <1>10, <1>14
  <1> QED BY <1>15 DEF WashSalesMatched, Right, total, of, m

(* No trade has been made at first. *)
LEMMA WashStarts == WashInit => WashInv
  <1> SUFFICES ASSUME WashInit PROVE WashInv
    OBVIOUS
  <1>1. waLots = <<>> /\ waSales = <<>> /\ waDay = 0 BY DEF WashInit
  <1>2. <<>> \in Seq(WashLot) /\ <<>> \in Seq(WashSale) /\ 0 \in Nat OBVIOUS
  <1> QED BY <1>1, <1>2 DEF WashInv

(* A purchase is recorded. *)
LEMMA BuyStep ==
    ASSUME WashInv, NEW k \in Tickers, NEW n \in TradeSizes, NEW p \in TradePrices, RecordBuy(k, n, p)
    PROVE  WashInv'
  <1> DEFINE lot == [symbol |-> k, price |-> p, day |-> waDay, left |-> n]
  <1>1. waLots' = Append(waLots, lot) /\ waSales' = waSales /\ waDay' = waDay BY DEF RecordBuy
  <1>2. waLots \in Seq(WashLot) /\ waSales \in Seq(WashSale) /\ waDay \in Nat BY DEF WashInv
  <1>3. lot \in WashLot
   <2>1. n \in Nat /\ p \in Nat BY WashAssumption
   <2> QED BY <1>2, <2>1 DEF WashLot
  <1> HIDE DEF lot
  <1>4. Append(waLots, lot) \in Seq(WashLot) BY <1>2, <1>3
  <1> QED BY <1>1, <1>2, <1>4 DEF WashInv

(* A sale takes from the lots what they have. *)
LEMMA FifoTakes ==
    ASSUME WashInv, NEW k, NEW n \in Nat, NEW i \in DOMAIN waLots
    PROVE  ConsumeFifo(k, n)[i] \in Nat /\ ConsumeFifo(k, n)[i] <= waLots[i].left
  <1> DEFINE left == [j \in DOMAIN waLots |-> waLots[j].left]
             E == {j \in DOMAIN waLots : j < i /\ waLots[j].symbol = k}
             before == SumOn(left, E)
  <1>1. ConsumeFifo(k, n)[i] = IF waLots[i].symbol # k THEN 0 ELSE Lesser(left[i], AboveZero(n - before))
    BY DEF ConsumeFifo, SumOn
  <1>2. \A j \in DOMAIN waLots : left[j] = waLots[j].left /\ left[j] \in Nat /\ left[j] \in Int
    BY WashFields
  <1>3. IsFiniteSet(E)
   <2>1. IsFiniteSet(DOMAIN waLots)
    <3>1. DOMAIN waLots = 1..Len(waLots) /\ Len(waLots) \in Int BY WashFields
    <3> QED BY <3>1, 1 \in Int, FS_Interval
   <2> QED BY <2>1, FS_Subset
  <1>4. \A j \in E : left[j] \in Int BY <1>2
  <1> HIDE DEF E, left
  <1>5. before \in Int BY <1>3, <1>4, SumType
  <1> HIDE DEF before
  <1>6. AboveZero(n - before) \in Nat BY <1>5 DEF AboveZero
  <1>7. left[i] \in Nat /\ left[i] = waLots[i].left BY <1>2
  <1>8. Lesser(left[i], AboveZero(n - before)) \in Nat /\ Lesser(left[i], AboveZero(n - before)) <= left[i]
    BY <1>6, <1>7 DEF Lesser
  <1> QED BY <1>1, <1>7, <1>8

(* A sale is recorded with the basis of what it took. *)
LEMMA SaleStep ==
    ASSUME WashInv, NEW k \in Tickers, NEW n \in TradeSizes, NEW p \in TradePrices, RecordSale(k, n, p)
    PROVE  WashInv'
  <1> DEFINE taken == ConsumeFifo(k, n)
             cost == [i \in DOMAIN waLots |-> taken[i] * waLots[i].price]
             basis == SumOn(cost, DOMAIN waLots)
             sale == [symbol |-> k, size |-> n, day |-> waDay, loss |-> basis - n * p]
             lots == [i \in DOMAIN waLots |-> [waLots[i] EXCEPT !.left = waLots[i].left - taken[i]]]
  <1>1. waLots' = lots /\ waSales' = Append(waSales, sale) /\ waDay' = waDay
    BY DEF RecordSale, SumOn
  <1>2. waLots \in Seq(WashLot) /\ waSales \in Seq(WashSale) /\ waDay \in Nat BY DEF WashInv
  <1>3. n \in Nat \ {0} /\ p \in Nat BY WashAssumption
  <1>4. \A i \in DOMAIN waLots : taken[i] \in Nat /\ taken[i] <= waLots[i].left BY <1>3, FifoTakes
  <1> HIDE DEF taken
  <1>5. basis \in Int
   <2>1. \A i \in DOMAIN waLots : cost[i] \in Int
    <3> TAKE i \in DOMAIN waLots
    <3>1. taken[i] \in Nat /\ waLots[i].price \in Nat BY <1>4, WashFields
    <3>2. taken[i] * waLots[i].price \in Int BY <3>1
    <3> QED BY <3>2
   <2>2. IsFiniteSet(DOMAIN waLots) BY WashFields, FS_Interval
   <2> HIDE DEF cost
   <2> QED BY <2>1, <2>2, SumType
  <1> HIDE DEF basis
  <1>6. sale \in WashSale
   <2>1. basis - n * p \in Int
    <3>1. n * p \in Int BY <1>3
    <3> QED BY <1>5, <3>1
   <2> QED BY <1>2, <1>3, <2>1 DEF WashSale
  <1> HIDE DEF sale
  <1>7. Append(waSales, sale) \in Seq(WashSale) BY <1>2, <1>6
  <1>8. lots \in Seq(WashLot)
   <2>1. DOMAIN lots = DOMAIN waLots /\ DOMAIN waLots = 1..Len(waLots) /\ Len(waLots) \in Nat
     BY WashFields
   <2>2. \A i \in DOMAIN waLots : lots[i] \in WashLot
    <3> TAKE i \in DOMAIN waLots
    <3> DEFINE l == waLots[i]
               rest == l.left - taken[i]
    <3>1. l \in WashLot /\ l.left \in Nat /\ taken[i] \in Nat /\ taken[i] <= l.left
      BY <1>4, WashFields
    <3>2. rest \in Nat BY <3>1
    <3>3. lots[i] = [l EXCEPT !.left = rest] OBVIOUS
    <3> HIDE DEF l, rest, lots
    <3>4. [l EXCEPT !.left = rest] \in WashLot BY <3>1, <3>2 DEF WashLot
    <3> QED BY <3>3, <3>4
   <2>3. lots = [i \in 1..Len(waLots) |-> lots[i]] BY <2>1
   <2> HIDE DEF lots
   <2>4. lots \in [1..Len(waLots) -> WashLot] BY <2>1, <2>2, <2>3
   <2> QED BY <2>1, <2>4
  <1> QED BY <1>1, <1>2, <1>7, <1>8 DEF WashInv

(* Every step keeps the invariant. *)
LEMMA WashSteps ==
    ASSUME WashInv, [WashNext]_waVars
    PROVE  WashInv'
  <1>1. CASE WashNext
   <2>1. ASSUME NEW k \in Tickers, NEW n \in TradeSizes, NEW p \in TradePrices, RecordBuy(k, n, p) PROVE WashInv'
     BY <2>1, BuyStep
   <2>2. ASSUME NEW k \in Tickers, NEW n \in TradeSizes, NEW p \in TradePrices, RecordSale(k, n, p) PROVE WashInv'
     BY <2>2, SaleStep
   <2>3. CASE WashDayPasses
    <3>1. waDay' = waDay + 1 /\ waLots' = waLots /\ waSales' = waSales BY <2>3 DEF WashDayPasses
    <3>2. waLots \in Seq(WashLot) /\ waSales \in Seq(WashSale) /\ waDay + 1 \in Nat BY DEF WashInv
    <3> QED BY <3>1, <3>2 DEF WashInv
   <2> QED BY <1>1, <2>1, <2>2, <2>3 DEF WashNext
  <1>2. CASE UNCHANGED waVars BY <1>2 DEF waVars, WashInv
  <1> QED BY <1>1, <1>2

----------------------------------------
(* The order of the reviews. *)

Rating == [stars : Nat, review : BOOLEAN, updated : Nat]

(* Ratings put the reviews into a strict order: each has a place of its own in the list. *)
LEMMA ReviewsAreOrdered ==
    ASSUME mkRatings \in [Raters -> Rating]
    PROVE  /\ IsFiniteSet(Reviewed) /\ Reviewed \subseteq Raters
           /\ Cardinality(Reviewed) \in Nat /\ Len(ListReviews) = Cardinality(Reviewed)
           /\ DOMAIN ListReviews = 1..Cardinality(Reviewed)
           /\ \A u \in Reviewed : /\ ReviewRank(u) \in Nat /\ ReviewRank(u) < Cardinality(Reviewed)
                                  /\ ListReviews[ReviewRank(u) + 1] = u
           /\ \A i \in 1..Cardinality(Reviewed) : ListReviews[i] \in Reviewed
  <1> DEFINE R == {p \in Reviewed \X Reviewed : ReviewBefore(p[1], p[2])}
             n == Cardinality(Reviewed)
  <1>1. IsFiniteSet(Reviewed) /\ Reviewed \subseteq Raters /\ n \in Nat
   <2>1. Reviewed \in SUBSET Raters BY DEF Reviewed
   <2>2. IsFiniteSet(Reviewed) BY <2>1, MarketAssumption, FS_Subset
   <2> QED BY <2>1, <2>2, FS_CardinalityType
  <1>2. \A u \in Reviewed : u \in Nat /\ mkRatings[u].updated \in Nat
   <2> TAKE u \in Reviewed
   <2>1. u \in Raters BY <1>1
   <2>2. mkRatings[u] \in Rating BY <2>1
   <2> QED BY <2>1, <2>2, MarketAssumption DEF Rating
  <1>3. \A u, v \in Reviewed : <<u, v>> \in R <=> ReviewBefore(u, v) OBVIOUS
  <1> HIDE DEF R
  <1>4. \A u \in Reviewed : <<u, u>> \notin R BY <1>2, <1>3 DEF ReviewBefore
  <1>5. \A u, v, w \in Reviewed : <<u, v>> \in R /\ <<v, w>> \in R => <<u, w>> \in R
    BY <1>2, <1>3 DEF ReviewBefore
  <1>6. \A u, v \in Reviewed : u = v \/ <<u, v>> \in R \/ <<v, u>> \in R
   <2> SUFFICES ASSUME NEW u \in Reviewed, NEW v \in Reviewed
                PROVE  u = v \/ ReviewBefore(u, v) \/ ReviewBefore(v, u)
     BY <1>3
   <2>1. u \in Nat /\ v \in Nat /\ mkRatings[u].updated \in Nat /\ mkRatings[v].updated \in Nat
     BY <1>2
   <2> QED BY <2>1 DEF ReviewBefore
  <1>20. IsFiniteSet(Reviewed) BY <1>1
  <1>21. /\ \A u \in Reviewed : RankIn(R, Reviewed, u) \in Nat /\ RankIn(R, Reviewed, u) < Cardinality(Reviewed)
         /\ \A u, v \in Reviewed : RankIn(R, Reviewed, u) = RankIn(R, Reviewed, v) => u = v
         /\ \A i \in Nat : i < Cardinality(Reviewed) => \E u \in Reviewed : RankIn(R, Reviewed, u) = i
   <2> HIDE DEF n
   <2>9. StrictlyOrders(R, Reviewed) BY <1>4, <1>5, <1>6 DEF StrictlyOrders
   <2>1. /\ Cardinality(Reviewed) \in Nat
         /\ \A u \in Reviewed : RankIn(R, Reviewed, u) \in Nat /\ RankIn(R, Reviewed, u) < Cardinality(Reviewed)
         /\ \A u, v \in Reviewed : <<u, v>> \in R => RankIn(R, Reviewed, u) < RankIn(R, Reviewed, v)
         /\ \A u, v \in Reviewed : RankIn(R, Reviewed, u) = RankIn(R, Reviewed, v) => u = v
         /\ \A i \in Nat : i < Cardinality(Reviewed) => \E u \in Reviewed : RankIn(R, Reviewed, u) = i
     BY <1>20, <2>9, PlacesInOrder
   <2> QED BY <2>1
  <1>7. /\ \A u \in Reviewed : RankIn(R, Reviewed, u) \in Nat /\ RankIn(R, Reviewed, u) < n
        /\ \A u, v \in Reviewed : RankIn(R, Reviewed, u) = RankIn(R, Reviewed, v) => u = v
        /\ \A i \in Nat : i < n => \E u \in Reviewed : RankIn(R, Reviewed, u) = i
    BY <1>21
  <1>8. \A u \in Reviewed : ReviewRank(u) = RankIn(R, Reviewed, u)
   <2> TAKE u \in Reviewed
   <2>1. {v \in Reviewed : ReviewBefore(v, u)} = {v \in Reviewed : <<v, u>> \in R} BY <1>3
   <2> QED BY <2>1 DEF ReviewRank, RankIn
  <1>9. /\ \A u \in Reviewed : ReviewRank(u) \in Nat /\ ReviewRank(u) < n
        /\ \A u, v \in Reviewed : ReviewRank(u) = ReviewRank(v) => u = v
        /\ \A i \in Nat : i < n => \E u \in Reviewed : ReviewRank(u) = i
    BY <1>7, <1>8
  <1>10. ListReviews = [i \in 1..n |-> CHOOSE u \in Reviewed : ReviewRank(u) = i - 1]
    BY DEF ListReviews
  <1> HIDE DEF n
  <1>11. DOMAIN ListReviews = 1..n /\ Len(ListReviews) = n BY <1>1, <1>10
  <1>12. ASSUME NEW i \in 1..n
         PROVE  ListReviews[i] \in Reviewed /\ ReviewRank(ListReviews[i]) = i - 1
   <2>1. i - 1 \in Nat /\ i - 1 < n BY <1>1
   <2>2. \E u \in Reviewed : ReviewRank(u) = i - 1 BY <1>9, <2>1
   <2>3. ListReviews[i] = CHOOSE u \in Reviewed : ReviewRank(u) = i - 1 BY <1>10
   <2> QED BY <2>2, <2>3
  <1>13. ASSUME NEW u \in Reviewed PROVE ListReviews[ReviewRank(u) + 1] = u
   <2>1. ReviewRank(u) \in Nat /\ ReviewRank(u) < n BY <1>9
   <2> DEFINE r == ReviewRank(u)
              i == r + 1
   <2>2. i \in 1..n /\ i - 1 = r
    <3> HIDE DEF r
    <3> QED BY <1>1, <2>1 DEF r
   <2>3. ListReviews[i] \in Reviewed /\ ReviewRank(ListReviews[i]) = r BY <1>12, <2>2
   <2> QED BY <1>9, <2>3
  <1> QED BY <1>1, <1>9, <1>11, <1>12, <1>13 DEF n

(* So are the listings a search finds. *)
LEMMA ListingsAreOrdered ==
    ASSUME mkSearch.query \in BOOLEAN
    PROVE  /\ IsFiniteSet(Hits) /\ Cardinality(Hits) \in Nat /\ Cardinality(Hits) <= Len(Catalog)
           /\ Listed \in Seq(Hits) /\ Len(Listed) = Cardinality(Hits)
           /\ \A l \in Hits : \E i \in 1..Cardinality(Hits) : Listed[i] = l
           /\ \A i, j \in 1..Cardinality(Hits) : i < j => ListingBefore(Listed[i], Listed[j])
  <1> DEFINE R == {p \in Hits \X Hits : ListingBefore(p[1], p[2])}
             n == Cardinality(Hits)
  <1>1. IsFiniteSet(Hits) /\ n \in Nat /\ n <= Len(Catalog) /\ Hits \subseteq 1..Len(Catalog)
   <2>1. Catalog \in Seq([score : Nat, downloads : Nat]) BY MarketAssumption
   <2>2. DOMAIN Catalog = 1..Len(Catalog) /\ Len(Catalog) \in Nat BY <2>1
   <2>3. Hits \in SUBSET (1..Len(Catalog)) BY <2>2 DEF Hits
   <2>4. IsFiniteSet(1..Len(Catalog)) /\ Cardinality(1..Len(Catalog)) = Len(Catalog)
    <3>1. 1 \in Int /\ Len(Catalog) \in Int BY <2>2
    <3>2. /\ IsFiniteSet(1..Len(Catalog))
          /\ Cardinality(1..Len(Catalog)) = IF 1 > Len(Catalog) THEN 0 ELSE Len(Catalog) - 1 + 1
      BY <3>1, FS_Interval
    <3> QED BY <2>2, <3>2
   <2>5. IsFiniteSet(Hits) /\ Cardinality(Hits) <= Cardinality(1..Len(Catalog))
     BY <2>3, <2>4, FS_Subset
   <2> QED BY <2>3, <2>4, <2>5, FS_CardinalityType
  <1>2. \A l \in Hits : l \in Nat /\ SortKey(EffectiveSort, l) \in Nat
   <2> TAKE l \in Hits
   <2>1. l \in DOMAIN Catalog BY DEF Hits
   <2>6. Catalog \in Seq([score : Nat, downloads : Nat]) BY MarketAssumption
   <2>2. Catalog[l] \in [score : Nat, downloads : Nat]
    <3> DEFINE Rec == [score : Nat, downloads : Nat]
    <3> HIDE DEF Rec
    <3>1. Catalog \in Seq(Rec) BY <2>6 DEF Rec
    <3>2. Catalog[l] \in Rec BY <2>1, <3>1
    <3> QED BY <3>2 DEF Rec
   <2>3. Catalog[l].score \in Nat /\ Catalog[l].downloads \in Nat BY <2>2
   <2> HIDE DEF R, n
   <2>4. l \in Nat BY <1>1
   <2> QED BY <2>3, <2>4 DEF SortKey
  <1>3. \A k, l \in Hits : <<k, l>> \in R <=> ListingBefore(k, l) OBVIOUS
  <1> HIDE DEF R
  <1>4. \A k \in Hits : <<k, k>> \notin R BY <1>2, <1>3 DEF ListingBefore
  <1>5. \A k, l, m \in Hits : <<k, l>> \in R /\ <<l, m>> \in R => <<k, m>> \in R
    BY <1>2, <1>3 DEF ListingBefore
  <1>6. \A k, l \in Hits : k = l \/ <<k, l>> \in R \/ <<l, k>> \in R
   <2> SUFFICES ASSUME NEW k \in Hits, NEW l \in Hits
                PROVE  k = l \/ ListingBefore(k, l) \/ ListingBefore(l, k)
     BY <1>3
   <2>1. /\ k \in Nat /\ l \in Nat
         /\ SortKey(EffectiveSort, k) \in Nat /\ SortKey(EffectiveSort, l) \in Nat
     BY <1>2
   <2> QED BY <2>1 DEF ListingBefore
  <1>7. /\ \A l \in Hits : RankIn(R, Hits, l) \in Nat /\ RankIn(R, Hits, l) < n
        /\ \A k, l \in Hits : <<k, l>> \in R => RankIn(R, Hits, k) < RankIn(R, Hits, l)
        /\ \A k, l \in Hits : RankIn(R, Hits, k) = RankIn(R, Hits, l) => k = l
        /\ \A i \in Nat : i < n => \E l \in Hits : RankIn(R, Hits, l) = i
   <2>1. IsFiniteSet(Hits) BY <1>1
   <2> HIDE DEF n
   <2>9. StrictlyOrders(R, Hits) BY <1>4, <1>5, <1>6 DEF StrictlyOrders
   <2>2. /\ Cardinality(Hits) \in Nat
         /\ \A l \in Hits : RankIn(R, Hits, l) \in Nat /\ RankIn(R, Hits, l) < Cardinality(Hits)
         /\ \A k, l \in Hits : <<k, l>> \in R => RankIn(R, Hits, k) < RankIn(R, Hits, l)
         /\ \A k, l \in Hits : RankIn(R, Hits, k) = RankIn(R, Hits, l) => k = l
         /\ \A i \in Nat : i < Cardinality(Hits) => \E l \in Hits : RankIn(R, Hits, l) = i
     BY <2>1, <2>9, PlacesInOrder
   <2> QED BY <2>2 DEF n
  <1>8. \A l \in Hits : ListingRank(l) = RankIn(R, Hits, l)
   <2> TAKE l \in Hits
   <2>1. {k \in Hits : ListingBefore(k, l)} = {k \in Hits : <<k, l>> \in R} BY <1>3
   <2> QED BY <2>1 DEF ListingRank, RankIn
  <1>9. /\ \A l \in Hits : ListingRank(l) \in Nat /\ ListingRank(l) < n
        /\ \A k, l \in Hits : ListingBefore(k, l) => ListingRank(k) < ListingRank(l)
        /\ \A k, l \in Hits : ListingRank(k) = ListingRank(l) => k = l
        /\ \A i \in Nat : i < n => \E l \in Hits : ListingRank(l) = i
        /\ \A k, l \in Hits : k = l \/ ListingBefore(k, l) \/ ListingBefore(l, k)
   <2>1. \A l \in Hits : ListingRank(l) \in Nat /\ ListingRank(l) < n BY <1>7, <1>8
   <2>2. \A k, l \in Hits : ListingBefore(k, l) => ListingRank(k) < ListingRank(l)
    <3> TAKE k, l \in Hits
    <3> HAVE ListingBefore(k, l)
    <3>1. <<k, l>> \in R BY <1>3
    <3>2. RankIn(R, Hits, k) < RankIn(R, Hits, l) BY <1>7, <3>1
    <3> QED BY <1>8, <3>2
   <2>3. \A k, l \in Hits : ListingRank(k) = ListingRank(l) => k = l BY <1>7, <1>8
   <2>4. \A i \in Nat : i < n => \E l \in Hits : ListingRank(l) = i BY <1>7, <1>8
   <2>5. \A k, l \in Hits : k = l \/ ListingBefore(k, l) \/ ListingBefore(l, k) BY <1>3, <1>6
   <2> QED BY <2>1, <2>2, <2>3, <2>4, <2>5
  <1>10. Listed = [i \in 1..n |-> CHOOSE l \in Hits : ListingRank(l) = i - 1] BY DEF Listed
  <1> HIDE DEF n
  <1>11. ASSUME NEW i \in 1..n
         PROVE  Listed[i] \in Hits /\ ListingRank(Listed[i]) = i - 1
   <2>1. i - 1 \in Nat /\ i - 1 < n BY <1>1
   <2>2. \E l \in Hits : ListingRank(l) = i - 1 BY <1>9, <2>1
   <2>3. Listed[i] = CHOOSE l \in Hits : ListingRank(l) = i - 1 BY <1>10
   <2> QED BY <2>2, <2>3
  <1>12. Listed \in Seq(Hits) /\ Len(Listed) = n
   <2>1. Listed \in [1..n -> Hits] BY <1>10, <1>11
   <2> QED BY <1>1, <2>1
  <1>13. ASSUME NEW l \in Hits PROVE \E i \in 1..n : Listed[i] = l
   <2> DEFINE r == ListingRank(l)
   <2>1. r \in Nat /\ r < n BY <1>9
   <2> HIDE DEF r
   <2>2. r + 1 \in 1..n /\ (r + 1) - 1 = r BY <1>1, <2>1
   <2>3. Listed[r + 1] \in Hits /\ ListingRank(Listed[r + 1]) = r BY <1>11, <2>2
   <2>4. Listed[r + 1] = l BY <1>9, <2>3 DEF r
   <2> QED BY <2>2, <2>4
  <1>14. ASSUME NEW i \in 1..n, NEW j \in 1..n, i < j
         PROVE  ListingBefore(Listed[i], Listed[j])
   <2>1. /\ Listed[i] \in Hits /\ ListingRank(Listed[i]) = i - 1
         /\ Listed[j] \in Hits /\ ListingRank(Listed[j]) = j - 1
     BY <1>11
   <2>2. Listed[i] # Listed[j] /\ ~(ListingRank(Listed[j]) < ListingRank(Listed[i])) BY <1>14, <2>1
   <2> QED BY <1>9, <2>1, <2>2
  <1> QED BY <1>1, <1>12, <1>13, <1>14 DEF n

----------------------------------------
(* Pages. *)

(* The smaller of two integers. *)
LEMMA SmallerOf ==
    ASSUME NEW a \in Int, NEW b \in Int
    PROVE  Min({a, b}) = IF a <= b THEN a ELSE b
  <1> DEFINE m == IF a <= b THEN a ELSE b
  <1>1. m \in {a, b} /\ \A y \in {a, b} : m =< y OBVIOUS
  <1>2. \A x \in {a, b} : (\A y \in {a, b} : x =< y) => x = m OBVIOUS
  <1> HIDE DEF m
  <1> QED BY <1>1, <1>2 DEF Min

(* What lies on a page: the next limit elements, or what is left of the sequence. *)
LEMMA OnPage ==
    ASSUME NEW S, NEW s \in Seq(S), NEW start \in Nat, NEW limit \in Nat \ {0}
    PROVE  /\ PageOf(s, start, limit) = SubSeq(s, start + 1, IF start + limit <= Len(s) THEN start + limit ELSE Len(s))
           /\ PageOf(s, start, limit) \in Seq(S)
           /\ PageOf(s, start, limit) = <<>> <=> Len(s) <= start
           /\ \A i \in 1..Len(s) : start < i /\ i <= start + limit => s[i] \in ToSet(PageOf(s, start, limit))
           /\ ToSet(PageOf(s, start, limit)) \subseteq S
  <1> DEFINE end == IF start + limit <= Len(s) THEN start + limit ELSE Len(s)
             page == SubSeq(s, start + 1, end)
  <1>1. Len(s) \in Nat /\ \A i \in 1..Len(s) : s[i] \in S OBVIOUS
  <1>2. PageOf(s, start, limit) = page
   <2>1. start + limit \in Int /\ Len(s) \in Int BY <1>1
   <2>2. Min({start + limit, Len(s)}) = end BY <2>1, SmallerOf
   <2> HIDE DEF end
   <2> QED BY <2>2 DEF PageOf
  <1>3. end \in Nat /\ end <= Len(s) /\ end <= start + limit BY <1>1
  <1>4. start < Len(s) => start < end BY <1>1
  <1>5. \A i \in 1..Len(s) : i <= start + limit => i <= end BY <1>1
  <1> HIDE DEF end
  <1>6. /\ page \in Seq(S) /\ Len(page) = IF start + 1 <= end THEN end - (start + 1) + 1 ELSE 0
        /\ \A i \in 1 .. end - (start + 1) + 1 : page[i] = s[start + 1 + i - 1]
   <2>1. start + 1 \in Int /\ end \in Int /\ \A i \in start + 1 .. end : s[i] \in S BY <1>1, <1>3
   <2> QED BY <2>1, SubSeqProperties
  <1> HIDE DEF page
  <1>7. page = <<>> <=> Len(s) <= start
   <2>1. page = <<>> <=> Len(page) = 0 BY <1>6
   <2>2. Len(page) = 0 <=> ~(start < end) BY <1>3, <1>6
   <2> QED BY <1>1, <1>3, <1>4, <2>1, <2>2
  <1>8. ASSUME NEW i \in 1..Len(s), start < i, i <= start + limit
        PROVE  s[i] \in ToSet(page)
   <2>1. i - start \in 1 .. end - (start + 1) + 1 /\ start + 1 + (i - start) - 1 = i
     BY <1>3, <1>5, <1>8
   <2>2. i - start \in DOMAIN page BY <1>3, <1>6, <2>1
   <2>3. page[i - start] = s[i] BY <1>6, <2>1
   <2> QED BY <2>2, <2>3 DEF ToSet
  <1>9. ToSet(page) \subseteq S BY <1>6 DEF ToSet
  <1>10. page = SubSeq(s, start + 1, IF start + limit <= Len(s) THEN start + limit ELSE Len(s))
    BY DEF page, end
  <1> QED BY <1>2, <1>6, <1>7, <1>8, <1>9, <1>10

(* The pages of a sequence, one after the other, are the sequence. *)
LEMMA PagesJoin ==
    ASSUME NEW S, NEW s \in Seq(S), NEW n \in Nat \ {0}, NEW limit \in Nat \ {0}, NEW pages,
           pages = [p \in 1..n |-> PageOf(s, (p - 1) * limit, limit)], Len(s) <= n * limit
    PROVE  FlattenSeq(pages) = s
  <1> DEFINE End(i) == IF i * limit <= Len(s) THEN i * limit ELSE Len(s)
             G == [i \in 1..n |-> SubSeq(s, 1, End(i))]
             Flat(g) == g = [i \in 1..n |-> IF i = 1 THEN pages[i] ELSE g[i - 1] \o pages[i]]
  <1>1. Len(s) \in Nat OBVIOUS
  <1>2. ASSUME NEW i \in 1..n
        PROVE  /\ i * limit \in Nat /\ (i - 1) * limit \in Nat /\ (i - 1) * limit + limit = i * limit
               /\ End(i) \in 0..Len(s) /\ pages[i] \in Seq(S)
               /\ pages[i] = SubSeq(s, (i - 1) * limit + 1, End(i))
               /\ pages[i] = <<>> <=> Len(s) <= (i - 1) * limit
   <2> DEFINE start == (i - 1) * limit
   <2>1. start \in Nat /\ start + limit = i * limit OBVIOUS
   <2>2. pages[i] = PageOf(s, start, limit) OBVIOUS
   <2> HIDE DEF start
   <2>3. /\ PageOf(s, start, limit) = SubSeq(s, start + 1, IF start + limit <= Len(s) THEN start + limit ELSE Len(s))
         /\ PageOf(s, start, limit) \in Seq(S)
         /\ PageOf(s, start, limit) = <<>> <=> Len(s) <= start
     BY <2>1, OnPage
   <2>4. End(i) = IF start + limit <= Len(s) THEN start + limit ELSE Len(s) BY <2>1
   <2>5. End(i) \in 0..Len(s) BY <1>1, <2>1
   <2> HIDE DEF End
   <2>6. /\ pages[i] \in Seq(S) /\ pages[i] = SubSeq(s, start + 1, End(i))
         /\ pages[i] = <<>> <=> Len(s) <= start
     BY <2>2, <2>3, <2>4
   <2>7. /\ pages[i] \in Seq(S) /\ pages[i] = SubSeq(s, (i - 1) * limit + 1, End(i))
         /\ pages[i] = <<>> <=> Len(s) <= (i - 1) * limit
     BY <2>6, Zenon DEF start
   <2>8. i * limit \in Nat /\ (i - 1) * limit \in Nat /\ (i - 1) * limit + limit = i * limit
     BY <2>1 DEF start
   <2> QED BY <2>5, <2>7, <2>8
  <1>3. ASSUME NEW i \in 1..n
        PROVE  G[i] = IF i = 1 THEN pages[i] ELSE G[i - 1] \o pages[i]
   <2>1. CASE i = 1
    <3>1. (i - 1) * limit + 1 = 1 BY <2>1
    <3>2. pages[i] = SubSeq(s, 1, End(i)) BY <1>2, <3>1
    <3> HIDE DEF End
    <3> QED BY <2>1, <3>2
   <2>2. CASE i # 1 /\ (i - 1) * limit <= Len(s)
    <3>1. i - 1 \in 1..n BY <2>2
    <3> DEFINE k == (i - 1) * limit
               e == End(i)
    <3>2. End(i - 1) = k /\ k \in Nat /\ k <= Len(s) /\ k <= e /\ e \in 0..Len(s)
     <4>1. k \in Nat /\ k + limit = i * limit /\ e \in 0..Len(s) BY <1>2
     <4>2. k <= e
      <5> HIDE DEF k
      <5> QED BY <2>2, <4>1 DEF k
     <4> QED BY <2>2, <4>1, <4>2
    <3>3. G[i - 1] = SubSeq(s, 1, End(i - 1)) /\ G[i] = SubSeq(s, 1, e) BY <3>1
    <3>4. pages[i] = SubSeq(s, k + 1, e) BY <1>2
    <3> HIDE DEF End, k, e, G
    <3>5. 1 \in 1..Len(s) + 1 /\ k \in 1 - 1 .. Len(s) /\ e \in k .. Len(s) BY <1>1, <3>2
    <3>6. SubSeq(s, 1, k) \o SubSeq(s, k + 1, e) = SubSeq(s, 1, e) BY <3>5, ConcatAdjacentSubSeq
    <3> QED BY <2>2, <3>2, <3>3, <3>4, <3>6
   <2>3. CASE i # 1 /\ ~((i - 1) * limit <= Len(s))
    <3>1. i - 1 \in 1..n BY <2>3
    <3>2. (i - 1) * limit \in Nat /\ (i - 1) * limit + limit = i * limit BY <1>2
    <3>3. End(i - 1) = Len(s) /\ End(i) = Len(s) BY <1>1, <2>3, <3>2
    <3>4. pages[i] = <<>>
     <4> DEFINE k == (i - 1) * limit
     <4>1. k \in Nat /\ ~(k <= Len(s)) BY <2>3, <3>2
     <4>2. pages[i] = <<>> <=> Len(s) <= k BY <1>2
     <4> HIDE DEF k
     <4> QED BY <1>1, <4>1, <4>2
    <3>5. G[i - 1] = SubSeq(s, 1, Len(s)) /\ G[i] = SubSeq(s, 1, Len(s)) BY <3>1, <3>3
    <3> HIDE DEF End, G
    <3>6. SubSeq(s, 1, Len(s)) = s BY SubSeqFull
    <3>7. s \o <<>> = s BY ConcatEmptySeq
    <3> QED BY <2>3, <3>4, <3>5, <3>6, <3>7
   <2> QED BY <2>1, <2>2, <2>3
  <1>4. G = [i \in 1..n |-> G[i]] OBVIOUS
  <1>5. Len(pages) = n /\ n # 0 OBVIOUS
  <1>6. G[n] = s
   <2>1. n \in 1..n OBVIOUS
   <2>2. End(n) = Len(s) BY <1>1
   <2>3. G[n] = SubSeq(s, 1, Len(s)) BY <2>1, <2>2
   <2> HIDE DEF End, G
   <2> QED BY <2>3, SubSeqFull
  <1> HIDE DEF End, G
  <1>7. Flat(G) BY <1>3, <1>4
  <1>8. ASSUME NEW g, Flat(g) PROVE g[n] = G[n]
   <2> DEFINE Bad == {i \in 1..n : g[i] # G[i]}
   <2> SUFFICES ASSUME Bad # {} PROVE FALSE
     OBVIOUS
   <2>1. PICK m \in Bad : \A i \in Bad : m <= i
    <3>1. Bad \subseteq Nat OBVIOUS
    <3> HIDE DEF Bad
    <3> QED BY <3>1, LeastNatural
   <2>2. m \in 1..n /\ g[m] # G[m] BY <2>1
   <2>3. g[m] = IF m = 1 THEN pages[m] ELSE g[m - 1] \o pages[m] BY <1>8, <2>2
   <2>4. G[m] = IF m = 1 THEN pages[m] ELSE G[m - 1] \o pages[m] BY <1>3, <2>2
   <2>5. m # 1 BY <2>2, <2>3, <2>4
   <2>6. m - 1 \in 1..n /\ ~(m <= m - 1) BY <2>2, <2>5
   <2>7. g[m - 1] = G[m - 1] BY <2>1, <2>6
   <2> QED BY <2>2, <2>3, <2>4, <2>5, <2>7
  <1> DEFINE F == CHOOSE g : g = [i \in 1..Len(pages) |-> IF i = 1 THEN pages[i] ELSE g[i - 1] \o pages[i]]
  <1>9. FlattenSeq(pages) = F[Len(pages)] BY <1>5 DEF FlattenSeq
  <1>10. F = CHOOSE g : Flat(g) BY <1>5
  <1> HIDE DEF F, Flat
  <1>11. Flat(F) BY <1>7, <1>10
  <1> QED BY <1>5, <1>6, <1>8, <1>9, <1>11

----------------------------------------
(* The reader of the reviews. *)

(* What a reader may rely on: until somebody takes a review back, a review that was there
   when the reading began has been seen or stands on a page still to come. *)
Awaited(v) == v \in mkReader.seen \/ (mkReader.offset <= ReviewRank(v) /\ ~mkReader.finished)
MarketInv ==
    /\ mkClock \in Nat /\ mkRatings \in [Raters -> Rating]
    /\ \A u \in Raters : /\ mkRatings[u].review => mkRatings[u].stars \in Stars
                         /\ mkRatings[u].updated <= mkClock
    /\ mkReader \in [offset : Int, seen : SUBSET Raters, owed : SUBSET Raters,
                     withdrawn : BOOLEAN, finished : BOOLEAN]
    /\ mkReader.owed \subseteq Reviewed
    /\ ~mkReader.withdrawn => \A v \in mkReader.owed : Awaited(v)
    /\ mkSearch \in [query : BOOLEAN, sort : Sorts \cup {"none"}]

(* The marketplace opens without ratings. *)
LEMMA MarketStarts == ASSUME MarketInit PROVE MarketInv
  <1>1. mkClock = 0 /\ mkReader = NoReader /\ mkSearch = [query |-> FALSE, sort |-> "none"]
    BY DEF MarketInit
  <1>2. mkRatings = [u \in Raters |-> [stars |-> 0, review |-> FALSE, updated |-> 0]]
    BY DEF MarketInit
  <1>3. mkRatings \in [Raters -> Rating] /\ \A u \in Raters : ~mkRatings[u].review /\ mkRatings[u].updated = 0
    BY <1>2 DEF Rating
  <1>4. /\ mkReader \in [offset : Int, seen : SUBSET Raters, owed : SUBSET Raters,
                         withdrawn : BOOLEAN, finished : BOOLEAN]
        /\ mkReader.owed = {}
    BY <1>1 DEF NoReader
  <1>5. mkSearch \in [query : BOOLEAN, sort : Sorts \cup {"none"}] BY <1>1
  <1> QED BY <1>1, <1>3, <1>4, <1>5 DEF MarketInv

(* A rating may push the reviews of others back in the list, and takes one forward only
   when it withdraws a review. *)
LEMMA RankOnlyGrows ==
    ASSUME MarketInv, NEW u \in Raters, NEW s \in Stars, NEW text \in BOOLEAN, NEW passes \in BOOLEAN,
           SubmitRating(u, s, text, passes), ~(mkRatings[u].review /\ ~text), NEW v \in Reviewed, v # u
    PROVE  v \in Reviewed' /\ ReviewRank(v)' >= ReviewRank(v)
  <1> DEFINE before == {w \in Reviewed : ReviewBefore(w, v)}
  <1>1. /\ mkClock \in Nat /\ mkRatings \in [Raters -> Rating]
        /\ \A w \in Raters : mkRatings[w].updated <= mkClock
    BY DEF MarketInv
  <1>2. /\ mkClock' = IF passes THEN mkClock + 1 ELSE mkClock
        /\ mkRatings' = [mkRatings EXCEPT ![u] = [stars |-> s, review |-> text, updated |-> mkClock']]
    BY DEF SubmitRating
  <1>3. mkClock' \in Nat /\ mkClock <= mkClock' BY <1>1, <1>2
  <1>4. \A w \in Raters : w # u => mkRatings'[w] = mkRatings[w] BY <1>1, <1>2
  <1>5. mkRatings'[u].review = text /\ mkRatings'[u].updated = mkClock' BY <1>1, <1>2
  <1>6. \A w \in Raters : w \in Nat /\ mkRatings[w].updated \in Nat
   <2> TAKE w \in Raters
   <2>1. mkRatings[w] \in Rating BY <1>1
   <2> QED BY <2>1, MarketAssumption DEF Rating
  <1>7. v \in Raters /\ v \in Reviewed'
   <2>1. v \in Raters /\ mkRatings[v].review BY DEF Reviewed
   <2>2. mkRatings'[v].review BY <1>4, <2>1
   <2> QED BY <2>1, <2>2 DEF Reviewed
  <1>8. ASSUME NEW w \in Reviewed, ReviewBefore(w, v)
        PROVE  w \in Reviewed' /\ ReviewBefore(w, v)'
   <2>1. w \in Raters /\ mkRatings[w].review BY DEF Reviewed
   <2>2. mkRatings'[v] = mkRatings[v] BY <1>4, <1>7
   <2>3. CASE w # u
    <3>1. mkRatings'[w] = mkRatings[w] BY <1>4, <2>1, <2>3
    <3> QED BY <1>8, <2>1, <2>2, <3>1 DEF Reviewed, ReviewBefore
   <2>4. CASE w = u
    <3>1. text /\ mkRatings'[w].review /\ mkRatings'[w].updated = mkClock' BY <1>5, <2>1, <2>4
    <3>2. /\ mkRatings[w].updated \in Nat /\ mkRatings[v].updated \in Nat /\ w \in Nat /\ v \in Nat
          /\ mkRatings[w].updated <= mkClock
      BY <1>1, <1>6, <1>7, <2>1
    <3>3. \/ mkRatings[w].updated > mkRatings[v].updated
          \/ mkRatings[w].updated = mkRatings[v].updated /\ w > v
      BY <1>8 DEF ReviewBefore
    <3>4. \/ mkRatings'[w].updated > mkRatings'[v].updated
          \/ mkRatings'[w].updated = mkRatings'[v].updated /\ w > v
      BY <1>1, <1>3, <2>2, <3>1, <3>2, <3>3
    <3> QED BY <2>1, <3>1, <3>4 DEF Reviewed, ReviewBefore
   <2> QED BY <2>3, <2>4
  <1>9. before \in SUBSET before' BY <1>8
  <1>10. IsFiniteSet(before')
   <2>1. before' \in SUBSET Raters BY DEF Reviewed
   <2> QED BY <2>1, MarketAssumption, FS_Subset
  <1>11. ReviewRank(v) = Cardinality(before) /\ ReviewRank(v)' = Cardinality(before')
    BY DEF ReviewRank
  <1> DEFINE later == before'
  <1> HIDE DEF before, later
  <1>12. before \in SUBSET later /\ IsFiniteSet(later) BY <1>9, <1>10 DEF later
  <1>13. IsFiniteSet(before) /\ Cardinality(before) <= Cardinality(later) BY <1>12, FS_Subset
  <1>14. Cardinality(before) \in Nat /\ Cardinality(later) \in Nat
    BY <1>12, <1>13, FS_CardinalityType
  <1> QED BY <1>7, <1>11, <1>13, <1>14 DEF later

(* A rating keeps what the reader relies on. *)
LEMMA RatingKeeps ==
    ASSUME MarketInv, NEW u \in Raters, NEW s \in Stars, NEW text \in BOOLEAN, NEW passes \in BOOLEAN,
           SubmitRating(u, s, text, passes)
    PROVE  MarketInv'
  <1>1. /\ mkClock \in Nat /\ mkRatings \in [Raters -> Rating]
        /\ \A w \in Raters : /\ mkRatings[w].review => mkRatings[w].stars \in Stars
                             /\ mkRatings[w].updated <= mkClock
        /\ mkReader \in [offset : Int, seen : SUBSET Raters, owed : SUBSET Raters,
                         withdrawn : BOOLEAN, finished : BOOLEAN]
        /\ mkReader.owed \subseteq Reviewed
        /\ ~mkReader.withdrawn => \A v \in mkReader.owed : Awaited(v)
    BY DEF MarketInv
  <1>2. /\ mkClock' = IF passes THEN mkClock + 1 ELSE mkClock
        /\ mkRatings' = [mkRatings EXCEPT ![u] = [stars |-> s, review |-> text, updated |-> mkClock']]
        /\ mkReader' = [mkReader EXCEPT !.owed = @ \ {u},
                                        !.withdrawn = @ \/ (mkRatings[u].review /\ ~text)]
        /\ mkSearch' = mkSearch
    BY DEF SubmitRating
  <1>3. mkClock' \in Nat /\ mkClock <= mkClock' BY <1>1, <1>2
  <1>4. s \in Nat BY MarketAssumption
  <1>5. [stars |-> s, review |-> text, updated |-> mkClock'] \in Rating BY <1>3, <1>4 DEF Rating
  <1>6. mkRatings' \in [Raters -> Rating] BY <1>1, <1>2, <1>5
  <1>7. \A w \in Raters : w # u => mkRatings'[w] = mkRatings[w] BY <1>1, <1>2
  <1>8. mkRatings'[u].review = text /\ mkRatings'[u].updated = mkClock' /\ mkRatings'[u].stars = s
    BY <1>1, <1>2
  <1>9. ASSUME NEW w \in Raters
        PROVE  (mkRatings'[w].review => mkRatings'[w].stars \in Stars) /\ mkRatings'[w].updated <= mkClock'
   <2>1. CASE w = u BY <1>3, <1>8, <2>1
   <2>2. CASE w # u
    <3>1. mkRatings'[w] = mkRatings[w] /\ mkRatings[w] \in Rating BY <1>1, <1>7, <2>2
    <3>2. mkRatings[w].updated \in Nat BY <3>1 DEF Rating
    <3>3. mkRatings[w].updated <= mkClock BY <1>1
    <3>4. mkRatings[w].updated <= mkClock' BY <1>1, <1>3, <3>2, <3>3
    <3> QED BY <1>1, <3>1, <3>4
   <2> QED BY <2>1, <2>2
  <1>10. /\ mkReader'.offset = mkReader.offset /\ mkReader'.seen = mkReader.seen
         /\ mkReader'.finished = mkReader.finished /\ mkReader'.owed = mkReader.owed \ {u}
         /\ mkReader'.withdrawn = (mkReader.withdrawn \/ (mkRatings[u].review /\ ~text))
    BY <1>1, <1>2
  <1>11. mkReader' \in [offset : Int, seen : SUBSET Raters, owed : SUBSET Raters,
                        withdrawn : BOOLEAN, finished : BOOLEAN]
    BY <1>1, <1>2
  <1>12. mkReader'.owed \subseteq Reviewed'
   <2> SUFFICES ASSUME NEW v \in mkReader.owed, v # u PROVE v \in Reviewed'
     BY <1>10
   <2>1. v \in Raters /\ mkRatings[v].review BY <1>1 DEF Reviewed
   <2>2. mkRatings'[v].review BY <1>7, <2>1
   <2> QED BY <2>1, <2>2 DEF Reviewed
  <1>13. ASSUME ~mkReader'.withdrawn, NEW v \in mkReader'.owed PROVE Awaited(v)'
   <2>1. ~mkReader.withdrawn /\ ~(mkRatings[u].review /\ ~text) /\ v \in mkReader.owed /\ v # u
     BY <1>10, <1>13
   <2>2. v \in Reviewed /\ Awaited(v) BY <1>1, <2>1
   <2>3. ReviewRank(v)' >= ReviewRank(v) BY <2>1, <2>2, RankOnlyGrows
   <2>4. ReviewRank(v) \in Nat BY <1>1, <2>2, ReviewsAreOrdered
   <2>5. CASE v \in mkReader.seen BY <1>10, <2>5 DEF Awaited
   <2>6. CASE mkReader.offset <= ReviewRank(v) /\ ~mkReader.finished
    <3>1. ReviewRank(v)' \in Int
     <4>1. /\ IsFiniteSet({w \in Reviewed' : ReviewBefore(w, v)'})
      <5>1. {w \in Reviewed' : ReviewBefore(w, v)'} \in SUBSET Raters BY DEF Reviewed
      <5> QED BY <5>1, MarketAssumption, FS_Subset
     <4>2. Cardinality({w \in Reviewed' : ReviewBefore(w, v)'}) \in Nat BY <4>1, FS_CardinalityType
     <4> QED BY <4>2 DEF ReviewRank
    <3>2. mkReader.offset \in Int BY <1>1
    <3>3. mkReader.offset <= ReviewRank(v)' BY <2>3, <2>4, <2>6, <3>1, <3>2
    <3> QED BY <1>10, <2>6, <3>3 DEF Awaited
   <2> QED BY <2>2, <2>5, <2>6 DEF Awaited
  <1>14. mkSearch' \in [query : BOOLEAN, sort : Sorts \cup {"none"}] BY <1>2 DEF MarketInv
  <1> QED BY <1>3, <1>6, <1>9, <1>11, <1>12, <1>13, <1>14 DEF MarketInv

(* So does opening the list and reading a page of it. *)
LEMMA ReadingKeeps ==
    ASSUME MarketInv, OpenReviews \/ ReadReviews
    PROVE  MarketInv'
  <1>1. /\ mkClock \in Nat /\ mkRatings \in [Raters -> Rating]
        /\ \A w \in Raters : /\ mkRatings[w].review => mkRatings[w].stars \in Stars
                             /\ mkRatings[w].updated <= mkClock
        /\ mkReader \in [offset : Int, seen : SUBSET Raters, owed : SUBSET Raters,
                         withdrawn : BOOLEAN, finished : BOOLEAN]
        /\ mkReader.owed \subseteq Reviewed
        /\ ~mkReader.withdrawn => \A v \in mkReader.owed : Awaited(v)
        /\ mkSearch \in [query : BOOLEAN, sort : Sorts \cup {"none"}]
    BY DEF MarketInv
  <1>2. mkClock' = mkClock /\ mkRatings' = mkRatings /\ mkSearch' = mkSearch
    BY DEF OpenReviews, ReadReviews
  <1>3. Reviewed' = Reviewed /\ \A v \in Reviewed : ReviewRank(v)' = ReviewRank(v)
    BY <1>2 DEF Reviewed, ReviewRank, ReviewBefore
  <1>4. /\ Reviewed \subseteq Raters /\ Cardinality(Reviewed) \in Nat
        /\ Len(ListReviews) = Cardinality(Reviewed) /\ DOMAIN ListReviews = 1..Cardinality(Reviewed)
        /\ \A u \in Reviewed : /\ ReviewRank(u) \in Nat /\ ReviewRank(u) < Cardinality(Reviewed)
                               /\ ListReviews[ReviewRank(u) + 1] = u
        /\ \A i \in 1..Cardinality(Reviewed) : ListReviews[i] \in Reviewed
    BY <1>1, ReviewsAreOrdered
  <1> SUFFICES /\ mkReader' \in [offset : Int, seen : SUBSET Raters, owed : SUBSET Raters,
                                 withdrawn : BOOLEAN, finished : BOOLEAN]
               /\ mkReader'.owed \subseteq Reviewed
               /\ ~mkReader'.withdrawn => \A v \in mkReader'.owed : Awaited(v)'
    BY <1>1, <1>2, <1>3 DEF MarketInv
  <1>5. CASE OpenReviews
   <2>1. mkReader' = [NoReader EXCEPT !.offset = 0, !.owed = Reviewed] BY <1>5 DEF OpenReviews
   <2>2. /\ mkReader'.offset = 0 /\ mkReader'.owed = Reviewed /\ ~mkReader'.finished
         /\ mkReader' \in [offset : Int, seen : SUBSET Raters, owed : SUBSET Raters,
                           withdrawn : BOOLEAN, finished : BOOLEAN]
    <3>1. mkReader' = [offset |-> 0, seen |-> {}, owed |-> Reviewed, withdrawn |-> FALSE, finished |-> FALSE]
      BY <2>1 DEF NoReader
    <3>2. Reviewed \in SUBSET Raters /\ {} \in SUBSET Raters BY <1>4
    <3> QED BY <3>1, <3>2
   <2>3. \A v \in Reviewed : 0 <= ReviewRank(v)' BY <1>3, <1>4
   <2> QED BY <2>2, <2>3 DEF Awaited
  <1>6. CASE ReadReviews
   <2> DEFINE start == mkReader.offset
              page == PageOf(ListReviews, start, PageLimit)
   <2>1. /\ start >= 0 /\ ~mkReader.finished
         /\ mkReader' = [mkReader EXCEPT !.offset = @ + PageLimit, !.seen = @ \cup ToSet(page),
                                         !.finished = start + PageLimit >= Len(ListReviews)]
     BY <1>6 DEF ReadReviews
   <2>2. start \in Nat /\ PageLimit \in Nat \ {0} BY <1>1, <2>1, MarketAssumption
   <2>3. ListReviews \in Seq(Reviewed)
    <3>1. ListReviews = [i \in 1..Cardinality(Reviewed) |-> ListReviews[i]] BY DEF ListReviews
    <3>2. ListReviews \in [1..Cardinality(Reviewed) -> Reviewed] BY <1>4, <3>1
    <3> QED BY <1>4, <3>2
   <2>4. /\ \A i \in 1..Len(ListReviews) : start < i /\ i <= start + PageLimit => ListReviews[i] \in ToSet(page)
         /\ ToSet(page) \subseteq Reviewed
     BY <2>2, <2>3, OnPage
   <2>5. /\ mkReader'.offset = start + PageLimit /\ mkReader'.seen = mkReader.seen \cup ToSet(page)
         /\ mkReader'.owed = mkReader.owed /\ mkReader'.withdrawn = mkReader.withdrawn
         /\ mkReader'.finished = (start + PageLimit >= Len(ListReviews))
     BY <1>1, <2>1
   <2> HIDE DEF page, start
   <2>6. mkReader' \in [offset : Int, seen : SUBSET Raters, owed : SUBSET Raters,
                        withdrawn : BOOLEAN, finished : BOOLEAN]
    <3>1. mkReader.seen \cup ToSet(page) \in SUBSET Raters BY <1>1, <1>4, <2>4
    <3>2. mkReader.offset + PageLimit \in Int BY <1>1, <2>2
    <3> DEFINE last == start + PageLimit >= Len(ListReviews)
               all == mkReader.seen \cup ToSet(page)
               next == mkReader.offset + PageLimit
    <3>3. last \in BOOLEAN OBVIOUS
    <3>4. mkReader' = [mkReader EXCEPT !.offset = next, !.seen = all, !.finished = last] BY <2>1
    <3>5. all \in SUBSET Raters /\ next \in Int BY <3>1, <3>2
    <3> HIDE DEF last, all, next
    <3> QED BY <1>1, <3>3, <3>4, <3>5
   <2>7. ASSUME ~mkReader'.withdrawn, NEW v \in mkReader'.owed PROVE Awaited(v)'
    <3>1. v \in Reviewed /\ Awaited(v) BY <1>1, <2>5, <2>7
    <3>2. ReviewRank(v) \in Nat /\ ReviewRank(v) < Len(ListReviews) /\ ListReviews[ReviewRank(v) + 1] = v
      BY <1>4, <3>1
    <3>3. CASE v \in mkReader.seen BY <2>5, <3>3 DEF Awaited
    <3>4. CASE start <= ReviewRank(v) /\ ReviewRank(v) < start + PageLimit
     <4>1. /\ ReviewRank(v) + 1 \in 1..Len(ListReviews) /\ start < ReviewRank(v) + 1
           /\ ReviewRank(v) + 1 <= start + PageLimit
       BY <1>4, <2>2, <3>2, <3>4
     <4>2. ListReviews[ReviewRank(v) + 1] \in ToSet(page) BY <2>4, <4>1
     <4> QED BY <2>5, <3>2, <4>2 DEF Awaited
    <3>5. CASE start + PageLimit <= ReviewRank(v)
     <4>1. ~(start + PageLimit >= Len(ListReviews)) BY <1>4, <2>2, <3>2, <3>5
     <4>2. ReviewRank(v)' = ReviewRank(v) BY <1>3, <3>1
     <4> QED BY <2>5, <3>5, <4>1, <4>2 DEF Awaited
    <3>6. v \in mkReader.seen \/ start <= ReviewRank(v) BY <3>1 DEF Awaited, start
    <3> QED BY <2>2, <3>2, <3>3, <3>4, <3>5, <3>6
   <2> QED BY <1>1, <2>5, <2>6, <2>7
  <1> QED BY <1>5, <1>6

(* Every step of the marketplace keeps the invariant. *)
LEMMA MarketSteps == ASSUME MarketInv, [MarketNext]_mkVars PROVE MarketInv'
  <1>1. ASSUME NEW u \in Raters, NEW s \in Stars, NEW text \in BOOLEAN, NEW passes \in BOOLEAN,
               SubmitRating(u, s, text, passes)
        PROVE  MarketInv'
    BY <1>1, RatingKeeps
  <1>2. ASSUME OpenReviews \/ ReadReviews PROVE MarketInv' BY <1>2, ReadingKeeps
  <1>3. ASSUME mkRatings' = mkRatings, mkClock' = mkClock, mkReader' = mkReader,
               mkSearch' \in [query : BOOLEAN, sort : Sorts \cup {"none"}]
        PROVE  MarketInv'
    BY <1>3 DEF MarketInv, Awaited, Reviewed, ReviewRank, ReviewBefore
  <1>4. ASSUME NEW q \in BOOLEAN, NEW sort \in Sorts, SearchStrategies(q, sort) PROVE MarketInv'
   <2>1. /\ mkRatings' = mkRatings /\ mkClock' = mkClock /\ mkReader' = mkReader
         /\ mkSearch' = [query |-> q, sort |-> sort]
     BY <1>4 DEF SearchStrategies
   <2>2. mkSearch' \in [query : BOOLEAN, sort : Sorts \cup {"none"}] BY <2>1
   <2> QED BY <1>3, <2>1, <2>2
  <1>5. ASSUME UNCHANGED mkVars PROVE MarketInv'
   <2>1. mkRatings' = mkRatings /\ mkClock' = mkClock /\ mkReader' = mkReader /\ mkSearch' = mkSearch
     BY <1>5 DEF mkVars
   <2>2. mkSearch' \in [query : BOOLEAN, sort : Sorts \cup {"none"}] BY <2>1 DEF MarketInv
   <2> QED BY <1>3, <2>1, <2>2
  <1> QED BY <1>1, <1>2, <1>4, <1>5 DEF MarketNext

(* Under the invariant nothing is missed: not by a reader, not in the counts, not by a search. *)
LEMMA MarketHolds == ASSUME MarketInv PROVE PagesComplete
  <1>1. /\ mkRatings \in [Raters -> Rating] /\ mkSearch.query \in BOOLEAN
        /\ \A w \in Raters : mkRatings[w].review => mkRatings[w].stars \in Stars
        /\ ~mkReader.withdrawn => \A v \in mkReader.owed : Awaited(v)
    BY DEF MarketInv
  <1>2. mkReader.finished /\ ~mkReader.withdrawn => mkReader.owed \subseteq mkReader.seen
    BY <1>1 DEF Awaited
  <1>3. Len(ListReviews) <= MapThenSumSet(LAMBDA s : GetAggregate[s], Stars)
   <2> DEFINE rated == {u \in Raters : mkRatings[u].stars # 0}
              kind == [u \in Raters |-> mkRatings[u].stars]
              counted == {u \in rated : kind[u] \in Stars}
              f == [s \in Stars |-> Cardinality({u \in rated : kind[u] = s})]
   <2>1. IsFiniteSet(rated) /\ IsFiniteSet(Stars)
    <3>1. rated \in SUBSET Raters OBVIOUS
    <3> HIDE DEF rated
    <3> QED BY <3>1, MarketAssumption, FS_Subset
   <2>2. GetAggregate = f BY DEF GetAggregate
   <2>3. MapThenSumSet(LAMBDA s : GetAggregate[s], Stars) = SumOn(GetAggregate, Stars) BY DEF SumOn
   <2>4. Reviewed \in SUBSET counted
    <3> SUFFICES ASSUME NEW u \in Reviewed PROVE u \in counted
      OBVIOUS
    <3>1. u \in Raters /\ mkRatings[u].review BY DEF Reviewed
    <3>2. mkRatings[u].stars \in Stars BY <1>1, <3>1
    <3>3. mkRatings[u].stars # 0 BY <3>2, MarketAssumption
    <3> QED BY <3>1, <3>2, <3>3
   <2>5. Len(ListReviews) = Cardinality(Reviewed) BY <1>1, ReviewsAreOrdered
   <2> HIDE DEF rated, kind
   <2>6. SumOn(f, Stars) = Cardinality(counted) BY <2>1, CountByKind
   <2>7. IsFiniteSet(counted) BY <2>1, FS_Subset
   <2> HIDE DEF f, counted
   <2>8. Cardinality(Reviewed) <= Cardinality(counted) BY <2>4, <2>7, FS_Subset
   <2>9. SumOn(GetAggregate, Stars) = Cardinality(counted) BY <2>2, <2>6
   <2> QED BY <2>3, <2>5, <2>8, <2>9
  <1>4. LET pages == 1 .. Len(Catalog) + 1
            shown == FlattenSeq([p \in pages |-> SearchPage(p).results])
        IN /\ Len(shown) = Cardinality(Hits) /\ ToSet(shown) = Hits
           /\ \A i \in 1 .. Len(shown) - 1 : ListingBefore(shown[i], shown[i + 1])
           /\ \A p \in pages : SearchPage(p).more <=> SearchPage(p + 1).results # <<>>
   <2> DEFINE n == Len(Catalog) + 1
              pages == [p \in 1..n |-> SearchPage(p).results]
              shown == FlattenSeq(pages)
   <2>1. /\ Cardinality(Hits) \in Nat /\ Cardinality(Hits) <= Len(Catalog)
         /\ Listed \in Seq(Hits) /\ Len(Listed) = Cardinality(Hits)
         /\ \A l \in Hits : \E i \in 1..Cardinality(Hits) : Listed[i] = l
         /\ \A i, j \in 1..Cardinality(Hits) : i < j => ListingBefore(Listed[i], Listed[j])
     BY <1>1, ListingsAreOrdered
   <2>2. PageLimit \in Nat \ {0} /\ Len(Catalog) \in Nat
    <3>1. Catalog \in Seq([score : Nat, downloads : Nat]) BY MarketAssumption
    <3> QED BY <3>1, MarketAssumption
   <2>3. n \in Nat \ {0} /\ Len(Listed) <= n BY <2>1, <2>2
   <2>4. pages = [p \in 1..n |-> PageOf(Listed, (p - 1) * PageLimit, PageLimit)]
    <3>1. \A p \in 1..n : SearchPage(p).results = PageOf(Listed, (p - 1) * PageLimit, PageLimit)
      BY DEF SearchPage
    <3> HIDE DEF n
    <3> QED BY <3>1
   <2>5. \A p \in 1..n : /\ SearchPage(p).more <=> (p - 1) * PageLimit + PageLimit < Len(Listed)
                         /\ SearchPage(p + 1).results = PageOf(Listed, (p + 1 - 1) * PageLimit, PageLimit)
    <3> TAKE p \in 1..n
    <3>1. ASSUME NEW a, NEW b, NEW c \in BOOLEAN
          PROVE  [results |-> a, total |-> b, more |-> c].more = c
      OBVIOUS
    <3> DEFINE another == (p - 1) * PageLimit + PageLimit < Len(Listed)
               there == PageOf(Listed, (p - 1) * PageLimit, PageLimit)
    <3>2. SearchPage(p) = [results |-> there, total |-> Len(Listed), more |-> another]
      BY DEF SearchPage
    <3>3. another \in BOOLEAN OBVIOUS
    <3>5. SearchPage(p + 1).results = PageOf(Listed, (p + 1 - 1) * PageLimit, PageLimit)
      BY DEF SearchPage
    <3> HIDE DEF another, there
    <3>4. SearchPage(p).more = another BY <3>1, <3>2, <3>3
    <3> QED BY <3>4, <3>5 DEF another
   <2> HIDE DEF n, pages
   <2>6. Len(Listed) <= n * PageLimit
    <3>1. n <= n * PageLimit BY <2>2, <2>3
    <3>2. n * PageLimit \in Nat BY <2>2, <2>3
    <3> QED BY <2>1, <2>3, <3>1, <3>2
   <2>7. shown = Listed BY <2>1, <2>2, <2>3, <2>4, <2>6, PagesJoin
   <2>8. ToSet(Listed) = Hits
    <3>1. DOMAIN Listed = 1..Cardinality(Hits) /\ \A i \in DOMAIN Listed : Listed[i] \in Hits
      BY <2>1
    <3> QED BY <2>1, <3>1 DEF ToSet
   <2>9. ASSUME NEW i \in 1..Len(Listed) - 1 PROVE ListingBefore(Listed[i], Listed[i + 1])
    <3>1. i \in 1..Cardinality(Hits) /\ i + 1 \in 1..Cardinality(Hits) /\ i < i + 1 BY <2>1
    <3> QED BY <2>1, <3>1
   <2>10. ASSUME NEW p \in 1..n PROVE SearchPage(p).more <=> SearchPage(p + 1).results # <<>>
    <3> DEFINE start == (p + 1 - 1) * PageLimit
    <3>1. start \in Nat /\ (p - 1) * PageLimit + PageLimit = start BY <2>2, <2>3
    <3>2. SearchPage(p + 1).results = PageOf(Listed, start, PageLimit) BY <2>5
    <3>3. SearchPage(p).more <=> start < Len(Listed) BY <2>5, <3>1
    <3> HIDE DEF start
    <3>5. Listed \in Seq(Hits) /\ start \in Nat /\ PageLimit \in Nat \ {0} BY <2>1, <2>2, <3>1
    <3>4. /\ PageOf(Listed, start, PageLimit)
               = SubSeq(Listed, start + 1, IF start + PageLimit <= Len(Listed) THEN start + PageLimit ELSE Len(Listed))
          /\ PageOf(Listed, start, PageLimit) \in Seq(Hits)
          /\ PageOf(Listed, start, PageLimit) = <<>> <=> Len(Listed) <= start
      BY <3>5, OnPage
    <3>6. start < Len(Listed) <=> ~(Len(Listed) <= start) BY <2>1, <3>1
    <3> QED BY <3>2, <3>3, <3>4, <3>6, Zenon
   <2> HIDE DEF shown
   <2>11. /\ Len(shown) = Cardinality(Hits) /\ ToSet(shown) = Hits
          /\ \A i \in 1 .. Len(shown) - 1 : ListingBefore(shown[i], shown[i + 1])
          /\ \A p \in 1..n : SearchPage(p).more <=> SearchPage(p + 1).results # <<>>
     BY <2>1, <2>7, <2>8, <2>9, <2>10
   <2> QED BY <2>11 DEF shown, pages, n
  <1> QED BY <1>2, <1>3, <1>4, Zenon DEF PagesComplete

----------------------------------------
(* Corporate actions. *)

(* Rounding to a whole unit takes half of one off at most. *)
LEMMA QuantizedNotBelow ==
    ASSUME NEW num \in Nat, NEW den \in Nat, den > 0
    PROVE  2 * num <= 2 * (den * Quantized(num, den)) + den
  <1> DEFINE down == num \div den
             rem == num % den
  <1>1. down \in Nat /\ rem \in Nat /\ rem < den /\ num = den * down + rem OBVIOUS
  <1>2. \/ Quantized(num, den) = down /\ 2 * rem <= den
        \/ Quantized(num, den) = down + 1
    BY <1>1 DEF Quantized
  <1> HIDE DEF down, rem
  <1> DEFINE p == den * down
  <1>3. p \in Nat /\ num = p + rem /\ den * (down + 1) = p + den BY <1>1
  <1> HIDE DEF p
  <1>4. CASE Quantized(num, den) = down /\ 2 * rem <= den
   <2>1. 2 * num <= 2 * p + den BY <1>1, <1>3, <1>4
   <2> QED BY <1>4, <2>1 DEF p
  <1>5. CASE Quantized(num, den) = down + 1
   <2>1. 2 * num <= 2 * (p + den) + den BY <1>1, <1>3
   <2> QED BY <1>3, <1>5, <2>1
  <1> QED BY <1>2, <1>4, <1>5

\* Fractions whose numerator and denominator are positive.
FactorSet == (Nat \ {0}) \X (Nat \ {0})

(* Multiplying fractions. *)
LEMMA TimesFacts ==
    ASSUME NEW f \in FactorSet, NEW g \in FactorSet
    PROVE  /\ Times(f, g) \in FactorSet
           /\ Times(f, g)[1] = f[1] * g[1] /\ Times(f, g)[2] = f[2] * g[2]
           /\ Times(f, One) = f /\ Times(One, f) = f
  <1>1. PICK a \in Nat \ {0}, b \in Nat \ {0} : f = <<a, b>>
    BY DEF FactorSet
  <1>2. PICK c \in Nat \ {0}, d \in Nat \ {0} : g = <<c, d>>
    BY DEF FactorSet
  <1>3. a * c \in Nat \ {0} /\ b * d \in Nat \ {0} OBVIOUS
  <1>4. Times(f, g) = <<a * c, b * d>> BY <1>1, <1>2 DEF Times
  <1>5. Times(f, One) = <<a, b>> /\ Times(One, f) = <<a, b>> BY <1>1 DEF Times, One
  <1> QED BY <1>1, <1>2, <1>3, <1>4, <1>5 DEF FactorSet

(* Pairs of fractions are multiplied across. *)
LEMMA TimesAcross ==
    ASSUME NEW f \in FactorSet, NEW g \in FactorSet, NEW h \in FactorSet, NEW k \in FactorSet
    PROVE  Times(Times(f, g), Times(h, k)) = Times(Times(f, h), Times(g, k))
  <1>1. \A a, b, c, d \in Nat : (a * b) * (c * d) = (a * c) * (b * d) OBVIOUS
  <1>2. /\ f[1] \in Nat /\ f[2] \in Nat /\ g[1] \in Nat /\ g[2] \in Nat
        /\ h[1] \in Nat /\ h[2] \in Nat /\ k[1] \in Nat /\ k[2] \in Nat
    BY DEF FactorSet
  <1>3. /\ (f[1] * g[1]) * (h[1] * k[1]) = (f[1] * h[1]) * (g[1] * k[1])
        /\ (f[2] * g[2]) * (h[2] * k[2]) = (f[2] * h[2]) * (g[2] * k[2])
    BY <1>1, <1>2
  <1>4. /\ Times(f, g) = <<f[1] * g[1], f[2] * g[2]>> /\ Times(h, k) = <<h[1] * k[1], h[2] * k[2]>>
        /\ Times(f, h) = <<f[1] * h[1], f[2] * h[2]>> /\ Times(g, k) = <<g[1] * k[1], g[2] * k[2]>>
    BY DEF Times
  <1>5. /\ Times(Times(f, g), Times(h, k)) = <<(f[1] * g[1]) * (h[1] * k[1]), (f[2] * g[2]) * (h[2] * k[2])>>
        /\ Times(Times(f, h), Times(g, k)) = <<(f[1] * h[1]) * (g[1] * k[1]), (f[2] * h[2]) * (g[2] * k[2])>>
    BY <1>4 DEF Times
  <1> QED BY <1>3, <1>5

\* g tells the product of the first factors, up to the n-th.
Products(g, fs, n) == g = [i \in 0..n |-> IF i = 0 THEN One ELSE Times(g[i - 1], fs[i])]

(* The products can be told up to any factor. *)
LEMMA ProductsExist ==
    ASSUME NEW fs, NEW n \in Nat
    PROVE  \E g : Products(g, fs, n)
  <1> DEFINE Bad == {i \in Nat : ~ \E g : Products(g, fs, i)}
  <1> SUFFICES ASSUME Bad # {} PROVE FALSE
    BY SMT
  <1>1. PICK m \in Bad : \A i \in Bad : m <= i
   <2>1. Bad \subseteq Nat OBVIOUS
   <2> HIDE DEF Bad
   <2> QED BY <2>1, LeastNatural
  <1>2. m # 0
   <2> DEFINE g == [i \in 0..0 |-> One]
   <2>1. Products(g, fs, 0) BY DEF Products
   <2> QED BY <2>1
  <1>3. PICK g : Products(g, fs, m - 1)
    BY <1>1, <1>2
  <1> DEFINE h == [i \in 0..m |-> IF i < m THEN g[i] ELSE Times(g[m - 1], fs[m])]
  <1>4. Products(h, fs, m)
   <2> DEFINE step(f, i) == IF i = 0 THEN One ELSE Times(f[i - 1], fs[i])
   <2>1. ASSUME NEW i \in 0..m, i < m PROVE h[i] = step(h, i)
    <3>1. i \in 0..(m - 1) BY <2>1
    <3>2. g[i] = step(g, i) BY <1>3, <3>1 DEF Products
    <3>3. i # 0 => i - 1 \in 0..m /\ i - 1 < m BY <2>1
    <3>4. h[i] = g[i] /\ (i # 0 => h[i - 1] = g[i - 1]) BY <2>1, <3>3
    <3> HIDE DEF h
    <3> QED BY <3>2, <3>4
   <2>2. h[m] = step(h, m) BY <1>1, <1>2
   <2>3. ASSUME NEW i \in 0..m
         PROVE  h[i] = step(h, i)
    <3>1. i < m \/ i = m BY <1>1
    <3> HIDE DEF h, step
    <3> QED BY <3>1, <2>1, <2>2
   <2>4. h = [i \in 0..m |-> h[i]] OBVIOUS
   <2> HIDE DEF h
   <2> QED BY <2>3, <2>4 DEF Products
  <1> QED BY <1>1, <1>4

\* The product is the last of the products g tells.
Told(g, fs, n) == Product(fs) = g[n] /\ g[0] = One /\ \A i \in 1..n : g[i] = Times(g[i - 1], fs[i])

(* A product is the last of the products of its first factors. *)
LEMMA ProductTold ==
    ASSUME NEW fs, Len(fs) \in Nat
    PROVE  \E g : Told(g, fs, Len(fs))
  <1> DEFINE G == CHOOSE g : Products(g, fs, Len(fs))
  <1>1. Product(fs) = G[Len(fs)] BY DEF Product, Products
  <1>2. Products(G, fs, Len(fs)) BY ProductsExist
  <1> HIDE DEF G
  <1>3. G = [i \in 0..Len(fs) |-> IF i = 0 THEN One ELSE Times(G[i - 1], fs[i])]
    BY <1>2 DEF Products
  <1>4. G[0] = One /\ \A i \in 1..Len(fs) : G[i] = Times(G[i - 1], fs[i])
   <2>1. 0 \in 0..Len(fs) /\ \A i \in 1..Len(fs) : i \in 0..Len(fs) /\ i # 0 OBVIOUS
   <2> DEFINE step(i) == IF i = 0 THEN One ELSE Times(G[i - 1], fs[i])
   <2>2. \A i \in 0..Len(fs) : G[i] = step(i)
    <3> HIDE DEF step
    <3>1. G = [i \in 0..Len(fs) |-> step(i)] BY <1>3 DEF step
    <3> QED BY <3>1
   <2> QED BY <2>1, <2>2
  <1> QED BY <1>1, <1>4 DEF Told

(* Where each factor is the product of one of a and one of b, so is the whole product. *)
LEMMA ProductSplits ==
    ASSUME NEW n \in Nat, NEW fs \in [1..n -> FactorSet], NEW a \in [1..n -> FactorSet], NEW b \in [1..n -> FactorSet],
           \A i \in 1..n : fs[i] = Times(a[i], b[i])
    PROVE  Product(fs) \in FactorSet /\ Product(fs) = Times(Product(a), Product(b))
  <1>1. Len(fs) = n /\ Len(a) = n /\ Len(b) = n OBVIOUS
  <1>20. PICK F : Told(F, fs, n)
    BY <1>1, ProductTold
  <1>2. Product(fs) = F[n] /\ F[0] = One /\ \A i \in 1..n : F[i] = Times(F[i - 1], fs[i])
    BY <1>20 DEF Told
  <1>30. PICK A : Told(A, a, n)
    BY <1>1, ProductTold
  <1>3. Product(a) = A[n] /\ A[0] = One /\ \A i \in 1..n : A[i] = Times(A[i - 1], a[i])
    BY <1>30 DEF Told
  <1>40. PICK B : Told(B, b, n)
    BY <1>1, ProductTold
  <1>4. Product(b) = B[n] /\ B[0] = One /\ \A i \in 1..n : B[i] = Times(B[i - 1], b[i])
    BY <1>40 DEF Told
  <1> DEFINE Right(i) == A[i] \in FactorSet /\ B[i] \in FactorSet /\ F[i] = Times(A[i], B[i])
             Bad == {i \in 0..n : ~Right(i)}
  <1>5. Bad = {}
   <2> SUFFICES ASSUME Bad # {} PROVE FALSE
     OBVIOUS
   <2>1. PICK m \in Bad : \A i \in Bad : m <= i
    <3>1. Bad \subseteq Nat OBVIOUS
    <3> HIDE DEF Bad
    <3> QED BY <3>1, LeastNatural
   <2>2. m \in 0..n /\ ~Right(m) BY <2>1
   <2>3. One \in FactorSet /\ Times(One, One) = One
    <3>1. One \in FactorSet BY DEF One, FactorSet
    <3> QED BY <3>1, TimesFacts
   <2>4. m # 0 BY <1>2, <1>3, <1>4, <2>2, <2>3
   <2>5. m \in 1..n /\ m - 1 \in 0..n /\ ~(m <= m - 1) BY <2>2, <2>4
   <2>6. Right(m - 1) BY <2>1, <2>5
   <2>7. a[m] \in FactorSet /\ b[m] \in FactorSet /\ fs[m] = Times(a[m], b[m]) BY <2>5
   <2>8. A[m] = Times(A[m - 1], a[m]) /\ B[m] = Times(B[m - 1], b[m]) /\ F[m] = Times(F[m - 1], fs[m])
     BY <1>2, <1>3, <1>4, <2>5
   <2>9. A[m] \in FactorSet /\ B[m] \in FactorSet BY <2>6, <2>7, <2>8, TimesFacts
   <2>10. F[m] = Times(Times(A[m - 1], B[m - 1]), Times(a[m], b[m])) BY <2>6, <2>7, <2>8
   <2>11. F[m] = Times(A[m], B[m]) BY <2>6, <2>7, <2>8, <2>10, TimesAcross, SMTT(60)
   <2> QED BY <2>2, <2>9, <2>11
  <1>6. Right(n) BY <1>5
  <1> QED BY <1>2, <1>3, <1>4, <1>6, TimesFacts

(* FactorSet that are one for each action are one together. *)
LEMMA ProductOfOnes ==
    ASSUME NEW n \in Nat, NEW fs \in [1..n -> FactorSet], \A i \in 1..n : fs[i][1] = fs[i][2]
    PROVE  Product(fs)[1] = Product(fs)[2]
  <1>1. Len(fs) = n OBVIOUS
  <1>20. PICK F : Told(F, fs, n)
    BY <1>1, ProductTold
  <1>2. Product(fs) = F[n] /\ F[0] = One /\ \A i \in 1..n : F[i] = Times(F[i - 1], fs[i])
    BY <1>20 DEF Told
  <1> DEFINE Right(i) == F[i] \in FactorSet /\ F[i][1] = F[i][2]
             Bad == {i \in 0..n : ~Right(i)}
  <1>5. Bad = {}
   <2> SUFFICES ASSUME Bad # {} PROVE FALSE
     OBVIOUS
   <2>1. PICK m \in Bad : \A i \in Bad : m <= i
    <3>1. Bad \subseteq Nat OBVIOUS
    <3> HIDE DEF Bad
    <3> QED BY <3>1, LeastNatural
   <2>2. m \in 0..n /\ ~Right(m) BY <2>1
   <2>3. One \in FactorSet /\ One[1] = One[2] BY DEF One, FactorSet
   <2>4. m # 0 BY <1>2, <2>2, <2>3
   <2>5. m \in 1..n /\ m - 1 \in 0..n /\ ~(m <= m - 1) BY <2>2, <2>4
   <2>6. Right(m - 1) BY <2>1, <2>5
   <2>7. fs[m] \in FactorSet /\ fs[m][1] = fs[m][2] BY <2>5
   <2>8. F[m] = Times(F[m - 1], fs[m]) BY <1>2, <2>5
   <2>9. /\ F[m] \in FactorSet /\ F[m][1] = F[m - 1][1] * fs[m][1]
         /\ F[m][2] = F[m - 1][2] * fs[m][2]
     BY <2>6, <2>7, <2>8, TimesFacts
   <2> QED BY <2>2, <2>6, <2>7, <2>9
  <1>6. Right(n) BY <1>5
  <1> QED BY <1>2, <1>6

\* Every recorded action could be constructed.
CorpInv == caLog \in Seq(Actions) /\ \A i \in DOMAIN caLog : Constructible(caLog[i])

(* The factors of an action that could be constructed are positive; where shares are
   exchanged for shares they cancel out. *)
LEMMA ActionFactors ==
    ASSUME NEW a \in Actions, Constructible(a), NEW exClose \in ExCloses
    PROVE  /\ PriceFactor(a, exClose) \in FactorSet /\ VolumeFactor(a) \in FactorSet
           /\ a.type \in {"split", "merger", "symbol_change"} =>
                PriceFactor(a, exClose)[1] * VolumeFactor(a)[1] = PriceFactor(a, exClose)[2] * VolumeFactor(a)[2]
  <1>1. One \in FactorSet /\ One[1] = 1 /\ One[2] = 1 BY DEF One, FactorSet
  <1>2. exClose \in Nat BY CorpAssumption
  <1>3. \/ /\ a.type \in {"split", "spinoff", "merger", "symbol_change"} /\ a.cash = -1
           /\ a.ratio \in Ratios
        \/ a.type \in {"cash_dividend", "merger"} /\ a.cash \in Dividends
    BY DEF Actions
  <1>4. a.cash \in Dividends => a.cash \in Nat /\ ~IsStock(a)
   <2> SUFFICES ASSUME a.cash \in Dividends PROVE a.cash \in Nat /\ ~IsStock(a)
     OBVIOUS
   <2>1. a.cash \in Nat BY CorpAssumption
   <2> DEFINE c == a.cash
   <2> HIDE DEF c
   <2>2. c \in Nat => c # -1 OBVIOUS
   <2> QED BY <2>1, <2>2 DEF c, IsStock
  <1>5. ASSUME a.ratio \in Ratios, a.ratio[1] > 0
        PROVE  /\ a.ratio \in FactorSet /\ Turned(a.ratio) \in FactorSet
               /\ Turned(a.ratio)[1] * a.ratio[1] = Turned(a.ratio)[2] * a.ratio[2]
   <2>1. PICK p \in Nat, q \in Nat \ {0} : a.ratio = <<p, q>>
     BY <1>5, CorpAssumption
   <2>2. p \in Nat \ {0} BY <1>5, <2>1
   <2>3. Turned(a.ratio) = <<q, p>> /\ a.ratio \in FactorSet BY <2>1, <2>2 DEF Turned, FactorSet
   <2>4. Turned(a.ratio) \in FactorSet BY <2>2, <2>3 DEF FactorSet
   <2>5. q * p = p * q BY <2>2
   <2> QED BY <2>1, <2>3, <2>4, <2>5
  <1>6. CASE a.type = "split"
   <2>1. a.ratio \in Ratios /\ a.ratio[1] > 0 BY <1>3, <1>6 DEF Constructible
   <2>2. PriceFactor(a, exClose) = Turned(a.ratio) /\ VolumeFactor(a) = a.ratio
     BY <1>6 DEF PriceFactor, VolumeFactor
   <2> QED BY <1>5, <2>1, <2>2
  <1>7. CASE a.type = "spinoff"
   <2>1. a.ratio \in Ratios /\ a.ratio[1] > 0 BY <1>3, <1>7 DEF Constructible
   <2>2. PriceFactor(a, exClose) = a.ratio /\ VolumeFactor(a) = One
     BY <1>7 DEF PriceFactor, VolumeFactor
   <2> QED BY <1>1, <1>5, <1>7, <2>1, <2>2
  <1>8. CASE a.type = "merger" /\ IsStock(a)
   <2>1. a.ratio \in Ratios /\ a.ratio[1] > 0 BY <1>3, <1>4, <1>8 DEF Constructible
   <2>2. PriceFactor(a, exClose) = Turned(a.ratio) /\ VolumeFactor(a) = a.ratio
     BY <1>8 DEF PriceFactor, VolumeFactor
   <2> QED BY <1>5, <2>1, <2>2
  <1>9. CASE a.type = "cash_dividend" /\ exClose > a.cash
   <2>1. a.cash \in Nat BY <1>3, <1>4, <1>9
   <2>2. PriceFactor(a, exClose) = <<exClose - a.cash, exClose>> /\ VolumeFactor(a) = One
     BY <1>9 DEF PriceFactor, VolumeFactor
   <2>3. exClose - a.cash \in Nat \ {0} /\ exClose \in Nat \ {0} BY <1>2, <1>9, <2>1
   <2>4. <<exClose - a.cash, exClose>> \in FactorSet BY <2>3 DEF FactorSet
   <2> QED BY <1>1, <1>9, <2>2, <2>4
  <1>10. CASE (a.type = "cash_dividend" /\ ~(exClose > a.cash)) \/ (a.type = "merger" /\ ~IsStock(a))
              \/ a.type = "symbol_change"
   <2>1. PriceFactor(a, exClose) = One /\ VolumeFactor(a) = One
     BY <1>10 DEF PriceFactor, VolumeFactor
   <2> QED BY <1>1, <2>1
  <1> QED BY <1>3, <1>6, <1>7, <1>8, <1>9, <1>10

(* Adjusting composes over days, cancels out where only shares were exchanged, and gives
   the nearest whole number of shares. *)
LEMMA CorpHolds == ASSUME CorpInv PROVE AdjustmentsCompose
  <1> SUFFICES ASSUME NEW bar \in 0..LastDay, NEW asOf \in 0..LastDay, NEW exClose \in ExCloses, bar <= asOf
               PROVE  LET price == AdjustPrice(bar, asOf, exClose)
                          volume == VolumeMultiplier(bar, asOf)
                      IN /\ price[1] > 0 /\ price[2] > 0
                         /\ \A mid \in bar..asOf :
                               SameFactor(price, Times(AdjustPrice(bar, mid, exClose), AdjustPrice(mid, asOf, exClose)))
                         /\ (\A i \in DOMAIN caLog : caLog[i].type \in {"split", "merger", "symbol_change"}) =>
                               SameFactor(Times(price, volume), One)
                         /\ \A raw \in RawVolumes :
                               LET miss == 2 * (AdjustVolume(raw, bar, asOf) * volume[2] - raw * volume[1])
                               IN -volume[2] <= miss /\ miss <= volume[2]
    BY Zenon DEF AdjustmentsCompose
  <1> DEFINE n == Len(caLog)
             P(b, d) == [i \in DOMAIN caLog |->
                           IF Applicable(caLog[i], b, d) THEN PriceFactor(caLog[i], exClose) ELSE One]
             V == [i \in DOMAIN caLog |-> IF Applicable(caLog[i], bar, asOf) THEN VolumeFactor(caLog[i]) ELSE One]
             Ones == [i \in 1..n |-> One]
             price == AdjustPrice(bar, asOf, exClose)
             volume == VolumeMultiplier(bar, asOf)
  <1>1. n \in Nat /\ DOMAIN caLog = 1..n BY DEF CorpInv
  <1>2. \A i \in 1..n : caLog[i] \in Actions /\ Constructible(caLog[i]) BY <1>1 DEF CorpInv
  <1>3. \A i \in 1..n : PriceFactor(caLog[i], exClose) \in FactorSet /\ VolumeFactor(caLog[i]) \in FactorSet
    BY <1>2, ActionFactors
  <1>4. One \in FactorSet /\ One[1] = 1 /\ One[2] = 1 BY DEF One, FactorSet
  <1>5. \A b, d : P(b, d) \in [1..n -> FactorSet] BY <1>1, <1>3, <1>4
  <1>6. V \in [1..n -> FactorSet] /\ Ones \in [1..n -> FactorSet] BY <1>1, <1>3, <1>4
  <1>7. \A i \in 1..n : caLog[i].day \in 1..LastDay BY <1>2 DEF Actions
  <1>8. \A b, d : AdjustPrice(b, d, exClose) = Product(P(b, d)) BY DEF AdjustPrice
  <1>9. volume = Product(V) BY DEF VolumeMultiplier
  <1>10. ASSUME NEW f \in [1..n -> FactorSet] PROVE Product(f) \in FactorSet
   <2>1. \A i \in 1..n : f[i] = Times(f[i], Ones[i]) BY <1>4, TimesFacts
   <2> HIDE DEF n, Ones
   <2> QED BY <1>1, <1>6, <2>1, ProductSplits
  <1>11. price \in FactorSet /\ volume \in FactorSet
   <2> HIDE DEF n, P, V
   <2> QED BY <1>5, <1>6, <1>8, <1>9, <1>10
  <1>12. price[1] \in Nat \ {0} /\ price[2] \in Nat \ {0} /\ volume[1] \in Nat \ {0} /\ volume[2] \in Nat \ {0}
   <2> HIDE DEF price, volume
   <2> QED BY <1>11 DEF FactorSet
  <1>13. ASSUME NEW mid \in bar..asOf
         PROVE  SameFactor(price, Times(AdjustPrice(bar, mid, exClose), AdjustPrice(mid, asOf, exClose)))
   <2>1. ASSUME NEW i \in 1..n PROVE P(bar, asOf)[i] = Times(P(bar, mid)[i], P(mid, asOf)[i])
    <3> DEFINE f == PriceFactor(caLog[i], exClose)
    <3>1. f \in FactorSet /\ Times(f, One) = f /\ Times(One, f) = f /\ Times(One, One) = One
      BY <1>3, <1>4, TimesFacts
    <3>2. /\ P(bar, asOf)[i] = IF Applicable(caLog[i], bar, asOf) THEN f ELSE One
          /\ P(bar, mid)[i] = IF Applicable(caLog[i], bar, mid) THEN f ELSE One
          /\ P(mid, asOf)[i] = IF Applicable(caLog[i], mid, asOf) THEN f ELSE One
      BY <1>1
    <3>3. caLog[i].day \in Int /\ bar \in Int /\ asOf \in Int /\ mid \in Int /\ bar <= mid /\ mid <= asOf
      BY <1>7, CorpAssumption
    <3>4. /\ Applicable(caLog[i], bar, asOf) <=> (Applicable(caLog[i], bar, mid) \/ Applicable(caLog[i], mid, asOf))
          /\ ~(Applicable(caLog[i], bar, mid) /\ Applicable(caLog[i], mid, asOf))
      BY <3>3 DEF Applicable
    <3> HIDE DEF f, P
    <3> QED BY <3>1, <3>2, <3>4
   <2> HIDE DEF n, P
   <2>2. Product(P(bar, asOf)) = Times(Product(P(bar, mid)), Product(P(mid, asOf)))
     BY <1>1, <1>5, <2>1, ProductSplits, SMTT(60)
   <2>3. price = Times(AdjustPrice(bar, mid, exClose), AdjustPrice(mid, asOf, exClose))
     BY <1>8, <2>2
   <2> HIDE DEF price
   <2>4. price[1] * price[2] = price[1] * price[2] OBVIOUS
   <2> QED BY <2>3, <2>4 DEF SameFactor
  <1>14. ASSUME \A i \in DOMAIN caLog : caLog[i].type \in {"split", "merger", "symbol_change"}
         PROVE  SameFactor(Times(price, volume), One)
   <2> DEFINE W == [i \in 1..n |-> Times(P(bar, asOf)[i], V[i])]
   <2>1. ASSUME NEW i \in 1..n PROVE Times(P(bar, asOf)[i], V[i]) \in FactorSet
    <3>1. P(bar, asOf)[i] \in FactorSet /\ V[i] \in FactorSet BY <1>5, <1>6
    <3> HIDE DEF P, V
    <3> QED BY <3>1, TimesFacts
   <2>2. W \in [1..n -> FactorSet]
    <3> HIDE DEF P, V
    <3> QED BY <2>1
   <2>3. ASSUME NEW i \in 1..n PROVE W[i][1] = W[i][2]
    <3> DEFINE f == PriceFactor(caLog[i], exClose)
               g == VolumeFactor(caLog[i])
    <3>1. f \in FactorSet /\ g \in FactorSet /\ f[1] * g[1] = f[2] * g[2]
      BY <1>1, <1>2, <1>14, ActionFactors
    <3>2. /\ Times(f, g)[1] = f[1] * g[1] /\ Times(f, g)[2] = f[2] * g[2]
          /\ Times(One, One) = One
      BY <1>4, <3>1, TimesFacts
    <3>3. W[i] = IF Applicable(caLog[i], bar, asOf) THEN Times(f, g) ELSE Times(One, One) BY <1>1
    <3> HIDE DEF f, g, W
    <3> QED BY <1>4, <3>1, <3>2, <3>3
   <2>4. \A i \in 1..n : W[i] = Times(P(bar, asOf)[i], V[i]) OBVIOUS
   <2>5. P(bar, asOf) \in [1..n -> FactorSet] BY <1>5
   <2>6. price = Product(P(bar, asOf)) BY <1>8
   <2> DEFINE p == P(bar, asOf)
   <2> HIDE DEF W, V, p, n, price, volume
   <2>7. Product(W) = Times(Product(p), Product(V))
     BY <1>1, <1>6, <2>2, <2>4, <2>5, ProductSplits DEF p
   <2>8. Product(W)[1] = Product(W)[2] BY <1>1, <2>2, <2>3, ProductOfOnes
   <2>9. Times(price, volume)[1] = Times(price, volume)[2] BY <1>9, <2>6, <2>7, <2>8 DEF p
   <2>10. Times(price, volume)[1] \in Nat /\ Times(price, volume)[2] \in Nat
    <3>1. Times(price, volume) \in FactorSet BY <1>11, TimesFacts
    <3> QED BY <3>1 DEF FactorSet
   <2> QED BY <1>4, <2>9, <2>10 DEF SameFactor
  <1>15. ASSUME NEW raw \in RawVolumes
         PROVE  LET miss == 2 * (AdjustVolume(raw, bar, asOf) * volume[2] - raw * volume[1])
                IN -volume[2] <= miss /\ miss <= volume[2]
   <2> DEFINE v == volume[1]
              w == volume[2]
              q == Quantized(raw * v, w)
              r == raw * v
   <2>1. raw \in Nat /\ v \in Nat /\ w \in Nat \ {0} /\ r \in Nat
    <3>1. raw \in Nat BY CorpAssumption
    <3>2. v \in Nat /\ w \in Nat \ {0} BY <1>12
    <3> HIDE DEF v, w
    <3> QED BY <3>1, <3>2
   <2>2. AdjustVolume(raw, bar, asOf) = q BY DEF AdjustVolume
   <2>3. q = Quantized(r, w) OBVIOUS
   <2> HIDE DEF v, w, q, r
   <2>4. q \in Nat /\ 2 * (w * q) <= 2 * r + w /\ 2 * r <= 2 * (w * q) + w
     BY <2>1, <2>3, QuantizedNear, QuantizedNotBelow
   <2>5. w * q = q * w /\ w * q \in Nat BY <2>1, <2>4
   <2> DEFINE s == q * w
   <2>6. s \in Nat /\ 2 * s <= 2 * r + w /\ 2 * r <= 2 * s + w BY <2>4, <2>5
   <2> HIDE DEF s
   <2>7. -w <= 2 * (s - r) /\ 2 * (s - r) <= w BY <2>1, <2>6
   <2>8. -w <= 2 * (AdjustVolume(raw, bar, asOf) * w - raw * v) /\ 2 * (AdjustVolume(raw, bar, asOf) * w - raw * v) <= w
     BY <2>2, <2>7 DEF s, r
   <2> QED BY <2>8 DEF v, w
  <1>16. price[1] > 0 /\ price[2] > 0 BY <1>12
  <1> HIDE DEF price, volume
  <1>17. /\ price[1] > 0 /\ price[2] > 0
         /\ \A mid \in bar..asOf :
               SameFactor(price, Times(AdjustPrice(bar, mid, exClose), AdjustPrice(mid, asOf, exClose)))
         /\ (\A i \in DOMAIN caLog : caLog[i].type \in {"split", "merger", "symbol_change"}) =>
               SameFactor(Times(price, volume), One)
         /\ \A raw \in RawVolumes :
               LET miss == 2 * (AdjustVolume(raw, bar, asOf) * volume[2] - raw * volume[1])
               IN -volume[2] <= miss /\ miss <= volume[2]
    BY <1>13, <1>14, <1>15, <1>16, Zenon
  <1> QED BY <1>17, Zenon DEF price, volume

(* The log is empty at first, and only what could be constructed is appended. *)
LEMMA CorpSteps ==
    /\ CorpInit => CorpInv
    /\ CorpInv /\ [CorpNext]_caVars => CorpInv'
  <1>1. CorpInit => CorpInv BY DEF CorpInit, CorpInv
  <1>2. ASSUME CorpInv, UNCHANGED caVars PROVE CorpInv' BY <1>2 DEF CorpInv, caVars
  <1>3. ASSUME CorpInv, NEW a \in Actions, AppendCorpAction(a) PROVE CorpInv'
   <2>1. Constructible(a) /\ caLog' = Append(caLog, a) /\ caLog \in Seq(Actions)
     BY <1>3 DEF AppendCorpAction, CorpInv
   <2>2. caLog' \in Seq(Actions) /\ Len(caLog') = Len(caLog) + 1 BY <2>1
   <2>3. ASSUME NEW i \in DOMAIN caLog' PROVE Constructible(caLog'[i])
    <3>1. i \in 1..Len(caLog) \/ i = Len(caLog) + 1 BY <2>1, <2>2
    <3>2. caLog'[i] = IF i = Len(caLog) + 1 THEN a ELSE caLog[i] BY <2>1, <3>1
    <3> QED BY <1>3, <2>1, <3>1, <3>2 DEF CorpInv
   <2> QED BY <2>2, <2>3 DEF CorpInv
  <1> QED BY <1>1, <1>2, <1>3 DEF CorpNext

----------------------------------------
(* Rows taken out of a frame. *)

(* The places of a set in their order. *)
LEMMA NthInOrder ==
    ASSUME NEW n \in Nat, NEW I \in SUBSET (1..n)
    PROVE  /\ IsFiniteSet(I) /\ Cardinality(I) \in Nat /\ Cardinality(I) <= n
           /\ \A i \in 1..Cardinality(I) : NthOf(I, i) \in I
           /\ \A i, j \in 1..Cardinality(I) : i < j => NthOf(I, i) < NthOf(I, j)
           /\ \A k \in I : \E i \in 1..Cardinality(I) : NthOf(I, i) = k
  <1> DEFINE R == {p \in I \X I : p[1] < p[2]}
             c == Cardinality(I)
  <1>1. IsFiniteSet(I) /\ c \in Nat /\ c <= n
   <2>1. IsFiniteSet(1..n) /\ Cardinality(1..n) = n
    <3>1. 1 \in Int /\ n \in Int OBVIOUS
    <3>2. IsFiniteSet(1..n) /\ Cardinality(1..n) = IF 1 > n THEN 0 ELSE n - 1 + 1
      BY <3>1, FS_Interval
    <3> QED BY <3>2
   <2>2. IsFiniteSet(I) /\ Cardinality(I) <= Cardinality(1..n) BY <2>1, FS_Subset
   <2> QED BY <2>1, <2>2, FS_CardinalityType
  <1>2. \A x, y \in I : (<<x, y>> \in R <=> x < y) /\ x \in Int /\ y \in Int OBVIOUS
  <1> HIDE DEF R
  <1>3. StrictlyOrders(R, I) BY <1>2 DEF StrictlyOrders
  <1>4. \A x \in I : RankIn(R, I, x) = Cardinality({y \in I : y < x})
   <2> TAKE x \in I
   <2>1. {y \in I : <<y, x>> \in R} = {y \in I : y < x} BY <1>2
   <2> QED BY <2>1 DEF RankIn
  <1>5. IsFiniteSet(I) BY <1>1
  <1>6. /\ \A x \in I : RankIn(R, I, x) \in Nat /\ RankIn(R, I, x) < Cardinality(I)
        /\ \A x, y \in I : <<x, y>> \in R => RankIn(R, I, x) < RankIn(R, I, y)
        /\ \A x, y \in I : RankIn(R, I, x) = RankIn(R, I, y) => x = y
        /\ \A i \in Nat : i < Cardinality(I) => \E x \in I : RankIn(R, I, x) = i
   <2> HIDE DEF c
   <2>1. /\ Cardinality(I) \in Nat
         /\ \A x \in I : RankIn(R, I, x) \in Nat /\ RankIn(R, I, x) < Cardinality(I)
         /\ \A x, y \in I : <<x, y>> \in R => RankIn(R, I, x) < RankIn(R, I, y)
         /\ \A x, y \in I : RankIn(R, I, x) = RankIn(R, I, y) => x = y
         /\ \A i \in Nat : i < Cardinality(I) => \E x \in I : RankIn(R, I, x) = i
    <3>1. FillsPlaces(R, I) BY <1>3, <1>5, OrderedIsRanked
    <3> QED BY <3>1 DEF FillsPlaces
   <2> QED BY <2>1
  <1>7. /\ \A x \in I : RankIn(R, I, x) \in Nat /\ RankIn(R, I, x) < c
        /\ \A x, y \in I : x < y => RankIn(R, I, x) < RankIn(R, I, y)
        /\ \A x, y \in I : RankIn(R, I, x) = RankIn(R, I, y) => x = y
        /\ \A i \in Nat : i < c => \E x \in I : RankIn(R, I, x) = i
    BY <1>2, <1>6
  <1> HIDE DEF c
  <1>8. ASSUME NEW i \in 1..c PROVE NthOf(I, i) \in I /\ RankIn(R, I, NthOf(I, i)) = i - 1
   <2>1. i - 1 \in Nat /\ i - 1 < c BY <1>1
   <2>2. \E x \in I : Cardinality({y \in I : y < x}) = i - 1 BY <1>4, <1>7, <2>1
   <2>3. NthOf(I, i) \in I /\ Cardinality({y \in I : y < NthOf(I, i)}) = i - 1 BY <2>2 DEF NthOf
   <2> QED BY <1>4, <2>3
  <1>9. ASSUME NEW i \in 1..c, NEW j \in 1..c, i < j PROVE NthOf(I, i) < NthOf(I, j)
   <2>1. /\ NthOf(I, i) \in I /\ RankIn(R, I, NthOf(I, i)) = i - 1
         /\ NthOf(I, j) \in I /\ RankIn(R, I, NthOf(I, j)) = j - 1
     BY <1>8
   <2>2. ~(RankIn(R, I, NthOf(I, j)) < RankIn(R, I, NthOf(I, i))) /\ NthOf(I, i) # NthOf(I, j)
     BY <1>9, <2>1
   <2>3. ~(NthOf(I, j) < NthOf(I, i)) BY <1>7, <2>1, <2>2
   <2>4. \A x, y \in I : x # y /\ ~(y < x) => x < y BY <1>2
   <2> QED BY <2>1, <2>2, <2>3, <2>4
  <1>10. ASSUME NEW k \in I PROVE \E i \in 1..c : NthOf(I, i) = k
   <2> DEFINE r == RankIn(R, I, k)
   <2>1. r \in Nat /\ r < c BY <1>7
   <2> HIDE DEF r
   <2>2. r + 1 \in 1..c /\ (r + 1) - 1 = r BY <1>1, <2>1
   <2>3. NthOf(I, r + 1) \in I /\ RankIn(R, I, NthOf(I, r + 1)) = r BY <1>8, <2>2
   <2>4. NthOf(I, r + 1) = k BY <1>7, <2>3 DEF r
   <2> QED BY <2>2, <2>4
  <1> QED BY <1>1, <1>8, <1>9, <1>10 DEF c

(* Rows taken out of a frame keep their order, and each has its place. *)
LEMMA RowsTaken ==
    ASSUME NEW S, NEW f \in Seq(S), NEW I \in SUBSET (1..Len(f))
    PROVE  /\ Cardinality(I) \in Nat /\ RowsAt(f, I) \in Seq(S) /\ Len(RowsAt(f, I)) = Cardinality(I)
           /\ \A i \in 1..Cardinality(I) : NthOf(I, i) \in I /\ RowsAt(f, I)[i] = f[NthOf(I, i)]
           /\ \A k \in I : \E i \in 1..Cardinality(I) : RowsAt(f, I)[i] = f[k]
  <1> DEFINE c == Cardinality(I)
  <1>1. Len(f) \in Nat /\ \A k \in 1..Len(f) : f[k] \in S OBVIOUS
  <1>2. /\ c \in Nat /\ \A i \in 1..c : NthOf(I, i) \in I
        /\ \A k \in I : \E i \in 1..c : NthOf(I, i) = k
    BY <1>1, NthInOrder
  <1>3. RowsAt(f, I) = [i \in 1..c |-> f[NthOf(I, i)]] BY DEF RowsAt
  <1> HIDE DEF c
  <1>4. \A i \in 1..c : f[NthOf(I, i)] \in S BY <1>1, <1>2
  <1>5. RowsAt(f, I) \in Seq(S) /\ Len(RowsAt(f, I)) = c BY <1>2, <1>3, <1>4
  <1>6. \A i \in 1..c : RowsAt(f, I)[i] = f[NthOf(I, i)] BY <1>3
  <1> QED BY <1>2, <1>5, <1>6 DEF c

\* No two rows of a frame have one timestamp.
Distinct(f) == \A i \in 1..Len(f) : ~Duplicated(f, i)

(* So does what is taken out of a frame in which every timestamp is there once. *)
LEMMA DistinctTaken ==
    ASSUME NEW f \in Seq(Rows), NEW I \in SUBSET (1..Len(f)), \A k \in I : ~Duplicated(f, k)
    PROVE  Distinct(RowsAt(f, I))
  <1> DEFINE g == RowsAt(f, I)
  <1>1. Len(f) \in Nat OBVIOUS
  <1>2. /\ Cardinality(I) \in Nat /\ Len(g) = Cardinality(I)
        /\ \A i \in 1..Cardinality(I) : NthOf(I, i) \in I /\ g[i] = f[NthOf(I, i)]
    BY RowsTaken
  <1>3. \A i, j \in 1..Cardinality(I) : i < j => NthOf(I, i) < NthOf(I, j) BY <1>1, NthInOrder
  <1> HIDE DEF g
  <1> SUFFICES ASSUME NEW i \in 1..Len(g), NEW j \in i + 1..Len(g), g[j].ts = g[i].ts PROVE FALSE
    BY DEF Distinct, Duplicated, g
  <1>4. i \in 1..Cardinality(I) /\ j \in 1..Cardinality(I) /\ i < j BY <1>2
  <1>5. /\ NthOf(I, i) \in I /\ NthOf(I, j) \in I /\ NthOf(I, i) < NthOf(I, j)
        /\ f[NthOf(I, j)].ts = f[NthOf(I, i)].ts
    BY <1>2, <1>3, <1>4
  <1>6. NthOf(I, j) \in NthOf(I, i) + 1..Len(f)
   <2>1. NthOf(I, i) \in 1..Len(f) /\ NthOf(I, j) \in 1..Len(f) BY <1>5
   <2> DEFINE a == NthOf(I, i)
              b == NthOf(I, j)
   <2>2. a \in Int /\ b \in Int /\ a < b /\ b <= Len(f) BY <1>1, <1>5, <2>1
   <2> HIDE DEF a, b
   <2>3. b \in a + 1..Len(f) BY <1>1, <2>2
   <2> QED BY <2>3 DEF a, b
  <1>7. Duplicated(f, NthOf(I, i)) BY <1>5, <1>6 DEF Duplicated
  <1> QED BY <1>5, <1>7

----------------------------------------
(* The report explains what was taken out. *)

Reasons == {"duplicate_timestamp", "negative_price", "price_below_minimum", "ohlc_nan_field", "stale_data"}
NoteSet == [reason : Reasons, row : Rows]

\* x stands in the report q.
Reported(q, x) == \E n \in 1..Len(q) : q[n] = x

(* A report of two parts has what either part has. *)
LEMMA ReportsJoin ==
    ASSUME NEW s \in Seq(NoteSet), NEW t \in Seq(NoteSet)
    PROVE  /\ s \o t \in Seq(NoteSet) /\ Len(s \o t) = Len(s) + Len(t)
           /\ \A i \in 1..Len(s) : (s \o t)[i] = s[i]
           /\ \A i \in 1..Len(t) : (s \o t)[Len(s) + i] = t[i]
           /\ \A x : Reported(s, x) \/ Reported(t, x) => Reported(s \o t, x)
  <1>1. /\ s \o t \in Seq(NoteSet) /\ Len(s \o t) = Len(s) + Len(t)
        /\ \A i \in 1..Len(s) + Len(t) : (s \o t)[i] = IF i <= Len(s) THEN s[i] ELSE t[i - Len(s)]
    BY ConcatProperties
  <1>2. Len(s) \in Nat /\ Len(t) \in Nat OBVIOUS
  <1>3. \A i \in 1..Len(s) : i \in 1..Len(s) + Len(t) /\ i <= Len(s) BY <1>2
  <1>4. \A i \in 1..Len(t) : /\ Len(s) + i \in 1..Len(s) + Len(t) /\ ~(Len(s) + i <= Len(s))
                             /\ (Len(s) + i) - Len(s) = i
    BY <1>2
  <1>5. \A i \in 1..Len(s) : (s \o t)[i] = s[i] BY <1>1, <1>3
  <1>6. \A i \in 1..Len(t) : (s \o t)[Len(s) + i] = t[i] BY <1>1, <1>4
  <1>7. \A x : Reported(s, x) \/ Reported(t, x) => Reported(s \o t, x)
    BY <1>1, <1>3, <1>4, <1>5, <1>6 DEF Reported
  <1> QED BY <1>1, <1>5, <1>6, <1>7

(* The corrections for some rows of a frame. *)
LEMMA NotesTaken ==
    ASSUME NEW f \in Seq(Rows), NEW I \in SUBSET (1..Len(f)), NEW reason \in Reasons
    PROVE  /\ Notes(reason, RowsAt(f, I)) \in Seq(NoteSet)
           /\ Len(Notes(reason, RowsAt(f, I))) = Cardinality(I)
           /\ \A i \in 1..Cardinality(I) : Notes(reason, RowsAt(f, I))[i].reason = reason
           /\ \A k \in I : Reported(Notes(reason, RowsAt(f, I)), Note(reason, f[k]))
  <1> DEFINE g == RowsAt(f, I)
             q == Notes(reason, g)
  <1>1. /\ Cardinality(I) \in Nat /\ g \in Seq(Rows) /\ Len(g) = Cardinality(I)
        /\ \A k \in I : \E i \in 1..Cardinality(I) : g[i] = f[k]
    BY RowsTaken
  <1> HIDE DEF g
  <1>2. q = [i \in 1..Cardinality(I) |-> Note(reason, g[i])] BY <1>1 DEF Notes
  <1>3. \A i \in 1..Cardinality(I) : Note(reason, g[i]) \in NoteSet /\ Note(reason, g[i]).reason = reason
    BY <1>1 DEF Note, NoteSet
  <1> HIDE DEF q
  <1>4. q \in Seq(NoteSet) /\ Len(q) = Cardinality(I) BY <1>1, <1>2, <1>3
  <1>5. \A i \in 1..Cardinality(I) : q[i] = Note(reason, g[i]) BY <1>2
  <1>6. \A k \in I : Reported(q, Note(reason, f[k])) BY <1>1, <1>4, <1>5 DEF Reported
  <1> QED BY <1>3, <1>4, <1>5, <1>6 DEF q, g

\* What DuplicateTimestampRule and the two tests of PriceBoundsRule leave of a frame.
Deduplicated(f) == RowsAt(f, (1..Len(f)) \ {k \in 1..Len(f) : Duplicated(f, k)})
NegativeAt(f) == {k \in 1..Len(f) : NotPositive(f[k])}
WithPrice(f) == RowsAt(f, {k \in 1..Len(f) : ~NotPositive(f[k])})
BelowAt(f) == {k \in 1..Len(f) : BelowMinimum(f[k])}
AboveMinimum(f) == RowsAt(f, {k \in 1..Len(f) : ~BelowMinimum(f[k])})
DroppedAt(f) == {k \in 1..Len(f) : Duplicated(f, k)}
FirstDropped(f) == {k \in DroppedAt(f) : \A n \in DroppedAt(f) : f[n].ts = f[k].ts => k <= n}
NanAt(f) == {k \in 1..Len(f) : f[k].close = Nan}
StaleEnds(f) == {i \in 1..Len(f) : /\ WithoutVolume(f)[i] >= StaleDays
                                   /\ i < Len(f) => f[i + 1].vol > 0}

(* The rules one after the other. *)
LEMMA ValidateSteps ==
    ASSUME NEW f
    PROVE  LET d == Deduplicated(f)
               p == WithPrice(d)
               m == AboveMinimum(p)
           IN /\ Validate(f).frame = m
              /\ Validate(f).notes
                   = ((Notes("duplicate_timestamp", RowsAt(f, FirstDropped(f)))
                       \o (Notes("negative_price", RowsAt(d, NegativeAt(d)))
                           \o Notes("price_below_minimum", RowsAt(p, BelowAt(p)))))
                      \o Notes("ohlc_nan_field", RowsAt(m, NanAt(m))))
                     \o Notes("stale_data", RowsAt(m, StaleEnds(m)))
  <1> DEFINE d == Deduplicated(f)
             p == WithPrice(d)
             m == AboveMinimum(p)
  <1>1. /\ DuplicateTimestampRule(f).frame = d
        /\ DuplicateTimestampRule(f).notes = Notes("duplicate_timestamp", RowsAt(f, FirstDropped(f)))
    BY DEF DuplicateTimestampRule, Deduplicated, FirstDropped, DroppedAt
  <1>2. /\ PriceBoundsRule(d).frame = m
        /\ PriceBoundsRule(d).notes = Notes("negative_price", RowsAt(d, NegativeAt(d)))
                                      \o Notes("price_below_minimum", RowsAt(p, BelowAt(p)))
   <2> HIDE DEF d
   <2>1. p = RowsWhere(d, LAMBDA r : ~NotPositive(r)) BY DEF WithPrice, RowsWhere
   <2> HIDE DEF p
   <2>2. m = RowsWhere(p, LAMBDA r : ~BelowMinimum(r)) BY DEF AboveMinimum, RowsWhere
   <2>3. /\ RowsWhere(d, NotPositive) = RowsAt(d, NegativeAt(d))
         /\ RowsWhere(p, BelowMinimum) = RowsAt(p, BelowAt(p))
     BY DEF RowsWhere, NegativeAt, BelowAt
   <2> QED BY <2>1, <2>2, <2>3 DEF PriceBoundsRule
  <1>3. FlagRules(m).frame = m /\ FlagRules(m).notes = Notes("ohlc_nan_field", RowsAt(m, NanAt(m)))
   <2> HIDE DEF m
   <2> QED BY DEF FlagRules, RowsWhere, NanAt
  <1>4. StaleDataRule(m).frame = m /\ StaleDataRule(m).notes = Notes("stale_data", RowsAt(m, StaleEnds(m)))
   <2> HIDE DEF m
   <2> QED BY DEF StaleDataRule, StaleEnds
  <1> HIDE DEF d, p, m
  <1>5. /\ Validate(f).frame = m
        /\ Validate(f).notes
             = ((Notes("duplicate_timestamp", RowsAt(f, FirstDropped(f)))
                 \o (Notes("negative_price", RowsAt(d, NegativeAt(d)))
                     \o Notes("price_below_minimum", RowsAt(p, BelowAt(p)))))
                \o Notes("ohlc_nan_field", RowsAt(m, NanAt(m))))
               \o Notes("stale_data", RowsAt(m, StaleEnds(m)))
    BY <1>1, <1>2, <1>3, <1>4 DEF Validate
  <1> QED BY <1>5, Zenon DEF d, p, m

(* The stages of the cleaning. *)
LEMMA StagesTaken ==
    ASSUME NEW f \in Seq(Rows)
    PROVE  /\ Deduplicated(f) \in Seq(Rows) /\ WithPrice(f) \in Seq(Rows) /\ AboveMinimum(f) \in Seq(Rows)
           /\ \A i \in 1..Len(f) : i \in DroppedAt(f) \/ \E k \in 1..Len(Deduplicated(f)) : Deduplicated(f)[k] = f[i]
           /\ \A i \in 1..Len(f) : i \in NegativeAt(f) \/ \E k \in 1..Len(WithPrice(f)) : WithPrice(f)[k] = f[i]
           /\ \A i \in 1..Len(f) : i \in BelowAt(f) \/ \E k \in 1..Len(AboveMinimum(f)) : AboveMinimum(f)[k] = f[i]
           /\ \A k \in 1..Len(WithPrice(f)) : ~NotPositive(WithPrice(f)[k]) /\ \E i \in 1..Len(f) : WithPrice(f)[k] = f[i]
           /\ \A k \in 1..Len(AboveMinimum(f)) :
                 ~BelowMinimum(AboveMinimum(f)[k]) /\ \E i \in 1..Len(f) : AboveMinimum(f)[k] = f[i]
           /\ Distinct(Deduplicated(f))
           /\ Distinct(f) => Distinct(WithPrice(f)) /\ Distinct(AboveMinimum(f))
  <1> DEFINE D == (1..Len(f)) \ {k \in 1..Len(f) : Duplicated(f, k)}
             P == {k \in 1..Len(f) : ~NotPositive(f[k])}
             M == {k \in 1..Len(f) : ~BelowMinimum(f[k])}
  <1>1. D \in SUBSET (1..Len(f)) /\ P \in SUBSET (1..Len(f)) /\ M \in SUBSET (1..Len(f)) OBVIOUS
  <1>2. ASSUME NEW I \in SUBSET (1..Len(f))
        PROVE  /\ RowsAt(f, I) \in Seq(Rows)
               /\ \A k \in I : \E i \in 1..Len(RowsAt(f, I)) : RowsAt(f, I)[i] = f[k]
               /\ \A i \in 1..Len(RowsAt(f, I)) : \E k \in I : RowsAt(f, I)[i] = f[k]
   <2>1. /\ RowsAt(f, I) \in Seq(Rows) /\ Len(RowsAt(f, I)) = Cardinality(I)
         /\ \A i \in 1..Cardinality(I) : NthOf(I, i) \in I /\ RowsAt(f, I)[i] = f[NthOf(I, i)]
         /\ \A k \in I : \E i \in 1..Cardinality(I) : RowsAt(f, I)[i] = f[k]
     BY RowsTaken
   <2> QED BY <2>1
  <1>3. /\ Deduplicated(f) = RowsAt(f, D) /\ WithPrice(f) = RowsAt(f, P) /\ AboveMinimum(f) = RowsAt(f, M)
    BY DEF Deduplicated, WithPrice, AboveMinimum
  <1>4. \A k \in 1..Len(f) : /\ k \in D <=> k \notin DroppedAt(f)
                             /\ k \in P <=> k \notin NegativeAt(f)
                             /\ k \in M <=> k \notin BelowAt(f)
    BY DEF DroppedAt, NegativeAt, BelowAt
  <1>5. (\A k \in P : ~NotPositive(f[k])) /\ (\A k \in M : ~BelowMinimum(f[k])) /\ \A k \in D : ~Duplicated(f, k)
    OBVIOUS
  <1> HIDE DEF D, P, M
  <1>6. Distinct(RowsAt(f, D)) BY <1>1, <1>5, DistinctTaken
  <1>7. ASSUME Distinct(f), NEW I \in SUBSET (1..Len(f)) PROVE Distinct(RowsAt(f, I))
   <2>1. \A k \in I : ~Duplicated(f, k) BY <1>7 DEF Distinct
   <2> QED BY <2>1, DistinctTaken
  <1>8. /\ \A i \in 1..Len(f) : i \in DroppedAt(f) \/ \E k \in 1..Len(RowsAt(f, D)) : RowsAt(f, D)[k] = f[i]
        /\ \A i \in 1..Len(f) : i \in NegativeAt(f) \/ \E k \in 1..Len(RowsAt(f, P)) : RowsAt(f, P)[k] = f[i]
        /\ \A i \in 1..Len(f) : i \in BelowAt(f) \/ \E k \in 1..Len(RowsAt(f, M)) : RowsAt(f, M)[k] = f[i]
    BY <1>1, <1>2, <1>4
  <1>9. /\ \A k \in 1..Len(RowsAt(f, P)) : ~NotPositive(RowsAt(f, P)[k]) /\ \E i \in 1..Len(f) : RowsAt(f, P)[k] = f[i]
        /\ \A k \in 1..Len(RowsAt(f, M)) : ~BelowMinimum(RowsAt(f, M)[k]) /\ \E i \in 1..Len(f) : RowsAt(f, M)[k] = f[i]
   <2>1. ASSUME NEW k \in 1..Len(RowsAt(f, P))
         PROVE  ~NotPositive(RowsAt(f, P)[k]) /\ \E i \in 1..Len(f) : RowsAt(f, P)[k] = f[i]
    <3>1. PICK i \in P : RowsAt(f, P)[k] = f[i]
      BY <1>1, <1>2
    <3> QED BY <1>1, <1>5, <3>1
   <2>2. ASSUME NEW k \in 1..Len(RowsAt(f, M))
         PROVE  ~BelowMinimum(RowsAt(f, M)[k]) /\ \E i \in 1..Len(f) : RowsAt(f, M)[k] = f[i]
    <3>1. PICK i \in M : RowsAt(f, M)[k] = f[i]
      BY <1>1, <1>2
    <3> QED BY <1>1, <1>5, <3>1
   <2> QED BY <2>1, <2>2
  <1>10. RowsAt(f, D) \in Seq(Rows) /\ RowsAt(f, P) \in Seq(Rows) /\ RowsAt(f, M) \in Seq(Rows)
    BY <1>1, <1>2
  <1> QED BY <1>1, <1>3, <1>6, <1>7, <1>8, <1>9, <1>10

\* The validator's answer stands in the state.
Validated == dqCleaned = Validate(dqFrame).frame /\ dqReport = Validate(dqFrame).notes

(* What DataValidator leaves is clean, and what it took out stands in the report. *)
LEMMA CleaningExplains ==
    ASSUME dqFrame \in Seq(Rows), Validated
    PROVE  CleanedIsExplained
  <1> DEFINE d == Deduplicated(dqFrame)
             p == WithPrice(d)
             m == AboveMinimum(p)
             A == Notes("duplicate_timestamp", RowsAt(dqFrame, FirstDropped(dqFrame)))
             B == Notes("negative_price", RowsAt(d, NegativeAt(d)))
             C == Notes("price_below_minimum", RowsAt(p, BelowAt(p)))
             N == Notes("ohlc_nan_field", RowsAt(m, NanAt(m)))
             E == Notes("stale_data", RowsAt(m, StaleEnds(m)))
  <1>1. dqCleaned = m /\ dqReport = ((A \o (B \o C)) \o N) \o E BY ValidateSteps DEF Validated
  <1>3. d \in Seq(Rows) /\ Distinct(d) BY StagesTaken
  <1> HIDE DEF d
  <1>4. p \in Seq(Rows) /\ Distinct(p) /\ \A k \in 1..Len(p) : ~NotPositive(p[k])
    BY <1>3, StagesTaken
  <1> HIDE DEF p
  <1>5. /\ m \in Seq(Rows) /\ Distinct(m)
        /\ \A k \in 1..Len(m) : ~BelowMinimum(m[k]) /\ \E i \in 1..Len(p) : m[k] = p[i]
    BY <1>4, StagesTaken
  <1> HIDE DEF m
  <1>6. \A k \in 1..Len(m) : ~Duplicated(m, k) /\ ~NotPositive(m[k]) /\ ~BelowMinimum(m[k])
    BY <1>4, <1>5 DEF Distinct
  <1>7. /\ FirstDropped(dqFrame) \in SUBSET (1..Len(dqFrame)) /\ NegativeAt(d) \in SUBSET (1..Len(d))
        /\ BelowAt(p) \in SUBSET (1..Len(p)) /\ NanAt(m) \in SUBSET (1..Len(m)) /\ StaleEnds(m) \in SUBSET (1..Len(m))
    BY DEF FirstDropped, DroppedAt, NegativeAt, BelowAt, NanAt, StaleEnds
  <1>20. /\ A = Notes("duplicate_timestamp", RowsAt(dqFrame, FirstDropped(dqFrame)))
         /\ B = Notes("negative_price", RowsAt(d, NegativeAt(d)))
         /\ C = Notes("price_below_minimum", RowsAt(p, BelowAt(p)))
         /\ N = Notes("ohlc_nan_field", RowsAt(m, NanAt(m)))
         /\ E = Notes("stale_data", RowsAt(m, StaleEnds(m)))
    OBVIOUS
  <1> HIDE DEF A, B, C, N, E
  <1>21. ASSUME NEW f \in Seq(Rows), NEW I \in SUBSET (1..Len(f)), NEW reason \in Reasons,
                NEW q, q = Notes(reason, RowsAt(f, I))
         PROVE  q \in Seq(NoteSet) /\ \A k \in I : Reported(q, Note(reason, f[k]))
    BY <1>21, NotesTaken
  <1>22. /\ "duplicate_timestamp" \in Reasons /\ "negative_price" \in Reasons /\ "price_below_minimum" \in Reasons
         /\ "ohlc_nan_field" \in Reasons /\ "stale_data" \in Reasons
    BY DEF Reasons
  <1>8. A \in Seq(NoteSet) /\ \A k \in FirstDropped(dqFrame) : Reported(A, Note("duplicate_timestamp", dqFrame[k]))
    BY <1>7, <1>20, <1>21, <1>22, Zenon
  <1>9. B \in Seq(NoteSet) /\ \A k \in NegativeAt(d) : Reported(B, Note("negative_price", d[k]))
    BY <1>3, <1>7, <1>20, <1>21, <1>22, Zenon
  <1>10. C \in Seq(NoteSet) /\ \A k \in BelowAt(p) : Reported(C, Note("price_below_minimum", p[k]))
    BY <1>4, <1>7, <1>20, <1>21, <1>22, Zenon
  <1>11. N \in Seq(NoteSet) /\ E \in Seq(NoteSet) BY <1>5, <1>7, <1>20, <1>21, <1>22, Zenon
  <1>12. ASSUME NEW x, Reported(A, x) \/ Reported(B, x) \/ Reported(C, x) PROVE Reported(dqReport, x)
   <2>1. B \o C \in Seq(NoteSet) /\ (Reported(B, x) \/ Reported(C, x) => Reported(B \o C, x))
     BY <1>9, <1>10, ReportsJoin
   <2>2. A \o (B \o C) \in Seq(NoteSet) /\ Reported(A \o (B \o C), x)
     BY <1>8, <1>12, <2>1, ReportsJoin
   <2>3. (A \o (B \o C)) \o N \in Seq(NoteSet) /\ Reported((A \o (B \o C)) \o N, x)
     BY <1>11, <2>2, ReportsJoin
   <2> QED BY <1>1, <1>11, <2>3, ReportsJoin
  <1>13. ASSUME NEW r, NEW reason, Reported(dqReport, Note(reason, r))
         PROVE  \E n \in 1..Len(dqReport) : dqReport[n].row = r /\ dqReport[n].reason = reason
    BY <1>13 DEF Reported, Note
  <1>14. ASSUME NEW i \in 1..Len(dqFrame), i \in DroppedAt(dqFrame) PROVE Explained(dqFrame[i])
   <2> DEFINE K == {n \in DroppedAt(dqFrame) : dqFrame[n].ts = dqFrame[i].ts}
   <2>1. K # {} /\ K \subseteq Nat BY <1>14 DEF DroppedAt
   <2>2. PICK k \in K : \A n \in K : k <= n
    <3> HIDE DEF K
    <3> QED BY <2>1, LeastNatural
   <2>3. k \in FirstDropped(dqFrame) /\ dqFrame[k].ts = dqFrame[i].ts BY <2>2 DEF FirstDropped
   <2>4. Reported(dqReport, Note("duplicate_timestamp", dqFrame[k])) BY <1>8, <1>12, <2>3
   <2> QED BY <1>13, <2>3, <2>4 DEF Explained
  <1>15. ASSUME NEW i \in 1..Len(dqFrame), i \notin DroppedAt(dqFrame)
         PROVE  (\E k \in 1..Len(m) : m[k] = dqFrame[i]) \/ Explained(dqFrame[i])
   <2>1. PICK a \in 1..Len(d) : d[a] = dqFrame[i]
     BY <1>15, StagesTaken DEF d
   <2>2. CASE a \in NegativeAt(d)
    <3>1. Reported(dqReport, Note("negative_price", d[a])) BY <1>9, <1>12, <2>2
    <3> QED BY <1>13, <2>1, <3>1 DEF Explained
   <2>3. CASE a \notin NegativeAt(d)
    <3>1. PICK b \in 1..Len(p) : p[b] = d[a]
      BY <1>3, <2>3, StagesTaken DEF p
    <3>2. CASE b \in BelowAt(p)
     <4>1. Reported(dqReport, Note("price_below_minimum", p[b])) BY <1>10, <1>12, <3>2
     <4> QED BY <1>13, <2>1, <3>1, <4>1 DEF Explained
    <3>3. CASE b \notin BelowAt(p)
     <4>1. PICK c \in 1..Len(m) : m[c] = p[b]
       BY <1>4, <3>3, StagesTaken DEF m
     <4> QED BY <2>1, <3>1, <4>1
    <3> QED BY <3>2, <3>3
   <2> QED BY <2>2, <2>3
  <1> QED BY <1>1, <1>6, <1>14, <1>15 DEF CleanedIsExplained

----------------------------------------
(* Runs of rows without volume. *)

\* g counts the rows without volume that stand together up to each row.
RunTable(g, f, n) == g = [i \in 0..n |-> IF i = 0 \/ f[i].vol > 0 THEN 0 ELSE g[i - 1] + 1]

(* The rows can be counted up to any row. *)
LEMMA RunTablesExist ==
    ASSUME NEW f, NEW n \in Nat
    PROVE  \E g : RunTable(g, f, n)
  <1> DEFINE Bad == {i \in Nat : ~ \E g : RunTable(g, f, i)}
  <1> SUFFICES ASSUME Bad # {} PROVE FALSE
    BY SMT
  <1>1. PICK m \in Bad : \A i \in Bad : m <= i
   <2>1. Bad \subseteq Nat OBVIOUS
   <2> HIDE DEF Bad
   <2> QED BY <2>1, LeastNatural
  <1>2. m # 0
   <2> DEFINE g == [i \in 0..0 |-> 0]
   <2>1. RunTable(g, f, 0) BY DEF RunTable
   <2> QED BY <2>1
  <1>3. PICK g : RunTable(g, f, m - 1)
    BY <1>1, <1>2
  <1> DEFINE h == [i \in 0..m |-> IF i < m THEN g[i] ELSE IF f[m].vol > 0 THEN 0 ELSE g[m - 1] + 1]
  <1>4. RunTable(h, f, m)
   <2> DEFINE step(e, i) == IF i = 0 \/ f[i].vol > 0 THEN 0 ELSE e[i - 1] + 1
   <2>1. ASSUME NEW i \in 0..m, i < m PROVE h[i] = step(h, i)
    <3>1. i \in 0..(m - 1) BY <2>1
    <3>2. g[i] = step(g, i) BY <1>3, <3>1 DEF RunTable
    <3>3. i # 0 => i - 1 \in 0..m /\ i - 1 < m BY <2>1
    <3>4. h[i] = g[i] /\ (i # 0 => h[i - 1] = g[i - 1]) BY <2>1, <3>3
    <3> HIDE DEF h
    <3> QED BY <3>2, <3>4
   <2>2. h[m] = step(h, m) BY <1>1, <1>2
   <2>3. ASSUME NEW i \in 0..m
         PROVE  h[i] = step(h, i)
    <3>1. i < m \/ i = m BY <1>1
    <3> HIDE DEF h, step
    <3> QED BY <3>1, <2>1, <2>2
   <2>4. h = [i \in 0..m |-> h[i]] OBVIOUS
   <2> HIDE DEF h
   <2> QED BY <2>3, <2>4 DEF RunTable
  <1> QED BY <1>1, <1>4

\* w rows without volume end at row i, and no more than those.
RunAt(f, w, i) == /\ w \in 0..i
                  /\ \A k \in (i - w) + 1..i : f[k].vol = 0
                  /\ w < i => f[i - w].vol > 0

(* A row has volume or it has none. *)
LEMMA VolumeKnown ==
    ASSUME NEW f \in Seq(Rows)
    PROVE  Len(f) \in Nat /\ \A k \in 1..Len(f) : f[k].vol \in {0, 1}
  <1>1. Len(f) \in Nat /\ \A k \in 1..Len(f) : f[k] \in Rows OBVIOUS
  <1>2. \A r \in Rows : r.vol \in {0, 1} BY DEF Rows
  <1> QED BY <1>1, <1>2

(* The table of the scan says how long the run is that ends at a row. *)
LEMMA RunLengths ==
    ASSUME NEW f \in Seq(Rows)
    PROVE  \A i \in 0..Len(f) : RunAt(f, WithoutVolume(f)[i], i)
  <1> DEFINE n == Len(f)
             W == CHOOSE g : RunTable(g, f, n)
  <1>1. n \in Nat /\ \A k \in 1..n : f[k].vol \in {0, 1} BY VolumeKnown
  <1>2. WithoutVolume(f) = W BY DEF WithoutVolume, RunTable
  <1> HIDE DEF n
  <1>3. RunTable(W, f, n) BY <1>1, RunTablesExist
  <1> HIDE DEF W
  <1>4. W = [i \in 0..n |-> IF i = 0 \/ f[i].vol > 0 THEN 0 ELSE W[i - 1] + 1] BY <1>3 DEF RunTable
  <1>5. \A i \in 0..n : W[i] = IF i = 0 \/ f[i].vol > 0 THEN 0 ELSE W[i - 1] + 1
   <2> DEFINE step(i) == IF i = 0 \/ f[i].vol > 0 THEN 0 ELSE W[i - 1] + 1
   <2>1. W = [i \in 0..n |-> step(i)] BY <1>4
   <2> HIDE DEF step
   <2>2. \A i \in 0..n : W[i] = step(i) BY <2>1
   <2> QED BY <2>2 DEF step
  <1> DEFINE Bad == {i \in 0..n : ~RunAt(f, W[i], i)}
  <1>6. Bad = {}
   <2> SUFFICES ASSUME Bad # {} PROVE FALSE
     OBVIOUS
   <2>1. PICK m \in Bad : \A i \in Bad : m <= i
    <3>1. Bad \subseteq Nat OBVIOUS
    <3> HIDE DEF Bad
    <3> QED BY <3>1, LeastNatural
   <2>2. m \in 0..n /\ ~RunAt(f, W[m], m) BY <2>1
   <2>3. m # 0
    <3>1. 0 \in 0..n /\ W[0] = 0 BY <1>1, <1>5
    <3>2. RunAt(f, 0, 0) BY DEF RunAt
    <3> QED BY <2>2, <3>1, <3>2
   <2>4. m \in 1..n /\ m - 1 \in 0..n /\ ~(m <= m - 1) BY <1>1, <2>2, <2>3
   <2>5. RunAt(f, W[m - 1], m - 1) BY <2>1, <2>4
   <2>6. f[m].vol \in {0, 1} /\ W[m] = IF f[m].vol > 0 THEN 0 ELSE W[m - 1] + 1
     BY <1>1, <1>5, <2>2, <2>4
   <2>7. CASE f[m].vol > 0 BY <2>2, <2>4, <2>6, <2>7 DEF RunAt
   <2>8. CASE f[m].vol = 0
    <3> DEFINE w == W[m - 1]
    <3>1. /\ w \in 0..m - 1 /\ (w < m - 1 => f[(m - 1) - w].vol > 0)
          /\ \A k \in ((m - 1) - w) + 1..m - 1 : f[k].vol = 0
      BY <2>5 DEF RunAt
    <3>2. W[m] = w + 1 BY <2>6, <2>8
    <3> HIDE DEF w
    <3>10. m \in Nat /\ m # 0 /\ w \in Int /\ 0 <= w /\ w <= m - 1
     <4>1. m \in Nat /\ m # 0 /\ m - 1 \in Nat BY <1>1, <2>4
     <4>2. w \in 0..m - 1 BY <3>1
     <4> QED BY <4>1, <4>2
    <3>3. w + 1 \in 0..m /\ m - (w + 1) = (m - 1) - w /\ (w + 1 < m => w < m - 1) BY <3>10
    <3>11. ASSUME NEW k \in ((m - 1) - w) + 1..m PROVE f[k].vol = 0
     <4>1. k = m \/ k \in ((m - 1) - w) + 1..m - 1 BY <3>10
     <4> QED BY <2>8, <3>1, <4>1
    <3>4. RunAt(f, w + 1, m)
     <4> DEFINE c == (m - 1) - w
     <4>1. /\ m - (w + 1) = c /\ w + 1 \in 0..m /\ (w + 1 < m => f[c].vol > 0)
           /\ \A k \in c + 1..m : f[k].vol = 0
       BY <3>1, <3>3, <3>11
     <4> HIDE DEF c
     <4> QED BY <4>1 DEF RunAt
    <3> QED BY <2>2, <3>2, <3>4
   <2> QED BY <2>6, <2>7, <2>8
  <1> QED BY <1>2, <1>6 DEF n

\* The runs of rows without volume that are long enough and as long as they can be.
StaleRuns(f) == {run \in (1..Len(f)) \X (1..Len(f)) :
                    LET a == run[1]
                        b == run[2]
                    IN
                    /\ b - a + 1 >= StaleDays
                    /\ \A i \in a..b : f[i].vol = 0
                    /\ a > 1 => f[a - 1].vol > 0
                    /\ b < Len(f) => f[b + 1].vol > 0}

(* StaleDataRule reports each run at its last row. *)
LEMMA RunsHaveEnds ==
    ASSUME NEW f \in Seq(Rows)
    PROVE  Cardinality(StaleRuns(f)) = Cardinality(StaleEnds(f))
  <1> DEFINE n == Len(f)
             W == WithoutVolume(f)
             E == StaleEnds(f)
             R == StaleRuns(f)
             h == [b \in E |-> <<(b - W[b]) + 1, b>>]
  <1>1. n \in Nat /\ StaleDays \in Nat \ {0} /\ \A k \in 1..n : f[k].vol \in {0, 1}
    BY VolumeKnown, QualityAssumption
  <1>2. \A i \in 1..n : RunAt(f, W[i], i) BY RunLengths
  <1>3. E = {i \in 1..n : W[i] >= StaleDays /\ (i < n => f[i + 1].vol > 0)} BY DEF StaleEnds
  <1>4. \A a, b : <<a, b>> \in R <=> /\ a \in 1..n /\ b \in 1..n /\ b - a + 1 >= StaleDays
                                     /\ \A i \in a..b : f[i].vol = 0
                                     /\ a > 1 => f[a - 1].vol > 0
                                     /\ b < n => f[b + 1].vol > 0
    BY DEF StaleRuns
  <1>5. \A r \in R : \E a, b \in 1..n : r = <<a, b>> BY DEF StaleRuns
  <1> HIDE DEF n, W, E, R
  <1>6. ASSUME NEW b \in E PROVE h[b] \in R
   <2>1. b \in 1..n /\ W[b] >= StaleDays /\ (b < n => f[b + 1].vol > 0) /\ RunAt(f, W[b], b)
     BY <1>2, <1>3
   <2> DEFINE a == (b - W[b]) + 1
   <2>2. W[b] \in 0..b /\ (\A k \in a..b : f[k].vol = 0) /\ (W[b] < b => f[b - W[b]].vol > 0)
     BY <2>1 DEF RunAt
   <2>3. a \in 1..n /\ b - a + 1 = W[b] /\ (a > 1 => W[b] < b) /\ a - 1 = b - W[b]
     BY <1>1, <2>1, <2>2, SMTT(30)
   <2> HIDE DEF a
   <2>4. <<a, b>> \in R BY <1>4, <2>1, <2>2, <2>3
   <2> QED BY <2>4 DEF a
  <1>7. ASSUME NEW r \in R PROVE \E b \in E : h[b] = r
   <2>1. PICK a \in 1..n, b \in 1..n : r = <<a, b>>
     BY <1>5
   <2>2. /\ b - a + 1 >= StaleDays /\ \A i \in a..b : f[i].vol = 0
         /\ a > 1 => f[a - 1].vol > 0
         /\ b < n => f[b + 1].vol > 0
     BY <1>4, <2>1
   <2>3. W[b] \in 0..b /\ (\A k \in (b - W[b]) + 1..b : f[k].vol = 0) /\ (W[b] < b => f[b - W[b]].vol > 0)
     BY <1>2 DEF RunAt
   <2>4. W[b] = b - a + 1
    <3>1. CASE W[b] > b - a + 1
     <4>1. a > 1 /\ a - 1 \in (b - W[b]) + 1..b
      <5> DEFINE w == W[b]
      <5>1. w \in Int /\ w <= b /\ w > b - a + 1 /\ a \in Int /\ b \in Int /\ 1 <= a /\ 1 <= b /\ a <= b
       <6>1. a \in Int /\ b \in Int /\ 1 <= a /\ 1 <= b /\ w \in Int /\ w <= b BY <1>1, <2>3
       <6> HIDE DEF w
       <6>2. a <= b BY <1>1, <2>2, <6>1
       <6> QED BY <3>1, <6>1, <6>2 DEF w
      <5> HIDE DEF w
      <5>2. a > 1 /\ a - 1 \in (b - w) + 1..b BY <5>1
      <5> QED BY <5>2 DEF w
     <4> QED BY <2>2, <2>3, <4>1
    <3>2. CASE W[b] < b - a + 1
     <4>1. W[b] < b /\ b - W[b] \in a..b BY <2>3, <3>2
     <4> QED BY <2>2, <2>3, <4>1
    <3> QED BY <2>3, <3>1, <3>2
   <2>5. b \in E /\ (b - W[b]) + 1 = a BY <1>3, <2>2, <2>4
   <2> QED BY <2>1, <2>5
  <1>8. ASSUME NEW b \in E, NEW c \in E, h[b] = h[c] PROVE b = c BY <1>8
  <1>9. IsFiniteSet(E)
   <2>1. 1 \in Int /\ n \in Int BY <1>1
   <2>2. IsFiniteSet(1..n) BY <2>1, FS_Interval
   <2> QED BY <1>3, <2>2, FS_Subset
  <1>10. h \in [E -> R] BY <1>6
  <1> HIDE DEF h
  <1>11. h \in Bijection(E, R)
    BY <1>7, <1>8, <1>10 DEF Bijection, Injection, Surjection, IsInjective
  <1>12. ExistsBijection(E, R) BY <1>11 DEF ExistsBijection
  <1> QED BY <1>9, <1>12, FS_Bijection DEF E, R

(* A report that has no stale run before its last part has as many as that part has notes. *)
LEMMA StaleNotes ==
    ASSUME NEW s \in Seq(NoteSet), NEW t \in Seq(NoteSet),
           \A i \in 1..Len(s) : s[i].reason # "stale_data",
           \A i \in 1..Len(t) : t[i].reason = "stale_data"
    PROVE  Cardinality({n \in 1..Len(s \o t) : (s \o t)[n].reason = "stale_data"}) = Len(t)
  <1> DEFINE q == s \o t
             a == Len(s)
             b == Len(t)
  <1>1. /\ a \in Nat /\ b \in Nat /\ Len(q) = a + b
        /\ \A i \in 1..a : q[i] = s[i]
        /\ \A i \in 1..b : q[a + i] = t[i]
    BY ReportsJoin
  <1>2. (\A i \in 1..a : s[i].reason # "stale_data") /\ \A i \in 1..b : t[i].reason = "stale_data"
    OBVIOUS
  <1> HIDE DEF q, a, b
  <1>3. ASSUME NEW i \in 1..a + b PROVE q[i].reason = "stale_data" <=> i \in a + 1..a + b
   <2>1. CASE i <= a
    <3>1. i \in 1..a /\ i \notin a + 1..a + b BY <1>1, <2>1
    <3> QED BY <1>1, <1>2, <3>1
   <2>2. CASE i > a
    <3>1. i - a \in 1..b /\ a + (i - a) = i /\ i \in a + 1..a + b BY <1>1, <2>2
    <3> QED BY <1>1, <1>2, <3>1, ZenonT(60)
   <2> QED BY <1>1, <2>1, <2>2
  <1>4. {n \in 1..a + b : q[n].reason = "stale_data"} = a + 1..a + b
   <2>1. \A i \in a + 1..a + b : i \in 1..a + b BY <1>1
   <2> QED BY <1>3, <2>1
  <1>5. Cardinality(a + 1..a + b) = b
   <2>1. a + 1 \in Int /\ a + b \in Int BY <1>1
   <2>2. Cardinality(a + 1..a + b) = IF a + 1 > a + b THEN 0 ELSE (a + b) - (a + 1) + 1
     BY <2>1, FS_Interval
   <2> QED BY <1>1, <2>2
  <1> QED BY <1>1, <1>4, <1>5 DEF q, b

\* All notes of a report have one reason.
OfReason(q, reason) == \A i \in 1..Len(q) : q[i].reason = reason

\* No note of the report is about a stale run.
Fresh(s) == s \in Seq(NoteSet) /\ \A i \in 1..Len(s) : s[i].reason # "stale_data"

(* Two such parts make such a report. *)
LEMMA FreshJoin ==
    ASSUME NEW s, NEW t, Fresh(s), Fresh(t)
    PROVE  Fresh(s \o t)
  <1>1. /\ s \o t \in Seq(NoteSet)
        /\ Len(s \o t) = Len(s) + Len(t)
        /\ \A i \in 1..Len(s) + Len(t) : (s \o t)[i] = IF i <= Len(s) THEN s[i] ELSE t[i - Len(s)]
    BY ConcatProperties DEF Fresh
  <1>2. Len(s) \in Nat /\ Len(t) \in Nat BY DEF Fresh
  <1>3. \A i \in 1..Len(s) + Len(t) : IF i <= Len(s) THEN i \in 1..Len(s) ELSE i - Len(s) \in 1..Len(t)
    BY <1>2
  <1> QED BY <1>1, <1>3 DEF Fresh

(* The corrections for one reason. *)
LEMMA NotesOf ==
    ASSUME NEW f \in Seq(Rows), NEW I \in SUBSET (1..Len(f)), NEW reason \in Reasons,
           NEW q, q = Notes(reason, RowsAt(f, I))
    PROVE  /\ q \in Seq(NoteSet) /\ Len(q) = Cardinality(I) /\ OfReason(q, reason)
           /\ reason # "stale_data" => Fresh(q)
  <1>1. /\ q \in Seq(NoteSet) /\ Len(q) = Cardinality(I)
        /\ \A i \in 1..Cardinality(I) : q[i].reason = reason
    BY NotesTaken
  <1> QED BY <1>1 DEF Fresh, OfReason

(* The report has a note for each stale run and no other of that kind. *)
LEMMA StaleRunsCounted ==
    ASSUME dqFrame \in Seq(Rows), Validated
    PROVE  StaleRunsReported
  <1> DEFINE d == Deduplicated(dqFrame)
             p == WithPrice(d)
             m == AboveMinimum(p)
             A == Notes("duplicate_timestamp", RowsAt(dqFrame, FirstDropped(dqFrame)))
             B == Notes("negative_price", RowsAt(d, NegativeAt(d)))
             C == Notes("price_below_minimum", RowsAt(p, BelowAt(p)))
             N == Notes("ohlc_nan_field", RowsAt(m, NanAt(m)))
             E == Notes("stale_data", RowsAt(m, StaleEnds(m)))
  <1>1. dqCleaned = m /\ dqReport = ((A \o (B \o C)) \o N) \o E BY ValidateSteps DEF Validated
  <1>2. d \in Seq(Rows) /\ p \in Seq(Rows) /\ m \in Seq(Rows)
   <2>1. d \in Seq(Rows) BY StagesTaken
   <2> HIDE DEF d
   <2>2. p \in Seq(Rows) BY <2>1, StagesTaken
   <2> HIDE DEF p
   <2>3. m \in Seq(Rows) BY <2>2, StagesTaken
   <2> QED BY <2>1, <2>2, <2>3
  <1> HIDE DEF d, p, m
  <1>3. /\ FirstDropped(dqFrame) \in SUBSET (1..Len(dqFrame)) /\ NegativeAt(d) \in SUBSET (1..Len(d))
        /\ BelowAt(p) \in SUBSET (1..Len(p)) /\ NanAt(m) \in SUBSET (1..Len(m)) /\ StaleEnds(m) \in SUBSET (1..Len(m))
    BY DEF FirstDropped, DroppedAt, NegativeAt, BelowAt, NanAt, StaleEnds
  <1>4. /\ A = Notes("duplicate_timestamp", RowsAt(dqFrame, FirstDropped(dqFrame)))
        /\ B = Notes("negative_price", RowsAt(d, NegativeAt(d)))
        /\ C = Notes("price_below_minimum", RowsAt(p, BelowAt(p)))
        /\ N = Notes("ohlc_nan_field", RowsAt(m, NanAt(m)))
        /\ E = Notes("stale_data", RowsAt(m, StaleEnds(m)))
    OBVIOUS
  <1> HIDE DEF A, B, C, N, E
  <1>5. /\ "duplicate_timestamp" \in Reasons /\ "negative_price" \in Reasons /\ "price_below_minimum" \in Reasons
        /\ "ohlc_nan_field" \in Reasons /\ "stale_data" \in Reasons
        /\ "duplicate_timestamp" # "stale_data" /\ "negative_price" # "stale_data"
        /\ "price_below_minimum" # "stale_data" /\ "ohlc_nan_field" # "stale_data"
    BY DEF Reasons
  <1>20. ASSUME NEW f \in Seq(Rows), NEW I \in SUBSET (1..Len(f)), NEW reason \in Reasons,
                NEW x, x = Notes(reason, RowsAt(f, I)), reason # "stale_data"
         PROVE  Fresh(x)
    BY <1>20, NotesOf
  <1>21. ASSUME NEW f \in Seq(Rows), NEW I \in SUBSET (1..Len(f)), NEW reason \in Reasons,
                NEW x, x = Notes(reason, RowsAt(f, I))
         PROVE  x \in Seq(NoteSet) /\ Len(x) = Cardinality(I) /\ OfReason(x, reason)
    BY <1>21, NotesOf
  <1>6. Fresh(A) BY <1>3, <1>4, <1>5, <1>20, Zenon
  <1>7. Fresh(B) BY <1>2, <1>3, <1>4, <1>5, <1>20, Zenon
  <1>8. Fresh(C) BY <1>2, <1>3, <1>4, <1>5, <1>20, Zenon
  <1>9. Fresh(N) BY <1>2, <1>3, <1>4, <1>5, <1>20, Zenon
  <1>22. E \in Seq(NoteSet) /\ Len(E) = Cardinality(StaleEnds(m)) /\ OfReason(E, "stale_data")
    BY <1>2, <1>3, <1>4, <1>5, <1>21, Zenon
  <1>10. /\ E \in Seq(NoteSet) /\ Len(E) = Cardinality(StaleEnds(m))
         /\ \A i \in 1..Len(E) : E[i].reason = "stale_data"
    BY <1>22 DEF OfReason
  <1> DEFINE q == (A \o (B \o C)) \o N
  <1>11. Fresh(q) BY <1>6, <1>7, <1>8, <1>9, FreshJoin
  <1> HIDE DEF q
  <1>12. q \in Seq(NoteSet) /\ \A i \in 1..Len(q) : q[i].reason # "stale_data" BY <1>11 DEF Fresh
  <1>13. Cardinality({n \in 1..Len(q \o E) : (q \o E)[n].reason = "stale_data"}) = Len(E)
    BY <1>10, <1>12, StaleNotes
  <1>14. dqReport = q \o E BY <1>1 DEF q
  <1>15. Cardinality({n \in 1..Len(dqReport) : dqReport[n].reason = "stale_data"}) = Cardinality(StaleRuns(dqCleaned))
    BY <1>1, <1>2, <1>10, <1>13, <1>14, RunsHaveEnds
  <1> QED BY <1>15 DEF StaleRunsReported, StaleRuns

----------------------------------------
(* Revenues. *)

\* The revenues repaired and as they were.
Repaired == \E s \in Seq(Int) : dqCleaned = <<s, CheckRevenue(s)>>

(* A mean of positive revenues is not negative. *)
LEMMA MeanPositive ==
    ASSUME NEW s \in Seq(Int), NEW i \in 1..Len(s), Neighbours(s, i) # {}
    PROVE  SumAt(s, Neighbours(s, i)) \div Cardinality(Neighbours(s, i)) \in Nat
  <1> DEFINE K == Neighbours(s, i)
  <1>1. Len(s) \in Nat /\ \A k \in 1..Len(s) : s[k] \in Int OBVIOUS
  <1>2. K \subseteq 1..Len(s) /\ \A k \in K : s[k] > 0 BY DEF Neighbours, Positive
  <1>3. IsFiniteSet(K) /\ K # {}
   <2>1. 1 \in Int /\ Len(s) \in Int BY <1>1
   <2>2. IsFiniteSet(1..Len(s)) BY <2>1, FS_Interval
   <2> QED BY <1>2, <2>2, FS_Subset
  <1> HIDE DEF K
  <1>4. \A k \in K : s[k] \in Nat BY <1>1, <1>2
  <1>5. SumOn(s, K) \in Nat BY <1>3, <1>4, SumNat
  <1>6. SumAt(s, K) = SumOn(s, K) BY DEF SumAt, SumOn
  <1>7. Cardinality(K) \in Nat /\ Cardinality(K) # 0 BY <1>3, FS_CardinalityType, FS_EmptySet
  <1> DEFINE x == SumAt(s, K)
             c == Cardinality(K)
  <1>8. x \in Nat /\ c \in Nat /\ c # 0 BY <1>5, <1>6, <1>7
  <1> HIDE DEF x, c
  <1>9. x \div c \in Nat BY <1>8
  <1> QED BY <1>9 DEF x, c, K

(* _check_revenue leaves no suspect revenue beyond the tolerance negative. *)
LEMMA RevenuesRepaired ==
    ASSUME Repaired
    PROVE  RevenueRepaired
  <1>1. PICK s \in Seq(Int) : dqCleaned = <<s, CheckRevenue(s)>>
    BY DEF Repaired
  <1>2. dqCleaned[1] = s /\ dqCleaned[2] = CheckRevenue(s) BY <1>1
  <1>3. Len(s) \in Nat /\ Len(CheckRevenue(s)) = Len(s) BY DEF CheckRevenue
  <1>4. ASSUME NEW i \in 1..Len(s), CheckRevenue(s)[i] < 0 PROVE i \notin Suspects(s) \/ Tolerated(s, i)
   <2> SUFFICES ASSUME i \in Suspects(s), ~Tolerated(s, i) PROVE FALSE
     OBVIOUS
   <2>1. CheckRevenue(s)[i] = SumAt(s, Neighbours(s, i)) \div Cardinality(Neighbours(s, i))
     BY DEF CheckRevenue
   <2>2. Neighbours(s, i) # {} BY DEF Suspects
   <2>3. SumAt(s, Neighbours(s, i)) \div Cardinality(Neighbours(s, i)) \in Nat BY <2>2, MeanPositive
   <2> DEFINE x == CheckRevenue(s)[i]
   <2>4. x \in Nat /\ x < 0 BY <1>4, <2>1, <2>3
   <2> HIDE DEF x
   <2> QED BY <2>4
  <1> QED BY <1>2, <1>3, <1>4 DEF RevenueRepaired

----------------------------------------
(* The rows the backtest visits. *)

(* How many numbers there are from one to another. *)
LEMMA CountBetween ==
    ASSUME NEW a \in Int, NEW b \in Int, a <= b + 1
    PROVE  IsFiniteSet(a..b) /\ Cardinality(a..b) = b - a + 1
  <1>1. IsFiniteSet(a..b) /\ Cardinality(a..b) = IF a > b THEN 0 ELSE b - a + 1 BY FS_Interval
  <1> QED BY <1>1

(* The first rows of a frame, taken out, are its beginning. *)
LEMMA FirstTaken ==
    ASSUME NEW S, NEW f \in Seq(S), NEW m \in 0..Len(f)
    PROVE  RowsAt(f, 1..m) = SubSeq(f, 1, m)
  <1>1. Len(f) \in Nat /\ m \in Nat /\ m <= Len(f) OBVIOUS
  <1>2. Cardinality(1..m) = m
   <2>1. 1 \in Int /\ m \in Int /\ 1 <= m + 1 BY <1>1
   <2>2. Cardinality(1..m) = m - 1 + 1 BY <2>1, CountBetween
   <2> QED BY <1>1, <2>2
  <1>3. ASSUME NEW i \in 1..m PROVE NthOf(1..m, i) = i
   <2>1. ASSUME NEW k \in 1..m PROVE Cardinality({x \in 1..m : x < k}) = k - 1
    <3>1. {x \in 1..m : x < k} = 1..k - 1 BY <1>1
    <3>2. 1 \in Int /\ k - 1 \in Int /\ 1 <= (k - 1) + 1 BY <1>1
    <3>3. Cardinality(1..k - 1) = (k - 1) - 1 + 1 BY <3>2, CountBetween
    <3>4. (k - 1) - 1 + 1 = k - 1 BY <1>1
    <3> QED BY <3>1, <3>3, <3>4, Zenon
   <2>2. \E k \in 1..m : Cardinality({x \in 1..m : x < k}) = i - 1 BY <2>1
   <2>3. NthOf(1..m, i) \in 1..m /\ Cardinality({x \in 1..m : x < NthOf(1..m, i)}) = i - 1
     BY <2>2 DEF NthOf
   <2>4. NthOf(1..m, i) - 1 = i - 1 BY <2>1, <2>3
   <2> QED BY <1>1, <2>3, <2>4
  <1>4. RowsAt(f, 1..m) = [i \in 1..m |-> f[i]] BY <1>2, <1>3 DEF RowsAt
  <1>5. SubSeq(f, 1, m) = [i \in 1..m |-> f[i]]
   <2>1. SubSeq(f, 1, m) = [i \in 1 .. (m - 1 + 1) |-> f[i + 1 - 1]] OBVIOUS
   <2>2. m - 1 + 1 = m /\ \A i \in 1..m : i + 1 - 1 = i BY <1>1
   <2> QED BY <2>1, <2>2
  <1> QED BY <1>4, <1>5

\* The rows that are not numbers or share their timestamp, and those a strategy is evaluated at.
BadAt(f) == {i \in 1..Len(f) : f[i].close = Nan
                \/ \E j \in 1..Len(f) : j # i /\ f[j].ts = f[i].ts}
GoodAt(f) == {i \in MinBars..Len(f) : \A b \in BadAt(f) : i < b}

(* Timestamps are numbers. *)
LEMMA TimesKnown ==
    ASSUME NEW f \in Seq(Rows)
    PROVE  Len(f) \in Nat /\ \A k \in 1..Len(f) : f[k].ts \in Int
  <1>1. Len(f) \in Nat /\ \A k \in 1..Len(f) : f[k] \in Rows OBVIOUS
  <1>2. \A r \in Rows : r.ts \in Int BY DEF Rows
  <1> QED BY <1>1, <1>2

(* Rows with one timestamp are still there among the rows taken out. *)
LEMMA RepeatsTaken ==
    ASSUME NEW f \in Seq(Rows), NEW I \in SUBSET (1..Len(f)), NEW k \in I, NEW l \in I,
           k < l, f[k].ts = f[l].ts
    PROVE  \E p \in 1..Len(RowsAt(f, I)) : Duplicated(RowsAt(f, I), p)
  <1> DEFINE g == RowsAt(f, I)
             c == Cardinality(I)
  <1>1. /\ Len(f) \in Nat /\ c \in Nat /\ Len(g) = c
        /\ \A i \in 1..c : NthOf(I, i) \in I /\ g[i] = f[NthOf(I, i)]
    BY RowsTaken
  <1>2. /\ \A i, j \in 1..c : i < j => NthOf(I, i) < NthOf(I, j)
        /\ \A x \in I : \E i \in 1..c : NthOf(I, i) = x
    BY <1>1, NthInOrder
  <1> HIDE DEF g, c
  <1>3. PICK p \in 1..c : NthOf(I, p) = k
    BY <1>2
  <1>4. PICK q \in 1..c : NthOf(I, q) = l
    BY <1>2
  <1>5. k \in Int /\ l \in Int BY <1>1
  <1>6. p < q
   <2>1. p # q BY <1>3, <1>4, <1>5
   <2>2. ~(q < p) BY <1>2, <1>3, <1>4, <1>5
   <2> QED BY <1>1, <2>1, <2>2
  <1>7. q \in p + 1..Len(g) /\ p \in 1..Len(g) /\ g[q].ts = g[p].ts BY <1>1, <1>3, <1>4, <1>6
  <1>8. Duplicated(g, p) BY <1>7 DEF Duplicated
  <1> QED BY <1>7, <1>8 DEF g

(* The frame the builder is given at a row is accepted just at the good rows, and is *)
(* the beginning of the whole frame there. *)
LEMMA RowsAccepted ==
    ASSUME NEW f \in Seq(Rows), Ordered(f), NEW i \in 1..Len(f)
    PROVE  /\ ~Rejected(Slice(f, i)) <=> i \in GoodAt(f)
           /\ i \in GoodAt(f) => Slice(f, i) = SubSeq(f, 1, i)
  <1> DEFINE n == Len(f)
             I == {k \in 1..n : f[k].ts <= f[i].ts}
             g == RowsAt(f, I)
  <1>1. n \in Nat /\ (\A k \in 1..n : f[k].ts \in Int) /\ i \in Nat /\ MinBars \in Nat \ {0}
    BY TimesKnown, QualityAssumption
  <1>2. \A k, l \in 1..n : k < l => f[k].ts <= f[l].ts BY DEF Ordered
  <1>3. Slice(f, i) = g BY DEF Slice, RowsWhere
  <1>4. GoodAt(f) = {k \in MinBars..n : \A b \in BadAt(f) : k < b} BY DEF GoodAt
  <1>5. BadAt(f) = {k \in 1..n : f[k].close = Nan \/ \E j \in 1..n : j # k /\ f[j].ts = f[k].ts}
    BY DEF BadAt
  <1>6. I \in SUBSET (1..n) /\ \A k \in 1..n : k \in I <=> f[k].ts <= f[i].ts OBVIOUS
  <1>7. /\ g \in Seq(Rows) /\ Len(g) = Cardinality(I)
        /\ \A k \in I : \E p \in 1..Cardinality(I) : g[p] = f[k]
    BY <1>6, RowsTaken
  <1>8. i \in 1..n OBVIOUS
  <1>9. ASSUME I = 1..i
        PROVE  /\ g = SubSeq(f, 1, i) /\ Len(g) = i /\ \A k \in 1..i : g[k] = f[k]
   <2>1. i \in 0..Len(f) BY <1>1
   <2>2. g = SubSeq(f, 1, i) BY <1>9, <2>1, FirstTaken
   <2>3. Len(SubSeq(f, 1, i)) = i /\ \A k \in 1..i : SubSeq(f, 1, i)[k] = f[k] BY <2>1
   <2> QED BY <2>2, <2>3
  <1>10. \A k \in 1..i : k \in I BY <1>1, <1>2, <1>6, <1>8
  <1>11. ASSUME ~Rejected(g) PROVE i \in GoodAt(f)
   <2>1. /\ Len(g) \in Nat /\ Len(g) >= MinBars
         /\ \A k \in 1..Len(g) : g[k].close # Nan /\ ~Duplicated(g, k)
    <3> HIDE DEF g
    <3>1. Len(g) \in Nat BY <1>7
    <3> QED BY <1>1, <1>11, <3>1 DEF Rejected
   <2>2. ASSUME NEW k \in I, NEW l \in I, k < l, f[k].ts = f[l].ts PROVE FALSE
    <3>1. \E p \in 1..Len(RowsAt(f, I)) : Duplicated(RowsAt(f, I), p) BY <1>6, <2>2, RepeatsTaken
    <3> QED BY <2>1, <3>1
   <2> HIDE DEF I, g, n
   <2>3. ASSUME NEW k \in I, k > i PROVE FALSE
    <3>1. k \in 1..n /\ f[k].ts <= f[i].ts /\ f[i].ts <= f[k].ts BY <1>2, <1>6, <1>8, <2>3
    <3>2. f[k].ts = f[i].ts /\ i \in I /\ i < k BY <1>1, <1>6, <1>8, <2>3, <3>1
    <3> QED BY <2>2, <3>2
   <2>4. I = 1..i
    <3>1. \A k \in I : k \in 1..i
     <4> TAKE k \in I
     <4>1. k \in 1..n /\ ~(k > i) BY <1>6, <2>3
     <4> QED BY <1>1, <4>1
    <3> QED BY <1>10, <3>1
   <2>5. Len(g) = i /\ \A k \in 1..i : g[k] = f[k] BY <1>9, <2>4
   <2>6. ASSUME NEW b \in BadAt(f) PROVE i < b
    <3> SUFFICES ASSUME ~(i < b) PROVE FALSE
      OBVIOUS
    <3>1. b \in 1..n /\ b \in 1..i BY <1>1, <1>5
    <3>2. f[b].close # Nan BY <2>1, <2>5, <3>1
    <3>3. PICK j \in 1..n : j # b /\ f[j].ts = f[b].ts
      BY <1>5, <3>2
    <3>4. b \in I /\ f[b].ts <= f[i].ts BY <1>6, <1>10, <3>1
    <3>5. j \in I BY <1>6, <3>3, <3>4
    <3>6. j < b \/ b < j BY <1>1, <3>1, <3>3
    <3> QED BY <2>2, <3>3, <3>4, <3>5, <3>6
   <2> QED BY <1>1, <1>4, <1>8, <2>1, <2>5, <2>6
  <1>12. ASSUME i \in GoodAt(f) PROVE I = 1..i /\ ~Rejected(g)
   <2> HIDE DEF I, g, n
   <2>1. i >= MinBars /\ \A b \in BadAt(f) : i < b BY <1>1, <1>4, <1>12
   <2>2. ASSUME NEW k \in 1..i PROVE f[k].close # Nan /\ \A j \in 1..n : j # k => f[j].ts # f[k].ts
    <3>1. k \in 1..n /\ ~(i < k) BY <1>1, <1>8
    <3>2. k \notin BadAt(f) BY <2>1, <3>1
    <3> QED BY <1>5, <3>1, <3>2
   <2>3. ASSUME NEW k \in I PROVE k \in 1..i
    <3> SUFFICES ASSUME k > i PROVE FALSE
      BY <1>1, <1>6
    <3>1. k \in 1..n /\ f[k].ts <= f[i].ts /\ f[i].ts <= f[k].ts BY <1>2, <1>6, <1>8
    <3>2. f[k].ts = f[i].ts /\ k # i /\ i \in 1..i BY <1>1, <1>8, <3>1
    <3> QED BY <2>2, <3>1, <3>2
   <2>4. I = 1..i BY <1>10, <2>3
   <2>5. Len(g) = i /\ \A k \in 1..i : g[k] = f[k] BY <1>9, <2>4
   <2>6. ASSUME NEW k \in 1..i PROVE ~Duplicated(g, k)
    <3> SUFFICES ASSUME NEW j \in k + 1..i, g[j].ts = g[k].ts PROVE FALSE
      BY <2>5 DEF Duplicated
    <3>1. j \in 1..i /\ j \in 1..n /\ j # k BY <1>1, <1>8
    <3> QED BY <2>2, <2>5, <3>1
   <2>7. /\ ~(Len(g) < MinBars) /\ \A k \in 1..Len(g) : g[k].close # Nan /\ ~Duplicated(g, k)
     BY <1>1, <2>1, <2>2, <2>5, <2>6
   <2> QED BY <2>4, <2>7 DEF Rejected
  <1> QED BY <1>3, <1>9, <1>11, <1>12

\* What the backtest has visited: one point of the curve for each good row so far, and
\* the bars shown last end at the last of them.
Visited ==
    /\ dqRow \in 0..Len(dqFrame) /\ dqCurve \in Seq(Int)
    /\ \A k \in 1..Len(dqCurve) : /\ MinBars + k - 1 \in GoodAt(dqFrame) /\ MinBars + k - 1 <= dqRow
                                  /\ dqCurve[k] = dqFrame[MinBars + k - 1].ts
    /\ \A i \in GoodAt(dqFrame) : i <= dqRow => i - MinBars + 1 <= Len(dqCurve)
    /\ dqShown = IF dqCurve = <<>> THEN <<>>
                 ELSE SubSeq(dqFrame, Len(dqCurve), MinBars + Len(dqCurve) - 1)

(* Before a good row every row from the first that has enough bars is good. *)
LEMMA GoodBefore ==
    ASSUME NEW f, Len(f) \in Nat, NEW i \in GoodAt(f), NEW j \in MinBars..i
    PROVE  i \in MinBars..Len(f) /\ j \in GoodAt(f)
  <1>1. i \in MinBars..Len(f) /\ \A b \in BadAt(f) : i < b BY DEF GoodAt
  <1>2. \A b \in BadAt(f) : b \in Int BY DEF BadAt
  <1>3. MinBars \in Nat BY QualityAssumption
  <1>4. j \in MinBars..Len(f) /\ \A b \in BadAt(f) : j < b BY <1>1, <1>2, <1>3
  <1> QED BY <1>1, <1>4 DEF GoodAt

(* The last bars of the beginning of a frame. *)
LEMMA LastOfPrefix ==
    ASSUME NEW f \in Seq(Rows), NEW i \in MinBars..Len(f)
    PROVE  /\ LastBars(SubSeq(f, 1, i)) = SubSeq(f, i - MinBars + 1, i)
           /\ Len(SubSeq(f, i - MinBars + 1, i)) = MinBars
           /\ \A k \in 1..MinBars : SubSeq(f, i - MinBars + 1, i)[k] = f[(i - MinBars) + k]
  <1> DEFINE n == Len(f)
             a == i - MinBars + 1
             g == SubSeq(f, 1, i)
  <1>1. MinBars \in Nat \ {0} /\ n \in Nat /\ i \in Nat /\ MinBars <= i /\ i <= n
    BY QualityAssumption
  <1>2. g = [k \in 1..i |-> f[k]]
   <2>1. g = [k \in 1 .. (i - 1 + 1) |-> f[k + 1 - 1]] OBVIOUS
   <2>2. i - 1 + 1 = i /\ \A k \in 1..i : k + 1 - 1 = k BY <1>1
   <2> QED BY <2>1, <2>2
  <1>3. Len(g) = i BY <1>1, <1>2
  <1>4. a \in 1..i /\ i - a + 1 = MinBars /\ \A k \in 1..MinBars : k + a - 1 \in 1..i /\ k + a - 1 = (i - MinBars) + k
    BY <1>1
  <1>5. LastBars(g) = SubSeq(g, a, i) BY <1>3 DEF LastBars
  <1> HIDE DEF g, a
  <1>6. /\ SubSeq(g, a, i) = [k \in 1 .. (i - a + 1) |-> g[k + a - 1]]
        /\ SubSeq(f, a, i) = [k \in 1 .. (i - a + 1) |-> f[k + a - 1]]
    BY <1>1, <1>4
  <1>7. /\ SubSeq(g, a, i) = [k \in 1..MinBars |-> f[k + a - 1]]
        /\ SubSeq(f, a, i) = [k \in 1..MinBars |-> f[k + a - 1]]
    BY <1>2, <1>4, <1>6
  <1>8. Len(SubSeq(f, a, i)) = MinBars /\ \A k \in 1..MinBars : SubSeq(f, a, i)[k] = f[(i - MinBars) + k]
    BY <1>1, <1>4, <1>7
  <1> QED BY <1>5, <1>7, <1>8 DEF a, g

(* A turn of the loop keeps the account of the rows. *)
LEMMA RowVisited ==
    ASSUME dqFrame \in Seq(Rows), Ordered(dqFrame), Visited, BacktestRow
    PROVE  Visited'
  <1> DEFINE f == dqFrame
             n == Len(f)
             c == Len(dqCurve)
             i == dqRow + 1
  <1>1. /\ dqRow \in 0..n /\ dqCurve \in Seq(Int)
        /\ \A k \in 1..c : /\ MinBars + k - 1 \in GoodAt(f) /\ MinBars + k - 1 <= dqRow
                           /\ dqCurve[k] = f[MinBars + k - 1].ts
        /\ \A k \in GoodAt(f) : k <= dqRow => k - MinBars + 1 <= c
        /\ dqShown = IF dqCurve = <<>> THEN <<>> ELSE SubSeq(f, c, MinBars + c - 1)
    BY DEF Visited
  <1>2. /\ dqRow < n /\ dqRow' = i /\ dqFrame' = f
        /\ \/ Rejected(Slice(f, i)) /\ dqShown' = dqShown /\ dqCurve' = dqCurve
           \/ /\ ~Rejected(Slice(f, i))
              /\ dqShown' = LastBars(Slice(f, i))
              /\ dqCurve' = Append(dqCurve, f[i].ts)
    BY DEF BacktestRow
  <1>3. MinBars \in Nat \ {0} /\ n \in Nat /\ c \in Nat /\ dqRow \in Nat /\ i \in 1..n /\ f \in Seq(Rows)
    BY <1>1, <1>2, QualityAssumption
  <1>4. (\A k \in 1..n : f[k].ts \in Int) /\ GoodAt(f) \subseteq Int BY TimesKnown DEF GoodAt
  <1>5. /\ ~Rejected(Slice(f, i)) <=> i \in GoodAt(f)
        /\ i \in GoodAt(f) => Slice(f, i) = SubSeq(f, 1, i)
    BY <1>3, RowsAccepted
  <1>6. CASE i \notin GoodAt(f)
   <2>1. dqShown' = dqShown /\ dqCurve' = dqCurve BY <1>2, <1>5, <1>6
   <2>2. i \in 0..n /\ \A k \in 1..c : MinBars + k - 1 <= i BY <1>1, <1>3
   <2>3. ASSUME NEW k \in GoodAt(f), k <= i PROVE k - MinBars + 1 <= c
    <3>1. k # i /\ k \in Int BY <1>4, <1>6
    <3>2. k <= dqRow BY <1>3, <2>3, <3>1
    <3> QED BY <1>1, <3>2
   <2> QED BY <1>1, <1>2, <2>1, <2>2, <2>3 DEF Visited
  <1>7. CASE i \in GoodAt(f)
   <2>1. /\ dqShown' = LastBars(SubSeq(f, 1, i)) /\ dqCurve' = Append(dqCurve, f[i].ts)
     BY <1>2, <1>5, <1>7
   <2>2. i \in MinBars..n /\ i >= MinBars
    <3>1. i \in MinBars..i BY <1>3, <1>7 DEF GoodAt
    <3> QED BY <1>3, <1>7, <3>1, GoodBefore
   <2>3. c = i - MinBars
    <3>1. CASE c = 0
     <4>1. ASSUME i > MinBars PROVE FALSE
      <5>1. dqRow \in MinBars..i BY <1>3, <4>1
      <5>2. dqRow \in GoodAt(f) BY <1>3, <1>7, <5>1, GoodBefore
      <5>3. dqRow - MinBars + 1 <= c BY <1>1, <1>3, <5>2
      <5> QED BY <1>3, <3>1, <4>1, <5>3
     <4> QED BY <1>3, <2>2, <3>1, <4>1
    <3>2. CASE c > 0
     <4>1. MinBars + c - 1 <= dqRow BY <1>1, <1>3, <3>2
     <4>2. dqRow \in MinBars..i BY <1>3, <3>2, <4>1
     <4>3. dqRow \in GoodAt(f) BY <1>3, <1>7, <4>2, GoodBefore
     <4>4. dqRow - MinBars + 1 <= c BY <1>1, <1>3, <4>3
     <4> QED BY <1>3, <4>1, <4>4
    <3> QED BY <1>3, <3>1, <3>2
   <2>4. MinBars + (c + 1) - 1 = i /\ i - MinBars + 1 = c + 1 BY <1>3, <2>3
   <2> DEFINE q == Append(dqCurve, f[i].ts)
   <2>5. /\ q \in Seq(Int) /\ Len(q) = c + 1 /\ q # <<>>
         /\ q[c + 1] = f[i].ts /\ \A k \in 1..c : q[k] = dqCurve[k]
    <3>1. f[i].ts \in Int BY <1>3, <1>4
    <3> DEFINE v == f[i].ts
    <3>2. v \in Int BY <3>1
    <3> HIDE DEF v
    <3>3. /\ Append(dqCurve, v) \in Seq(Int) /\ Len(Append(dqCurve, v)) = c + 1
          /\ Append(dqCurve, v)[c + 1] = v /\ \A k \in 1..c : Append(dqCurve, v)[k] = dqCurve[k]
      BY <1>1, <3>2
    <3>4. Append(dqCurve, v) # <<>> BY <1>3, <3>3
    <3> QED BY <3>3, <3>4 DEF v
   <2>6. dqShown' = SubSeq(f, c + 1, i) BY <1>3, <2>1, <2>2, <2>4, LastOfPrefix
   <2> HIDE DEF q
   <2>7. ASSUME NEW k \in 1..c + 1
         PROVE  MinBars + k - 1 \in GoodAt(f) /\ MinBars + k - 1 <= i /\ q[k] = f[MinBars + k - 1].ts
    <3>1. CASE k = c + 1 BY <1>3, <1>7, <2>4, <2>5, <3>1
    <3>2. CASE k # c + 1
     <4>1. k \in 1..c BY <1>3, <3>2
     <4> QED BY <1>1, <1>3, <2>5, <4>1, SMTT(30)
    <3> QED BY <3>1, <3>2
   <2>8. ASSUME NEW k \in GoodAt(f), k <= i PROVE k - MinBars + 1 <= c + 1 BY <1>3, <1>4, <2>4, <2>8
   <2>9. i \in 0..n BY <1>3
   <2>10. dqCurve' = q BY <2>1 DEF q
   <2> HIDE DEF i
   <2>11. /\ dqRow' = i /\ dqFrame' = f /\ dqCurve' = q /\ Len(q) = c + 1
          /\ dqShown' = SubSeq(f, c + 1, MinBars + (c + 1) - 1)
     BY <1>2, <2>4, <2>5, <2>6, <2>10
   <2> QED BY <2>5, <2>7, <2>8, <2>9, <2>11 DEF Visited
  <1> QED BY <1>6, <1>7

(* What is visited when every row is: the whole curve. *)
LEMMA CurveComplete ==
    ASSUME dqFrame \in Seq(Rows), Visited, dqRow = Len(dqFrame)
    PROVE  dqCurve = [k \in 1..Cardinality(GoodAt(dqFrame)) |-> dqFrame[MinBars + k - 1].ts]
  <1> DEFINE f == dqFrame
             n == Len(f)
             c == Len(dqCurve)
  <1>1. /\ dqRow = n /\ dqCurve \in Seq(Int)
        /\ \A k \in 1..c : MinBars + k - 1 \in GoodAt(f) /\ dqCurve[k] = f[MinBars + k - 1].ts
        /\ \A k \in GoodAt(f) : k <= dqRow => k - MinBars + 1 <= c
    BY DEF Visited
  <1>2. MinBars \in Nat \ {0} /\ n \in Nat /\ c \in Nat BY <1>1, QualityAssumption
  <1>3. \A k \in GoodAt(f) : k \in Int /\ MinBars <= k /\ k <= n BY <1>2 DEF GoodAt
  <1> HIDE DEF c, n
  <1>4. GoodAt(f) = MinBars..MinBars + c - 1
   <2>1. ASSUME NEW k \in GoodAt(f) PROVE k \in MinBars..MinBars + c - 1 BY <1>1, <1>2, <1>3
   <2>2. ASSUME NEW k \in MinBars..MinBars + c - 1 PROVE k \in GoodAt(f)
    <3>1. k - MinBars + 1 \in 1..c /\ MinBars + (k - MinBars + 1) - 1 = k BY <1>2
    <3> QED BY <1>1, <3>1
   <2> QED BY <2>1, <2>2
  <1>5. Cardinality(MinBars..MinBars + c - 1) = c
   <2>1. MinBars \in Int /\ MinBars + c - 1 \in Int /\ MinBars <= (MinBars + c - 1) + 1 BY <1>2
   <2>2. Cardinality(MinBars..MinBars + c - 1) = (MinBars + c - 1) - MinBars + 1
     BY <2>1, CountBetween
   <2> QED BY <1>2, <2>2
  <1>6. dqCurve = [k \in 1..c |-> dqCurve[k]] BY <1>1 DEF c
  <1> QED BY <1>1, <1>4, <1>5, <1>6

(* The bars a strategy has seen last are the newest ones up to the time it is evaluated *)
(* at, and none later. *)
LEMMA ShownIsPast ==
    ASSUME dqFrame \in Seq(Rows), Ordered(dqFrame), Visited, dqShown # <<>>
    PROVE  LET now == dqCurve[Len(dqCurve)] IN
           /\ dqShown[MinBars].ts = now
           /\ \A r \in {dqFrame[i] : i \in 1..Len(dqFrame)} :
                (\E k \in 1..MinBars : dqShown[k] = r)
                <=> (r.ts <= now /\ Cardinality({q \in {dqFrame[i] : i \in 1..Len(dqFrame)} :
                                                   q.ts > r.ts /\ q.ts <= now}) < MinBars)
  <1> DEFINE f == dqFrame
             n == Len(f)
             c == Len(dqCurve)
             i == MinBars + c - 1
             now == dqCurve[c]
  <1>1. /\ dqCurve \in Seq(Int) /\ dqCurve # <<>> /\ dqShown = SubSeq(f, c, i)
        /\ \A k \in 1..c : MinBars + k - 1 \in GoodAt(f) /\ dqCurve[k] = f[MinBars + k - 1].ts
    BY DEF Visited
  <1>2. MinBars \in Nat \ {0} /\ n \in Nat /\ c \in Nat \ {0} /\ i \in Nat
    BY <1>1, QualityAssumption
  <1>3. c \in 1..c /\ i \in GoodAt(f) /\ now = f[i].ts BY <1>1, <1>2
  <1>4. (\A k \in 1..n : f[k].ts \in Int) /\ \A k, l \in 1..n : k < l => f[k].ts <= f[l].ts
    BY TimesKnown DEF Ordered
  <1>5. i \in MinBars..n
   <2>1. i \in MinBars..i BY <1>2
   <2> QED BY <1>2, <1>3, <2>1, GoodBefore
  <1>6. i - MinBars + 1 = c /\ i - MinBars = c - 1 /\ i \in 1..n BY <1>2, <1>5
  <1>7. \A k \in 1..MinBars : dqShown[k] = f[(c - 1) + k]
    BY <1>1, <1>5, <1>6, LastOfPrefix, SMTT(60)
  <1>8. ASSUME NEW k \in 1..i PROVE \A j \in 1..n : j # k => f[j].ts # f[k].ts
   <2>1. k \in 1..n /\ ~(i < k) /\ \A b \in BadAt(f) : i < b BY <1>2, <1>3, <1>5 DEF GoodAt
   <2>2. k \notin BadAt(f) BY <2>1
   <2> QED BY <2>1, <2>2 DEF BadAt
  <1>9. \A j \in 1..n : f[j].ts <= now <=> j <= i
   <2> TAKE j \in 1..n
   <2>1. j <= i => f[j].ts <= f[i].ts BY <1>2, <1>4, <1>6
   <2>2. j > i => f[i].ts <= f[j].ts /\ f[j].ts # f[i].ts
    <3>1. i \in 1..i /\ (j > i => j # i /\ i < j) BY <1>2, <1>6
    <3> QED BY <1>4, <1>6, <1>8, <3>1
   <2>3. f[j].ts \in Int /\ f[i].ts \in Int BY <1>4, <1>6
   <2> QED BY <1>2, <1>3, <2>1, <2>2, <2>3
  <1>10. ASSUME NEW j \in 1..i
         PROVE  \A k \in 1..n : f[j].ts < f[k].ts <=> j < k
   <2> TAKE k \in 1..n
   <2>1. j \in 1..n BY <1>2, <1>6
   <2>2. (j < k => f[j].ts <= f[k].ts) /\ (k < j => f[k].ts <= f[j].ts) /\ (k # j => f[k].ts # f[j].ts)
     BY <1>4, <1>8, <2>1
   <2>3. f[j].ts \in Int /\ f[k].ts \in Int BY <1>4, <2>1
   <2> QED BY <1>2, <2>2, <2>3
  <1> DEFINE All == {f[k] : k \in 1..n}
             Between(r) == {q \in All : q.ts > r.ts /\ q.ts <= now}
  <1> HIDE DEF i, now, c, n
  <1>11. ASSUME NEW j \in 1..i PROVE Cardinality(Between(f[j])) = i - j
   <2> DEFINE h == [k \in j + 1..i |-> f[k]]
   <2>1. \A k \in j + 1..i : k \in 1..n /\ k \in 1..i /\ j < k /\ k <= i BY <1>2, <1>6
   <2>2. ASSUME NEW k \in j + 1..i PROVE f[k] \in Between(f[j])
    <3>1. f[k].ts > f[j].ts /\ f[k].ts <= now
     <4>1. f[j].ts < f[k].ts /\ f[k].ts <= now BY <1>9, <1>10, <2>1
     <4>2. f[j].ts \in Int /\ f[k].ts \in Int BY <1>2, <1>4, <1>6, <2>1
     <4> QED BY <4>1, <4>2
    <3> QED BY <2>1, <3>1
   <2>3. ASSUME NEW q \in Between(f[j]) PROVE \E k \in j + 1..i : h[k] = q
    <3>1. PICK k \in 1..n : q = f[k]
      OBVIOUS
    <3>2. f[k].ts > f[j].ts /\ f[k].ts <= now BY <3>1
    <3>3. f[j].ts < f[k].ts
     <4>1. f[j].ts \in Int /\ f[k].ts \in Int BY <1>2, <1>4, <1>6
     <4> QED BY <3>2, <4>1
    <3>4. j < k /\ k <= i BY <1>9, <1>10, <3>2, <3>3
    <3>5. k \in j + 1..i BY <1>2, <3>4
    <3> QED BY <3>1, <3>5
   <2>4. ASSUME NEW k \in j + 1..i, NEW l \in j + 1..i, h[k] = h[l] PROVE k = l BY <1>8, <2>1, <2>4
   <2>5. IsFiniteSet(j + 1..i) /\ Cardinality(j + 1..i) = i - j
    <3>1. j + 1 \in Int /\ i \in Int /\ j + 1 <= i + 1 BY <1>2
    <3>2. IsFiniteSet(j + 1..i) /\ Cardinality(j + 1..i) = i - (j + 1) + 1 BY <3>1, CountBetween
    <3> QED BY <1>2, <3>2
   <2> DEFINE B == Between(f[j])
   <2>6. h \in [j + 1..i -> B] BY <2>2
   <2>7. (\A q \in B : \E k \in j + 1..i : h[k] = q) /\ \A k, l \in j + 1..i : h[k] = h[l] => k = l
     BY <2>3, <2>4
   <2> HIDE DEF h, B, Between
   <2>8. h \in Bijection(j + 1..i, B)
     BY <2>6, <2>7 DEF Bijection, Injection, Surjection, IsInjective
   <2>9. ExistsBijection(j + 1..i, B) BY <2>8 DEF ExistsBijection
   <2>10. Cardinality(B) = Cardinality(j + 1..i) BY <2>5, <2>9, FS_Bijection
   <2> QED BY <2>5, <2>10 DEF B
  <1>12. dqShown[MinBars].ts = now
   <2>1. (c - 1) + MinBars = i /\ MinBars \in 1..MinBars BY <1>2, <1>6
   <2> QED BY <1>3, <1>7, <2>1
  <1>13. ASSUME NEW j \in 1..n
         PROVE  (\E k \in 1..MinBars : dqShown[k] = f[j])
                <=> (f[j].ts <= now /\ Cardinality(Between(f[j])) < MinBars)
   <2> HIDE DEF Between
   <2>1. ASSUME NEW k \in 1..MinBars, dqShown[k] = f[j]
         PROVE  f[j].ts <= now /\ Cardinality(Between(f[j])) < MinBars
    <3>1. (c - 1) + k \in 1..i BY <1>2, <1>6
    <3>2. f[(c - 1) + k].ts = f[j].ts BY <1>7, <2>1
    <3>3. j = (c - 1) + k BY <1>8, <3>1, <3>2
    <3>4. j \in 1..i /\ i - j < MinBars /\ j <= i BY <1>2, <1>6, <3>1, <3>3
    <3> QED BY <1>9, <1>11, <3>4
   <2>2. ASSUME f[j].ts <= now, Cardinality(Between(f[j])) < MinBars
         PROVE  \E k \in 1..MinBars : dqShown[k] = f[j]
    <3>1. j <= i /\ j \in 1..i BY <1>2, <1>9, <2>2
    <3>2. i - j < MinBars BY <1>11, <2>2, <3>1
    <3>3. j - (c - 1) \in 1..MinBars /\ (c - 1) + (j - (c - 1)) = j BY <1>2, <1>6, <3>1, <3>2
    <3> QED BY <1>7, <3>3
   <2> QED BY <2>1, <2>2
  <1>14. \A r \in All : (\E k \in 1..MinBars : dqShown[k] = r)
                        <=> (r.ts <= now /\ Cardinality(Between(r)) < MinBars)
   <2> TAKE r \in All
   <2>1. PICK j \in 1..n : r = f[j]
     OBVIOUS
   <2> HIDE DEF Between
   <2> QED BY <1>13, <2>1
  <1> QED BY <1>12, <1>14 DEF now, c, n

\* What holds of the frame and of what was made of it, phase by phase.
QualityInv ==
    /\ dqFrame \in Seq(Rows) /\ Ordered(dqFrame)
    /\ dqPhase = "new" => dqRow = 0 /\ dqCurve = <<>> /\ dqShown = <<>>
    /\ dqPhase = "validated" => Validated
    /\ dqPhase = "repaired" => Repaired
    /\ dqPhase \in {"rows", "done"} => Visited
    /\ dqPhase = "done" => dqRow = Len(dqFrame)

(* It holds when nothing was done with the frame yet. *)
LEMMA QualityStarts == QualityInit => QualityInv
  <1> SUFFICES ASSUME QualityInit PROVE QualityInv
    OBVIOUS
  <1>1. dqFrame \in BoundedSeq(Rows, MaxRows) /\ Ordered(dqFrame) BY DEF QualityInit, Frames
  <1>2. PICK m \in 0..MaxRows : dqFrame \in [1..m -> Rows]
    BY <1>1 DEF BoundedSeq, SeqOf
  <1>3. dqFrame \in Seq(Rows) BY <1>2, QualityAssumption
  <1> QED BY <1>1, <1>3 DEF QualityInit, QualityInv

(* Every step keeps it. *)
LEMMA QualitySteps == QualityInv /\ [QualityNext]_dqVars => QualityInv'
  <1> SUFFICES ASSUME QualityInv, [QualityNext]_dqVars PROVE QualityInv'
    OBVIOUS
  <1>1. dqFrame \in Seq(Rows) /\ Ordered(dqFrame) /\ Len(dqFrame) \in Nat BY DEF QualityInv
  <1>2. CASE UNCHANGED dqVars BY <1>2 DEF QualityInv, Validated, Repaired, Visited, dqVars
  <1>3. CASE BuildForLive BY <1>1, <1>3 DEF BuildForLive, QualityInv, Validated
  <1>4. CASE ValidateFrame BY <1>1, <1>4 DEF ValidateFrame, QualityInv, Validated
  <1>5. ASSUME NEW s \in BoundedSeq(Revenues, 3), ValidateFundamentals(s) PROVE QualityInv'
   <2>1. PICK m \in 0..3 : s \in [1..m -> Revenues]
     BY DEF BoundedSeq, SeqOf
   <2>2. s \in Seq(Int)
    <3>1. m \in Nat /\ Revenues \subseteq Int BY QualityAssumption
    <3>2. s \in [1..m -> Int] BY <2>1, <3>1
    <3> QED BY <3>1, <3>2
   <2>3. /\ dqFrame' = dqFrame /\ dqPhase' = "repaired" /\ dqCleaned' = <<s, CheckRevenue(s)>>
     BY <1>5 DEF ValidateFundamentals
   <2>4. Repaired' BY <2>2, <2>3 DEF Repaired
   <2> QED BY <1>1, <2>3, <2>4 DEF QualityInv
  <1>6. CASE StartBacktest
   <2>1. /\ dqRow = 0 /\ dqCurve = <<>> /\ dqShown = <<>>
         /\ dqFrame' = dqFrame /\ dqRow' = 0 /\ dqCurve' = <<>> /\ dqShown' = <<>> /\ dqPhase' = "rows"
     BY <1>6 DEF StartBacktest, QualityInv
   <2>2. \A i \in GoodAt(dqFrame) : i \in Int /\ 1 <= i BY <1>1, QualityAssumption DEF GoodAt
   <2>3. 0 \in 0..Len(dqFrame) /\ <<>> \in Seq(Int) /\ Len(<<>>) = 0 /\ \A i \in GoodAt(dqFrame) : ~(i <= 0)
     BY <1>1, <2>2
   <2>4. Visited' BY <2>1, <2>3 DEF Visited
   <2> QED BY <1>1, <2>1, <2>4 DEF QualityInv
  <1>7. CASE BacktestRow
   <2>1. dqPhase = "rows" /\ dqPhase' = "rows" /\ dqFrame' = dqFrame BY <1>7 DEF BacktestRow
   <2>2. Visited BY <2>1 DEF QualityInv
   <2>3. Visited' BY <1>1, <1>7, <2>2, RowVisited
   <2> QED BY <1>1, <2>1, <2>3 DEF QualityInv
  <1>8. CASE BacktestEnds
   <2>1. /\ dqPhase = "rows" /\ dqRow = Len(dqFrame) /\ dqPhase' = "done"
         /\ UNCHANGED <<dqFrame, dqShown, dqRow, dqCurve>>
     BY <1>8 DEF BacktestEnds
   <2>2. Visited BY <2>1 DEF QualityInv
   <2>3. Visited' BY <2>1, <2>2 DEF Visited
   <2> QED BY <1>1, <2>1, <2>3 DEF QualityInv
  <1> QED BY <1>2, <1>3, <1>4, <1>5, <1>6, <1>7, <1>8 DEF QualityNext

(* What the five properties ask of the bars and revenues follows from it. *)
LEMMA QualityHolds ==
    ASSUME QualityInv
    PROVE  CleanedIsExplained /\ StaleRunsReported /\ RevenueRepaired /\ NoLookAhead /\ CurveIsPrefix
  <1>1. dqFrame \in Seq(Rows) /\ Ordered(dqFrame) BY DEF QualityInv
  <1>2. CleanedIsExplained
   <2>1. CASE dqPhase = "validated" BY <1>1, <2>1, CleaningExplains DEF QualityInv
   <2>2. CASE dqPhase # "validated" BY <2>2 DEF CleanedIsExplained
   <2> QED BY <2>1, <2>2
  <1>3. StaleRunsReported
   <2>1. CASE dqPhase = "validated" BY <1>1, <2>1, StaleRunsCounted DEF QualityInv
   <2>2. CASE dqPhase # "validated" BY <2>2 DEF StaleRunsReported
   <2> QED BY <2>1, <2>2
  <1>4. RevenueRepaired
   <2>1. CASE dqPhase = "repaired" BY <1>1, <2>1, RevenuesRepaired DEF QualityInv
   <2>2. CASE dqPhase # "repaired" BY <2>2 DEF RevenueRepaired
   <2> QED BY <2>1, <2>2
  <1>5. NoLookAhead
   <2> SUFFICES ASSUME dqPhase = "rows", dqShown # <<>> PROVE NoLookAhead
     BY DEF NoLookAhead
   <2>1. Visited BY DEF QualityInv
   <2> QED BY <1>1, <2>1, ShownIsPast DEF NoLookAhead
  <1>6. CurveIsPrefix
   <2> SUFFICES ASSUME dqPhase = "done" PROVE CurveIsPrefix
     BY DEF CurveIsPrefix
   <2>1. Visited /\ dqRow = Len(dqFrame) BY DEF QualityInv
   <2>2. dqCurve = [k \in 1..Cardinality(GoodAt(dqFrame)) |-> dqFrame[MinBars + k - 1].ts]
     BY <1>1, <2>1, CurveComplete
   <2> QED BY <2>2 DEF CurveIsPrefix, GoodAt, BadAt
  <1> QED BY <1>2, <1>3, <1>4, <1>5, <1>6

----------------------------------------
(* Capital to the cent. *)

(* In an order the first k are k. *)
LEMMA FirstOnes ==
    ASSUME NEW S, IsFiniteSet(S), NEW P \in [S -> SUBSET S], NEW k \in 0..Cardinality(S),
           \A s \in S : s \notin P[s],
           \A s, t \in S : t \in P[s] => P[t] \subseteq P[s],
           \A s, t \in S : s # t => s \in P[t] \/ t \in P[s]
    PROVE  Cardinality({s \in S : Cardinality(P[s]) < k}) = k
  <1> DEFINE n == Cardinality(S)
             rank == [s \in S |-> Cardinality(P[s])]
             A == {s \in S : Cardinality(P[s]) < k}
             first == [s \in A |-> rank[s]]
  <1>1. n \in Nat BY FS_CardinalityType
  <1>2. ASSUME NEW s \in S
        PROVE  rank[s] \in 0..(n - 1) /\ IsFiniteSet(P[s]) /\ rank[s] = Cardinality(P[s])
   <2>1. P[s] \in SUBSET S /\ P[s] # S OBVIOUS
   <2>2. IsFiniteSet(P[s]) /\ Cardinality(P[s]) <= n /\ Cardinality(P[s]) # n BY <2>1, FS_Subset
   <2>3. Cardinality(P[s]) \in Nat BY <2>2, FS_CardinalityType
   <2> HIDE DEF n
   <2> QED BY <1>1, <2>2, <2>3
  <1>3. ASSUME NEW s \in S, NEW t \in S, t \in P[s]
        PROVE  rank[t] < rank[s]
   <2>0. P[t] \subseteq P[s] /\ t \notin P[t] BY <1>3
   <2>1. P[t] \in SUBSET P[s] /\ P[t] # P[s] BY <1>3, <2>0
   <2>2. Cardinality(P[t]) <= Cardinality(P[s]) /\ Cardinality(P[t]) # Cardinality(P[s])
     BY <1>2, <2>1, FS_Subset
   <2>3. rank[t] \in Int /\ rank[s] \in Int BY <1>2
   <2> HIDE DEF rank
   <2> QED BY <1>2, <2>2, <2>3
  <1>4. \A s, t \in S : s # t => rank[s] # rank[t]
   <2> TAKE s, t \in S
   <2> HAVE s # t
   <2>1. s \in P[t] \/ t \in P[s] OBVIOUS
   <2>2. rank[t] \in Int /\ rank[s] \in Int BY <1>2
   <2> HIDE DEF rank
   <2> QED BY <1>3, <2>1, <2>2
  <1>5. rank = [s \in S |-> rank[s]] /\ first = [s \in A |-> rank[s]] OBVIOUS
  <1>6. A \subseteq S /\ \A s \in S : s \in A <=> rank[s] < k OBVIOUS
  <1> HIDE DEF rank, A, n, first
  <1>7. rank \in Injection(S, 0..(n - 1))
   <2>1. rank \in [S -> 0..(n - 1)] BY <1>2, <1>5
   <2> QED BY <1>4, <2>1 DEF Injection, IsInjective
  <1>8. IsFiniteSet(0..(n - 1)) /\ Cardinality(0..(n - 1)) = n BY <1>1, FS_Interval
  <1>9. rank \in Surjection(S, 0..(n - 1)) BY <1>7, <1>8, FS_Injection DEF n
  <1>10. k \in Nat /\ k <= n BY <1>1 DEF n
  <1>11. first \in [A -> 0..(k - 1)]
   <2>1. \A s \in A : rank[s] \in 0..(k - 1) BY <1>1, <1>2, <1>6, <1>10
   <2> QED BY <1>5, <2>1
  <1>12. first \in Injection(A, 0..(k - 1))
   <2>1. \A s, t \in A : s # t => first[s] # first[t] BY <1>4, <1>5, <1>6
   <2> QED BY <1>11, <2>1 DEF Injection, IsInjective
  <1>13. first \in Surjection(A, 0..(k - 1))
   <2>1. ASSUME NEW i \in 0..(k - 1)
         PROVE  \E s \in A : first[s] = i
    <3>1. i \in 0..(n - 1) /\ i < k BY <1>1, <1>10
    <3>2. PICK s \in S : rank[s] = i
      BY <1>9, <3>1 DEF Surjection
    <3>3. s \in A BY <1>6, <3>1, <3>2
    <3> QED BY <1>5, <3>2, <3>3
   <2> QED BY <1>11, <2>1 DEF Surjection
  <1>14. IsFiniteSet(0..(k - 1)) /\ Cardinality(0..(k - 1)) = k BY <1>10, FS_Interval
  <1>15. Cardinality(A) = k BY <1>12, <1>13, <1>14, FS_Injection
  <1> QED BY <1>15 DEF A

(* A sum of ones counts. *)
LEMMA SumOnes ==
    ASSUME NEW f, NEW S, IsFiniteSet(S), NEW A \in SUBSET S,
           \A x \in S : f[x] = IF x \in A THEN 1 ELSE 0
    PROVE  SumOn(f, S) = Cardinality(A)
  <1> DEFINE Bad == {s \in SUBSET S : SumOn(f, s) # Cardinality(A \cap s)}
  <1> SUFFICES ASSUME Bad # {} PROVE FALSE
   <2>1. S \notin Bad => SumOn(f, S) = Cardinality(A \cap S) OBVIOUS
   <2>2. A \cap S = A OBVIOUS
   <2> QED BY <2>1, <2>2
  <1>1. PICK X \in Bad : \A Y \in SUBSET X : Y # X => Y \notin Bad
   <2>1. Bad \subseteq SUBSET S OBVIOUS
   <2> HIDE DEF Bad
   <2> QED BY <2>1, Smallest
  <1>2. X \in SUBSET S /\ SumOn(f, X) # Cardinality(A \cap X) /\ IsFiniteSet(X) BY <1>1, FS_Subset
  <1>3. X # {}
   <2>1. SumOn(f, {}) = 0 /\ Cardinality(A \cap {}) = 0
    <3>1. A \cap {} = {} OBVIOUS
    <3> QED BY <3>1, SumEmpty, FS_EmptySet
   <2> QED BY <1>2, <2>1
  <1>4. PICK x \in X : TRUE
    BY <1>3
  <1> DEFINE Y == X \ {x}
  <1>5. Y \in SUBSET X /\ Y # X /\ Y \in SUBSET S BY <1>2
  <1>6. SumOn(f, Y) = Cardinality(A \cap Y) BY <1>1, <1>5
  <1>7. \A y \in X : f[y] \in Int BY <1>2
  <1>8. SumOn(f, X) = f[x] + SumOn(f, Y) BY <1>2, <1>7, SumSplit
  <1>9. IsFiniteSet(A \cap Y) /\ IsFiniteSet(A \cap X) BY <1>2, <1>5, FS_Subset
  <1>10. Cardinality(A \cap Y) \in Nat BY <1>9, FS_CardinalityType
  <1>11. CASE x \in A
   <2>1. A \cap X = (A \cap Y) \cup {x} /\ x \notin A \cap Y BY <1>11
   <2>2. Cardinality(A \cap X) = Cardinality(A \cap Y) + 1 BY <1>9, <2>1, FS_AddElement
   <2>3. f[x] = 1 BY <1>2, <1>11
   <2> HIDE DEF Y
   <2> QED BY <1>2, <1>6, <1>8, <1>10, <2>2, <2>3
  <1>12. CASE x \notin A
   <2>1. A \cap X = A \cap Y BY <1>12
   <2>2. f[x] = 0 /\ Cardinality(A \cap X) = Cardinality(A \cap Y) BY <1>2, <1>12, <2>1
   <2> HIDE DEF Y
   <2> QED BY <1>2, <1>6, <1>8, <1>10, <2>1, <2>2
  <1> QED BY <1>11, <1>12

(* A floor and its rest. *)
LEMMA FloorAndRest ==
    ASSUME NEW m \in Int, NEW d \in Nat, d > 0
    PROVE  /\ m \div d \in Int /\ m % d \in Nat /\ m % d < d
           /\ m = d * (m \div d) + (m % d)
           /\ m >= 0 => m \div d \in Nat
  OBVIOUS

(* The total is a sum. *)
LEMMA FundsTotal ==
    ASSUME NEW f \in [Funds -> Int]
    PROVE  /\ Total(f) = SumOn(f, Funds) /\ Total(f) \in Int /\ IsFiniteSet(Funds)
           /\ (\A s \in Funds : f[s] \in Nat) => Total(f) \in Nat
  <1>1. DOMAIN f = Funds OBVIOUS
  <1>2. Total(f) = SumOn(f, Funds) BY <1>1 DEF Total, SumOn
  <1>3. IsFiniteSet(Funds) BY FundsAssumption
  <1>4. SumOn(f, Funds) \in Int BY <1>3, SumType
  <1>5. (\A s \in Funds : f[s] \in Nat) => SumOn(f, Funds) \in Nat BY <1>3, SumNat
  <1> QED BY <1>2, <1>3, <1>4, <1>5

\* The exact share of a strategy in whole cents, and what is left of it.
Quota(cents, w, s) == (cents * w[s]) \div Total(w)
Remainder(cents, w, s) == (cents * w[s]) % Total(w)

(* A share and what is left of it make up the exact share. *)
LEMMA QuotaIs ==
    ASSUME NEW cents \in Nat, NEW w \in [Funds -> Nat], Total(w) > 0, NEW s \in Funds
    PROVE  /\ Quota(cents, w, s) \in Nat /\ Remainder(cents, w, s) \in Nat
           /\ Remainder(cents, w, s) < Total(w)
           /\ cents * w[s] = Total(w) * Quota(cents, w, s) + Remainder(cents, w, s)
           /\ Total(w) \in Nat /\ cents * w[s] \in Nat
  <1> DEFINE m == cents * w[s]
             d == Total(w)
  <1>1. w \in [Funds -> Int] /\ \A o \in Funds : w[o] \in Nat OBVIOUS
  <1>2. d \in Nat /\ d > 0 BY <1>1, FundsTotal
  <1>3. m \in Nat BY <1>1
  <1>4. Quota(cents, w, s) = m \div d /\ Remainder(cents, w, s) = m % d BY DEF Quota, Remainder
  <1>5. m = cents * w[s] OBVIOUS
  <1> HIDE DEF m, d
  <1>6. /\ m \div d \in Int /\ m % d \in Nat /\ m % d < d
        /\ m = d * (m \div d) + (m % d)
        /\ m \div d \in Nat
    BY <1>2, <1>3, FloorAndRest
  <1> QED BY <1>2, <1>3, <1>4, <1>5, <1>6 DEF d

\* Who comes before a strategy when the cents that are left are given away.
TakesFirst(cents, w, s) ==
    {o \in Funds : \/ Remainder(cents, w, o) > Remainder(cents, w, s)
                   \/ Remainder(cents, w, o) = Remainder(cents, w, s) /\ o < s}
LeftOver(cents, w) == cents - Total([s \in Funds |-> Quota(cents, w, s)])

(* The cents that are left are fewer than the strategies with a remainder, or none. *)
LEMMA LeftOverFits ==
    ASSUME NEW cents \in Nat, NEW w \in [Funds -> Nat], Total(w) > 0
    PROVE  /\ LeftOver(cents, w) \in Nat
           /\ LeftOver(cents, w) <= Cardinality({s \in Funds : Remainder(cents, w, s) # 0})
           /\ LeftOver(cents, w) <= Cardinality(Funds)
           /\ Total([s \in Funds |-> Quota(cents, w, s)]) = cents - LeftOver(cents, w)
  <1> DEFINE q == [s \in Funds |-> Quota(cents, w, s)]
             r == [s \in Funds |-> Remainder(cents, w, s)]
             x == [s \in Funds |-> cents * w[s]]
             y == [s \in Funds |-> Total(w) * q[s]]
             A == {s \in Funds : Remainder(cents, w, s) # 0}
             one == [s \in Funds |-> IF s \in A THEN 1 ELSE 0]
             most == [s \in Funds |-> (Total(w) - 1) * one[s]]
             W == Total(w)
  <1>1. w \in [Funds -> Int] /\ \A s \in Funds : w[s] \in Nat OBVIOUS
  <1>2. IsFiniteSet(Funds) /\ W \in Nat /\ W > 0 /\ W = SumOn(w, Funds) BY <1>1, FundsTotal
  <1>3. ASSUME NEW s \in Funds
        PROVE  /\ q[s] \in Nat /\ r[s] \in Nat /\ r[s] < W /\ x[s] \in Nat
               /\ x[s] = cents * w[s] /\ y[s] = W * q[s] /\ x[s] = y[s] + r[s]
               /\ (r[s] # 0 <=> s \in A) /\ most[s] = (W - 1) * one[s]
               /\ one[s] = IF s \in A THEN 1 ELSE 0
    BY QuotaIs
  <1>4. q \in [Funds -> Int] BY <1>3
  <1>5. A \in SUBSET Funds OBVIOUS
  <1>6. LeftOver(cents, w) = cents - Total(q) BY DEF LeftOver
  <1> HIDE DEF q, r, x, y, A, one, most, W
  <1>7. Total(q) = SumOn(q, Funds) /\ Total(q) \in Int BY <1>4, FundsTotal
  <1>8. \A s \in Funds : /\ y[s] \in Int /\ r[s] \in Int /\ q[s] \in Int /\ x[s] \in Int /\ one[s] \in Int
                         /\ most[s] \in Int /\ w[s] \in Int
   <2> TAKE s \in Funds
   <2>1. q[s] \in Int /\ r[s] \in Int /\ x[s] \in Int /\ one[s] \in Int /\ w[s] \in Int BY <1>3
   <2>2. W * q[s] \in Int /\ (W - 1) * one[s] \in Int BY <1>2, <2>1
   <2> QED BY <1>3, <2>1, <2>2
  <1>9. SumOn(x, Funds) = cents * W
   <2>1. SumOn(x, Funds) = cents * SumOn(w, Funds) BY <1>2, <1>3, <1>8, SumScale
   <2> QED BY <1>2, <2>1
  <1>10. SumOn(y, Funds) = W * Total(q)
   <2>1. SumOn(y, Funds) = W * SumOn(q, Funds) BY <1>2, <1>3, <1>8, SumScale
   <2> QED BY <1>7, <2>1
  <1>11. SumOn(x, Funds) = SumOn(y, Funds) + SumOn(r, Funds) BY <1>2, <1>3, <1>8, SumPlus
  <1>12. SumOn(r, Funds) \in Nat BY <1>2, <1>3, SumNat
  <1> DEFINE left == cents - Total(q)
             all == SumOn(r, Funds)
  <1>13. W * left = all /\ left \in Int /\ all \in Nat
   <2>1. W * left = W * cents - W * Total(q) BY <1>2, <1>7
   <2>2. W * cents = W * Total(q) + all BY <1>2, <1>7, <1>9, <1>10, <1>11, <1>12
   <2>3. W * cents \in Int /\ W * Total(q) \in Int BY <1>2, <1>7
   <2>4. left \in Int /\ all \in Nat BY <1>7, <1>12
   <2> HIDE DEF all
   <2> QED BY <2>1, <2>2, <2>3, <2>4
  <1>14. all <= SumOn(most, Funds)
   <2>1. ASSUME NEW s \in Funds PROVE r[s] \in Int /\ most[s] \in Int /\ r[s] <= most[s]
    <3>1. CASE s \in A
     <4>1. most[s] = W - 1 /\ r[s] < W /\ r[s] \in Nat BY <1>2, <1>3, <3>1
     <4> QED BY <1>2, <4>1
    <3>2. CASE s \notin A
     <4>1. most[s] = 0 /\ r[s] = 0 BY <1>2, <1>3, <3>2
     <4> QED BY <4>1
    <3> QED BY <3>1, <3>2
   <2> QED BY <1>2, <2>1, SumMore
  <1> DEFINE k == Cardinality(A)
  <1>15. SumOn(one, Funds) = k BY <1>2, <1>3, <1>5, SumOnes
  <1>16. k \in Nat /\ k <= Cardinality(Funds) /\ Cardinality(Funds) \in Nat
   <2>1. IsFiniteSet(A) /\ k <= Cardinality(Funds) BY <1>2, <1>5, FS_Subset
   <2> QED BY <1>2, <2>1, FS_CardinalityType
  <1>17. SumOn(most, Funds) = (W - 1) * k
   <2>1. W - 1 \in Int BY <1>2
   <2> DEFINE v == W - 1
   <2>2. v \in Int /\ \A s \in Funds : one[s] \in Int /\ most[s] = v * one[s] BY <1>3, <1>8, <2>1
   <2> HIDE DEF v
   <2>3. SumOn(most, Funds) = v * SumOn(one, Funds) BY <1>2, <2>2, SumScale
   <2> QED BY <1>15, <2>3 DEF v
  <1> HIDE DEF left, all, k
  <1>18. left >= 0
   <2> SUFFICES ASSUME left < 0 PROVE FALSE
     BY <1>13
   <2> DEFINE d == -left
   <2>1. d \in Nat /\ d >= 1 /\ left = -d BY <1>13
   <2> HIDE DEF d
   <2>2. W * left = -(W * d) /\ W * d > 0 BY <1>2, <2>1
   <2>3. W * d \in Nat BY <1>2, <2>1
   <2> QED BY <1>13, <2>2, <2>3
  <1>19. left <= k
   <2> SUFFICES ASSUME left > k PROVE FALSE
     BY <1>13, <1>16
   <2> DEFINE d == left - k
   <2>1. d \in Nat /\ d >= 1 /\ left = k + d BY <1>13, <1>16
   <2> HIDE DEF d
   <2>2. W * left = W * k + W * d /\ W * d > 0 /\ W * k \in Nat /\ W * d \in Nat
     BY <1>2, <1>16, <2>1
   <2>3. (W - 1) * k = W * k - k BY <1>2, <1>16
   <2>4. all <= W * k - k BY <1>14, <1>17, <2>3
   <2> QED BY <1>13, <1>16, <2>2, <2>4
  <1> QED BY <1>6, <1>7, <1>13, <1>16, <1>18, <1>19 DEF left, k, A, q

\* Who gets one of the cents that are left.
Chosen(cents, w) == Winners(cents, w, LeftOver(cents, w))

(* As many strategies get a cent as there are cents left, each with a remainder. *)
LEMMA ChosenFit ==
    ASSUME NEW cents \in Nat, NEW w \in [Funds -> Nat], Total(w) > 0
    PROVE  /\ Chosen(cents, w) \in SUBSET Funds
           /\ Cardinality(Chosen(cents, w)) = LeftOver(cents, w)
           /\ \A s \in Funds : s \in Chosen(cents, w) <=> Cardinality(TakesFirst(cents, w, s)) < LeftOver(cents, w)
           /\ \A s \in Chosen(cents, w) : Remainder(cents, w, s) # 0
  <1> DEFINE P == [s \in Funds |-> TakesFirst(cents, w, s)]
             k == LeftOver(cents, w)
             r == [s \in Funds |-> Remainder(cents, w, s)]
             n == Cardinality(Funds)
             A == {s \in Funds : Remainder(cents, w, s) # 0}
  <1>1. \A s \in Funds : r[s] \in Nat /\ s \in Nat BY QuotaIs, FundsAssumption
  <1>2. \A s, o \in Funds : o \in P[s] <=> (r[o] > r[s] \/ (r[o] = r[s] /\ o < s)) BY DEF TakesFirst
  <1>3. P \in [Funds -> SUBSET Funds] /\ \A s \in Funds : P[s] = TakesFirst(cents, w, s) /\ P[s] \subseteq Funds
    BY DEF TakesFirst
  <1>4. DOMAIN w = Funds OBVIOUS
  <1>5. Chosen(cents, w) = {s \in Funds : Cardinality(P[s]) < k}
    BY <1>4 DEF Chosen, Winners, TakesFirst, Remainder
  <1>6. IsFiniteSet(Funds) /\ n \in Nat BY FundsAssumption, FS_CardinalityType
  <1>7. k \in Nat /\ k <= Cardinality(A) /\ k <= n BY LeftOverFits
  <1>8. \A s \in Funds : s \in A <=> r[s] # 0 OBVIOUS
  <1>9. A \subseteq Funds OBVIOUS
  <1> HIDE DEF P, k, r, n, A
  <1>10. \A s \in Funds : s \notin P[s] BY <1>1, <1>2
  <1>11. \A s, t \in Funds : t \in P[s] => P[t] \subseteq P[s] BY <1>1, <1>2, <1>3
  <1>12. \A s, t \in Funds : s # t => s \in P[t] \/ t \in P[s] BY <1>1, <1>2
  <1>13. k \in 0..n BY <1>6, <1>7
  <1>14. Cardinality({s \in Funds : Cardinality(P[s]) < k}) = k
    BY <1>3, <1>6, <1>10, <1>11, <1>12, <1>13, FirstOnes DEF n
  <1>15. ASSUME NEW s \in Chosen(cents, w) PROVE r[s] # 0
   <2> SUFFICES ASSUME r[s] = 0 PROVE FALSE
     OBVIOUS
   <2>1. s \in Funds /\ Cardinality(P[s]) < k BY <1>5
   <2>2. A \in SUBSET P[s] BY <1>1, <1>2, <1>8, <1>9, <2>1
   <2>3. IsFiniteSet(P[s]) BY <1>3, <1>6, <2>1, FS_Subset
   <2>4. Cardinality(A) <= Cardinality(P[s]) /\ Cardinality(P[s]) \in Nat /\ Cardinality(A) \in Nat
     BY <2>2, <2>3, FS_Subset, FS_CardinalityType
   <2> QED BY <1>7, <2>1, <2>4
  <1> QED BY <1>3, <1>5, <1>14, <1>15 DEF r, k

(* The plan gives each strategy its share, and a cent more if it is chosen. *)
LEMMA PlanIs ==
    ASSUME NEW cents \in Nat, NEW w \in [Funds -> Nat], Total(w) > 0
    PROVE  /\ AllocateCapital(cents, w) \in [Funds -> Nat]
           /\ \A s \in Funds : AllocateCapital(cents, w)[s] =
                  Quota(cents, w, s) + (IF s \in Chosen(cents, w) THEN 1 ELSE 0)
  <1> DEFINE q == [s \in Funds |-> Quota(cents, w, s)]
  <1>1. DOMAIN w = Funds OBVIOUS
  <1>2. q = [s \in DOMAIN w |-> (cents * w[s]) \div Total(w)] BY <1>1 DEF Quota
  <1>3. LeftOver(cents, w) = cents - Total(q) BY DEF LeftOver
  <1>4. AllocateCapital(cents, w)
          = [s \in Funds |-> IF s \in Chosen(cents, w) THEN q[s] + 1 ELSE q[s]]
   <2> HIDE DEF q
   <2> QED BY <1>1, <1>2, <1>3 DEF AllocateCapital, Chosen
  <1>5. \A s \in Funds : q[s] = Quota(cents, w, s) /\ q[s] \in Nat BY QuotaIs
  <1> HIDE DEF q
  <1> QED BY <1>4, <1>5

(* Capital is apportioned to the cent. *)
LEMMA PlanAddsUp ==
    ASSUME NEW cents \in Nat, NEW w \in [Funds -> Nat], Total(w) > 0
    PROVE  Total(AllocateCapital(cents, w)) = cents
  <1> DEFINE q == [s \in Funds |-> Quota(cents, w, s)]
             C == Chosen(cents, w)
             one == [s \in Funds |-> IF s \in C THEN 1 ELSE 0]
             plan == AllocateCapital(cents, w)
             k == LeftOver(cents, w)
  <1>1. \A s \in Funds : q[s] \in Nat /\ q[s] = Quota(cents, w, s) BY QuotaIs
  <1>2. \A s \in Funds : one[s] = (IF s \in C THEN 1 ELSE 0) OBVIOUS
  <1>3. plan \in [Funds -> Nat] /\ \A s \in Funds : plan[s] = Quota(cents, w, s) + (IF s \in C THEN 1 ELSE 0)
    BY PlanIs
  <1>4. C \in SUBSET Funds /\ Cardinality(C) = k BY ChosenFit
  <1>5. Total(q) = cents - k /\ k \in Nat BY LeftOverFits
  <1>6. q \in [Funds -> Int] BY <1>1
  <1> HIDE DEF q, C, one, plan, k
  <1>7. plan \in [Funds -> Int] /\ IsFiniteSet(Funds) BY <1>3, FundsAssumption
  <1>8. Total(plan) = SumOn(plan, Funds) /\ Total(q) = SumOn(q, Funds) BY <1>6, <1>7, FundsTotal
  <1>9. SumOn(one, Funds) = k BY <1>2, <1>4, <1>7, SumOnes
  <1>10. \A s \in Funds : q[s] \in Int /\ one[s] \in Int /\ plan[s] = q[s] + one[s]
    BY <1>1, <1>2, <1>3
  <1>11. SumOn(plan, Funds) = SumOn(q, Funds) + SumOn(one, Funds) BY <1>7, <1>10, SumPlus
  <1> QED BY <1>5, <1>8, <1>9, <1>11 DEF plan

(* Nobody is a whole cent from the exact share. *)
LEMMA PlanIsNear ==
    ASSUME NEW cents \in Nat, NEW w \in [Funds -> Nat], Total(w) > 0, NEW s \in Funds
    PROVE  Abs(AllocateCapital(cents, w)[s] * Total(w) - cents * w[s]) < Total(w)
  <1> DEFINE q == Quota(cents, w, s)
             r == Remainder(cents, w, s)
             W == Total(w)
             p == AllocateCapital(cents, w)[s]
             m == cents * w[s]
  <1>1. q \in Nat /\ r \in Nat /\ r < W /\ m = W * q + r /\ W \in Nat /\ m \in Nat BY QuotaIs
  <1>2. p = q \/ (p = q + 1 /\ r # 0) BY <1>1, PlanIs, ChosenFit
  <1> HIDE DEF q, r, W, p, m
  <1>3. Abs(p * W - m) < W
   <2>1. CASE p = q
    <3>1. p * W = W * q /\ W * q \in Nat BY <1>1, <2>1
    <3>2. p * W - m = -r BY <1>1, <3>1
    <3> QED BY <1>1, <3>2 DEF Abs
   <2>2. CASE p = q + 1 /\ r # 0
    <3>1. p * W = W * q + W /\ W * q \in Nat BY <1>1, <2>2
    <3>2. p * W - m = W - r BY <1>1, <3>1
    <3> QED BY <1>1, <2>2, <3>2 DEF Abs
   <2> QED BY <1>2, <2>1, <2>2
  <1> QED BY <1>3 DEF p, W, m

(* Who has the larger weight has no less. *)
LEMMA PlanFollowsWeights ==
    ASSUME NEW cents \in Nat, NEW w \in [Funds -> Nat], Total(w) > 0,
           NEW s \in Funds, NEW o \in Funds, w[s] < w[o]
    PROVE  AllocateCapital(cents, w)[s] <= AllocateCapital(cents, w)[o]
  <1> DEFINE qs == Quota(cents, w, s)
             qo == Quota(cents, w, o)
             rs == Remainder(cents, w, s)
             ro == Remainder(cents, w, o)
             W == Total(w)
             ps == AllocateCapital(cents, w)[s]
             po == AllocateCapital(cents, w)[o]
             ms == cents * w[s]
             mo == cents * w[o]
             C == Chosen(cents, w)
  <1>1. /\ qs \in Nat /\ rs \in Nat /\ rs < W /\ ms = W * qs + rs /\ W \in Nat /\ ms \in Nat
        /\ qo \in Nat /\ ro \in Nat /\ ro < W /\ mo = W * qo + ro /\ mo \in Nat
    BY QuotaIs
  <1>2. ps = qs + (IF s \in C THEN 1 ELSE 0) /\ po = qo + (IF o \in C THEN 1 ELSE 0) BY PlanIs
  <1>3. ms <= mo /\ (cents # 0 => ms < mo)
   <2>1. w[s] \in Nat /\ w[o] \in Nat OBVIOUS
   <2> DEFINE d == w[o] - w[s]
              a == w[s]
   <2>2. d \in Nat /\ d >= 1 /\ w[o] = a + d /\ w[s] = a /\ a \in Nat BY <2>1
   <2> HIDE DEF d, a, ms, mo
   <2>3. cents * (a + d) = cents * a + cents * d /\ cents * d >= 0 /\ (cents # 0 => cents * d > 0)
         /\ cents * a \in Nat /\ cents * d \in Nat
     BY <2>2
   <2>4. ms = cents * a /\ mo = cents * (a + d) BY <2>2 DEF ms, mo
   <2> QED BY <2>3, <2>4
  <1>4. s \in C /\ ms < mo /\ qs = qo => o \in C
   <2> SUFFICES ASSUME s \in C, ms < mo, qs = qo PROVE o \in C
     OBVIOUS
   <2>1. rs < ro
    <3>1. W * qs = W * qo /\ W * qs \in Int BY <1>1
    <3> HIDE DEF qs, qo, rs, ro, W, ms, mo
    <3> QED BY <1>1, <3>1
   <2>2. TakesFirst(cents, w, o) \subseteq TakesFirst(cents, w, s)
    <3>1. ASSUME NEW x \in TakesFirst(cents, w, o) PROVE x \in TakesFirst(cents, w, s)
     <4>1. x \in Funds /\ (Remainder(cents, w, x) > ro \/ Remainder(cents, w, x) = ro)
       BY DEF TakesFirst
     <4>2. Remainder(cents, w, x) \in Nat BY <4>1, QuotaIs
     <4>3. Remainder(cents, w, x) > rs
      <5> HIDE DEF rs, ro
      <5> QED BY <1>1, <2>1, <4>1, <4>2
     <4> QED BY <4>1, <4>3 DEF TakesFirst
    <3> QED BY <3>1
   <2>3. IsFiniteSet(TakesFirst(cents, w, s))
    <3>1. TakesFirst(cents, w, s) \subseteq Funds BY DEF TakesFirst
    <3> QED BY <3>1, FundsAssumption, FS_Subset
   <2>4. Cardinality(TakesFirst(cents, w, o)) <= Cardinality(TakesFirst(cents, w, s))
     BY <2>2, <2>3, FS_Subset
   <2>5. Cardinality(TakesFirst(cents, w, o)) \in Nat /\ Cardinality(TakesFirst(cents, w, s)) \in Nat
     BY <2>2, <2>3, FS_Subset, FS_CardinalityType
   <2>6. Cardinality(TakesFirst(cents, w, s)) < LeftOver(cents, w) /\ LeftOver(cents, w) \in Nat
     BY ChosenFit, LeftOverFits
   <2>7. Cardinality(TakesFirst(cents, w, o)) < LeftOver(cents, w) BY <2>4, <2>5, <2>6
   <2> QED BY <2>7, ChosenFit
  <1>5. cents = 0 => s \notin C
   <2> SUFFICES ASSUME cents = 0, s \in C PROVE FALSE
     OBVIOUS
   <2>1. rs # 0 BY ChosenFit
   <2>2. ms = 0 OBVIOUS
   <2> HIDE DEF qs, rs, W, ms
   <2>3. W * qs \in Nat BY <1>1
   <2> QED BY <1>1, <2>1, <2>2, <2>3
  <1> HIDE DEF qs, qo, rs, ro, W, ps, po, ms, mo, C
  <1>6. qs <= qo
   <2> SUFFICES ASSUME qs > qo PROVE FALSE
     BY <1>1
   <2> DEFINE d == qs - qo
   <2>1. d \in Nat /\ d >= 1 /\ qs = qo + d BY <1>1
   <2> HIDE DEF d
   <2>2. W * qs = W * qo + W * d /\ W * d >= W /\ W * qo \in Nat /\ W * d \in Nat BY <1>1, <2>1
   <2> QED BY <1>1, <1>3, <2>2
  <1>7. ps <= po BY <1>1, <1>2, <1>3, <1>4, <1>5, <1>6
  <1> QED BY <1>7 DEF ps, po

(* A rounded quotient is within half. *)
LEMMA RoundedIsNear ==
    ASSUME NEW num \in Int, NEW den \in Nat, den > 0
    PROVE  /\ Rounded(num, den) \in Int
           /\ 2 * (Rounded(num, den) * den - num) <= den
           /\ -den <= 2 * (Rounded(num, den) * den - num)
           /\ Rounded(num, den) * den \in Int
  <1> DEFINE down == num \div den
             r == num % den
  <1>1. down \in Int /\ r \in Nat /\ r < den /\ num = den * down + r BY FloorAndRest
  <1>2. Rounded(num, den) = IF 2 * r < den \/ (2 * r = den /\ down % 2 = 0) THEN down ELSE down + 1
    BY DEF Rounded
  <1> HIDE DEF down, r
  <1>3. den * down \in Int /\ down * den = den * down /\ (down + 1) * den = den * down + den BY <1>1
  <1>4. CASE Rounded(num, den) = down /\ 2 * r <= den
   <2>1. down * den - num = -r BY <1>1, <1>3
   <2> QED BY <1>1, <1>3, <1>4, <2>1
  <1>5. CASE Rounded(num, den) = down + 1 /\ 2 * r >= den
   <2>1. (down + 1) * den - num = den - r BY <1>1, <1>3
   <2> QED BY <1>1, <1>3, <1>5, <2>1
  <1> QED BY <1>1, <1>2, <1>4, <1>5

(* What is within half of each is within half a time each of all. *)
LEMMA NearAltogether ==
    ASSUME NEW S, IsFiniteSet(S), NEW W \in Nat, NEW d, \A s \in S : d[s] \in Int,
           \A s \in S : -W <= 2 * d[s] /\ 2 * d[s] <= W
    PROVE  /\ SumOn(d, S) \in Int /\ Cardinality(S) \in Nat
           /\ 2 * SumOn(d, S) <= W * Cardinality(S)
           /\ -(W * Cardinality(S)) <= 2 * SumOn(d, S)
  <1> DEFINE one == [s \in S |-> IF s \in S THEN 1 ELSE 0]
             high == [s \in S |-> W * one[s]]
             low == [s \in S |-> (-W) * one[s]]
             twice == [s \in S |-> 2 * d[s]]
             n == Cardinality(S)
  <1>1. \A s \in S : one[s] = (IF s \in S THEN 1 ELSE 0) /\ one[s] = 1 /\ high[s] = W * one[s]
                     /\ low[s] = (-W) * one[s] /\ twice[s] = 2 * d[s]
    OBVIOUS
  <1>2. S \in SUBSET S OBVIOUS
  <1>3. n \in Nat BY FS_CardinalityType
  <1> HIDE DEF one, high, low, twice, n
  <1>4. SumOn(one, S) = n BY <1>1, <1>2, SumOnes DEF n
  <1>5. \A s \in S : one[s] \in Int /\ high[s] = W /\ low[s] = -W /\ high[s] \in Int /\ low[s] \in Int
                     /\ twice[s] \in Int
    BY <1>1
  <1>6. SumOn(high, S) = W * n BY <1>1, <1>4, <1>5, SumScale
  <1>7. SumOn(low, S) = (-W) * n
   <2> DEFINE v == -W
   <2>1. v \in Int /\ \A s \in S : low[s] = v * one[s] BY <1>1
   <2> HIDE DEF v
   <2>2. SumOn(low, S) = v * n BY <1>4, <1>5, <2>1, SumScale
   <2> QED BY <2>2 DEF v
  <1>8. SumOn(twice, S) = 2 * SumOn(d, S) BY <1>1, <1>5, SumScale
  <1>9. SumOn(twice, S) <= SumOn(high, S) /\ SumOn(low, S) <= SumOn(twice, S)
   <2>1. \A s \in S : twice[s] <= high[s] /\ low[s] <= twice[s] BY <1>1, <1>5
   <2>2. SumOn(twice, S) <= SumOn(high, S) BY <1>5, <2>1, SumMore
   <2>3. SumOn(low, S) <= SumOn(twice, S) BY <1>5, <2>1, SumMore
   <2> QED BY <2>2, <2>3
  <1>10. (-W) * n = -(W * n) BY <1>3
  <1>11. SumOn(d, S) \in Int BY SumType
  <1> QED BY <1>3, <1>6, <1>7, <1>8, <1>9, <1>10, <1>11 DEF n

(* What many times over is within a multiple is within it. *)
LEMMA WithinOnce ==
    ASSUME NEW W \in Nat, W > 0, NEW x \in Int, NEW n \in Nat,
           2 * (W * x) <= W * n, -(W * n) <= 2 * (W * x)
    PROVE  2 * Abs(x) <= n
  <1>1. 2 * x <= n
   <2> SUFFICES ASSUME 2 * x > n PROVE FALSE
     OBVIOUS
   <2> DEFINE d == 2 * x - n
   <2>1. d \in Nat /\ d >= 1 /\ 2 * x = n + d OBVIOUS
   <2> HIDE DEF d
   <2>2. W * (n + d) = W * n + W * d /\ W * d > 0 /\ W * n \in Nat /\ W * d \in Nat BY <2>1
   <2>3. 2 * (W * x) = W * (2 * x) OBVIOUS
   <2> QED BY <2>1, <2>2, <2>3
  <1>2. -n <= 2 * x
   <2> SUFFICES ASSUME -n > 2 * x PROVE FALSE
     OBVIOUS
   <2> DEFINE d == -(2 * x) - n
   <2>1. d \in Nat /\ d >= 1 /\ 2 * x = -(n + d) OBVIOUS
   <2> HIDE DEF d
   <2>2. W * (n + d) = W * n + W * d /\ W * d > 0 /\ W * n \in Nat /\ W * d \in Nat BY <2>1
   <2>3. 2 * (W * x) = W * (2 * x) /\ W * (-(n + d)) = -(W * (n + d)) BY <2>1
   <2> QED BY <2>1, <2>2, <2>3
  <1> QED BY <1>1, <1>2 DEF Abs

(* Shares rounded one by one miss by half a cent each. *)
LEMMA SinglesMissLittle ==
    ASSUME NEW cents \in Nat, NEW w \in [Funds -> Nat], Total(w) > 0
    PROVE  2 * Abs(Total([s \in Funds |-> GetAllocation(cents, w, s)]) - cents) <= Cardinality(Funds)
  <1> DEFINE g == [s \in Funds |-> GetAllocation(cents, w, s)]
             W == Total(w)
             gW == [s \in Funds |-> W * g[s]]
             m == [s \in Funds |-> cents * w[s]]
             neg == [s \in Funds |-> (-1) * m[s]]
             d == [s \in Funds |-> gW[s] + neg[s]]
             n == Cardinality(Funds)
  <1>1. w \in [Funds -> Int] /\ \A s \in Funds : w[s] \in Nat OBVIOUS
  <1>2. IsFiniteSet(Funds) /\ W \in Nat /\ W > 0 /\ W = SumOn(w, Funds) BY <1>1, FundsTotal
  <1>3. \A s \in Funds : gW[s] = W * g[s] /\ m[s] = cents * w[s] /\ neg[s] = (-1) * m[s] /\ d[s] = gW[s] + neg[s]
                         /\ g[s] = IF w[s] = 0 THEN 0 ELSE Rounded(cents * w[s], W)
    BY DEF GetAllocation
  <1>4. \A s \in Funds : m[s] \in Nat BY <1>1, <1>3
  <1> HIDE DEF g, W, gW, m, neg, d, n
  <1>5. ASSUME NEW s \in Funds
        PROVE  /\ g[s] \in Int /\ gW[s] \in Int /\ neg[s] \in Int /\ d[s] \in Int
               /\ -W <= 2 * d[s] /\ 2 * d[s] <= W
   <2>1. CASE w[s] = 0
    <3>1. g[s] = 0 /\ gW[s] = W * g[s] /\ m[s] = cents * w[s] BY <1>3, <2>1
    <3>2. W * 0 = 0 /\ cents * 0 = 0 BY <1>2
    <3>3. gW[s] = 0 /\ m[s] = 0 BY <2>1, <3>1, <3>2
    <3>4. neg[s] = (-1) * 0 /\ d[s] = 0 + neg[s] BY <1>3, <3>3
    <3>5. neg[s] = 0 /\ d[s] = 0 BY <3>4
    <3> QED BY <1>2, <3>1, <3>3, <3>5
   <2>2. CASE w[s] # 0
    <3>1. g[s] = Rounded(m[s], W) /\ m[s] \in Int BY <1>3, <1>4, <2>2
    <3>2. /\ g[s] \in Int /\ g[s] * W \in Int
          /\ 2 * (g[s] * W - m[s]) <= W /\ -W <= 2 * (g[s] * W - m[s])
      BY <1>2, <3>1, RoundedIsNear
    <3>3. gW[s] = g[s] * W BY <1>2, <1>3, <3>2
    <3>4. d[s] = g[s] * W - m[s] /\ neg[s] = -m[s] BY <1>3, <3>1, <3>2, <3>3
    <3> QED BY <3>1, <3>2, <3>3, <3>4
   <2> QED BY <2>1, <2>2
  <1>6. g \in [Funds -> Int] BY <1>5 DEF g
  <1>7. Total(g) = SumOn(g, Funds) /\ Total(g) \in Int BY <1>6, FundsTotal
  <1>8. SumOn(gW, Funds) = W * Total(g)
   <2>1. W \in Int BY <1>2
   <2>2. SumOn(gW, Funds) = W * SumOn(g, Funds) BY <1>2, <1>3, <1>5, <2>1, SumScale
   <2> QED BY <1>7, <2>2
  <1>9. SumOn(m, Funds) = cents * W
   <2>1. \A s \in Funds : w[s] \in Int /\ m[s] \in Int BY <1>1, <1>4
   <2>2. SumOn(m, Funds) = cents * SumOn(w, Funds) BY <1>2, <1>3, <2>1, SumScale
   <2> QED BY <1>2, <2>2
  <1>10. SumOn(neg, Funds) = -(cents * W)
   <2>1. \A s \in Funds : m[s] \in Int BY <1>4
   <2>2. SumOn(neg, Funds) = (-1) * SumOn(m, Funds) BY <1>2, <1>3, <1>5, <2>1, SumScale
   <2>3. cents * W \in Int BY <1>2
   <2> QED BY <1>9, <2>2, <2>3
  <1>11. SumOn(d, Funds) = SumOn(gW, Funds) + SumOn(neg, Funds) BY <1>2, <1>3, <1>5, SumPlus
  <1>12. SumOn(d, Funds) = W * (Total(g) - cents)
   <2>1. W * (Total(g) - cents) = W * Total(g) - cents * W BY <1>2, <1>7
   <2>2. W * Total(g) \in Int /\ cents * W \in Int BY <1>2, <1>7
   <2> QED BY <1>8, <1>10, <1>11, <2>1, <2>2
  <1>13. n \in Nat /\ 2 * SumOn(d, Funds) <= W * n /\ -(W * n) <= 2 * SumOn(d, Funds)
    BY <1>2, <1>5, NearAltogether DEF n
  <1>14. Total(g) - cents \in Int BY <1>7
  <1>15. 2 * Abs(Total(g) - cents) <= n BY <1>2, <1>12, <1>13, <1>14, WithinOnce
  <1> QED BY <1>15 DEF g, n

(* Without weights the shares are equal, and there are some. *)
LEMMA TargetsAre ==
    ASSUME NEW w \in [Funds -> Nat], Funds # {}
    PROVE  Targets(w) \in [Funds -> Nat] /\ Total(Targets(w)) \in Nat /\ Total(Targets(w)) > 0
  <1>1. w \in [Funds -> Int] /\ DOMAIN w = Funds /\ \A s \in Funds : w[s] \in Nat OBVIOUS
  <1>2. Total(w) \in Nat BY <1>1, FundsTotal
  <1>3. CASE Total(w) # 0
   <2>1. Targets(w) = w BY <1>3 DEF Targets
   <2> QED BY <1>2, <1>3, <2>1
  <1>4. CASE Total(w) = 0
   <2> DEFINE t == [s \in Funds |-> 1]
   <2>1. Targets(w) = t BY <1>1, <1>4 DEF Targets
   <2>2. t \in [Funds -> Int] /\ t \in [Funds -> Nat] /\ \A s \in Funds : t[s] = IF s \in Funds THEN 1 ELSE 0
     OBVIOUS
   <2> HIDE DEF t
   <2>3. Total(t) = SumOn(t, Funds) /\ IsFiniteSet(Funds) BY <2>2, FundsTotal
   <2>4. Funds \in SUBSET Funds OBVIOUS
   <2>5. SumOn(t, Funds) = Cardinality(Funds) BY <2>2, <2>3, <2>4, SumOnes
   <2>6. Cardinality(Funds) \in Nat /\ Cardinality(Funds) # 0
     BY <2>3, FS_CardinalityType, FS_EmptySet
   <2> QED BY <2>1, <2>2, <2>3, <2>5, <2>6
  <1> QED BY <1>3, <1>4

(* Drifts cancel. *)
LEMMA DriftsCancel ==
    ASSUME NEW w \in [Funds -> Nat], NEW v \in [Funds -> Nat]
    PROVE  /\ \A s \in Funds : DriftOf(w, v, s) \in Int
           /\ SumOn([s \in Funds |-> DriftOf(w, v, s)], Funds) = 0
           /\ Total(w) \in Nat /\ Total(v) \in Nat
  <1> DEFINE W == Total(w)
             T == Total(v)
             a == [s \in Funds |-> W * v[s]]
             b == [s \in Funds |-> (-T) * w[s]]
             d == [s \in Funds |-> DriftOf(w, v, s)]
  <1>1. w \in [Funds -> Int] /\ v \in [Funds -> Int] /\ \A s \in Funds : w[s] \in Nat /\ v[s] \in Nat
    OBVIOUS
  <1>2. W \in Nat /\ T \in Nat /\ IsFiniteSet(Funds) /\ W = SumOn(w, Funds) /\ T = SumOn(v, Funds)
    BY <1>1, FundsTotal
  <1>3. \A s \in Funds : a[s] = W * v[s] /\ b[s] = (-T) * w[s] /\ d[s] = v[s] * W - w[s] * T
                         /\ d[s] = DriftOf(w, v, s)
    BY DEF DriftOf
  <1> HIDE DEF W, T, a, b, d
  <1>4. ASSUME NEW s \in Funds
        PROVE  a[s] \in Int /\ b[s] \in Int /\ d[s] = a[s] + b[s] /\ d[s] \in Int
   <2> DEFINE x == w[s]
              y == v[s]
   <2>1. x \in Nat /\ y \in Nat /\ a[s] = W * y /\ b[s] = (-T) * x /\ d[s] = y * W - x * T
     BY <1>1, <1>3
   <2> HIDE DEF x, y
   <2>2. W * y \in Int /\ (-T) * x \in Int /\ x * T \in Int /\ y * W = W * y /\ (-T) * x = -(x * T)
     BY <1>2, <2>1
   <2> QED BY <2>1, <2>2
  <1>5. SumOn(a, Funds) = W * T
   <2>1. W \in Int /\ \A s \in Funds : v[s] \in Int BY <1>1, <1>2
   <2> QED BY <1>2, <1>3, <2>1, SumScale
  <1>6. SumOn(b, Funds) = -(W * T)
   <2> DEFINE c == -T
   <2>1. c \in Int /\ \A s \in Funds : w[s] \in Int /\ b[s] = c * w[s] BY <1>1, <1>2, <1>3
   <2> HIDE DEF c
   <2>2. SumOn(b, Funds) = c * W BY <1>2, <2>1, SumScale
   <2>3. (-T) * W = -(W * T) BY <1>2
   <2> QED BY <2>2, <2>3 DEF c
  <1>7. SumOn(d, Funds) = SumOn(a, Funds) + SumOn(b, Funds) BY <1>2, <1>4, SumPlus
  <1>8. W * T \in Int BY <1>2
  <1>9. SumOn(d, Funds) = 0 BY <1>5, <1>6, <1>7, <1>8
  <1> QED BY <1>2, <1>3, <1>4, <1>9 DEF W, T, d

(* What an order leaves of a drift is half a cent, and it sells no more than there is. *)
LEMMA OrderIs ==
    ASSUME NEW w \in [Funds -> Nat], NEW v \in [Funds -> Nat], Total(w) > 0, NEW s \in Funds
    PROVE  /\ RebalanceOrders(w, v)[s] \in Int
           /\ Total(w) * RebalanceOrders(w, v)[s] \in Int
           /\ 2 * (Total(w) * RebalanceOrders(w, v)[s] + DriftOf(w, v, s)) <= Total(w)
           /\ -Total(w) <= 2 * (Total(w) * RebalanceOrders(w, v)[s] + DriftOf(w, v, s))
           /\ v[s] + RebalanceOrders(w, v)[s] \in Nat
  <1> DEFINE W == Total(w)
             T == Total(v)
             d == DriftOf(w, v, s)
             o == RebalanceOrders(w, v)[s]
             x == w[s]
             y == v[s]
  <1>1. W \in Nat /\ T \in Nat /\ d \in Int /\ W > 0 /\ x \in Nat /\ y \in Nat BY DriftsCancel
  <1>2. o = IF d > 0 THEN -Rounded(d, W) ELSE Rounded(-d, W) BY DEF RebalanceOrders
  <1>3. d = y * W - x * T BY DEF DriftOf
  <1> HIDE DEF W, T, d, o, x, y
  <1>4. /\ o \in Int /\ W * o \in Int /\ 2 * (W * o + d) <= W /\ -W <= 2 * (W * o + d)
   <2>1. CASE d > 0
    <3> DEFINE q == Rounded(d, W)
    <3>1. /\ q \in Int /\ 2 * (q * W - d) <= W /\ -W <= 2 * (q * W - d) /\ q * W \in Int
      BY <1>1, RoundedIsNear
    <3>2. o = -q BY <1>2, <2>1
    <3> HIDE DEF q
    <3>3. W * o = -(q * W) BY <1>1, <3>1, <3>2
    <3> QED BY <1>1, <3>1, <3>2, <3>3
   <2>2. CASE ~(d > 0)
    <3> DEFINE e == -d
               q == Rounded(e, W)
    <3>1. e \in Int /\ d = -e BY <1>1
    <3>2. o = q BY <1>2, <2>2
    <3> HIDE DEF e
    <3>3. /\ q \in Int /\ 2 * (q * W - e) <= W /\ -W <= 2 * (q * W - e) /\ q * W \in Int
      BY <1>1, <3>1, RoundedIsNear
    <3> HIDE DEF q
    <3>4. W * o = q * W BY <1>1, <3>2, <3>3
    <3> QED BY <1>1, <3>1, <3>2, <3>3, <3>4
   <2> QED BY <2>1, <2>2
  <1>5. y + o \in Nat
   <2> SUFFICES ASSUME y + o < 0 PROVE FALSE
     BY <1>1, <1>4
   <2> DEFINE g == -(y + o)
   <2>1. g \in Nat /\ g >= 1 /\ o = -g - y BY <1>1, <1>4
   <2> HIDE DEF g
   <2>2. W * (-g - y) = -(W * g) - W * y /\ W * g >= W /\ W * g \in Nat /\ W * y \in Nat
     BY <1>1, <2>1
   <2>3. y * W = W * y /\ x * T \in Nat BY <1>1
   <2>4. W * o = -(W * g) - W * y BY <2>1, <2>2
   <2>5. W * o + d = -(W * g) - x * T BY <1>1, <1>3, <2>2, <2>3, <2>4
   <2> HIDE DEF W, o, d
   <2>6. W * o + d <= -W BY <1>1, <2>2, <2>3, <2>5
   <2> QED BY <1>1, <1>4, <2>6
  <1> QED BY <1>4, <1>5 DEF W, d, o, y

\* What a rebalance leaves of a strategy's drift, times the sum of the weights.
Residue(w, v, s) == Total(w) * RebalanceOrders(w, v)[s] + DriftOf(w, v, s)

(* What a rebalance leaves adds up to what its orders make. *)
LEMMA ResiduesAddUp ==
    ASSUME NEW w \in [Funds -> Nat], NEW v \in [Funds -> Nat], Total(w) > 0
    PROVE  /\ \A s \in Funds : Residue(w, v, s) \in Int
           /\ RebalanceOrders(w, v) \in [Funds -> Int]
           /\ Total(RebalanceOrders(w, v)) \in Int
           /\ SumOn([s \in Funds |-> Residue(w, v, s)], Funds) = Total(w) * Total(RebalanceOrders(w, v))
           /\ \A s \in Funds : 2 * Residue(w, v, s) <= Total(w) /\ -Total(w) <= 2 * Residue(w, v, s)
  <1> DEFINE W == Total(w)
             o == RebalanceOrders(w, v)
             Wo == [s \in Funds |-> W * o[s]]
             d == [s \in Funds |-> DriftOf(w, v, s)]
             e == [s \in Funds |-> Residue(w, v, s)]
  <1>1. W \in Nat /\ W > 0 /\ IsFiniteSet(Funds) BY DriftsCancel, FundsAssumption
  <1>2. \A s \in Funds : /\ o[s] \in Int /\ W * o[s] \in Int /\ d[s] \in Int /\ d[s] = DriftOf(w, v, s)
                         /\ Wo[s] = W * o[s] /\ e[s] = Wo[s] + d[s] /\ e[s] = Residue(w, v, s)
                         /\ 2 * e[s] <= W /\ -W <= 2 * e[s]
    BY OrderIs, DriftsCancel DEF Residue
  <1>3. o \in [Funds -> Int]
   <2>1. DOMAIN w = Funds OBVIOUS
   <2>2. o = [s \in Funds |-> o[s]] BY <2>1 DEF RebalanceOrders
   <2> HIDE DEF o
   <2> QED BY <1>2, <2>2
  <1>4. SumOn(d, Funds) = 0 BY DriftsCancel
  <1> HIDE DEF W, o, Wo, d, e
  <1>5. Total(o) = SumOn(o, Funds) /\ Total(o) \in Int BY <1>3, FundsTotal
  <1>6. SumOn(Wo, Funds) = W * SumOn(o, Funds)
   <2>1. W \in Int BY <1>1
   <2> QED BY <1>1, <1>2, <2>1, SumScale
  <1>7. \A s \in Funds : Wo[s] \in Int /\ d[s] \in Int /\ e[s] = Wo[s] + d[s] /\ e[s] \in Int
    BY <1>2
  <1>8. SumOn(e, Funds) = SumOn(Wo, Funds) + SumOn(d, Funds) BY <1>1, <1>7, SumPlus
  <1>9. W * Total(o) \in Int BY <1>1, <1>5
  <1>10. SumOn(e, Funds) = W * Total(o) BY <1>4, <1>5, <1>6, <1>8, <1>9
  <1> QED BY <1>2, <1>3, <1>5, <1>7, <1>10 DEF W, o, e

(* The orders of a rebalance make no money but for half a cent each. *)
LEMMA OrdersNearlyCancel ==
    ASSUME NEW w \in [Funds -> Nat], NEW v \in [Funds -> Nat], Total(w) > 0
    PROVE  2 * Abs(Total(RebalanceOrders(w, v))) <= Cardinality(Funds)
  <1> DEFINE W == Total(w)
             O == Total(RebalanceOrders(w, v))
             e == [s \in Funds |-> Residue(w, v, s)]
             n == Cardinality(Funds)
  <1>1. W \in Nat /\ W > 0 /\ IsFiniteSet(Funds) BY DriftsCancel, FundsAssumption
  <1>2. O \in Int /\ SumOn(e, Funds) = W * O BY ResiduesAddUp
  <1>3. \A s \in Funds : e[s] \in Int /\ -W <= 2 * e[s] /\ 2 * e[s] <= W BY ResiduesAddUp
  <1> HIDE DEF W, O, e
  <1>4. /\ n \in Nat /\ 2 * SumOn(e, Funds) <= W * n /\ -(W * n) <= 2 * SumOn(e, Funds)
    BY <1>1, <1>3, NearAltogether
  <1> HIDE DEF n
  <1>5. 2 * Abs(O) <= n BY <1>1, <1>2, <1>4, WithinOnce
  <1> QED BY <1>5 DEF O, n

(* A share of two bounded numbers is bounded. *)
LEMMA ShareBounds ==
    ASSUME NEW W \in Nat, NEW x \in Nat, x <= W, NEW e \in Int, -W <= 2 * e, 2 * e <= W,
           NEW m \in Nat, NEW r \in Int, 2 * r <= W * m, -(W * m) <= 2 * r
    PROVE  /\ 2 * ((W - x) * e - x * r) <= W * (W * (m + 1))
           /\ -(W * (W * (m + 1))) <= 2 * ((W - x) * e - x * r)
           /\ (W - x) * e - x * r \in Int
  <1> DEFINE u == W - x
             p == W * m
  <1>1. u \in Nat /\ W = u + x /\ u <= W /\ p \in Nat OBVIOUS
  <1>2. W * (W * (m + 1)) = W * W + W * p /\ W * W \in Nat /\ W * p \in Nat
   <2>1. W * (m + 1) = W + p OBVIOUS
   <2> HIDE DEF p
   <2>2. W * (W + p) = W * W + W * p BY <1>1
   <2> QED BY <1>1, <2>1, <2>2
  <1>3. 2 * r <= p /\ -p <= 2 * r OBVIOUS
  <1> HIDE DEF u, p
  <1>4. 2 * (u * e) <= W * W /\ -(W * W) <= 2 * (u * e) /\ u * e \in Int
   <2> DEFINE hi == W - 2 * e
              lo == W + 2 * e
   <2>1. hi \in Nat /\ lo \in Nat /\ 2 * e = W - hi /\ 2 * e = lo - W OBVIOUS
   <2> HIDE DEF hi, lo
   <2>2. u * (2 * e) = u * W - u * hi /\ u * hi \in Nat BY <1>1, <2>1
   <2>3. u * (2 * e) = u * lo - u * W /\ u * lo \in Nat BY <1>1, <2>1
   <2>4. 2 * (u * e) = u * (2 * e) /\ u * e \in Int BY <1>1
   <2>5. u * W \in Nat /\ u * W <= W * W
    <3>1. (u + x) * W = u * W + x * W /\ x * W \in Nat /\ u * W \in Nat BY <1>1
    <3> QED BY <1>1, <3>1
   <2> QED BY <1>2, <2>2, <2>3, <2>4, <2>5
  <1>5. 2 * (x * r) <= W * p /\ -(W * p) <= 2 * (x * r) /\ x * r \in Int
   <2> DEFINE hi == p - 2 * r
              lo == p + 2 * r
   <2>1. hi \in Nat /\ lo \in Nat /\ 2 * r = p - hi /\ 2 * r = lo - p BY <1>1, <1>3
   <2> HIDE DEF hi, lo
   <2>2. x * (2 * r) = x * p - x * hi /\ x * hi \in Nat BY <1>1, <2>1
   <2>3. x * (2 * r) = x * lo - x * p /\ x * lo \in Nat BY <1>1, <2>1
   <2>4. 2 * (x * r) = x * (2 * r) /\ x * r \in Int OBVIOUS
   <2>5. x * p \in Nat /\ x * p <= W * p
    <3>1. (u + x) * p = u * p + x * p /\ x * p \in Nat /\ u * p \in Nat BY <1>1
    <3> QED BY <1>1, <3>1
   <2> QED BY <1>2, <2>2, <2>3, <2>4, <2>5
  <1>6. (W - x) * e = u * e BY <1>1 DEF u
  <1> QED BY <1>2, <1>4, <1>5, <1>6

(* What is left of a drift against the new total is within half a cent for each strategy. *)
LEMMA SettledDrift ==
    ASSUME NEW w \in [Funds -> Nat], NEW v \in [Funds -> Nat], Total(w) > 0,
           NEW u, u = [s \in Funds |-> v[s] + RebalanceOrders(w, v)[s]], NEW s \in Funds
    PROVE  2 * Abs(DriftOf(w, u, s)) <= Cardinality(Funds) * Total(w)
  <1> DEFINE W == Total(w)
             T == Total(v)
             o == RebalanceOrders(w, v)
             O == Total(o)
             U == Total(u)
             e == [i \in Funds |-> Residue(w, v, i)]
             R == Funds \ {s}
             n == Cardinality(Funds)
             m == Cardinality(R)
             x == w[s]
             y == v[s]
             D == DriftOf(w, u, s)
             es == Residue(w, v, s)
             r == SumOn(e, R)
  <1>1. W \in Nat /\ W > 0 /\ T \in Nat /\ IsFiniteSet(Funds) /\ x \in Nat /\ y \in Nat
    BY DriftsCancel, FundsAssumption
  <1>2. o \in [Funds -> Int] /\ O \in Int /\ SumOn(e, Funds) = W * O BY ResiduesAddUp
  <1>3. \A i \in Funds : e[i] \in Int /\ -W <= 2 * e[i] /\ 2 * e[i] <= W BY ResiduesAddUp
  <1>4. es = W * o[s] + DriftOf(w, v, s) /\ DriftOf(w, v, s) = y * W - x * T /\ e[s] = es
    BY DEF Residue, DriftOf
  <1>5. u \in [Funds -> Int] /\ \A i \in Funds : u[i] = v[i] + o[i] BY <1>2
  <1>6. D = u[s] * W - x * U BY DEF DriftOf
  <1> HIDE DEF W, T, o, O, U, e, n, m, x, y, D, es, r
  <1>7. U = T + O
   <2>1. U = SumOn(u, Funds) /\ T = SumOn(v, Funds) /\ O = SumOn(o, Funds)
    <3>1. v \in [Funds -> Int] OBVIOUS
    <3> QED BY <1>2, <1>5, <3>1, FundsTotal DEF U, T, O
   <2>2. \A i \in Funds : v[i] \in Int /\ o[i] \in Int /\ u[i] = v[i] + o[i] BY <1>2, <1>5
   <2> QED BY <1>1, <2>1, <2>2, SumPlus
  <1>8. es + r = W * O BY <1>1, <1>2, <1>3, <1>4, SumSplit DEF r
  <1>9. x <= W
   <2>1. W = SumOn(w, Funds)
    <3>1. w \in [Funds -> Int] OBVIOUS
    <3> QED BY <3>1, FundsTotal DEF W
   <2>2. \A i \in Funds : w[i] \in Nat /\ w[i] \in Int OBVIOUS
   <2>3. W = w[s] + SumOn(w, R) BY <1>1, <2>1, <2>2, SumSplit
   <2>4. SumOn(w, R) \in Nat
    <3>1. IsFiniteSet(R) /\ \A i \in R : w[i] \in Nat BY <1>1, <2>2, FS_Subset
    <3> QED BY <3>1, SumNat
   <2> QED BY <1>1, <2>3, <2>4 DEF x
  <1>10. n = m + 1 /\ m \in Nat /\ IsFiniteSet(R)
   <2>1. IsFiniteSet(R) /\ Cardinality(R) = Cardinality(Funds) - 1 BY <1>1, FS_RemoveElement
   <2>2. Cardinality(R) \in Nat /\ Cardinality(Funds) \in Nat BY <1>1, <2>1, FS_CardinalityType
   <2> QED BY <2>1, <2>2 DEF n, m
  <1>11. r \in Int /\ 2 * r <= W * m /\ -(W * m) <= 2 * r
   <2>1. \A i \in R : e[i] \in Int /\ -W <= 2 * e[i] /\ 2 * e[i] <= W BY <1>3
   <2> QED BY <1>1, <1>10, <2>1, NearAltogether DEF r, m
  <1>12. es \in Int /\ -W <= 2 * es /\ 2 * es <= W BY <1>3, <1>4
  <1>13. D = es - x * O /\ x * O \in Int /\ D \in Int
   <2>1. u[s] = y + o[s] /\ o[s] \in Int BY <1>2, <1>5 DEF y
   <2> DEFINE os == o[s]
   <2> HIDE DEF os
   <2>2. os \in Int /\ D = (y + os) * W - x * (T + O) /\ es = W * os + (y * W - x * T)
     BY <1>4, <1>6, <1>7, <2>1 DEF os
   <2>3. (y + os) * W = y * W + W * os /\ x * (T + O) = x * T + x * O
         /\ y * W \in Int /\ W * os \in Int /\ x * T \in Int /\ x * O \in Int
     BY <1>1, <1>2, <2>2
   <2> QED BY <2>2, <2>3
  <1>14. W * D = (W - x) * es - x * r
   <2>1. W * D = W * es - W * (x * O) /\ W * (x * O) = x * (W * O) /\ W * es \in Int
     BY <1>1, <1>2, <1>12, <1>13
   <2>2. x * (es + r) = x * es + x * r /\ x * es \in Int /\ x * r \in Int BY <1>1, <1>11, <1>12
   <2>3. (W - x) * es = W * es - x * es BY <1>1, <1>12
   <2>4. x * (W * O) = x * (es + r) BY <1>8
   <2> QED BY <2>1, <2>2, <2>3, <2>4
  <1>15. 2 * (W * D) <= W * (W * n) /\ -(W * (W * n)) <= 2 * (W * D)
   <2>1. /\ 2 * ((W - x) * es - x * r) <= W * (W * (m + 1))
         /\ -(W * (W * (m + 1))) <= 2 * ((W - x) * es - x * r)
     BY <1>1, <1>9, <1>10, <1>11, <1>12, ShareBounds
   <2> QED BY <1>10, <1>14, <2>1
  <1>16. 2 * Abs(D) <= W * n
   <2> DEFINE k == W * n
   <2>1. k \in Nat /\ W * n = k BY <1>1, <1>10
   <2> HIDE DEF k
   <2>2. 2 * (W * D) <= W * k /\ -(W * k) <= 2 * (W * D) BY <1>15, <2>1
   <2>3. 2 * Abs(D) <= k BY <1>1, <1>13, <2>1, <2>2, WithinOnce
   <2> QED BY <2>1, <2>3
  <1>17. W * n = n * W BY <1>1, <1>10
  <1> QED BY <1>16, <1>17 DEF D, n, W

(* A portfolio that was just rebalanced does not ask for another rebalance. *)
LEMMA SettledNeedsNothing ==
    ASSUME NEW w \in [Funds -> Nat], NEW v \in [Funds -> Nat], Total(w) > 0,
           NEW u, u = [s \in Funds |-> v[s] + RebalanceOrders(w, v)[s]],
           500 * Cardinality(Funds) <= DriftPermille * Total(u)
    PROVE  ~NeedsRebalance(w, u)
  <1> DEFINE W == Total(w)
             U == Total(u)
             n == Cardinality(Funds)
  <1>1. W \in Nat /\ W > 0 /\ IsFiniteSet(Funds) BY DriftsCancel, FundsAssumption
  <1>2. n \in Nat /\ DriftPermille \in Nat BY <1>1, FundsAssumption, FS_CardinalityType
  <1>3. u \in [Funds -> Nat] /\ u \in [Funds -> Int] BY OrderIs
  <1>4. U \in Nat BY <1>3, FundsTotal
  <1>5. ASSUME NEW s \in Funds
        PROVE  1000 * Abs(DriftOf(w, u, s)) <= DriftPermille * W * U
   <2> DEFINE D == DriftOf(w, u, s)
              a == Abs(D)
              g == DriftPermille * U - 500 * n
   <2>1. 2 * a <= n * W BY SettledDrift
   <2>2. D \in Int BY <1>3, DriftsCancel
   <2>3. a \in Nat
    <3> HIDE DEF D
    <3> QED BY <2>2 DEF Abs
   <2>4. DriftPermille * U \in Nat BY <1>2, <1>4
   <2>5. g \in Nat /\ DriftPermille * U = 500 * n + g BY <1>2, <2>4
   <2>6. 1000 * a <= 500 * (n * W) /\ n * W \in Nat
    <3> HIDE DEF a, W, n
    <3>1. n * W \in Nat BY <1>1, <1>2
    <3> QED BY <2>1, <2>3, <3>1
   <2> HIDE DEF D, a, g, W, U, n
   <2>7. DriftPermille * W * U = (DriftPermille * U) * W BY <1>1, <1>2, <1>4
   <2>8. (500 * n + g) * W = 500 * (n * W) + g * W /\ g * W \in Nat BY <1>1, <1>2, <2>5
   <2>9. 1000 * a <= DriftPermille * W * U BY <2>3, <2>5, <2>6, <2>7, <2>8
   <2> QED BY <2>9 DEF a, D
  <1>6. ASSUME NEW s \in Funds
        PROVE  ~(1000 * Abs(DriftOf(w, u, s)) > DriftPermille * W * U)
   <2> DEFINE a == 1000 * Abs(DriftOf(w, u, s))
              b == DriftPermille * W * U
   <2>1. DriftOf(w, u, s) \in Int BY <1>3, DriftsCancel
   <2>2. a \in Int
    <3> DEFINE D == DriftOf(w, u, s)
    <3> HIDE DEF D
    <3>1. D \in Int BY <2>1 DEF D
    <3>2. 1000 * Abs(D) \in Int BY <3>1 DEF Abs
    <3> QED BY <3>2 DEF D
   <2>3. b \in Int
    <3> HIDE DEF W, U
    <3>1. DriftPermille * W \in Int BY <1>1, <1>2
    <3> QED BY <1>4, <3>1
   <2>4. a <= b BY <1>5
   <2> HIDE DEF a, b
   <2>5. ~(a > b) BY <2>2, <2>3, <2>4
   <2> QED BY <2>5 DEF a, b
  <1>7. DOMAIN w = Funds OBVIOUS
  <1> QED BY <1>6, <1>7 DEF NeedsRebalance

----------------------------------------
(* Where the orders and the values of a rebalance come from. *)
AllocationInv ==
    /\ alWeights \in [Funds -> Nat] /\ alValues \in [Funds -> Nat]
    /\ alStage \in {"drifting", "ordered", "rebalanced"}
    /\ alStage = "ordered" => /\ Funds # {}
                              /\ alOrders = RebalanceOrders(Targets(alWeights), alValues)
    /\ alStage = "rebalanced" =>
          /\ Funds # {}
          /\ \E v \in [Funds -> Nat] :
                alValues = [s \in Funds |-> v[s] + RebalanceOrders(Targets(alWeights), v)[s]]

(* Nothing is ordered at first. *)
LEMMA AllocationStarts == AllocationInit => AllocationInv
  BY FundsAssumption DEF AllocationInit, AllocationInv

(* Capital there is needs a strategy. *)
LEMMA CapitalNeedsFunds ==
    ASSUME NEW v \in [Funds -> Nat], Total(v) > 0
    PROVE  Funds # {}
  <1> SUFFICES ASSUME Funds = {} PROVE FALSE
    OBVIOUS
  <1>1. Total(v) = SumOn(v, Funds) BY FundsTotal
  <1>2. SumOn(v, {}) = 0 BY SumEmpty
  <1> QED BY <1>1, <1>2

(* Every step of the allocation keeps its invariant. *)
LEMMA AllocationSteps ==
    ASSUME AllocationInv, [AllocationNext]_alVars
    PROVE  AllocationInv'
  <1> USE DEF AllocationInv
  <1>1. CASE UNCHANGED alVars BY <1>1 DEF alVars
  <1>2. CASE PlanCapital BY <1>2 DEF PlanCapital
  <1>3. CASE OrderRebalance
   <2>1. Total(alValues) > 0 BY <1>3 DEF OrderRebalance, NeedsRebalance
   <2>2. Funds # {} BY <2>1, CapitalNeedsFunds
   <2> QED BY <1>3, <2>2 DEF OrderRebalance
  <1>4. CASE ExecuteRebalance
   <2>1. /\ Funds # {} /\ alOrders = RebalanceOrders(Targets(alWeights), alValues)
         /\ alStage' = "rebalanced" /\ alWeights' = alWeights
         /\ alValues' = [s \in Funds |-> alValues[s] + alOrders[s]]
     BY <1>4 DEF ExecuteRebalance
   <2>2. Targets(alWeights) \in [Funds -> Nat] /\ Total(Targets(alWeights)) > 0 BY <2>1, TargetsAre
   <2>3. \A s \in Funds : alValues[s] + alOrders[s] \in Nat BY <2>1, <2>2, OrderIs
   <2>4. alValues' \in [Funds -> Nat] BY <2>1, <2>3
   <2>5. alValues' = [s \in Funds |-> alValues[s] + RebalanceOrders(Targets(alWeights'), alValues)[s]]
     BY <2>1
   <2>6. alStage' = "rebalanced" /\ alWeights' \in [Funds -> Nat] BY <2>1
   <2> QED BY <2>1, <2>4, <2>5, <2>6
  <1>5. ASSUME NEW s \in Funds, NEW v \in FundValues, MarkValue(s, v) PROVE AllocationInv'
   <2>1. v \in Nat BY FundsAssumption
   <2> QED BY <1>5, <2>1 DEF MarkValue
  <1>6. ASSUME NEW s \in Funds, NEW w \in FundWeights, SetWeight(s, w) PROVE AllocationInv'
   <2>1. w \in Nat BY FundsAssumption
   <2> QED BY <1>6, <2>1 DEF SetWeight
  <1> QED BY <1>1, <1>2, <1>3, <1>4, <1>5, <1>6 DEF AllocationNext

(* Capital is apportioned to the cent, whatever the weights and the values. *)
LEMMA AllocationIsExact ==
    ASSUME AllocationInv
    PROVE  ApportionedExactly
  <1> SUFFICES ASSUME Total(alWeights) > 0 PROVE ApportionedExactly
    BY DEF ApportionedExactly
  <1> DEFINE cents == Total(alValues)
             w == alWeights
             plan == AllocateCapital(cents, w)
             single == [s \in Funds |-> GetAllocation(cents, w, s)]
  <1>1. w \in [Funds -> Nat] /\ alValues \in [Funds -> Nat] BY DEF AllocationInv
  <1>2. cents \in Nat BY <1>1, FundsTotal
  <1> HIDE DEF cents
  <1>3. Total(plan) = cents BY <1>1, <1>2, PlanAddsUp
  <1>4. \A s \in Funds : Abs(plan[s] * Total(w) - cents * w[s]) < Total(w) BY <1>1, <1>2, PlanIsNear
  <1>5. \A s, o \in Funds : w[s] < w[o] => plan[s] <= plan[o] BY <1>1, <1>2, PlanFollowsWeights
  <1>6. 2 * Abs(Total(single) - cents) <= Cardinality(Funds) BY <1>1, <1>2, SinglesMissLittle
  <1> HIDE DEF plan, single, w
  <1> QED BY <1>3, <1>4, <1>5, <1>6 DEF ApportionedExactly, cents, plan, single, w

(* A rebalance settles. *)
LEMMA AllocationSettles ==
    ASSUME AllocationInv
    PROVE  RebalanceSettles
  <1>1. alWeights \in [Funds -> Nat] /\ alValues \in [Funds -> Nat] BY DEF AllocationInv
  <1>2. ASSUME alStage = "ordered"
        PROVE  2 * Abs(Total(alOrders)) <= Cardinality(Funds) /\ \A s \in Funds : alValues[s] + alOrders[s] >= 0
   <2> DEFINE t == Targets(alWeights)
   <2>1. Funds # {} /\ alOrders = RebalanceOrders(t, alValues) BY <1>2 DEF AllocationInv
   <2>2. t \in [Funds -> Nat] /\ Total(t) > 0 BY <1>1, <2>1, TargetsAre
   <2> HIDE DEF t
   <2>3. \A s \in Funds : alValues[s] + alOrders[s] \in Nat BY <1>1, <2>1, <2>2, OrderIs
   <2> QED BY <1>1, <2>1, <2>2, <2>3, OrdersNearlyCancel
  <1>3. ASSUME alStage = "rebalanced", 500 * Cardinality(Funds) <= DriftPermille * Total(alValues)
        PROVE  ~NeedsRebalance(Targets(alWeights), alValues)
   <2> DEFINE t == Targets(alWeights)
   <2>1. Funds # {} /\ \E v \in [Funds -> Nat] : alValues = [s \in Funds |-> v[s] + RebalanceOrders(t, v)[s]]
     BY <1>3 DEF AllocationInv
   <2>2. t \in [Funds -> Nat] /\ Total(t) > 0 BY <1>1, <2>1, TargetsAre
   <2> HIDE DEF t
   <2>3. PICK v \in [Funds -> Nat] : alValues = [s \in Funds |-> v[s] + RebalanceOrders(t, v)[s]]
     BY <2>1
   <2>4. ~NeedsRebalance(t, alValues) BY <1>3, <2>2, <2>3, SettledNeedsNothing
   <2> QED BY <2>4 DEF t
  <1> QED BY <1>2, <1>3 DEF RebalanceSettles
=============================================================================
