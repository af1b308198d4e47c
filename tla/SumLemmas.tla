----------------------------- MODULE SumLemmas -----------------------------
(***************************************************************************)
(* What the proofs need to know of finite sums: a sum splits off any of    *)
(* its members, depends on nothing but its members, follows a change of    *)
(* one of them, and keeps sign and order.  The other proof modules take    *)
(* these facts for quantities of orders, lots, events and strategies.      *)
(*                                                                         *)
(* Sums are those of MapThenSumSet.  A fact about all finite sets follows  *)
(* from a least counterexample: a set of subsets that is not empty has a   *)
(* member none of whose proper subsets is in it.  The same argument shows  *)
(* that a strict order of a finite set fills each place with one member.   *)
(***************************************************************************)
EXTENDS FiniteSetsExt, FiniteSetTheorems, TLAPS

(* The sum of f over S. *)
SumOn(f, S) == MapThenSumSet(LAMBDA x : f[x], S)

Pick(s) == CHOOSE x \in s : TRUE

(* g tells the sum of f for every subset of S. *)
Sums(g, f, S) ==
    g = [s \in SUBSET S |-> IF s = {} THEN 0 ELSE f[Pick(s)] + g[s \ {Pick(s)}]]

----------------------------------------
(* Finite sets. *)

(* A set of subsets of a finite set has a smallest member. *)
LEMMA Smallest ==
    ASSUME NEW S, IsFiniteSet(S), NEW T, T \subseteq SUBSET S, T # {}
    PROVE  \E X \in T : \A Y \in SUBSET X : Y # X => Y \notin T
  <1>1. IsWellFoundedOn(StrictSubsetOrdering(S), SUBSET S)
    BY FS_FiniteSubsetsOfFinite, FS_StrictSubsetOrderingWellFounded, Zenon
  <1>2. PICK X \in T : \A Y \in T : ~ (<<Y, X>> \in StrictSubsetOrdering(S))
    BY <1>1, WFMin, Zenon
  <1>3. ASSUME NEW Y \in SUBSET X, Y # X, Y \in T
        PROVE  FALSE
   <2>1. <<Y, X>> \in (SUBSET S) \X (SUBSET S) BY <1>3, <1>2
   <2> QED BY <2>1, <1>2, <1>3 DEF StrictSubsetOrdering
  <1> QED BY <1>2, <1>3

(* The element a fold starts from belongs to the set. *)
LEMMA PickIn ==
    ASSUME NEW S, S # {}
    PROVE  Pick(S) \in S
  BY DEF Pick

----------------------------------------
(* The recursion of the fold is well defined. *)

(* Two tables of partial sums agree where both are defined. *)
LEMMA SumsAgree ==
    ASSUME NEW f, NEW A, NEW B, NEW g, NEW h, IsFiniteSet(A), A \subseteq B,
           Sums(g, f, A), Sums(h, f, B)
    PROVE  \A s \in SUBSET A : g[s] = h[s]
  <1> DEFINE Bad == {s \in SUBSET A : g[s] # h[s]}
  <1> SUFFICES ASSUME Bad # {} PROVE FALSE
    OBVIOUS
  <1>1. PICK X \in Bad : \A Y \in SUBSET X : Y # X => Y \notin Bad
   <2> HIDE DEF Bad
   <2>1. Bad \subseteq SUBSET A BY DEF Bad
   <2> QED BY <2>1, Smallest
  <1>2. X # {} BY <1>1 DEF Sums
  <1>3. Pick(X) \in X BY <1>2, PickIn
  <1>4. g[X \ {Pick(X)}] = h[X \ {Pick(X)}] BY <1>1, <1>3
  <1>5. g[X] = f[Pick(X)] + g[X \ {Pick(X)}] /\ h[X] = f[Pick(X)] + h[X \ {Pick(X)}]
    BY <1>1, <1>2 DEF Sums
  <1> QED BY <1>1, <1>4, <1>5

(* Every finite set has a table of the sums over its subsets. *)
LEMMA SumsExist ==
    ASSUME NEW f, NEW S, IsFiniteSet(S)
    PROVE  \E g : Sums(g, f, S)
  <1> DEFINE Bad == {s \in SUBSET S : ~ \E g : Sums(g, f, s)}
  <1> SUFFICES ASSUME Bad # {} PROVE FALSE
    BY SMT
  <1>1. PICK X \in Bad : \A Y \in SUBSET X : Y # X => Y \notin Bad
   <2> HIDE DEF Bad
   <2>1. Bad \subseteq SUBSET S BY DEF Bad
   <2> QED BY <2>1, Smallest
  <1>2. IsFiniteSet(X) BY <1>1, FS_Subset
  <1> DEFINE G(s) == CHOOSE g : Sums(g, f, s)
  <1>3. ASSUME NEW s \in SUBSET X, s # X
        PROVE  Sums(G(s), f, s)
   <2>1. \E g : Sums(g, f, s) BY <1>1, <1>3
   <2> QED BY <2>1
  <1> HIDE DEF G
  <1> DEFINE below == [s \in SUBSET X |-> IF s = X THEN 0 ELSE G(s)[s]]
             whole == IF X = {} THEN 0 ELSE f[Pick(X)] + below[X \ {Pick(X)}]
             g == [s \in SUBSET X |-> IF s = X THEN whole ELSE below[s]]
  <1>4. ASSUME NEW s \in SUBSET X
        PROVE  g[s] = IF s = {} THEN 0 ELSE f[Pick(s)] + g[s \ {Pick(s)}]
   <2>1. CASE s = X
    <3>1. X # {} => Pick(X) \in X /\ X \ {Pick(X)} # X BY PickIn
    <3> QED BY <2>1, <3>1
   <2>2. CASE s # X /\ s = {}
    <3>1. G(s)[s] = 0 BY <1>3, <2>2 DEF Sums
    <3> QED BY <2>2, <3>1
   <2>3. CASE s # X /\ s # {}
    <3> DEFINE r == s \ {Pick(s)}
    <3>1. Pick(s) \in s /\ r \in SUBSET X /\ r # X /\ r \subseteq s BY <2>3, PickIn
    <3>2. IsFiniteSet(r) BY <1>2, <3>1, FS_Subset
    <3>3. G(r)[r] = G(s)[r] BY <1>3, <2>3, <3>1, <3>2, SumsAgree
    <3>4. G(s)[s] = f[Pick(s)] + G(s)[r] BY <1>3, <2>3 DEF Sums
    <3> QED BY <2>3, <3>1, <3>3, <3>4
   <2> QED BY <2>1, <2>2, <2>3
  <1>5. g = [s \in SUBSET X |-> g[s]] OBVIOUS
  <1>6. Sums(g, f, X)
   <2> HIDE DEF g
   <2> QED BY <1>4, <1>5 DEF Sums
  <1> QED BY <1>1, <1>6

(* The equations of the sum. *)
LEMMA SumUnfolds ==
    ASSUME NEW f, NEW S, IsFiniteSet(S)
    PROVE  SumOn(f, S) = IF S = {} THEN 0 ELSE f[Pick(S)] + SumOn(f, S \ {Pick(S)})
  <1> DEFINE G(s) == CHOOSE g : Sums(g, f, s)
  <1>1. ASSUME NEW s PROVE SumOn(f, s) = G(s)[s]
    BY DEF SumOn, MapThenSumSet, MapThenFoldSet, Sums, Pick
  <1>2. ASSUME NEW s \in SUBSET S PROVE Sums(G(s), f, s)
   <2>1. \E g : Sums(g, f, s) BY FS_Subset, SumsExist
   <2> QED BY <2>1
  <1> HIDE DEF G
  <1>3. CASE S = {} BY <1>1, <1>2, <1>3 DEF Sums
  <1>4. CASE S # {}
   <2> DEFINE r == S \ {Pick(S)}
   <2>1. r \subseteq S /\ IsFiniteSet(r) BY FS_Subset
   <2>2. G(r)[r] = G(S)[r] BY <1>2, <2>1, SumsAgree
   <2>3. G(S)[S] = f[Pick(S)] + G(S)[r] BY <1>2, <1>4 DEF Sums
   <2> QED BY <1>1, <1>4, <2>2, <2>3
  <1> QED BY <1>3, <1>4

----------------------------------------
(* What a sum is and how it splits. *)

(* Nothing sums up to zero. *)
LEMMA SumEmpty == \A f : SumOn(f, {}) = 0
  BY SumUnfolds, FS_EmptySet

(* A sum of integers is an integer. *)
LEMMA SumType ==
    ASSUME NEW f, NEW S, IsFiniteSet(S), \A x \in S : f[x] \in Int
    PROVE  SumOn(f, S) \in Int
  <1> DEFINE Bad == {s \in SUBSET S : SumOn(f, s) \notin Int}
  <1> SUFFICES ASSUME Bad # {} PROVE FALSE
    OBVIOUS
  <1>1. PICK X \in Bad : \A Y \in SUBSET X : Y # X => Y \notin Bad
   <2> HIDE DEF Bad
   <2>1. Bad \subseteq SUBSET S BY DEF Bad
   <2> QED BY <2>1, Smallest
  <1>2. IsFiniteSet(X) BY <1>1, FS_Subset
  <1>3. SumOn(f, X) = IF X = {} THEN 0 ELSE f[Pick(X)] + SumOn(f, X \ {Pick(X)}) BY <1>2, SumUnfolds
  <1>4. X # {} => Pick(X) \in X BY PickIn
  <1> QED BY <1>1, <1>3, <1>4

(* Any member can be taken out of the sum, not only the one the fold takes first. *)
LEMMA SumSplit ==
    ASSUME NEW f, NEW S, IsFiniteSet(S), \A x \in S : f[x] \in Int, NEW x \in S
    PROVE  SumOn(f, S) = f[x] + SumOn(f, S \ {x})
  <1> DEFINE Bad == {s \in SUBSET S : \E y \in s : SumOn(f, s) # f[y] + SumOn(f, s \ {y})}
  <1> SUFFICES ASSUME Bad # {} PROVE FALSE
    OBVIOUS
  <1>1. PICK X \in Bad : \A Y \in SUBSET X : Y # X => Y \notin Bad
   <2> HIDE DEF Bad
   <2>1. Bad \subseteq SUBSET S BY DEF Bad
   <2> QED BY <2>1, Smallest
  <1>2. PICK y \in X : SumOn(f, X) # f[y] + SumOn(f, X \ {y})
    BY <1>1
  <1> DEFINE p == Pick(X)
  <1>3. p \in X BY <1>2, PickIn
  <1>4. \A s \in SUBSET X : IsFiniteSet(s) /\ SumOn(f, s) \in Int BY <1>1, FS_Subset, SumType
  <1>5. SumOn(f, X) = f[p] + SumOn(f, X \ {p}) BY <1>3, <1>4, SumUnfolds
  <1>6. y # p BY <1>2, <1>5
  <1>7. SumOn(f, X \ {p}) = f[y] + SumOn(f, (X \ {p}) \ {y}) BY <1>1, <1>2, <1>3, <1>6
  <1>8. SumOn(f, X \ {y}) = f[p] + SumOn(f, (X \ {y}) \ {p}) BY <1>1, <1>2, <1>3, <1>6
  <1> DEFINE r == (X \ {p}) \ {y}
  <1>9. r = (X \ {y}) \ {p} /\ r \in SUBSET X OBVIOUS
  <1>10. f[p] \in Int /\ f[y] \in Int /\ SumOn(f, r) \in Int BY <1>1, <1>2, <1>3, <1>4, <1>9
  <1>11. SumOn(f, X) = f[p] + (f[y] + SumOn(f, r)) /\ SumOn(f, X \ {y}) = f[p] + SumOn(f, r)
    BY <1>5, <1>7, <1>8, <1>9
  <1> HIDE DEF p, r
  <1> QED BY <1>2, <1>10, <1>11

(* One more element adds its value. *)
LEMMA SumAdd ==
    ASSUME NEW f, NEW S, IsFiniteSet(S), NEW x, x \notin S,
           \A y \in S \cup {x} : f[y] \in Int
    PROVE  SumOn(f, S \cup {x}) = SumOn(f, S) + f[x]
  <1>1. IsFiniteSet(S \cup {x}) /\ (S \cup {x}) \ {x} = S BY FS_AddElement
  <1>2. SumOn(f, S) \in Int /\ f[x] \in Int BY SumType
  <1> DEFINE T == S \cup {x}
  <1>3. x \in T /\ T \ {x} = S /\ IsFiniteSet(T) /\ \A y \in T : f[y] \in Int BY <1>1
  <1> HIDE DEF T
  <1>4. SumOn(f, T) = f[x] + SumOn(f, S) BY <1>3, SumSplit
  <1> QED BY <1>2, <1>4 DEF T

(* A sum depends on its members only. *)
LEMMA SumSame ==
    ASSUME NEW f, NEW g, NEW S, IsFiniteSet(S), \A x \in S : f[x] = g[x]
    PROVE  SumOn(f, S) = SumOn(g, S)
  <1> DEFINE Bad == {s \in SUBSET S : SumOn(f, s) # SumOn(g, s)}
  <1> SUFFICES ASSUME Bad # {} PROVE FALSE
    OBVIOUS
  <1>1. PICK X \in Bad : \A Y \in SUBSET X : Y # X => Y \notin Bad
   <2> HIDE DEF Bad
   <2>1. Bad \subseteq SUBSET S BY DEF Bad
   <2> QED BY <2>1, Smallest
  <1>2. IsFiniteSet(X) BY <1>1, FS_Subset
  <1>3. X # {} => Pick(X) \in X BY PickIn
  <1>4. SumOn(f, X) = IF X = {} THEN 0 ELSE f[Pick(X)] + SumOn(f, X \ {Pick(X)}) BY <1>2, SumUnfolds
  <1>5. SumOn(g, X) = IF X = {} THEN 0 ELSE g[Pick(X)] + SumOn(g, X \ {Pick(X)}) BY <1>2, SumUnfolds
  <1> QED BY <1>1, <1>3, <1>4, <1>5

(* A sum follows the change of one member. *)
LEMMA SumChange ==
    ASSUME NEW f, NEW g, NEW S, IsFiniteSet(S), NEW x \in S,
           \A y \in S : f[y] \in Int /\ g[y] \in Int,
           \A y \in S \ {x} : g[y] = f[y]
    PROVE  SumOn(g, S) = SumOn(f, S) + (g[x] - f[x])
  <1>1. IsFiniteSet(S \ {x}) BY FS_RemoveElement
  <1>2. SumOn(f, S \ {x}) = SumOn(g, S \ {x}) BY <1>1, SumSame
  <1>3. SumOn(f, S) = f[x] + SumOn(f, S \ {x}) /\ SumOn(g, S) = g[x] + SumOn(g, S \ {x}) BY SumSplit
  <1>4. SumOn(f, S \ {x}) \in Int /\ f[x] \in Int /\ g[x] \in Int BY <1>1, SumType
  <1> QED BY <1>2, <1>3, <1>4

(* A sum of zeros is zero. *)
LEMMA SumZero ==
    ASSUME NEW f, NEW S, IsFiniteSet(S), \A x \in S : f[x] = 0
    PROVE  SumOn(f, S) = 0
  <1> DEFINE Bad == {s \in SUBSET S : SumOn(f, s) # 0}
  <1> SUFFICES ASSUME Bad # {} PROVE FALSE
    OBVIOUS
  <1>1. PICK X \in Bad : \A Y \in SUBSET X : Y # X => Y \notin Bad
   <2> HIDE DEF Bad
   <2>1. Bad \subseteq SUBSET S BY DEF Bad
   <2> QED BY <2>1, Smallest
  <1>2. X # {} => Pick(X) \in X BY PickIn
  <1>3. SumOn(f, X) = IF X = {} THEN 0 ELSE f[Pick(X)] + SumOn(f, X \ {Pick(X)})
    BY <1>1, FS_Subset, SumUnfolds
  <1> QED BY <1>1, <1>2, <1>3

(* A sum of naturals is a natural that no member exceeds. *)
LEMMA SumNat ==
    ASSUME NEW f, NEW S, IsFiniteSet(S), \A x \in S : f[x] \in Nat
    PROVE  /\ SumOn(f, S) \in Nat
           /\ \A x \in S : f[x] <= SumOn(f, S)
  <1>1. \A s \in SUBSET S : SumOn(f, s) \in Nat
   <2> DEFINE Bad == {s \in SUBSET S : SumOn(f, s) \notin Nat}
   <2> SUFFICES ASSUME Bad # {} PROVE FALSE
     OBVIOUS
   <2>1. PICK X \in Bad : \A Y \in SUBSET X : Y # X => Y \notin Bad
    <3> HIDE DEF Bad
    <3>1. Bad \subseteq SUBSET S BY DEF Bad
    <3> QED BY <3>1, Smallest
   <2>2. X # {} => Pick(X) \in X BY PickIn
   <2>3. SumOn(f, X) = IF X = {} THEN 0 ELSE f[Pick(X)] + SumOn(f, X \ {Pick(X)})
     BY <2>1, FS_Subset, SumUnfolds
   <2> QED BY <2>1, <2>2, <2>3
  <1>2. ASSUME NEW x \in S PROVE f[x] <= SumOn(f, S)
   <2>1. SumOn(f, S) = f[x] + SumOn(f, S \ {x}) BY SumSplit
   <2>2. f[x] \in Nat /\ SumOn(f, S \ {x}) \in Nat BY <1>1
   <2> QED BY <2>1, <2>2
  <1> QED BY <1>1, <1>2

(* The sum over two parts. *)
LEMMA SumParts ==
    ASSUME NEW f, NEW A, NEW B, IsFiniteSet(A), IsFiniteSet(B), A \cap B = {},
           \A x \in A \cup B : f[x] \in Int
    PROVE  SumOn(f, A \cup B) = SumOn(f, A) + SumOn(f, B)
  <1> DEFINE a == SumOn(f, A)
             Bad == {X \in SUBSET B : SumOn(f, A \cup X) # a + SumOn(f, X)}
  <1>0. a \in Int BY SumType
  <1> HIDE DEF a
  <1> SUFFICES ASSUME Bad # {} PROVE FALSE
   <2>1. B \notin Bad => SumOn(f, A \cup B) = a + SumOn(f, B) OBVIOUS
   <2> QED BY <2>1 DEF a
  <1>1. PICK X \in Bad : \A Y \in SUBSET X : Y # X => Y \notin Bad
   <2>1. Bad \subseteq SUBSET B OBVIOUS
   <2> HIDE DEF Bad
   <2> QED BY <2>1, Smallest
  <1>2. X \in SUBSET B /\ SumOn(f, A \cup X) # a + SumOn(f, X) /\ IsFiniteSet(X) BY <1>1, FS_Subset
  <1>3. X # {}
   <2>1. A \cup {} = A /\ SumOn(f, {}) = 0 BY SumEmpty
   <2>2. SumOn(f, A \cup {}) = a + SumOn(f, {}) BY <1>0, <2>1 DEF a
   <2> QED BY <1>2, <2>2
  <1>4. PICK x \in X : TRUE
    BY <1>3
  <1> DEFINE Y == X \ {x}
  <1>5. Y \in SUBSET X /\ Y # X /\ Y \in SUBSET B /\ IsFiniteSet(Y) /\ IsFiniteSet(A \cup X) /\ IsFiniteSet(A \cup Y)
    BY <1>2, FS_Subset, FS_Union
  <1>6. SumOn(f, A \cup Y) = a + SumOn(f, Y) BY <1>1, <1>5
  <1>7. x \in A \cup X /\ (A \cup X) \ {x} = A \cup Y BY <1>2
  <1>8. (\A y \in A \cup X : f[y] \in Int) /\ \A y \in X : f[y] \in Int BY <1>2
  <1>9. Y = X \ {x} /\ f[x] \in Int BY <1>7, <1>8
  <1> HIDE DEF Bad, Y
  <1>10. SumOn(f, A \cup X) = f[x] + SumOn(f, A \cup Y)
   <2>1. SumOn(f, A \cup X) = f[x] + SumOn(f, (A \cup X) \ {x}) BY <1>5, <1>7, <1>8, SumSplit
   <2> QED BY <1>7, <2>1
  <1>11. SumOn(f, X) = f[x] + SumOn(f, Y)
   <2>1. SumOn(f, X) = f[x] + SumOn(f, X \ {x}) BY <1>2, <1>4, <1>8, SumSplit
   <2> QED BY <1>9, <2>1
  <1>12. SumOn(f, Y) \in Int BY <1>5, <1>8, SumType
  <1> QED BY <1>0, <1>2, <1>6, <1>9, <1>10, <1>11, <1>12

(* The sum of a pointwise sum. *)
LEMMA SumPlus ==
    ASSUME NEW f, NEW g, NEW h, NEW S, IsFiniteSet(S),
           \A x \in S : f[x] \in Int /\ g[x] \in Int /\ h[x] = f[x] + g[x]
    PROVE  SumOn(h, S) = SumOn(f, S) + SumOn(g, S)
  <1> DEFINE Bad == {s \in SUBSET S : SumOn(h, s) # SumOn(f, s) + SumOn(g, s)}
  <1> SUFFICES ASSUME Bad # {} PROVE FALSE
    OBVIOUS
  <1>1. PICK X \in Bad : \A Y \in SUBSET X : Y # X => Y \notin Bad
   <2> HIDE DEF Bad
   <2>1. Bad \subseteq SUBSET S BY DEF Bad
   <2> QED BY <2>1, Smallest
  <1>2. X # {}
   <2>1. SumOn(f, {}) = 0 /\ SumOn(g, {}) = 0 /\ SumOn(h, {}) = 0 BY SumEmpty
   <2>2. {} \notin Bad BY <2>1
   <2> QED BY <2>2
  <1> DEFINE p == Pick(X)
             r == X \ {p}
  <1>3. p \in X /\ r \in SUBSET X /\ r # X BY <1>2, PickIn
  <1>4. IsFiniteSet(X) /\ IsFiniteSet(r) BY <1>1, <1>3, FS_Subset
  <1>5. /\ SumOn(f, X) = f[p] + SumOn(f, r)
        /\ SumOn(g, X) = g[p] + SumOn(g, r)
        /\ SumOn(h, X) = h[p] + SumOn(h, r)
    BY <1>2, <1>4, SumUnfolds
  <1>6. SumOn(h, r) = SumOn(f, r) + SumOn(g, r) BY <1>1, <1>3
  <1>7. SumOn(f, r) \in Int /\ SumOn(g, r) \in Int BY <1>1, <1>3, <1>4, SumType
  <1>8. f[p] \in Int /\ g[p] \in Int /\ h[p] = f[p] + g[p] BY <1>1, <1>3
  <1>9. SumOn(h, X) # SumOn(f, X) + SumOn(g, X) BY <1>1
  <1> HIDE DEF p, r
  <1> QED BY <1>5, <1>6, <1>7, <1>8, <1>9

(* A sum of naturals over part of a set is at most the sum over the set. *)
LEMMA SumOfPart ==
    ASSUME NEW f, NEW S, IsFiniteSet(S), \A x \in S : f[x] \in Nat, NEW A \in SUBSET S
    PROVE  SumOn(f, A) <= SumOn(f, S)
  <1> DEFINE Bad == {s \in SUBSET S : ~(SumOn(f, s \cap A) <= SumOn(f, s))}
  <1>1. Bad = {}
   <2> SUFFICES ASSUME Bad # {} PROVE FALSE
     OBVIOUS
   <2>1. PICK X \in Bad : \A Y \in SUBSET X : Y # X => Y \notin Bad
    <3>1. Bad \subseteq SUBSET S OBVIOUS
    <3> HIDE DEF Bad
    <3> QED BY <3>1, Smallest
   <2>2. X \in SUBSET S /\ ~(SumOn(f, X \cap A) <= SumOn(f, X)) BY <2>1
   <2>3. X # {} BY <2>2, SumEmpty
   <2>4. PICK x \in X : TRUE
     BY <2>3
   <2> DEFINE Y == X \ {x}
   <2>5. SumOn(f, Y \cap A) <= SumOn(f, Y) BY <2>1, <2>2, <2>4
   <2>6. IsFiniteSet(X) /\ IsFiniteSet(X \cap A) /\ IsFiniteSet(Y) /\ IsFiniteSet(Y \cap A)
     BY <2>2, FS_Subset
   <2>7. \A z \in X : f[z] \in Nat /\ f[z] \in Int BY <2>2
   <2>8. SumOn(f, X) = f[x] + SumOn(f, Y) BY <2>4, <2>6, <2>7, SumSplit
   <2>9. SumOn(f, Y) \in Int /\ SumOn(f, Y \cap A) \in Int BY <2>6, <2>7, SumType
   <2>10. CASE x \in A
    <3>1. (X \cap A) \ {x} = Y \cap A /\ x \in X \cap A BY <2>4, <2>10
    <3>2. SumOn(f, X \cap A) = f[x] + SumOn(f, Y \cap A) BY <3>1, <2>6, <2>7, SumSplit
    <3> QED BY <2>2, <2>4, <2>5, <2>7, <2>8, <2>9, <3>2
   <2>11. CASE x \notin A
    <3>1. X \cap A = Y \cap A BY <2>11
    <3>2. SumOn(f, X \cap A) = SumOn(f, Y \cap A) BY <3>1, Zenon
    <3>3. f[x] \in Nat BY <2>4, <2>7
    <3> QED BY <2>2, <2>5, <2>8, <2>9, <3>2, <3>3
   <2> QED BY <2>10, <2>11
  <1>2. SumOn(f, S \cap A) <= SumOn(f, S) BY <1>1
  <1> QED BY <1>2, Zenon

(* Sums are ordered as their summands are. *)
LEMMA SumMore ==
    ASSUME NEW f, NEW g, NEW S, IsFiniteSet(S),
           \A x \in S : f[x] \in Int /\ g[x] \in Int /\ f[x] <= g[x]
    PROVE  SumOn(f, S) <= SumOn(g, S)
  <1> DEFINE d == [x \in S |-> g[x] - f[x]]
  <1>1. \A x \in S : d[x] \in Nat /\ d[x] \in Int /\ g[x] = f[x] + d[x] OBVIOUS
  <1> HIDE DEF d
  <1>2. SumOn(g, S) = SumOn(f, S) + SumOn(d, S) BY <1>1, SumPlus
  <1>3. SumOn(d, S) \in Nat BY <1>1, SumNat
  <1>4. SumOn(f, S) \in Int BY SumType
  <1> QED BY <1>2, <1>3, <1>4

(* A factor of the summands is a factor of the sum. *)
LEMMA SumScale ==
    ASSUME NEW f, NEW g, NEW S, NEW c \in Int, IsFiniteSet(S),
           \A x \in S : f[x] \in Int /\ g[x] = c * f[x]
    PROVE  SumOn(g, S) = c * SumOn(f, S)
  <1> DEFINE Bad == {s \in SUBSET S : SumOn(g, s) # c * SumOn(f, s)}
  <1> SUFFICES ASSUME Bad # {} PROVE FALSE
    OBVIOUS
  <1>1. PICK X \in Bad : \A Y \in SUBSET X : Y # X => Y \notin Bad
   <2> HIDE DEF Bad
   <2>1. Bad \subseteq SUBSET S BY DEF Bad
   <2> QED BY <2>1, Smallest
  <1>2. X # {}
   <2>1. SumOn(f, {}) = 0 /\ SumOn(g, {}) = 0 BY SumEmpty
   <2>2. c * 0 = 0 OBVIOUS
   <2>3. {} \notin Bad BY <2>1, <2>2
   <2> QED BY <2>3
  <1> DEFINE p == Pick(X)
             r == X \ {p}
  <1>3. p \in X /\ r \in SUBSET X /\ r # X BY <1>2, PickIn
  <1>4. IsFiniteSet(X) /\ IsFiniteSet(r) BY <1>1, <1>3, FS_Subset
  <1>5. /\ SumOn(f, X) = f[p] + SumOn(f, r)
        /\ SumOn(g, X) = g[p] + SumOn(g, r)
    BY <1>2, <1>4, SumUnfolds
  <1>6. SumOn(g, r) = c * SumOn(f, r) BY <1>1, <1>3
  <1>7. SumOn(f, r) \in Int BY <1>1, <1>3, <1>4, SumType
  <1>8. f[p] \in Int /\ g[p] = c * f[p] BY <1>1, <1>3
  <1>9. SumOn(g, X) # c * SumOn(f, X) BY <1>1
  <1> DEFINE a == f[p]
             b == SumOn(f, r)
  <1>10. c * (a + b) = c * a + c * b BY <1>7, <1>8
  <1> HIDE DEF p, r
  <1> QED BY <1>5, <1>6, <1>8, <1>9, <1>10

----------------------------------------
(* Least numbers and last elements. *)

(* A set of naturals that is not empty has a least element. *)
LEMMA LeastNatural ==
    ASSUME NEW B, B \subseteq Nat, B # {}
    PROVE  \E m \in B : \A k \in B : m <= k
  <1>1. PICK n \in B : TRUE
    OBVIOUS
  <1> DEFINE T == {0..i : i \in {j \in B : j <= n}}
  <1>2. T \subseteq SUBSET (0..n) /\ T # {} /\ IsFiniteSet(0..n)
   <2>1. 0..n \in T BY <1>1
   <2>2. \A i \in B : i <= n => 0..i \subseteq 0..n BY <1>1
   <2>3. T \subseteq SUBSET (0..n) BY <2>2
   <2>4. IsFiniteSet(0..n) BY <1>1, FS_Interval
   <2> HIDE DEF T
   <2> QED BY <2>1, <2>3, <2>4
  <1>3. PICK X \in T : \A Y \in SUBSET X : Y # X => Y \notin T
   <2> HIDE DEF T
   <2> QED BY <1>2, Smallest
  <1>4. PICK m \in B : m <= n /\ X = 0..m
    BY <1>3
  <1>5. ASSUME NEW k \in B, k < m
        PROVE  FALSE
   <2>1. 0..k \in T /\ 0..k \subseteq 0..m /\ m \notin 0..k /\ m \in 0..m BY <1>1, <1>4, <1>5
   <2> QED BY <2>1, <1>3, <1>4
  <1> QED BY <1>4, <1>5

(* A finite set that is not empty has an element that R puts before no other. *)
LEMMA LastElement ==
    ASSUME NEW R, NEW A, IsFiniteSet(A), A # {},
           \A i \in A : <<i, i>> \notin R,
           \A i, j, k \in A : <<i, j>> \in R /\ <<j, k>> \in R => <<i, k>> \in R
    PROVE  \E m \in A : \A i \in A : <<m, i>> \notin R
  <1> DEFINE After(i) == {j \in A : <<i, j>> \in R}
             T == {After(i) : i \in A}
  <1>1. T \subseteq SUBSET A /\ T # {}
   <2>1. \A i \in A : After(i) \in SUBSET A /\ After(i) \in T OBVIOUS
   <2>2. T \subseteq SUBSET A OBVIOUS
   <2> QED BY <2>1, <2>2
  <1>2. PICK X \in T : \A Y \in SUBSET X : Y # X => Y \notin T
   <2> HIDE DEF T
   <2> QED BY <1>1, Smallest
  <1>3. PICK m \in A : X = After(m)
    BY <1>2
  <1>4. ASSUME NEW i \in A, <<m, i>> \in R
        PROVE  FALSE
   <2>1. After(i) \subseteq After(m) /\ i \in After(m) /\ i \notin After(i) /\ After(i) \in T
     BY <1>4
   <2> QED BY <2>1, <1>2, <1>3
  <1> QED BY <1>4

(* Finitely many natural values have a greatest one. *)
LEMMA GreatestAt ==
    ASSUME NEW v, NEW A, IsFiniteSet(A), A # {}, \A i \in A : v[i] \in Nat
    PROVE  \E m \in A : \A i \in A : v[i] <= v[m]
  <1> DEFINE R == {p \in A \X A : v[p[1]] < v[p[2]]}
  <1>1. \A i, j \in A : <<i, j>> \in R <=> v[i] < v[j] OBVIOUS
  <1> HIDE DEF R
  <1>2. \A i \in A : <<i, i>> \notin R BY <1>1
  <1>3. \A i, j, k \in A : <<i, j>> \in R /\ <<j, k>> \in R => <<i, k>> \in R BY <1>1
  <1>4. PICK m \in A : \A i \in A : <<m, i>> \notin R
    BY <1>2, <1>3, LastElement
  <1>5. \A i \in A : ~(v[m] < v[i]) BY <1>1, <1>4
  <1> QED BY <1>5

(* A set of positions of a sequence has a last one. *)
LEMMA LastPosition ==
    ASSUME NEW n \in Nat, NEW A, A \subseteq 1..n, A # {}
    PROVE  \E m \in A : \A i \in A : i <= m
  <1> DEFINE v == [i \in A |-> i]
  <1>1. IsFiniteSet(A)
   <2>1. IsFiniteSet(1..n) BY 1 \in Int, n \in Int, FS_Interval
   <2> QED BY <2>1, FS_Subset
  <1>2. \A i \in A : v[i] = i /\ v[i] \in Nat OBVIOUS
  <1> HIDE DEF v
  <1>3. PICK m \in A : \A i \in A : v[i] <= v[m]
    BY <1>1, <1>2, GreatestAt
  <1> QED BY <1>2, <1>3

----------------------------------------
(* Places in an order. *)

\* How many of S come before x in the order R.
RankIn(R, S, x) == Cardinality({y \in S : <<y, x>> \in R})

\* R orders S strictly.
StrictlyOrders(R, S) ==
    /\ \A x \in S : <<x, x>> \notin R
    /\ \A x, y, z \in S : <<x, y>> \in R /\ <<y, z>> \in R => <<x, z>> \in R
    /\ \A x, y \in S : x = y \/ <<x, y>> \in R \/ <<y, x>> \in R

(* In a strict order of a finite set every element has a rank of its own, and every rank
   below the size of the set is taken. *)
LEMMA PlacesInOrder ==
    ASSUME NEW S, IsFiniteSet(S), NEW R, StrictlyOrders(R, S)
    PROVE  /\ Cardinality(S) \in Nat
           /\ \A x \in S : RankIn(R, S, x) \in Nat /\ RankIn(R, S, x) < Cardinality(S)
           /\ \A x, y \in S : <<x, y>> \in R => RankIn(R, S, x) < RankIn(R, S, y)
           /\ \A x, y \in S : RankIn(R, S, x) = RankIn(R, S, y) => x = y
           /\ \A i \in Nat : i < Cardinality(S) => \E x \in S : RankIn(R, S, x) = i
  <1> DEFINE B(x) == {y \in S : <<y, x>> \in R}
             n == Cardinality(S)
  <1>7. /\ \A x \in S : <<x, x>> \notin R
        /\ \A x, y, z \in S : <<x, y>> \in R /\ <<y, z>> \in R => <<x, z>> \in R
        /\ \A x, y \in S : x = y \/ <<x, y>> \in R \/ <<y, x>> \in R
    BY DEF StrictlyOrders
  <1>1. n \in Nat BY FS_CardinalityType
  <1>2. ASSUME NEW x \in S
        PROVE  IsFiniteSet(B(x)) /\ Cardinality(B(x)) \in Nat /\ Cardinality(B(x)) < n
   <2>1. B(x) \in SUBSET (S \ {x}) /\ B(x) \in SUBSET S BY <1>7
   <2>2. IsFiniteSet(S \ {x}) /\ Cardinality(S \ {x}) = n - 1 BY FS_RemoveElement
   <2> HIDE DEF B
   <2>3. IsFiniteSet(B(x)) /\ Cardinality(B(x)) <= Cardinality(S \ {x}) BY <2>1, <2>2, FS_Subset
   <2>4. Cardinality(B(x)) \in Nat BY <2>3, FS_CardinalityType
   <2> QED BY <1>1, <2>2, <2>3, <2>4
  <1>3. ASSUME NEW x \in S, NEW y \in S, <<x, y>> \in R
        PROVE  Cardinality(B(x)) < Cardinality(B(y))
   <2>1. B(x) \cup {x} \in SUBSET B(y) /\ x \notin B(x) BY <1>3, <1>7
   <2> HIDE DEF B
   <2>2. Cardinality(B(x) \cup {x}) = Cardinality(B(x)) + 1 BY <1>2, <2>1, FS_AddElement
   <2>3. Cardinality(B(x) \cup {x}) <= Cardinality(B(y)) BY <1>2, <2>1, FS_Subset
   <2> QED BY <1>2, <2>2, <2>3
  <1>4. \A x \in S : RankIn(R, S, x) = Cardinality(B(x)) BY DEF RankIn
  <1> HIDE DEF B
  <1>5. ASSUME NEW x \in S, NEW y \in S, Cardinality(B(x)) = Cardinality(B(y))
        PROVE  x = y
   <2>1. ~(Cardinality(B(x)) < Cardinality(B(y))) /\ ~(Cardinality(B(y)) < Cardinality(B(x)))
     BY <1>2, <1>5
   <2> QED BY <1>3, <1>7, <2>1
  <1>6. ASSUME NEW i \in Nat, i < n
        PROVE  \E x \in S : Cardinality(B(x)) = i
   <2> DEFINE f == [x \in S |-> Cardinality(B(x))]
              T == 0..(n - 1)
   <2>1. IsFiniteSet(T) /\ Cardinality(T) = n
    <3>1. n - 1 \in Int /\ 0 \in Int BY <1>1
    <3>2. IsFiniteSet(0..(n - 1)) /\ Cardinality(0..(n - 1)) = IF 0 > n - 1 THEN 0 ELSE (n - 1) - 0 + 1
      BY <3>1, FS_Interval
    <3> QED BY <1>1, <1>6, <3>2
   <2>2. \A x \in S : f[x] \in T BY <1>1, <1>2
   <2>3. f \in [S -> T] BY <2>2
   <2>4. \A x, y \in S : f[x] = f[y] => x = y BY <1>5
   <2> HIDE DEF T
   <2>5. f \in Injection(S, T) BY <2>3, <2>4 DEF Injection, IsInjective
   <2>6. f \in Surjection(S, T)
    <3> HIDE DEF f
    <3> QED BY <2>1, <2>5, FS_Injection
   <2>7. i \in T BY <1>1, <1>6 DEF T
   <2> QED BY <2>6, <2>7 DEF Surjection
  <1> QED BY <1>1, <1>2, <1>3, <1>4, <1>5, <1>6

(* Counting by kind counts everything that has one of the kinds. *)
LEMMA CountByKind ==
    ASSUME NEW S, IsFiniteSet(S), NEW K, IsFiniteSet(K), NEW kind
    PROVE  SumOn([k \in K |-> Cardinality({x \in S : kind[x] = k})], K) = Cardinality({x \in S : kind[x] \in K})
  <1> DEFINE C(k) == {x \in S : kind[x] = k}
             U(A) == {x \in S : kind[x] \in A}
             f == [k \in K |-> Cardinality(C(k))]
             Bad == {A \in SUBSET K : SumOn(f, A) # Cardinality(U(A))}
  <1>1. \A k : IsFiniteSet(C(k)) /\ Cardinality(C(k)) \in Nat BY FS_Subset, FS_CardinalityType
  <1>2. \A A : IsFiniteSet(U(A)) /\ Cardinality(U(A)) \in Nat BY FS_Subset, FS_CardinalityType
  <1>3. U({}) = {} OBVIOUS
  <1>4. ASSUME NEW A \in SUBSET K, NEW k \in A
        PROVE  U(A) = U(A \ {k}) \cup C(k) /\ U(A \ {k}) \cap C(k) = {}
    OBVIOUS
  <1>5. \A k \in K : f[k] = Cardinality(C(k)) /\ f[k] \in Int BY <1>1
  <1> HIDE DEF C, U, f
  <1> SUFFICES ASSUME Bad # {} PROVE FALSE
   <2>1. SumOn(f, K) = Cardinality(U(K)) OBVIOUS
   <2> QED BY <2>1 DEF f, U, C
  <1>6. PICK X \in Bad : \A Y \in SUBSET X : Y # X => Y \notin Bad
   <2>1. Bad \subseteq SUBSET K OBVIOUS
   <2> HIDE DEF Bad
   <2> QED BY <2>1, Smallest
  <1>7. X \in SUBSET K /\ SumOn(f, X) # Cardinality(U(X)) /\ IsFiniteSet(X) BY <1>6, FS_Subset
  <1>8. X # {}
   <2>1. SumOn(f, {}) = 0 /\ Cardinality({}) = 0 BY SumEmpty, FS_EmptySet
   <2> QED BY <1>3, <1>7, <2>1
  <1>9. PICK k \in X : TRUE
    BY <1>8
  <1>10. SumOn(f, X \ {k}) = Cardinality(U(X \ {k}))
   <2>1. X \ {k} \in SUBSET X /\ X \ {k} # X /\ X \ {k} \in SUBSET K BY <1>7
   <2> QED BY <1>6, <2>1
  <1>11. \A y \in X : f[y] \in Int BY <1>5, <1>7
  <1> HIDE DEF Bad
  <1>12. SumOn(f, X) = f[k] + SumOn(f, X \ {k}) BY <1>7, <1>11, SumSplit
  <1>13. Cardinality(U(X)) = Cardinality(U(X \ {k})) + Cardinality(C(k))
   <2>1. U(X) = U(X \ {k}) \cup C(k) /\ U(X \ {k}) \cap C(k) = {} BY <1>4, <1>7
   <2>2. Cardinality(U(X \ {k}) \cup C(k))
           = Cardinality(U(X \ {k})) + Cardinality(C(k)) - Cardinality(U(X \ {k}) \cap C(k))
     BY <1>1, <1>2, FS_Union
   <2>3. Cardinality({}) = 0 BY FS_EmptySet
   <2>4. Cardinality(C(k)) \in Nat /\ Cardinality(U(X \ {k})) \in Nat BY <1>1, <1>2
   <2>5. Cardinality(U(X)) = Cardinality(U(X \ {k})) + Cardinality(C(k)) - Cardinality({})
     BY <2>1, <2>2
   <2> QED BY <2>3, <2>4, <2>5
  <1> QED BY <1>1, <1>2, <1>5, <1>7, <1>10, <1>12, <1>13

\* Each element of S has a rank of its own, and every rank below the size is taken.
FillsPlaces(R, S) ==
    /\ Cardinality(S) \in Nat
    /\ \A x \in S : RankIn(R, S, x) \in Nat /\ RankIn(R, S, x) < Cardinality(S)
    /\ \A x, y \in S : <<x, y>> \in R => RankIn(R, S, x) < RankIn(R, S, y)
    /\ \A x, y \in S : RankIn(R, S, x) = RankIn(R, S, y) => x = y
    /\ \A i \in Nat : i < Cardinality(S) => \E x \in S : RankIn(R, S, x) = i

(* The same under one name. *)
LEMMA OrderedIsRanked ==
    ASSUME NEW S, IsFiniteSet(S), NEW R, StrictlyOrders(R, S)
    PROVE  FillsPlaces(R, S)
  BY PlacesInOrder DEF FillsPlaces
=============================================================================
