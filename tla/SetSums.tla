------------------------------- MODULE SetSums -------------------------------
(***************************************************************************)
(* Sums over finite sets. A fold over a set is a recursion along CHOOSE,   *)
(* about which nothing can be proved by cases. For numbers that are not    *)
(* negative, the sum of F over S is also the number of coins on a table    *)
(* where each x of S has F[x] of them, and coins are counted by            *)
(* Cardinality, whose laws are theorems (Weight); a sum of integers is     *)
(* what lies above zero less what lies below (Net). SumIsNet ties Net to   *)
(* the fold; the other lemmas are what a sum is used for.                  *)
(***************************************************************************)
EXTENDS Integers, FiniteSets, FiniteSetTheorems, WellFoundedInduction, TLAPS

-----------------------------------------------------------------------------
(* Induction over finite sets                                                *)

LEMMA LeastNat ==
    ASSUME NEW S \in SUBSET Nat, S # {}
    PROVE  \E m \in S : \A k \in S : m <= k
<1>1. PICK m \in S : \A k \in S : <<k, m>> \notin OpToRel(<, Nat)
  BY NatLessThanWellFounded, WFMin
<1>2. \A k \in S : ~(k < m)
  BY <1>1 DEF OpToRel
<1> QED BY <1>2

LEMMA SetInduction ==
    ASSUME NEW S, IsFiniteSet(S), NEW T,
           \A s \in SUBSET S : (\A x \in s : s \ {x} \in T) => s \in T
    PROVE  S \in T
<1> SUFFICES ASSUME S \notin T PROVE FALSE
  OBVIOUS
<1> DEFINE bad == {Cardinality(s) : s \in {r \in SUBSET S : r \notin T}}
<1>1. \A s \in SUBSET S : IsFiniteSet(s) /\ Cardinality(s) \in Nat
  BY FS_Subset, FS_CardinalityType
<1>2. bad \in SUBSET Nat /\ bad # {}
  BY <1>1
<1>3. PICK m \in bad : \A k \in bad : m <= k
  <2> HIDE DEF bad
  <2> QED BY <1>2, LeastNat
<1>4. PICK s \in SUBSET S : s \notin T /\ m = Cardinality(s)
  OBVIOUS
<1>5. PICK x \in s : s \ {x} \notin T
  BY <1>4
<1>6. Cardinality(s \ {x}) = m - 1
  BY <1>1, <1>4, FS_RemoveElement
<1>7. Cardinality(s \ {x}) \in bad
  BY <1>5
<1> HIDE DEF bad
<1> QED BY <1>1, <1>3, <1>4, <1>6, <1>7

-----------------------------------------------------------------------------
(* Sums.  The sum of F over a set is the number of coins when x holds F[x]   *)
(* of them; it solves the recursion of the folds, and only it does.          *)

Coins(F, S) == UNION {{x} \X (1..F[x]) : x \in S}
Weight(F, S) == Cardinality(Coins(F, S))

LEMMA Purse ==
    ASSUME NEW x, NEW n \in Nat
    PROVE  IsFiniteSet({x} \X (1..n)) /\ Cardinality({x} \X (1..n)) = n
<1> DEFINE P == {x} \X (1..n)
           f == [k \in 1..n |-> <<x, k>>]
<1>1. f \in Bijection(1..n, P)
  BY DEF Bijection, Injection, IsInjective, Surjection
<1>2. IsFiniteSet(1..n) /\ Cardinality(1..n) = n
  BY FS_Interval
<1>3. ExistsBijection(1..n, P)
  BY <1>1 DEF ExistsBijection
<1> HIDE DEF P
<1>4. IsFiniteSet(P) /\ Cardinality(P) = n
  BY <1>2, <1>3, FS_Bijection
<1> QED BY <1>4 DEF P

LEMMA WeightStep ==
    ASSUME NEW S, NEW F \in [S -> Nat], NEW s \in SUBSET S, NEW x \in s,
           IsFiniteSet(Coins(F, s \ {x}))
    PROVE  IsFiniteSet(Coins(F, s)) /\ Weight(F, s) = F[x] + Weight(F, s \ {x})
<1> DEFINE C == Coins(F, s \ {x})
           P == {x} \X (1..F[x])
<1>1. F[x] \in Nat
  OBVIOUS
<1>2. IsFiniteSet(P) /\ Cardinality(P) = F[x]
  BY <1>1, Purse
<1>3. Coins(F, s) = P \cup C /\ P \cap C = {}
  BY DEF Coins
<1>4. Cardinality(C) \in Nat
  BY FS_CardinalityType
<1> HIDE DEF C, P
<1>5. /\ IsFiniteSet(P \cup C)
      /\ Cardinality(P \cup C) = Cardinality(P) + Cardinality(C) - Cardinality(P \cap C)
  BY <1>2, FS_Union DEF C
<1>6. Cardinality(P \cap C) = 0
  BY <1>3, FS_EmptySet
<1> QED BY <1>1, <1>2, <1>3, <1>4, <1>5, <1>6 DEF C, Weight

LEMMA NoWeight ==
    ASSUME NEW F
    PROVE  IsFiniteSet(Coins(F, {})) /\ Weight(F, {}) = 0
<1>1. Coins(F, {}) = {}
  BY DEF Coins
<1> QED BY <1>1, FS_EmptySet DEF Weight

LEMMA FiniteWeight ==
    ASSUME NEW D, NEW F \in [D -> Nat], NEW S \in SUBSET D, IsFiniteSet(S)
    PROVE  IsFiniteSet(Coins(F, S)) /\ Weight(F, S) \in Nat
<1> DEFINE T == {s \in SUBSET S : IsFiniteSet(Coins(F, s))}
<1>1. ASSUME NEW s \in SUBSET S, \A x \in s : s \ {x} \in T
      PROVE  s \in T
  <2>1. CASE s = {}
    BY <2>1, NoWeight
  <2>2. CASE s # {}
    <3>1. PICK x \in s : TRUE
      BY <2>2
    <3>2. s \in SUBSET D /\ IsFiniteSet(Coins(F, s \ {x}))
      BY <1>1, <3>1
    <3>3. IsFiniteSet(Coins(F, s))
      BY <3>1, <3>2, WeightStep
    <3> QED BY <3>3
  <2> QED BY <2>1, <2>2
<1> HIDE DEF T
<1>2. S \in T
  BY <1>1, SetInduction
<1> QED BY <1>2, FS_CardinalityType DEF T, Weight

LEMMA WeightSame ==
    ASSUME NEW F, NEW G, NEW S, \A x \in S : F[x] = G[x]
    PROVE  Weight(F, S) = Weight(G, S)
<1>1. Coins(F, S) = Coins(G, S)
  BY DEF Coins
<1> QED BY <1>1 DEF Weight

LEMMA WeightUnion ==
    ASSUME NEW D, NEW F \in [D -> Nat], NEW S \in SUBSET D, NEW T \in SUBSET D,
           IsFiniteSet(S), IsFiniteSet(T), S \cap T = {}
    PROVE  Weight(F, S \cup T) = Weight(F, S) + Weight(F, T)
<1> DEFINE A == Coins(F, S)
           B == Coins(F, T)
<1>1. Coins(F, S \cup T) = A \cup B /\ A \cap B = {}
  BY DEF Coins
<1>2. IsFiniteSet(A) /\ IsFiniteSet(B) /\ Cardinality(A) \in Nat /\ Cardinality(B) \in Nat
  BY FiniteWeight DEF Weight
<1>3. Weight(F, S) = Cardinality(A) /\ Weight(F, T) = Cardinality(B)
  BY DEF Weight
<1>4. Weight(F, S \cup T) = Cardinality(A \cup B)
  BY <1>1 DEF Weight
<1> HIDE DEF A, B
<1>5. Cardinality(A \cup B) = Cardinality(A) + Cardinality(B) - Cardinality(A \cap B)
  BY <1>2, FS_Union
<1>6. Cardinality(A \cap B) = 0
  BY <1>1, FS_EmptySet
<1> QED BY <1>2, <1>3, <1>4, <1>5, <1>6

\* The sum of one function more.
LEMMA WeightAdd ==
    ASSUME NEW D, NEW F \in [D -> Nat], NEW s \in SUBSET D, IsFiniteSet(s), NEW x \in s
    PROVE  Weight(F, s) = F[x] + Weight(F, s \ {x}) /\ Weight(F, s \ {x}) \in Nat
<1>1. IsFiniteSet(s \ {x}) /\ s \ {x} \in SUBSET D
  BY FS_Subset
<1>2. IsFiniteSet(Coins(F, s \ {x})) /\ Weight(F, s \ {x}) \in Nat
  BY <1>1, FiniteWeight
<1> QED BY <1>2, WeightStep

-----------------------------------------------------------------------------
(* Intervals that do not overlap, between two numbers, have no more room     *)
(* together than there is between them.                                      *)

Units(lo, hi, S) == UNION {lo[x] .. (hi[x] - 1) : x \in S}

LEMMA WeightRoom ==
    ASSUME NEW D, NEW lo \in [D -> Nat], NEW hi \in [D -> Nat], NEW F \in [D -> Nat],
           NEW S \in SUBSET D, IsFiniteSet(S),
           NEW a \in Nat, NEW b \in Nat, a <= b,
           \A x \in S : a <= lo[x] /\ hi[x] <= b /\ lo[x] + F[x] = hi[x],
           \A x, y \in S : x = y \/ hi[x] <= lo[y] \/ hi[y] <= lo[x]
    PROVE  Weight(F, S) <= b - a
<1> DEFINE T == {s \in SUBSET S : /\ IsFiniteSet(Units(lo, hi, s))
                                  /\ Cardinality(Units(lo, hi, s)) = Weight(F, s)}
<1>1. ASSUME NEW s \in SUBSET S, \A x \in s : s \ {x} \in T
      PROVE  s \in T
  <2>1. CASE s = {}
    <3>1. Units(lo, hi, s) = {}
      BY <2>1 DEF Units
    <3> QED BY <2>1, <3>1, NoWeight, FS_EmptySet
  <2>2. CASE s # {}
    <3>1. PICK x \in s : TRUE
      BY <2>2
    <3> DEFINE U == Units(lo, hi, s \ {x})
               V == lo[x] .. (hi[x] - 1)
    <3>2. s \in SUBSET D /\ IsFiniteSet(s) /\ x \in D /\ x \in S
      BY <3>1, FS_Subset
    <3>3. IsFiniteSet(U) /\ Cardinality(U) = Weight(F, s \ {x})
      BY <1>1, <3>1
    <3>4. lo[x] \in Nat /\ hi[x] \in Nat /\ F[x] \in Nat /\ lo[x] + F[x] = hi[x]
      BY <3>2
    <3>5. IsFiniteSet(V) /\ Cardinality(V) = F[x]
      <4> DEFINE l == lo[x]
                 h == hi[x] - 1
      <4>1. l \in Int /\ h \in Int /\ l - 1 <= h /\ h - l + 1 = F[x]
        BY <3>4
      <4> HIDE DEF l, h
      <4>2. IsFiniteSet(l..h) /\ Cardinality(l..h) = IF l > h THEN 0 ELSE h - l + 1
        BY <4>1, FS_Interval
      <4>3. IsFiniteSet(l..h) /\ Cardinality(l..h) = F[x]
        BY <3>4, <4>1, <4>2
      <4> QED BY <4>3 DEF l, h
    <3>6. Units(lo, hi, s) = U \cup V
      BY <3>1 DEF Units
    <3>7. U \cap V = {}
      <4> SUFFICES ASSUME NEW u \in U, u \in V PROVE FALSE
        OBVIOUS
      <4>1. PICK y \in s \ {x} : u \in lo[y] .. (hi[y] - 1)
        BY DEF Units
      <4>2. y \in S /\ y # x /\ lo[y] \in Nat /\ hi[y] \in Nat
        BY <3>2, <4>1
      <4>3. hi[x] <= lo[y] \/ hi[y] <= lo[x]
        BY <3>2, <4>2
      <4> QED BY <3>4, <4>1, <4>2, <4>3
    <3> HIDE DEF U, V
    <3>8. /\ IsFiniteSet(U \cup V)
          /\ Cardinality(U \cup V) = Cardinality(U) + Cardinality(V) - Cardinality(U \cap V)
      BY <3>3, <3>5, FS_Union
    <3>9. Cardinality(U \cap V) = 0
      BY <3>7, FS_EmptySet
    <3>10. Weight(F, s) = F[x] + Weight(F, s \ {x}) /\ Weight(F, s \ {x}) \in Nat
      BY <3>1, <3>2, WeightAdd
    <3>11. Cardinality(Units(lo, hi, s)) = Weight(F, s) /\ IsFiniteSet(Units(lo, hi, s))
      BY <3>3, <3>4, <3>5, <3>6, <3>8, <3>9, <3>10
    <3> QED BY <3>11
  <2> QED BY <2>1, <2>2
<1> HIDE DEF T
<1>2. S \in T
  BY <1>1, SetInduction
<1>3. IsFiniteSet(Units(lo, hi, S)) /\ Cardinality(Units(lo, hi, S)) = Weight(F, S)
  BY <1>2 DEF T
<1>4. Units(lo, hi, S) \subseteq a..(b - 1)
  <2> SUFFICES ASSUME NEW x \in S, NEW u \in lo[x] .. (hi[x] - 1)
               PROVE  u \in a..(b - 1)
    BY DEF Units
  <2>1. lo[x] \in Nat /\ hi[x] \in Nat /\ a <= lo[x] /\ hi[x] <= b
    OBVIOUS
  <2> QED BY <2>1
<1>5. IsFiniteSet(a..(b - 1)) /\ Cardinality(a..(b - 1)) = b - a
  BY FS_Interval
<1>6. Cardinality(Units(lo, hi, S)) <= b - a
  BY <1>4, <1>5, FS_Subset
<1> QED BY <1>3, <1>6

-----------------------------------------------------------------------------
(* Sums of integers: what lies above zero less what lies below.              *)

Above(F, S) == [x \in S |-> IF F[x] > 0 THEN F[x] ELSE 0]
Below(F, S) == [x \in S |-> IF F[x] < 0 THEN -F[x] ELSE 0]
Net(F, S) == Weight(Above(F, S), S) - Weight(Below(F, S), S)

LEMMA Parts ==
    ASSUME NEW D, NEW F \in [D -> Int], NEW S \in SUBSET D
    PROVE  /\ Above(F, S) \in [S -> Nat] /\ Below(F, S) \in [S -> Nat]
           /\ \A x \in S : F[x] = Above(F, S)[x] - Below(F, S)[x]
           /\ \A R \in SUBSET S : \A x \in R :
                 Above(F, R)[x] = Above(F, S)[x] /\ Below(F, R)[x] = Below(F, S)[x]
<1>1. \A x \in S : F[x] \in Int
  OBVIOUS
<1> QED BY <1>1 DEF Above, Below

\* The sums of the parts of a set, by the parts of the whole.
LEMMA NetIs ==
    ASSUME NEW D, NEW F \in [D -> Int], NEW S \in SUBSET D, NEW R \in SUBSET S, IsFiniteSet(S)
    PROVE  /\ Net(F, R) = Weight(Above(F, S), R) - Weight(Below(F, S), R)
           /\ Weight(Above(F, S), R) \in Nat /\ Weight(Below(F, S), R) \in Nat
<1> DEFINE A == Above(F, S)
           B == Below(F, S)
<1>1. A \in [S -> Nat] /\ B \in [S -> Nat] /\ IsFiniteSet(R)
  BY Parts, FS_Subset
<1>2. \A x \in R : Above(F, R)[x] = A[x] /\ Below(F, R)[x] = B[x]
  BY Parts
<1> HIDE DEF A, B
<1>3. Weight(Above(F, R), R) = Weight(A, R) /\ Weight(Below(F, R), R) = Weight(B, R)
  BY <1>2, WeightSame
<1>4. Weight(A, R) \in Nat /\ Weight(B, R) \in Nat
  BY <1>1, FiniteWeight
<1> QED BY <1>3, <1>4 DEF Net, A, B

LEMMA NetNone == ASSUME NEW F PROVE Net(F, {}) = 0
BY NoWeight DEF Net

LEMMA NetAdd ==
    ASSUME NEW D, NEW F \in [D -> Int], NEW S \in SUBSET D, IsFiniteSet(S)
    PROVE  Net(F, S) \in Int /\ \A x \in S : Net(F, S) = F[x] + Net(F, S \ {x})
<1> DEFINE A == Above(F, S)
           B == Below(F, S)
<1>1. A \in [S -> Nat] /\ B \in [S -> Nat] /\ \A x \in S : F[x] = A[x] - B[x]
  BY Parts
<1>2. \A R \in SUBSET S : /\ Net(F, R) = Weight(A, R) - Weight(B, R)
                          /\ Weight(A, R) \in Nat /\ Weight(B, R) \in Nat
  BY NetIs
<1> HIDE DEF A, B
<1>3. ASSUME NEW x \in S
      PROVE  Net(F, S) = F[x] + Net(F, S \ {x})
  <2>1. Weight(A, S) = A[x] + Weight(A, S \ {x}) /\ Weight(B, S) = B[x] + Weight(B, S \ {x})
    BY <1>1, WeightAdd
  <2>2. A[x] \in Nat /\ B[x] \in Nat /\ F[x] = A[x] - B[x]
    BY <1>1
  <2>3. S \in SUBSET S /\ S \ {x} \in SUBSET S
    OBVIOUS
  <2> QED BY <1>2, <2>1, <2>2, <2>3
<1>4. S \in SUBSET S
  OBVIOUS
<1> QED BY <1>2, <1>3, <1>4

LEMMA NetSame ==
    ASSUME NEW F, NEW G, NEW S, \A x \in S : F[x] = G[x]
    PROVE  Net(F, S) = Net(G, S)
<1>1. Above(F, S) = Above(G, S) /\ Below(F, S) = Below(G, S)
  BY DEF Above, Below
<1> QED BY <1>1 DEF Net

LEMMA NetMinus ==
    ASSUME NEW D, NEW F \in [D -> Int], NEW S \in SUBSET D, IsFiniteSet(S)
    PROVE  Net([x \in D |-> -F[x]], S) = -Net(F, S)
<1> DEFINE G == [x \in D |-> -F[x]]
<1>1. \A x \in S : F[x] \in Int /\ G[x] = -F[x]
  OBVIOUS
<1> HIDE DEF G
<1>2. Above(G, S) = Below(F, S) /\ Below(G, S) = Above(F, S)
  BY <1>1 DEF Above, Below
<1>3. Weight(Above(F, S), S) \in Nat /\ Weight(Below(F, S), S) \in Nat
  BY NetIs
<1> QED BY <1>2, <1>3 DEF Net, G

LEMMA NetUnion ==
    ASSUME NEW D, NEW F \in [D -> Int], NEW S \in SUBSET D, NEW T \in SUBSET D,
           IsFiniteSet(S), IsFiniteSet(T), S \cap T = {}
    PROVE  IsFiniteSet(S \cup T) /\ Net(F, S \cup T) = Net(F, S) + Net(F, T)
<1> DEFINE U == S \cup T
           A == Above(F, U)
           B == Below(F, U)
<1>1. IsFiniteSet(U) /\ U \in SUBSET D /\ S \in SUBSET U /\ T \in SUBSET U /\ U = S \cup T
  BY FS_Union
<1> HIDE DEF U
<1>2. A \in [U -> Nat] /\ B \in [U -> Nat]
  BY <1>1, Parts
<1>3. \A R \in SUBSET U : /\ Net(F, R) = Weight(A, R) - Weight(B, R)
                          /\ Weight(A, R) \in Nat /\ Weight(B, R) \in Nat
  BY <1>1, NetIs
<1> HIDE DEF A, B
<1>4. Weight(A, U) = Weight(A, S) + Weight(A, T) /\ Weight(B, U) = Weight(B, S) + Weight(B, T)
  BY <1>1, <1>2, WeightUnion
<1>5. U \in SUBSET U
  OBVIOUS
<1> QED BY <1>1, <1>3, <1>4, <1>5

LEMMA NetOfNat ==
    ASSUME NEW D, NEW F \in [D -> Nat], NEW S \in SUBSET D, IsFiniteSet(S)
    PROVE  Net(F, S) = Weight(F, S) /\ Net(F, S) \in Nat
<1>1. \A x \in S : F[x] \in Nat
  OBVIOUS
<1>2. Weight(Above(F, S), S) = Weight(F, S)
  <2>1. \A x \in S : Above(F, S)[x] = F[x]
    BY <1>1 DEF Above
  <2> QED BY <2>1, WeightSame
<1>3. Weight(Below(F, S), S) = 0
  <2>1. Coins(Below(F, S), S) = {}
    <3>1. \A x \in S : Below(F, S)[x] = 0
      BY <1>1 DEF Below
    <3>2. \A x \in S : {x} \X (1..Below(F, S)[x]) = {}
      BY <3>1
    <3> QED BY <3>2 DEF Coins
  <2> QED BY <2>1, FS_EmptySet DEF Weight
<1>4. Weight(F, S) \in Nat
  BY FiniteWeight
<1> QED BY <1>2, <1>3, <1>4 DEF Net

\* A sum is no more than another when no term is.
LEMMA NetMost ==
    ASSUME NEW D, NEW F \in [D -> Int], NEW G \in [D -> Int],
           NEW S \in SUBSET D, IsFiniteSet(S), \A x \in S : F[x] <= G[x]
    PROVE  Net(F, S) <= Net(G, S)
<1> DEFINE T == {s \in SUBSET S : Net(F, s) <= Net(G, s)}
<1>1. ASSUME NEW s \in SUBSET S, \A x \in s : s \ {x} \in T
      PROVE  s \in T
  <2>1. CASE s = {}
    BY <2>1, NetNone
  <2>2. CASE s # {}
    <3>1. PICK x \in s : TRUE
      BY <2>2
    <3>2. s \in SUBSET D /\ IsFiniteSet(s) /\ s \ {x} \in SUBSET D /\ IsFiniteSet(s \ {x})
      BY <3>1, FS_Subset
    <3>3. Net(F, s \ {x}) <= Net(G, s \ {x})
      BY <1>1, <3>1
    <3>4. F[x] <= G[x] /\ F[x] \in Int /\ G[x] \in Int
      BY <3>1
    <3>5. Net(F, s) = F[x] + Net(F, s \ {x}) /\ Net(G, s) = G[x] + Net(G, s \ {x})
      BY <3>1, <3>2, NetAdd
    <3>6. Net(F, s \ {x}) \in Int /\ Net(G, s \ {x}) \in Int
      BY <3>2, NetAdd
    <3> QED BY <3>3, <3>4, <3>5, <3>6
  <2> QED BY <2>1, <2>2
<1> HIDE DEF T
<1>2. S \in T
  BY <1>1, SetInduction
<1> QED BY <1>2 DEF T

\* What a sum over S does, by the recursion of MapThenFoldSet.
Sums(F, S, iter) ==
    iter = [s \in SUBSET S |-> IF s = {} THEN 0
                               ELSE F[CHOOSE x \in s : TRUE] + iter[s \ {CHOOSE x \in s : TRUE}]]

LEMMA NetSumExists ==
    ASSUME NEW S, IsFiniteSet(S), NEW F \in [S -> Int]
    PROVE  Sums(F, S, [s \in SUBSET S |-> Net(F, s)])
<1> DEFINE w == [s \in SUBSET S |-> Net(F, s)]
           next(s) == IF s = {} THEN 0 ELSE F[CHOOSE x \in s : TRUE] + w[s \ {CHOOSE x \in s : TRUE}]
<1>1. ASSUME NEW s \in SUBSET S
      PROVE  Net(F, s) = next(s)
  <2>1. CASE s = {}
    BY <2>1, NetNone
  <2>2. CASE s # {}
    <3> DEFINE x == CHOOSE x \in s : TRUE
    <3>1. x \in s
      BY <2>2
    <3>2. next(s) = F[x] + w[s \ {x}]
      BY <2>2
    <3> HIDE DEF x, next
    <3>3. s \ {x} \in SUBSET S /\ IsFiniteSet(s)
      BY FS_Subset
    <3>4. w[s \ {x}] = Net(F, s \ {x})
      BY <3>3
    <3>5. Net(F, s) = F[x] + Net(F, s \ {x})
      BY <3>1, <3>3, NetAdd
    <3> QED BY <3>2, <3>4, <3>5
  <2> QED BY <2>1, <2>2
<1>2. w = [s \in SUBSET S |-> next(s)]
  <2> HIDE DEF next
  <2> QED BY <1>1
<1> QED BY <1>2 DEF Sums

LEMMA SumIsNet ==
    ASSUME NEW S, IsFiniteSet(S), NEW F \in [S -> Int], NEW iter, Sums(F, S, iter)
    PROVE  iter[S] = Net(F, S)
<1> DEFINE T == {s \in SUBSET S : iter[s] = Net(F, s)}
<1>1. ASSUME NEW s \in SUBSET S, \A x \in s : s \ {x} \in T
      PROVE  s \in T
  <2>1. CASE s = {}
    BY <2>1, NetNone DEF Sums
  <2>2. CASE s # {}
    <3> DEFINE x == CHOOSE x \in s : TRUE
    <3>1. x \in s
      BY <2>2
    <3>2. iter[s] = F[x] + iter[s \ {x}]
      BY <2>2 DEF Sums
    <3> HIDE DEF x
    <3>3. iter[s \ {x}] = Net(F, s \ {x})
      BY <1>1, <3>1
    <3>4. IsFiniteSet(s)
      BY FS_Subset
    <3>5. Net(F, s) = F[x] + Net(F, s \ {x})
      BY <3>1, <3>4, NetAdd
    <3> QED BY <3>2, <3>3, <3>5
  <2> QED BY <2>1, <2>2
<1> HIDE DEF T
<1>2. S \in T
  BY <1>1, SetInduction
<1> QED BY <1>2 DEF T

=============================================================================
