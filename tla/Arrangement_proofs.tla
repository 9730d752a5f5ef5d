------------------------ MODULE Arrangement_proofs --------------------------
(* Least and greatest elements, and the order of a finite set: the ranks of  *)
(* its members and their places in what a sort returns.                      *)
EXTENDS Arrangement, Sequences, FiniteSetTheorems, WellFoundedInduction, TLAPS

(* A set of naturals that is not empty has a least element ...               *)
LEMMA LeastElement ==
  ASSUME NEW S \in SUBSET Nat, S # {}
  PROVE  \E x \in S : \A y \in S : x <= y
<1>1. PICK x \in S : \A y \in S : ~(<<y, x>> \in OpToRel(<, Nat))
  BY WFMin, NatLessThanWellFounded
<1>2. \A y \in S : ~(y < x)
  <2>1. \A y \in Nat, z \in Nat : y < z => <<y, z>> \in OpToRel(<, Nat)
    BY Zenon DEF OpToRel
  <2> QED
    BY <1>1, <2>1
<1> QED
  BY <1>2

(* ... and, when it is bounded, a greatest: the least of its upper bounds.   *)
LEMMA GreatestElement ==
  ASSUME NEW S \in SUBSET Nat, S # {}, NEW u \in Nat, \A x \in S : x <= u
  PROVE  \E x \in S : \A y \in S : y <= x
<1> DEFINE U == {v \in Nat : \A x \in S : x <= v}
<1>1. PICK v \in U : \A w \in U : v <= w
  BY LeastElement
<1>2. CASE v \in S
  BY <1>2
<1>3. CASE v \notin S
  <2>1. PICK x \in S : TRUE
    OBVIOUS
  <2>2. v - 1 \in Nat /\ \A y \in S : y <= v - 1
    BY <1>3, <2>1
  <2>3. v - 1 \in U
    BY <2>2
  <2> QED
    BY <1>1, <2>3
<1> QED
  BY <1>2, <1>3

Orders(S, R) ==
  /\ IsFiniteSet(S)
  /\ \A x \in S : <<x, x>> \notin R
  /\ \A x, y, z \in S : <<x, y>> \in R /\ <<y, z>> \in R => <<x, z>> \in R
  /\ \A x, y \in S : x = y \/ <<x, y>> \in R \/ <<y, x>> \in R

Below(S, R, x) == {y \in S : <<y, x>> \in R}
Ahead(S, R, x) == Cardinality(Below(S, R, x))
Place(S, R, n) == CHOOSE x \in S : Ahead(S, R, x) = n - 1

(* The ranks of a finite ordered set are 0, 1, ... and follow the order.     *)
LEMMA RanksFollow ==
  ASSUME NEW S, NEW R, Orders(S, R)
  PROVE  /\ Cardinality(S) \in Nat
         /\ \A x \in S : Ahead(S, R, x) \in 0..(Cardinality(S) - 1)
         /\ \A x, y \in S : <<x, y>> \in R => Ahead(S, R, x) < Ahead(S, R, y)
         /\ \A n \in 1..Cardinality(S) : \E x \in S : Ahead(S, R, x) = n - 1
<1> DEFINE N == Cardinality(S)
           rank == [x \in S |-> Ahead(S, R, x)]
<1>1. IsFiniteSet(S) /\ N \in Nat
  BY FS_CardinalityType DEF Orders
<1>2. ASSUME NEW x \in S PROVE IsFiniteSet(Below(S, R, x)) /\ Ahead(S, R, x) \in 0..(N - 1)
  <2>1. Below(S, R, x) \in SUBSET (S \ {x})
    BY DEF Orders, Below
  <2>2. IsFiniteSet(S \ {x}) /\ Cardinality(S \ {x}) = N - 1
    BY <1>1, FS_RemoveElement
  <2>3. IsFiniteSet(Below(S, R, x)) /\ Cardinality(Below(S, R, x)) <= N - 1
    BY <2>1, <2>2, FS_Subset
  <2>4. Cardinality(Below(S, R, x)) \in Nat
    BY <2>3, FS_CardinalityType
  <2> QED
    BY <1>1, <2>3, <2>4 DEF Ahead
<1>3. ASSUME NEW x \in S, NEW y \in S, <<x, y>> \in R PROVE Ahead(S, R, x) < Ahead(S, R, y)
  <2>1. Below(S, R, x) \in SUBSET (Below(S, R, y) \ {x}) /\ x \in Below(S, R, y)
    BY <1>3 DEF Orders, Below
  <2>2. IsFiniteSet(Below(S, R, y) \ {x}) /\ Cardinality(Below(S, R, y) \ {x}) = Ahead(S, R, y) - 1
    BY <1>2, <2>1, FS_RemoveElement DEF Ahead
  <2>3. Ahead(S, R, x) <= Ahead(S, R, y) - 1
    BY <2>1, <2>2, FS_Subset DEF Ahead
  <2>4. Ahead(S, R, x) \in Int /\ Ahead(S, R, y) \in Int
    BY <1>2
  <2> QED
    BY <2>3, <2>4
<1>4. rank \in Injection(S, 0..(N - 1))
  <2>1. rank \in [S -> 0..(N - 1)]
    BY <1>2
  <2>2. \A x, y \in S : rank[x] = rank[y] => x = y
    <3> SUFFICES ASSUME NEW x \in S, NEW y \in S, x # y PROVE rank[x] # rank[y]
      OBVIOUS
    <3>1. <<x, y>> \in R \/ <<y, x>> \in R
      BY DEF Orders
    <3>2. Ahead(S, R, x) < Ahead(S, R, y) \/ Ahead(S, R, y) < Ahead(S, R, x)
      BY <1>3, <3>1
    <3>3. Ahead(S, R, x) \in Int /\ Ahead(S, R, y) \in Int
      BY <1>2
    <3> QED
      BY <3>2, <3>3
  <2> QED
    BY <2>1, <2>2 DEF Injection, IsInjective
<1>5. rank \in Surjection(S, 0..(N - 1))
  <2>1. IsFiniteSet(0..(N - 1)) /\ Cardinality(0..(N - 1)) = N
    BY <1>1, FS_Interval
  <2> HIDE DEF rank, N
  <2> QED
    BY <1>4, <2>1, FS_Injection DEF N
<1>6. ASSUME NEW n \in 1..N PROVE \E x \in S : Ahead(S, R, x) = n - 1
  <2>1. n - 1 \in 0..(N - 1)
    BY <1>1
  <2>2. PICK x \in S : rank[x] = n - 1
    BY <1>5, <2>1 DEF Surjection
  <2> QED
    BY <2>2
<1> QED
  BY <1>1, <1>2, <1>3, <1>6

(* Every place is taken, by one element, in the order.                       *)
LEMMA Placed ==
  ASSUME NEW S, NEW R, Orders(S, R)
  PROVE  /\ \A n \in 1..Cardinality(S) :
              Place(S, R, n) \in S /\ Ahead(S, R, Place(S, R, n)) = n - 1
         /\ \A x \in S : /\ Ahead(S, R, x) + 1 \in 1..Cardinality(S)
                         /\ Place(S, R, Ahead(S, R, x) + 1) = x
         /\ \A m, n \in 1..Cardinality(S) :
              m < n => <<Place(S, R, m), Place(S, R, n)>> \in R
<1>1. ASSUME NEW n \in 1..Cardinality(S)
      PROVE  Place(S, R, n) \in S /\ Ahead(S, R, Place(S, R, n)) = n - 1
  BY RanksFollow DEF Place
<1>2. ASSUME NEW x \in S, NEW y \in S, Ahead(S, R, x) = Ahead(S, R, y) PROVE x = y
  <2>1. Ahead(S, R, x) \in Int /\ Ahead(S, R, y) \in Int
    BY RanksFollow
  <2>2. <<x, y>> \notin R /\ <<y, x>> \notin R
    BY <1>2, <2>1, RanksFollow
  <2> QED
    BY <2>2 DEF Orders
<1>3. ASSUME NEW x \in S
      PROVE  Ahead(S, R, x) + 1 \in 1..Cardinality(S) /\ Place(S, R, Ahead(S, R, x) + 1) = x
  <2> DEFINE n == Ahead(S, R, x) + 1
  <2>1. n \in 1..Cardinality(S) /\ n - 1 = Ahead(S, R, x)
    BY RanksFollow
  <2> HIDE DEF n
  <2>2. Place(S, R, n) \in S /\ Ahead(S, R, Place(S, R, n)) = Ahead(S, R, x)
    BY <1>1, <2>1
  <2> QED
    BY <1>2, <2>1, <2>2 DEF n
<1>4. ASSUME NEW m \in 1..Cardinality(S), NEW n \in 1..Cardinality(S), m < n
      PROVE  <<Place(S, R, m), Place(S, R, n)>> \in R
  <2> DEFINE x == Place(S, R, m)  y == Place(S, R, n)
  <2>1. x \in S /\ y \in S /\ Ahead(S, R, x) = m - 1 /\ Ahead(S, R, y) = n - 1
    BY <1>1
  <2>2. ~(Ahead(S, R, y) < Ahead(S, R, x)) /\ Ahead(S, R, x) # Ahead(S, R, y)
    BY <1>4, <2>1, RanksFollow
  <2> HIDE DEF x, y
  <2>3. x # y /\ <<y, x>> \notin R
    BY <2>1, <2>2, RanksFollow
  <2>4. <<x, y>> \in R
    BY <2>1, <2>3 DEF Orders
  <2> QED
    BY <2>4 DEF x, y
<1> QED
  BY <1>1, <1>3, <1>4

(* As many places as elements, in every part of the set.                     *)
LEMMA PlacesOf ==
  ASSUME NEW S, NEW R, Orders(S, R), NEW B \in SUBSET S
  PROVE  Cardinality({n \in 1..Cardinality(S) : Place(S, R, n) \in B}) = Cardinality(B)
<1> DEFINE A == {n \in 1..Cardinality(S) : Place(S, R, n) \in B}
           rank == [x \in B |-> Ahead(S, R, x) + 1]
<1>1. IsFiniteSet(B)
  BY FS_Subset DEF Orders
<1>2. rank \in [B -> A]
  BY Placed
<1>3. \A x, y \in B : rank[x] = rank[y] => x = y
  BY Placed
<1>4. \A n \in A : \E x \in B : rank[x] = n
  <2> SUFFICES ASSUME NEW n \in A PROVE rank[Place(S, R, n)] = n /\ Place(S, R, n) \in B
    OBVIOUS
  <2>1. Ahead(S, R, Place(S, R, n)) = n - 1 /\ n \in Nat
    BY Placed, RanksFollow
  <2> QED
    BY <2>1
<1>5. rank \in Bijection(B, A)
  BY <1>2, <1>3, <1>4 DEF Bijection, Injection, Surjection, IsInjective
<1> HIDE DEF rank, A
<1>6. Cardinality(A) = Cardinality(B)
  BY <1>1, <1>5, FS_Bijection DEF ExistsBijection
<1> QED
  BY <1>6 DEF A

(* What Ordered returns: a sequence of the members, each of them at its       *)
(* place.                                                                    *)
LEMMA OrderedIs ==
  ASSUME NEW S, NEW R, Orders(S, R)
  PROVE  /\ Ordered(S, R) = [n \in 1..Cardinality(S) |-> Place(S, R, n)]
         /\ Ordered(S, R) \in Seq(S) /\ Len(Ordered(S, R)) = Cardinality(S)
         /\ \A x \in S : \E n \in DOMAIN Ordered(S, R) : Ordered(S, R)[n] = x
<1> DEFINE s == Ordered(S, R)  N == Cardinality(S)
<1>1. s = [n \in 1..N |-> Place(S, R, n)]
  BY DEF Ordered, Place, Ahead, Below
<1>2. N \in Nat /\ \A n \in 1..N : Place(S, R, n) \in S
  BY RanksFollow, Placed
<1>3. \A x \in S : \E n \in 1..N : Place(S, R, n) = x
  BY Placed
<1> HIDE DEF s, N
<1>4. s \in Seq(S) /\ Len(s) = N
  BY <1>1, <1>2
<1>5. \A x \in S : \E n \in DOMAIN s : s[n] = x
  BY <1>1, <1>3
<1> QED
  BY <1>1, <1>4, <1>5 DEF s, N
=============================================================================
