------------------------- MODULE PlanSelectionProofs -------------------------
(* Totals over finite sets of orders, and that a best plan always exists.   *)
EXTENDS PlanSelection, FiniteSetTheorems, TLAPS

-----------------------------------------------------------------------------
(* Induction on sets, and totals over finite sets.  The induction rules     *)
(* take the set of the good cases, not a predicate, so that they can be     *)
(* cited with a set defined on the spot.                                    *)

(* Every non-empty set of numbers has a least one. *)
LEMMA LeastElement ==
  ASSUME NEW T, T \subseteq Nat, T # {}
  PROVE  \E x \in T : \A y \in T : x <= y
<1> DEFINE R == {ss \in Nat \X Nat : ss[1] < ss[2]}
<1>1. IsWellFoundedOn(R, Nat)
  BY NatLessThanWellFounded DEF OpToRel
<1>2. \A x, y \in Nat : y < x => <<y, x>> \in R
  OBVIOUS
<1> HIDE DEF R
<1>3. PICK x \in T : \A y \in T : ~ (<<y, x>> \in R)
  BY <1>1, WFMin
<1>4. ASSUME NEW y \in T
      PROVE  x <= y
  <2>1. x \in Nat /\ y \in Nat
    OBVIOUS
  <2>2. ~ (y < x)
    BY <1>2, <1>3, <2>1
  <2> QED
    BY <2>1, <2>2
<1> QED
  BY <1>4

(* Induction on the natural numbers. *)
LEMMA Counting ==
  ASSUME NEW G, 0 \in G, \A n \in Nat : n \in G => n + 1 \in G
  PROVE  \A n \in Nat : n \in G
<1> DEFINE Bad == Nat \ G
<1> SUFFICES ASSUME Bad # {} PROVE FALSE
  OBVIOUS
<1>1. PICK m \in Bad : \A n \in Bad : m <= n
  BY LeastElement, Bad \subseteq Nat, Zenon
<1>2. m - 1 \in Nat /\ m = (m - 1) + 1
  BY <1>1
<1>3. m - 1 \in G
  BY <1>1, <1>2
<1> QED
  BY <1>1, <1>2, <1>3

(* Induction on the subsets of a finite set, one element at a time. *)
LEMMA SubsetInduction ==
  ASSUME NEW S, IsFiniteSet(S), NEW G,
         \A T \in SUBSET S : (\A x \in T : T \ {x} \in G) => T \in G
  PROVE  S \in G
<1> DEFINE Small(n) == \A T \in SUBSET S : Cardinality(T) = n => T \in G
           N == {n \in Nat : Small(n)}
<1>1. \A T \in SUBSET S : IsFiniteSet(T) /\ Cardinality(T) \in Nat
  BY FS_Subset, FS_CardinalityType
<1>2. 0 \in N
  <2>1. \A T \in SUBSET S : Cardinality(T) = 0 => T = {}
    BY <1>1, FS_EmptySet
  <2> QED
    BY <2>1
<1>3. ASSUME NEW n \in Nat, n \in N
      PROVE  n + 1 \in N
  <2>1. ASSUME NEW T \in SUBSET S, Cardinality(T) = n + 1
        PROVE  T \in G
    <3>1. ASSUME NEW x \in T
          PROVE  T \ {x} \in G
      <4>1. Cardinality(T \ {x}) = n
        BY <1>1, <2>1, FS_RemoveElement
      <4> QED
        BY <1>3, <4>1
    <3> QED
      BY <3>1
  <2> QED
    BY <2>1
<1> HIDE DEF N
<1>4. \A n \in Nat : n \in N
  BY <1>2, <1>3, Counting
<1> QED
  BY <1>1, <1>4 DEF N

Pick(s) == CHOOSE x \in s : TRUE

IsTotal(f, attr, S) ==
  f = [T \in S |-> IF T = {} THEN 0 ELSE attr[Pick(T)] + f[T \ {Pick(T)}]]

(* The element a fold takes next. *)
LEMMA PickMember == \A T : T # {} => Pick(T) \in T
BY DEF Pick

(* TotalOf is the recursive sum of the community modules, written out. *)
LEMMA TotalUnfolds ==
  ASSUME NEW attr, NEW S
  PROVE TotalOf(attr, S) = (CHOOSE f : IsTotal(f, attr, SUBSET S))[S]
  BY DEF TotalOf, MapThenSumSet, MapThenFoldSet, Pick, IsTotal

(* The recursion of TotalOf has a solution on the subsets of a finite set. *)
LEMMA TotalExists ==
  ASSUME NEW attr, NEW S, IsFiniteSet(S)
  PROVE  \E f : IsTotal(f, attr, SUBSET S)
<1> DEFINE Upto(n) == {T \in SUBSET S : Cardinality(T) <= n}
           N == {n \in Nat : \E f : IsTotal(f, attr, Upto(n))}
<1>1. \A T \in SUBSET S : IsFiniteSet(T) /\ Cardinality(T) \in Nat
  BY FS_Subset, FS_CardinalityType
<1>2. 0 \in N
  <2> DEFINE f == [T \in Upto(0) |-> 0]
  <2>1. \A T \in Upto(0) : T = {}
    BY <1>1, FS_EmptySet
  <2>2. IsTotal(f, attr, Upto(0))
    BY <2>1 DEF IsTotal
  <2> QED
    BY <2>2
<1>3. ASSUME NEW n \in Nat, n \in N
      PROVE  n + 1 \in N
  <2>1. PICK f : IsTotal(f, attr, Upto(n))
    BY <1>3
  <2> DEFINE g == [T \in Upto(n + 1) |-> IF T = {} THEN 0 ELSE attr[Pick(T)] + f[T \ {Pick(T)}]]
  <2>2. ASSUME NEW T \in Upto(n + 1), T # {}
        PROVE  /\ T \ {Pick(T)} \in Upto(n)
               /\ T \ {Pick(T)} \in Upto(n + 1)
    <3>1. Pick(T) \in T
      BY <2>2, PickMember
    <3>2. Cardinality(T \ {Pick(T)}) = Cardinality(T) - 1
      BY <1>1, <3>1, FS_RemoveElement
    <3> QED
      BY <1>1, <3>2
  <2>3. ASSUME NEW T \in Upto(n)
        PROVE  /\ T \in Upto(n + 1)
               /\ f[T] = IF T = {} THEN 0 ELSE attr[Pick(T)] + f[T \ {Pick(T)}]
    <3>1. T \in Upto(n + 1)
      BY <1>1
    <3> QED
      BY <2>1, <3>1 DEF IsTotal
  <2>4. \A T \in Upto(n) : g[T] = f[T]
    <3> HIDE DEF Upto
    <3> QED BY <2>3
  <2>5. IsTotal(g, attr, Upto(n + 1))
    <3> HIDE DEF Upto
    <3>1. \A T \in Upto(n + 1) : T # {} => g[T \ {Pick(T)}] = f[T \ {Pick(T)}]
      BY <2>2, <2>4
    <3> HIDE DEF g
    <3>2. g = [T \in Upto(n + 1) |-> IF T = {} THEN 0 ELSE attr[Pick(T)] + f[T \ {Pick(T)}]]
      BY DEF g
    <3>3. [T \in Upto(n + 1) |-> IF T = {} THEN 0 ELSE attr[Pick(T)] + f[T \ {Pick(T)}]]
        = [T \in Upto(n + 1) |-> IF T = {} THEN 0 ELSE attr[Pick(T)] + g[T \ {Pick(T)}]]
      BY <3>1
    <3> QED
      BY <3>2, <3>3 DEF IsTotal
  <2> HIDE DEF g, Upto
  <2>6. \E h : IsTotal(h, attr, Upto(n + 1))
    BY <2>5
  <2> QED
    BY <2>6
<1> HIDE DEF N
<1>4. Cardinality(S) \in N
  BY <1>1, <1>2, <1>3, Counting
<1>5. Upto(Cardinality(S)) = SUBSET S
  BY <1>1, FS_Subset
<1> HIDE DEF Upto
<1> QED
  BY <1>4, <1>5 DEF N

(* TotalOf is that solution. *)
LEMMA TotalEquation ==
  ASSUME NEW attr, NEW S, IsFiniteSet(S)
  PROVE  \E f : IsTotal(f, attr, SUBSET S) /\ TotalOf(attr, S) = f[S]
<1>1. \E f : IsTotal(f, attr, SUBSET S)
  BY TotalExists
<1>2. IsTotal(CHOOSE f : IsTotal(f, attr, SUBSET S), attr, SUBSET S)
  BY <1>1, Zenon
<1> QED
  BY <1>2, TotalUnfolds, Zenon

(* Nothing adds up to nothing. *)
LEMMA TotalEmpty ==
  ASSUME NEW attr
  PROVE  TotalOf(attr, {}) = 0
<1>1. PICK f : IsTotal(f, attr, SUBSET {}) /\ TotalOf(attr, {}) = f[{}]
  BY FS_EmptySet, TotalEquation
<1> QED
  BY <1>1 DEF IsTotal

(* One step of the recursion. *)
LEMMA TotalPick ==
  ASSUME NEW attr, NEW S, IsFiniteSet(S), S # {}
  PROVE  TotalOf(attr, S) = attr[Pick(S)] + TotalOf(attr, S \ {Pick(S)})
<1> DEFINE R == S \ {Pick(S)}
<1>1. IsFiniteSet(R) /\ R \subseteq S
  BY FS_RemoveElement
<1>2. PICK f : IsTotal(f, attr, SUBSET S) /\ TotalOf(attr, S) = f[S]
  BY TotalEquation
<1>3. PICK g : IsTotal(g, attr, SUBSET R) /\ TotalOf(attr, R) = g[R]
  BY <1>1, TotalEquation
<1>4. f[R] = g[R]
  <2> DEFINE G == {T \in SUBSET R : f[T] = g[T]}
  <2>1. ASSUME NEW T \in SUBSET R, \A x \in T : T \ {x} \in G
        PROVE  T \in G
    <3>1. T \in SUBSET S
      BY <1>1
    <3>2. f[T] = IF T = {} THEN 0 ELSE attr[Pick(T)] + f[T \ {Pick(T)}]
      BY <1>2, <3>1 DEF IsTotal
    <3>3. g[T] = IF T = {} THEN 0 ELSE attr[Pick(T)] + g[T \ {Pick(T)}]
      BY <1>3 DEF IsTotal
    <3>4. T # {} => f[T \ {Pick(T)}] = g[T \ {Pick(T)}]
      BY <2>1, PickMember
    <3> QED
      BY <3>2, <3>3, <3>4
  <2>2. R \in G
    <3> HIDE DEF G, R
    <3>1. \A T \in SUBSET R : (\A x \in T : T \ {x} \in G) => T \in G
      BY <2>1
    <3> QED
      BY <1>1, <3>1, SubsetInduction
  <2> QED
    BY <2>2
<1>5. f[S] = attr[Pick(S)] + f[R]
  BY <1>2 DEF IsTotal
<1> QED
  BY <1>2, <1>3, <1>4, <1>5

(* A total of numbers is a number. *)
LEMMA TotalNat ==
  ASSUME NEW attr, NEW S, IsFiniteSet(S), \A x \in S : attr[x] \in Nat
  PROVE  TotalOf(attr, S) \in Nat
<1> DEFINE G == {T \in SUBSET S : TotalOf(attr, T) \in Nat}
<1>1. ASSUME NEW T \in SUBSET S, \A x \in T : T \ {x} \in G
      PROVE  T \in G
  <2>1. CASE T = {}
    BY <2>1, TotalEmpty
  <2>2. CASE T # {}
    <3>1. Pick(T) \in T
      BY <2>2, PickMember
    <3>2. attr[Pick(T)] \in Nat /\ TotalOf(attr, T \ {Pick(T)}) \in Nat
      BY <1>1, <3>1
    <3>3. TotalOf(attr, T) = attr[Pick(T)] + TotalOf(attr, T \ {Pick(T)})
      BY <2>2, FS_Subset, TotalPick
    <3> QED
      BY <3>2, <3>3
  <2> QED
    BY <2>1, <2>2
<1>2. S \in G
  <2> HIDE DEF G
  <2>1. \A T \in SUBSET S : (\A x \in T : T \ {x} \in G) => T \in G
    BY <1>1
  <2> QED
    BY <2>1, SubsetInduction
<1> QED
  BY <1>2

(* The order in which elements are added makes no difference. *)
LEMMA TotalRemove ==
  ASSUME NEW attr, NEW S, IsFiniteSet(S), \A x \in S : attr[x] \in Nat,
         NEW e \in S
  PROVE  TotalOf(attr, S) = attr[e] + TotalOf(attr, S \ {e})
<1> DEFINE G == {T \in SUBSET S : \A x \in T : TotalOf(attr, T) = attr[x] + TotalOf(attr, T \ {x})}
<1>0. \A T \in SUBSET S : IsFiniteSet(T) /\ TotalOf(attr, T) \in Nat
  BY FS_Subset, TotalNat
<1>1. ASSUME NEW T \in SUBSET S, \A x \in T : T \ {x} \in G
      PROVE  T \in G
  <2>1. ASSUME NEW x \in T
        PROVE  TotalOf(attr, T) = attr[x] + TotalOf(attr, T \ {x})
    <3> DEFINE p == Pick(T)
    <3>1. p \in T /\ TotalOf(attr, T) = attr[p] + TotalOf(attr, T \ {p})
      BY <1>0, PickMember, TotalPick
    <3>2. CASE x = p
      BY <3>1, <3>2
    <3>3. CASE x # p
      <4> HIDE DEF p
      <4>1. x \in T \ {p} /\ p \in T \ {x}
        BY <3>1, <3>3
      <4>2. TotalOf(attr, T \ {p}) = attr[x] + TotalOf(attr, (T \ {p}) \ {x})
        BY <1>1, <3>1, <4>1
      <4>3. TotalOf(attr, T \ {x}) = attr[p] + TotalOf(attr, (T \ {x}) \ {p})
        BY <1>1, <4>1
      <4>4. (T \ {p}) \ {x} = (T \ {x}) \ {p}
        OBVIOUS
      <4>5. attr[x] \in Nat /\ attr[p] \in Nat /\ TotalOf(attr, (T \ {x}) \ {p}) \in Nat
        BY <1>0, <3>1
      <4> QED
        BY <3>1, <4>2, <4>3, <4>4, <4>5
    <3> QED
      BY <3>2, <3>3
  <2> QED
    BY <2>1
<1>2. S \in G
  <2> HIDE DEF G
  <2>1. \A T \in SUBSET S : (\A x \in T : T \ {x} \in G) => T \in G
    BY <1>1
  <2> QED
    BY <2>1, SubsetInduction
<1> QED
  BY <1>2

(* A total with one more element. *)
LEMMA TotalAdd ==
  ASSUME NEW attr, NEW S, NEW e, IsFiniteSet(S), e \notin S,
         \A x \in S \cup {e} : attr[x] \in Nat
  PROVE  TotalOf(attr, S \cup {e}) = TotalOf(attr, S) + attr[e]
<1>1. IsFiniteSet(S \cup {e}) /\ (S \cup {e}) \ {e} = S
  BY FS_AddElement
<1>2. TotalOf(attr, S \cup {e}) = attr[e] + TotalOf(attr, S)
  <2> DEFINE R == S \cup {e}
  <2>1. IsFiniteSet(R) /\ e \in R /\ (\A x \in R : attr[x] \in Nat) /\ R \ {e} = S
    BY <1>1
  <2> HIDE DEF R
  <2>2. TotalOf(attr, R) = attr[e] + TotalOf(attr, R \ {e})
    BY <2>1, TotalRemove
  <2> QED
    BY <2>1, <2>2 DEF R
<1>3. attr[e] \in Nat /\ TotalOf(attr, S) \in Nat
  BY TotalNat
<1> QED
  BY <1>2, <1>3

(* The total of two disjoint sets. *)
LEMMA TotalUnion ==
  ASSUME NEW attr, NEW S, NEW R, IsFiniteSet(S), IsFiniteSet(R), S \cap R = {},
         \A x \in S \cup R : attr[x] \in Nat
  PROVE  TotalOf(attr, S \cup R) = TotalOf(attr, S) + TotalOf(attr, R)
<1> DEFINE G == {T \in SUBSET S : TotalOf(attr, T \cup R) = TotalOf(attr, T) + TotalOf(attr, R)}
<1>0. TotalOf(attr, R) \in Nat
  BY TotalNat
<1>1. ASSUME NEW T \in SUBSET S, \A x \in T : T \ {x} \in G
      PROVE  T \in G
  <2>1. CASE T = {}
    BY <1>0, <2>1, TotalEmpty
  <2>2. CASE T # {}
    <3>1. PICK x \in T : TRUE
      BY <2>2
    <3>2. TotalOf(attr, (T \ {x}) \cup R) = TotalOf(attr, T \ {x}) + TotalOf(attr, R)
      BY <1>1
    <3>3. IsFiniteSet(T) /\ IsFiniteSet(T \ {x}) /\ IsFiniteSet(T \cup R)
      BY FS_Subset, FS_Union
    <3>4. TotalOf(attr, T) = attr[x] + TotalOf(attr, T \ {x})
      BY <3>3, TotalRemove
    <3>5. TotalOf(attr, T \cup R) = attr[x] + TotalOf(attr, (T \cup R) \ {x})
      BY <3>3, TotalRemove
    <3>6. (T \cup R) \ {x} = (T \ {x}) \cup R
      OBVIOUS
    <3>7. attr[x] \in Nat /\ TotalOf(attr, T \ {x}) \in Nat
      BY <3>3, TotalNat
    <3> QED
      BY <1>0, <3>2, <3>4, <3>5, <3>6, <3>7
  <2> QED
    BY <2>1, <2>2
<1>2. S \in G
  <2> HIDE DEF G
  <2>1. \A T \in SUBSET S : (\A x \in T : T \ {x} \in G) => T \in G
    BY <1>1
  <2> QED
    BY <2>1, SubsetInduction
<1> QED
  BY <1>2

(* Elements of the same attribute. *)
LEMMA TotalConstant ==
  ASSUME NEW attr, NEW S, NEW c \in Nat, IsFiniteSet(S), \A x \in S : attr[x] = c
  PROVE  TotalOf(attr, S) = Cardinality(S) * c
<1> DEFINE G == {T \in SUBSET S : TotalOf(attr, T) = Cardinality(T) * c}
<1>1. ASSUME NEW T \in SUBSET S, \A x \in T : T \ {x} \in G
      PROVE  T \in G
  <2>1. CASE T = {}
    BY <2>1, TotalEmpty, FS_EmptySet
  <2>2. CASE T # {}
    <3>1. PICK x \in T : TRUE
      BY <2>2
    <3>2. IsFiniteSet(T) /\ Cardinality(T \ {x}) \in Nat
      BY FS_Subset, FS_CardinalityType
    <3>3. Cardinality(T) = Cardinality(T \ {x}) + 1
      <4>1. Cardinality(T) \in Nat /\ Cardinality(T \ {x}) = Cardinality(T) - 1
        BY <3>2, FS_RemoveElement, FS_CardinalityType
      <4> QED
        BY <4>1
    <3>4. TotalOf(attr, T) = c + TotalOf(attr, T \ {x})
      BY <3>2, TotalRemove
    <3>5. TotalOf(attr, T \ {x}) = Cardinality(T \ {x}) * c
      BY <1>1
    <3> HIDE DEF G
    <3>6. \A k \in Nat : c + k * c = (k + 1) * c
      OBVIOUS
    <3>7. TotalOf(attr, T) = Cardinality(T) * c
      BY <3>2, <3>3, <3>4, <3>5, <3>6
    <3> QED
      BY <3>7 DEF G
  <2> QED
    BY <2>1, <2>2
<1>2. S \in G
  <2> HIDE DEF G
  <2>1. \A T \in SUBSET S : (\A x \in T : T \ {x} \in G) => T \in G
    BY <1>1
  <2> QED
    BY <2>1, SubsetInduction
<1> QED
  BY <1>2

(* A total depends on the attribute of its elements only. *)
LEMMA TotalAgrees ==
  ASSUME NEW attr, NEW other, NEW S, IsFiniteSet(S), \A x \in S : attr[x] = other[x]
  PROVE  TotalOf(attr, S) = TotalOf(other, S)
<1> DEFINE G == {T \in SUBSET S : TotalOf(attr, T) = TotalOf(other, T)}
<1>1. ASSUME NEW T \in SUBSET S, \A x \in T : T \ {x} \in G
      PROVE  T \in G
  <2>1. CASE T = {}
    BY <2>1, TotalEmpty
  <2>2. CASE T # {}
    <3>1. Pick(T) \in T /\ IsFiniteSet(T)
      BY <2>2, PickMember, FS_Subset
    <3>2. /\ TotalOf(attr, T) = attr[Pick(T)] + TotalOf(attr, T \ {Pick(T)})
          /\ TotalOf(other, T) = other[Pick(T)] + TotalOf(other, T \ {Pick(T)})
      BY <2>2, <3>1, TotalPick
    <3>3. TotalOf(attr, T \ {Pick(T)}) = TotalOf(other, T \ {Pick(T)})
      BY <1>1, <3>1
    <3> QED
      BY <3>1, <3>2, <3>3
  <2> QED
    BY <2>1, <2>2
<1>2. S \in G
  <2> HIDE DEF G
  <2>1. \A T \in SUBSET S : (\A x \in T : T \ {x} \in G) => T \in G
    BY <1>1
  <2> QED
    BY <2>1, SubsetInduction
<1> QED
  BY <1>2

(* Fewer orders weigh no more. *)
LEMMA TotalMonotone ==
  ASSUME NEW attr, NEW S, NEW R \in SUBSET S, IsFiniteSet(S), \A x \in S : attr[x] \in Nat
  PROVE  TotalOf(attr, R) <= TotalOf(attr, S)
<1>1. IsFiniteSet(R) /\ IsFiniteSet(S \ R) /\ R \cap (S \ R) = {} /\ R \cup (S \ R) = S
  BY FS_Subset
<1>2. TotalOf(attr, R) \in Nat /\ TotalOf(attr, S \ R) \in Nat
  BY <1>1, TotalNat
<1>3. TotalOf(attr, R \cup (S \ R)) = TotalOf(attr, R) + TotalOf(attr, S \ R)
  BY <1>1, TotalUnion
<1>4. TotalOf(attr, S) = TotalOf(attr, R) + TotalOf(attr, S \ R)
  BY <1>1, <1>3
<1> QED
  BY <1>2, <1>4

-----------------------------------------------------------------------------
(* What a best plan is.                                                     *)

(* Whatever is waiting, a best plan exists: the service is never left       *)
(* without an answer, if only the one to carry nothing.                     *)
THEOREM BestPlanExists ==
  ASSUME NEW S, IsFiniteSet(S), NEW weight, NEW value, NEW capacity \in Nat,
         \A o \in S : weight[o] \in Nat /\ value[o] \in Nat
  PROVE  BestPlans(S, weight, value, capacity) # {}
<1> DEFINE feasible == FeasiblePlans(S, weight, value, capacity)
           most == TotalOf(value, S)
           Short(P) == most - TotalOf(value, P)
           shorts == {Short(P) : P \in feasible}
<1>1. feasible \subseteq SUBSET S
  BY DEF FeasiblePlans
<1>2. {} \in feasible
  BY TotalEmpty DEF FeasiblePlans
<1>3. most \in Nat
  BY TotalNat
<1>4. ASSUME NEW P \in feasible
      PROVE  TotalOf(value, P) \in Nat /\ TotalOf(value, P) <= most
  <2>1. P \in SUBSET S /\ IsFiniteSet(P)
    BY <1>1, FS_Subset
  <2> QED
    BY <2>1, TotalNat, TotalMonotone
<1> HIDE DEF feasible, most
<1>5. shorts \subseteq Nat /\ shorts # {}
  BY <1>2, <1>3, <1>4
<1>6. PICK s \in shorts : \A t \in shorts : s <= t
  BY <1>5, LeastElement
<1>7. PICK P \in feasible : s = Short(P)
  BY <1>6
<1>8. ASSUME NEW Q \in feasible
      PROVE  TotalOf(value, Q) <= TotalOf(value, P)
  <2>1. Short(P) <= Short(Q)
    BY <1>6, <1>7
  <2> QED
    BY <1>3, <1>4, <2>1
<1> QED
  BY <1>7, <1>8 DEF BestPlans, feasible

(* A best plan is one of the orders it was chosen from, and fits. *)
LEMMA BestPlanFits ==
  ASSUME NEW S, NEW weight, NEW value, NEW capacity,
         NEW P \in BestPlans(S, weight, value, capacity)
  PROVE  P \subseteq S /\ TotalOf(weight, P) <= capacity
BY DEF BestPlans, FeasiblePlans
=============================================================================
