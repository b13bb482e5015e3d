--------------------------- MODULE DataInduction ---------------------------
(***************************************************************************)
(* Induction for proofs about folds.  The induction theorems of the        *)
(* library are about operators; here the property is a set of values, and  *)
(* the induction comes from the well-foundedness of the naturals.          *)
(***************************************************************************)
EXTENDS Integers, FiniteSets, SequencesExt, FiniteSetTheorems,
        SequenceTheorems, WellFoundedInduction, TLAPS

(***************************************************************************)
(* A set of naturals has a smallest element.                               *)
(***************************************************************************)
LEMMA Least ==
    ASSUME NEW T, T \subseteq Nat, T # {}
    PROVE  \E m \in T : \A k \in T : m <= k
  <1>1. PICK R : R = OpToRel(<, Nat)
    OBVIOUS
  <1>2. IsWellFoundedOn(R, Nat)
    BY <1>1, NatLessThanWellFounded
  <1>3. PICK m \in T : \A k \in T : ~ (<<k, m>> \in R)
    BY <1>2, WFMin
  <1>4. \A k \in T : k < m => <<k, m>> \in R
    BY <1>1 DEF OpToRel
  <1>5. m \in Nat /\ \A k \in T : k \in Nat
    OBVIOUS
  <1>6. \A k \in T : ~ (k < m)
    BY <1>3, <1>4, Zenon
  <1> QED
    BY <1>5, <1>6

(***************************************************************************)
(* What holds of 0 and is handed on holds of all naturals.                 *)
(***************************************************************************)
LEMMA Induction ==
    ASSUME NEW S, 0 \in S, \A n \in Nat : n \in S => n + 1 \in S
    PROVE  Nat \subseteq S
  <1> DEFINE T == {n \in Nat : n \notin S}
  <1> SUFFICES ASSUME T # {} PROVE FALSE
    OBVIOUS
  <1>1. PICK m \in T : \A k \in T : m <= k
    <2>1. T \subseteq Nat
      OBVIOUS
    <2> HIDE DEF T
    <2> QED
      BY <2>1, Least
  <1>2. m # 0 /\ m \in Nat /\ m - 1 \in Nat
    OBVIOUS
  <1>3. m - 1 \in S
    BY <1>1, <1>2
  <1> QED
    BY <1>2, <1>3

(***************************************************************************)
(* What holds of a subset of S whenever it holds of all smaller ones holds *)
(* of all subsets of S, if S is finite.                                    *)
(***************************************************************************)
LEMMA SubsetInduction ==
    ASSUME NEW S, IsFiniteSet(S), NEW P,
           \A s \in SUBSET S :
              (\A t \in SUBSET s : t # s => t \in P) => s \in P
    PROVE  SUBSET S \subseteq P
  <1> DEFINE sizes == {Cardinality(s) : s \in (SUBSET S) \ P}
  <1> SUFFICES ASSUME (SUBSET S) \ P # {} PROVE FALSE
    OBVIOUS
  <1>1. \A s \in SUBSET S : IsFiniteSet(s) /\ Cardinality(s) \in Nat
    BY FS_Subset, FS_CardinalityType
  <1>2. sizes \subseteq Nat /\ sizes # {}
    BY <1>1
  <1>3. PICK n \in sizes : \A k \in sizes : n <= k
    <2> HIDE DEF sizes
    <2> QED
      BY <1>2, Least
  <1>4. PICK s \in (SUBSET S) \ P : n = Cardinality(s)
    BY <1>3
  <1>5. \A t \in SUBSET s : t # s => Cardinality(t) < n
    <2>1. ASSUME NEW t \in SUBSET s, t # s
          PROVE  Cardinality(t) < n
      <3>1. Cardinality(t) <= Cardinality(s) /\ Cardinality(t) # Cardinality(s)
        BY <1>1, <1>4, <2>1, FS_Subset
      <3> QED
        BY <1>1, <1>4, <3>1
    <2> QED
      BY <2>1
  <1>6. \A t \in SUBSET s : t # s => t \in P
    <2>1. ASSUME NEW t \in SUBSET s, t # s, t \notin P
          PROVE  FALSE
      <3>1. Cardinality(t) \in sizes
        BY <2>1
      <3> QED
        BY <1>1, <1>2, <1>3, <1>5, <2>1, <3>1
    <2> QED
      BY <2>1
  <1> QED
    BY <1>4, <1>6

-----------------------------------------------------------------------------
(* Folds over finite sets. *)

(***************************************************************************)
(* g is the fold, over every subset of S, that takes elements out in the   *)
(* order of c and combines with h.                                         *)
(***************************************************************************)
IsFold(g, S, base, c, h) ==
    g = [s \in SUBSET S |->
           IF s = {} THEN base ELSE h[<<g[s \ {c[s]}], c[s]>>]]

Chooses(c, S) == \A s \in SUBSET S : s # {} => c[s] \in s

Combines(h, S, X) == \A v \in X, x \in S : h[<<v, x>>] \in X

(***************************************************************************)
(* Such a fold exists, and its values are those of h.                      *)
(***************************************************************************)
LEMMA FoldExists ==
    ASSUME NEW S, IsFiniteSet(S), NEW X, NEW base \in X,
           NEW c, Chooses(c, S), NEW h, Combines(h, S, X)
    PROVE  \E g \in [SUBSET S -> X] : IsFold(g, S, base, c, h)
  <1> USE DEF Chooses, Combines
  <1> DEFINE Small(n) == {s \in SUBSET S : Cardinality(s) <= n}
             IsPart(g, n) ==
                \A s \in Small(n) :
                   g[s] = IF s = {} THEN base
                          ELSE h[<<g[s \ {c[s]}], c[s]>>]
             Good == {n \in Nat : \E g \in [Small(n) -> X] : IsPart(g, n)}
  <1>1. \A s \in SUBSET S : /\ IsFiniteSet(s) /\ Cardinality(s) \in Nat
                            /\ Cardinality(s) <= Cardinality(S)
                            /\ Cardinality(s) = 0 <=> s = {}
    BY FS_Subset, FS_CardinalityType, FS_EmptySet
  <1>2. \A s \in SUBSET S : s # {} =>
           /\ c[s] \in S /\ s \ {c[s]} \in SUBSET S
           /\ Cardinality(s \ {c[s]}) = Cardinality(s) - 1
    BY <1>1, FS_RemoveElement
  <1>3. 0 \in Good
    <2>1. Small(0) = {{}}
      BY <1>1
    <2> DEFINE g == [s \in Small(0) |-> base]
    <2>2. g \in [Small(0) -> X] /\ IsPart(g, 0)
      BY <2>1
    <2> QED
      BY <2>2
  <1>4. ASSUME NEW n \in Nat, n \in Good
        PROVE  n + 1 \in Good
    <2>1. PICK g \in [Small(n) -> X] : IsPart(g, n)
      BY <1>4
    <2> DEFINE More == [s \in Small(n + 1) |->
                          IF s = {} THEN base
                          ELSE h[<<g[s \ {c[s]}], c[s]>>]]
    <2>2. \A s \in Small(n + 1) : s # {} => s \ {c[s]} \in Small(n)
      BY <1>1, <1>2
    <2>3. More \in [Small(n + 1) -> X]
      BY <1>2, <2>2
    <2>4. \A s \in Small(n) : s \in Small(n + 1) /\ More[s] = g[s]
      BY <1>1, <2>1
    <2>5. IsPart(More, n + 1)
      BY <2>2, <2>4
    <2> HIDE DEF More, IsPart
    <2>6. \E f \in [Small(n + 1) -> X] : IsPart(f, n + 1)
      BY <2>3, <2>5
    <2>7. n + 1 \in Nat
      OBVIOUS
    <2> HIDE DEF Small
    <2> QED
      BY <2>6, <2>7, Zenon
  <1>5. PICK n \in Nat : n = Cardinality(S)
    BY <1>1
  <1>6. n \in Good
    <2> HIDE DEF Good
    <2> QED
      BY <1>3, <1>4, Induction
  <1>7. PICK g \in [Small(n) -> X] : IsPart(g, n)
    BY <1>6
  <1>8. Small(n) = SUBSET S
    BY <1>1, <1>5
  <1>9. g \in [SUBSET S -> X] /\ IsFold(g, S, base, c, h)
    BY <1>7, <1>8 DEF IsFold
  <1> QED
    BY <1>9

-----------------------------------------------------------------------------
(* Sums. *)

SumOn(f, T) == FoldFunctionOnSet(+, 0, f, T)

Summable(f, T) == \A x \in T : f[x] \in Nat

Chosen(s) == CHOOSE x \in s : TRUE

IsSum(g, f, T) ==
    g = [s \in SUBSET T |-> IF s = {} THEN 0 ELSE f[Chosen(s)] + g[s \ {Chosen(s)}]]

AllSums(g, f, T) == \A s \in SUBSET T : SumOn(f, s) = g[s]

(***************************************************************************)
(* One function has the sums over all subsets of T.                        *)
(***************************************************************************)
LEMMA SumIsFold ==
    ASSUME NEW T, IsFiniteSet(T), NEW f, Summable(f, T)
    PROVE  \E g \in [SUBSET T -> Nat] : IsSum(g, f, T) /\ AllSums(g, f, T)
  <1>1. PICK g \in [SUBSET T -> Nat] : IsSum(g, f, T)
    <2> DEFINE c == [s \in SUBSET T |-> Chosen(s)]
               h == [vx \in Nat \X T |-> f[vx[2]] + vx[1]]
    <2>1. Chooses(c, T)
      BY DEF Chosen, Chooses
    <2>2. 0 \in Nat /\ Combines(h, T, Nat)
      BY DEF Combines, Summable
    <2>3. PICK g \in [SUBSET T -> Nat] : IsFold(g, T, 0, c, h)
      <3> HIDE DEF c, h
      <3> QED
        BY <2>1, <2>2, FoldExists, Zenon
    <2>4. IsSum(g, f, T)
      BY <2>1, <2>3 DEF IsSum, IsFold, Chooses
    <2> QED
      BY <2>4
  <1>2. ASSUME NEW s \in SUBSET T
        PROVE  SumOn(f, s) = g[s]
    <2>1. SumOn(f, s) = (CHOOSE k : IsSum(k, f, s))[s]
      BY DEF SumOn, FoldFunctionOnSet, MapThenFoldSet, IsSum, Chosen
    <2>2. \A r \in SUBSET s : r # {} => Chosen(r) \in r
      BY DEF Chosen
    <2>3. IsSum([r \in SUBSET s |-> g[r]], f, s)
      BY <1>1, <2>2 DEF IsSum
    <2>4. PICK k : k = (CHOOSE q : IsSum(q, f, s)) /\ IsSum(k, f, s)
      BY <2>3
    <2> DEFINE P == {r \in SUBSET s : k[r] = g[r]}
    <2>5. ASSUME NEW r \in SUBSET s, \A t \in SUBSET r : t # r => t \in P
          PROVE  r \in P
      <3>1. r # {} => r \ {Chosen(r)} \in P
        BY <2>2, <2>5
      <3> QED
        BY <1>1, <2>4, <3>1 DEF IsSum
    <2>6. IsFiniteSet(s)
      BY FS_Subset
    <2>7. SUBSET s \subseteq P
      <3> HIDE DEF P
      <3> QED
        BY <2>5, <2>6, SubsetInduction
    <2> QED
      BY <2>1, <2>4, <2>7
  <1>3. AllSums(g, f, T)
    BY <1>2 DEF AllSums
  <1> QED
    BY <1>1, <1>3

(***************************************************************************)
(* A sum is that of all but one, whichever is left out, and this one.      *)
(***************************************************************************)
LEMMA SumStep ==
    ASSUME NEW T, IsFiniteSet(T), NEW f, Summable(f, T)
    PROVE  \A s \in SUBSET T :
              /\ SumOn(f, s) \in Nat
              /\ s = {} => SumOn(f, s) = 0
              /\ \A x \in s : SumOn(f, s) = f[x] + SumOn(f, s \ {x})
  <1>1. PICK g \in [SUBSET T -> Nat] : IsSum(g, f, T) /\ AllSums(g, f, T)
    BY SumIsFold
  <1> DEFINE P == {s \in SUBSET T : \A x \in s : g[s] = f[x] + g[s \ {x}]}
  <1>2. ASSUME NEW s \in SUBSET T, \A t \in SUBSET s : t # s => t \in P,
               NEW x \in s
        PROVE  g[s] = f[x] + g[s \ {x}]
    <2>1. PICK y \in s : y = Chosen(s)
      BY DEF Chosen
    <2>2. g[s] = f[y] + g[s \ {y}]
      BY <1>1, <2>1 DEF IsSum
    <2>3. CASE x = y
      BY <2>2, <2>3
    <2>4. CASE x # y
      <3>1. s \ {y} \in P /\ s \ {x} \in P
        BY <1>2
      <3>2. g[s \ {y}] = f[x] + g[(s \ {y}) \ {x}]
        BY <3>1, <2>4
      <3>3. g[s \ {x}] = f[y] + g[(s \ {x}) \ {y}]
        BY <3>1, <2>4
      <3>4. (s \ {y}) \ {x} = (s \ {x}) \ {y} /\ (s \ {y}) \ {x} \in SUBSET T
        OBVIOUS
      <3>5. PICK n \in Nat, fx \in Nat, fy \in Nat :
              n = g[(s \ {y}) \ {x}] /\ fx = f[x] /\ fy = f[y]
        BY <3>4 DEF Summable
      <3>6. g[s] = fy + (fx + n) /\ g[s \ {x}] = fy + n
        BY <2>2, <3>2, <3>3, <3>4, <3>5
      <3>7. fy + (fx + n) = fx + (fy + n)
        BY <3>5
      <3> QED
        BY <3>5, <3>6, <3>7
    <2> QED
      BY <2>3, <2>4
  <1>3. \A s \in SUBSET T : (\A t \in SUBSET s : t # s => t \in P) => s \in P
    BY <1>2
  <1>4. SUBSET T \subseteq P
    <2> HIDE DEF P
    <2> QED
      BY <1>3, SubsetInduction
  <1>5. g[{}] = 0
    BY <1>1 DEF IsSum
  <1> SUFFICES ASSUME NEW s \in SUBSET T
               PROVE  /\ SumOn(f, s) \in Nat
                      /\ s = {} => SumOn(f, s) = 0
                      /\ \A x \in s : SumOn(f, s) = f[x] + SumOn(f, s \ {x})
    OBVIOUS
  <1>6. SumOn(f, s) = g[s] /\ \A x \in s : SumOn(f, s \ {x}) = g[s \ {x}]
    BY <1>1 DEF AllSums
  <1>7. \A x \in s : g[s] = f[x] + g[s \ {x}]
    BY <1>4
  <1> QED
    BY <1>1, <1>5, <1>6, <1>7

(***************************************************************************)
(* Of two functions, the smaller one has the smaller sum.                  *)
(***************************************************************************)
LEMMA SumMonotone ==
    ASSUME NEW T, IsFiniteSet(T), NEW f, NEW h,
           Summable(f, T), Summable(h, T), \A x \in T : f[x] <= h[x]
    PROVE  SumOn(f, T) <= SumOn(h, T)
  <1> DEFINE P == {s \in SUBSET T : SumOn(f, s) <= SumOn(h, s)}
  <1>1. ASSUME NEW s \in SUBSET T, \A t \in SUBSET s : t # s => t \in P
        PROVE  SumOn(f, s) <= SumOn(h, s)
    <2>1. CASE s = {}
      BY <2>1, SumStep
    <2>2. CASE s # {}
      <3>1. PICK x \in s : TRUE
        BY <2>2
      <3>2. PICK n \in Nat, m \in Nat :
              n = SumOn(f, s \ {x}) /\ m = SumOn(h, s \ {x})
        BY SumStep
      <3>3. n <= m
        BY <1>1, <3>1, <3>2
      <3>4. PICK fx \in Nat, hx \in Nat : fx = f[x] /\ hx = h[x] /\ fx <= hx
        BY DEF Summable
      <3>5. SumOn(f, s) = f[x] + n
        BY <3>2, SumStep
      <3>6. SumOn(h, s) = h[x] + m
        BY <3>2, SumStep
      <3> QED
        BY <3>3, <3>4, <3>5, <3>6
    <2> QED
      BY <2>1, <2>2
  <1>2. SUBSET T \subseteq P
    <2>1. \A s \in SUBSET T : (\A t \in SUBSET s : t # s => t \in P) => s \in P
      BY <1>1
    <2> HIDE DEF P
    <2> QED
      BY <2>1, SubsetInduction
  <1> QED
    BY <1>2

(***************************************************************************)
(* Where only entries of S change, a sum changes as the sum over S does.   *)
(***************************************************************************)
LEMMA SumRest ==
    ASSUME NEW T, IsFiniteSet(T), NEW f, NEW h, NEW S \in SUBSET T,
           Summable(f, T), Summable(h, T),
           \A x \in T \ S : f[x] = h[x]
    PROVE  SumOn(f, T) + SumOn(h, S) = SumOn(h, T) + SumOn(f, S)
  <1> DEFINE P == {s \in SUBSET T : S \subseteq s =>
                     SumOn(f, s) + SumOn(h, S) = SumOn(h, s) + SumOn(f, S)}
  <1>1. ASSUME NEW s \in SUBSET T, \A t \in SUBSET s : t # s => t \in P,
               S \subseteq s
        PROVE  SumOn(f, s) + SumOn(h, S) = SumOn(h, s) + SumOn(f, S)
    <2>1. PICK a \in Nat, b \in Nat : a = SumOn(f, S) /\ b = SumOn(h, S)
      BY SumStep
    <2>2. CASE s = S
      BY <2>1, <2>2
    <2>3. CASE s # S
      <3>1. PICK x \in s : x \notin S
        BY <1>1, <2>3
      <3>2. PICK n \in Nat, m \in Nat :
              n = SumOn(f, s \ {x}) /\ m = SumOn(h, s \ {x})
        BY SumStep
      <3>3. n + b = m + a
        BY <1>1, <2>1, <3>1, <3>2
      <3>4. PICK v \in Nat : v = f[x] /\ v = h[x]
        BY <3>1 DEF Summable
      <3>5. SumOn(f, s) = f[x] + n
        BY <3>2, SumStep
      <3>6. SumOn(h, s) = h[x] + m
        BY <3>2, SumStep
      <3> QED
        <4>1. SumOn(f, s) = v + n /\ SumOn(h, s) = v + m
          BY <3>4, <3>5, <3>6
        <4>2. v + n + b = v + m + a
          BY <3>3
        <4> QED
          BY <2>1, <4>1, <4>2
    <2> QED
      BY <2>2, <2>3
  <1>2. SUBSET T \subseteq P
    <2>1. \A s \in SUBSET T : (\A t \in SUBSET s : t # s => t \in P) => s \in P
      BY <1>1
    <2> HIDE DEF P
    <2> QED
      BY <2>1, SubsetInduction
  <1> QED
    BY <1>2

(***************************************************************************)
(* A part has no larger a sum than the whole.                              *)
(***************************************************************************)
LEMMA SumOfPart ==
    ASSUME NEW T, IsFiniteSet(T), NEW f, Summable(f, T), NEW S \in SUBSET T
    PROVE  SumOn(f, S) <= SumOn(f, T)
  <1> DEFINE P == {s \in SUBSET T : S \subseteq s => SumOn(f, S) <= SumOn(f, s)}
  <1>1. ASSUME NEW s \in SUBSET T, \A t \in SUBSET s : t # s => t \in P,
               S \subseteq s
        PROVE  SumOn(f, S) <= SumOn(f, s)
    <2>1. PICK n \in Nat : n = SumOn(f, S)
      BY SumStep
    <2>2. CASE s = S
      BY <2>1, <2>2
    <2>3. CASE s # S
      <3>1. PICK x \in s : x \notin S
        BY <1>1, <2>3
      <3>2. PICK m \in Nat, v \in Nat : m = SumOn(f, s \ {x}) /\ v = f[x]
        BY SumStep DEF Summable
      <3>3. n <= m
        BY <1>1, <2>1, <3>1, <3>2
      <3>4. SumOn(f, s) = v + m
        BY <3>2, SumStep
      <3> QED
        BY <2>1, <3>2, <3>3, <3>4
    <2> QED
      BY <2>2, <2>3
  <1>2. SUBSET T \subseteq P
    <2>1. \A s \in SUBSET T : (\A t \in SUBSET s : t # s => t \in P) => s \in P
      BY <1>1
    <2> HIDE DEF P
    <2> QED
      BY <2>1, SubsetInduction
  <1> QED
    BY <1>2

(***************************************************************************)
(* Equal entries have equal sums.                                          *)
(***************************************************************************)
LEMMA SumSame ==
    ASSUME NEW T, IsFiniteSet(T), NEW f, NEW h,
           Summable(f, T), Summable(h, T), \A x \in T : f[x] = h[x]
    PROVE  SumOn(f, T) = SumOn(h, T)
  <1>1. SumOn(f, T) + SumOn(h, {}) = SumOn(h, T) + SumOn(f, {})
    BY SumRest
  <1>2. SumOn(f, {}) = 0 /\ SumOn(h, {}) = 0
    BY SumStep
  <1>3. SumOn(f, T) \in Nat /\ SumOn(h, T) \in Nat
    BY SumStep
  <1> QED
    BY <1>1, <1>2, <1>3

(***************************************************************************)
(* The sum over two entries.                                               *)
(***************************************************************************)
LEMMA SumOfPair ==
    ASSUME NEW T, IsFiniteSet(T), NEW f, Summable(f, T),
           NEW a \in T, NEW b \in T, a # b
    PROVE  SumOn(f, {a, b}) = f[a] + f[b]
  <1>1. {a, b} \ {a} = {b} /\ {b} \ {b} = {}
    OBVIOUS
  <1>2. SumOn(f, {a, b}) = f[a] + SumOn(f, {b})
    <2>1. SumOn(f, {a, b}) = f[a] + SumOn(f, {a, b} \ {a})
      BY SumStep
    <2> QED
      BY <1>1, <2>1
  <1>3. SumOn(f, {b}) = f[b] + SumOn(f, {})
    <2>1. SumOn(f, {b}) = f[b] + SumOn(f, {b} \ {b})
      BY SumStep
    <2> QED
      BY <1>1, <2>1
  <1>4. SumOn(f, {}) = 0
    BY SumStep
  <1>5. PICK m \in Nat, n \in Nat : m = f[a] /\ n = f[b]
    BY DEF Summable
  <1>6. SumOn(f, {b}) = n
    BY <1>3, <1>4, <1>5
  <1> QED
    BY <1>2, <1>5, <1>6

(***************************************************************************)
(* What moves from one entry to another leaves the sum as it is.           *)
(***************************************************************************)
LEMMA SumMoved ==
    ASSUME NEW T, IsFiniteSet(T), NEW f, NEW h,
           Summable(f, T), Summable(h, T),
           NEW a \in T, NEW b \in T, a # b, f[a] + f[b] = h[a] + h[b],
           \A x \in T \ {a, b} : f[x] = h[x]
    PROVE  SumOn(f, T) = SumOn(h, T)
  <1>1. SumOn(f, T) + SumOn(h, {a, b}) = SumOn(h, T) + SumOn(f, {a, b})
    BY SumRest
  <1>2. SumOn(f, T) \in Nat /\ SumOn(h, T) \in Nat
    BY SumStep
  <1>3. PICK n \in Nat : n = SumOn(f, {a, b}) /\ n = SumOn(h, {a, b})
    <2>1. SumOn(f, {a, b}) = SumOn(h, {a, b})
      <3>1. SumOn(f, {a, b}) = f[a] + f[b]
        BY SumOfPair
      <3>2. SumOn(h, {a, b}) = h[a] + h[b]
        BY SumOfPair
      <3> QED
        BY <3>1, <3>2
    <2>2. SumOn(f, {a, b}) \in Nat
      BY SumStep
    <2> QED
      BY <2>1, <2>2
  <1> QED
    BY <1>1, <1>2, <1>3

Enumerates(l, D, A) ==
    l \in [D -> A] /\ \A i, j \in D : l[i] = l[j] => i = j

(***************************************************************************)
(* A sum over distinct indices is the sum over what they stand for.        *)
(***************************************************************************)
LEMMA SumIndexed ==
    ASSUME NEW D, IsFiniteSet(D), NEW A, IsFiniteSet(A),
           NEW l, Enumerates(l, D, A), NEW f, NEW h,
           Summable(f, D), Summable(h, A), \A i \in D : f[i] = h[l[i]]
    PROVE  SumOn(f, D) = SumOn(h, {l[i] : i \in D})
  <1> DEFINE Image(s) == {l[i] : i \in s}
             P == {s \in SUBSET D : SumOn(f, s) = SumOn(h, Image(s))}
  <1>1. ASSUME NEW s \in SUBSET D, \A t \in SUBSET s : t # s => t \in P
        PROVE  SumOn(f, s) = SumOn(h, Image(s))
    <2>1. Image(s) \in SUBSET A
      BY DEF Enumerates
    <2>2. CASE s = {}
      <3>1. Image(s) = {}
        BY <2>2
      <3> QED
        BY <2>1, <2>2, <3>1, SumStep
    <2>3. CASE s # {}
      <3>1. PICK x \in s : TRUE
        BY <2>3
      <3>2. Image(s \ {x}) = Image(s) \ {l[x]} /\ l[x] \in Image(s)
        BY DEF Enumerates
      <3>3. SumOn(f, s \ {x}) = SumOn(h, Image(s \ {x}))
        BY <1>1, <3>1
      <3>4. SumOn(f, s) = f[x] + SumOn(f, s \ {x})
        BY SumStep
      <3>5. SumOn(h, Image(s)) = h[l[x]] + SumOn(h, Image(s) \ {l[x]})
        BY <2>1, <3>2, SumStep
      <3> QED
        BY <3>2, <3>3, <3>4, <3>5
    <2> QED
      BY <2>2, <2>3
  <1>2. SUBSET D \subseteq P
    <2>1. \A s \in SUBSET D : (\A t \in SUBSET s : t # s => t \in P) => s \in P
      BY <1>1
    <2> HIDE DEF P
    <2> QED
      BY <2>1, SubsetInduction
  <1> QED
    BY <1>2

(***************************************************************************)
(* A set of numbers up to n that is not empty has a largest one, the Max   *)
(* of the library.                                                         *)
(***************************************************************************)
LEMMA Largest ==
    ASSUME NEW n \in Nat, NEW s \in SUBSET (1 .. n), s # {}
    PROVE  Max(s) \in s
  <1> DEFINE T == {n - x : x \in s}
  <1>1. T \subseteq Nat /\ T # {}
    OBVIOUS
  <1>2. PICK m \in T : \A k \in T : m <= k
    <2> HIDE DEF T
    <2> QED
      BY <1>1, Least
  <1>3. PICK x \in s : m = n - x
    OBVIOUS
  <1>4. \A y \in s : x >= y
    <2>1. ASSUME NEW y \in s
          PROVE  x >= y
      <3>1. n - x <= n - y
        BY <1>2, <1>3
      <3>2. x \in 1 .. n /\ y \in 1 .. n
        OBVIOUS
      <3> QED
        BY <3>1, <3>2
    <2> QED
      BY <2>1
  <1> QED
    BY <1>4 DEF Max
-----------------------------------------------------------------------------
(* Folds along lists. *)

(***************************************************************************)
(* The Max of the first k numbers is k.                                    *)
(***************************************************************************)
LEMMA LastOfFirst ==
    ASSUME NEW k \in Nat, k # 0
    PROVE  Max(1 .. k) = k /\ (1 .. k) \ {k} = 1 .. k - 1
  <1>1. Max(1 .. k) \in 1 .. k /\ \A y \in 1 .. k : Max(1 .. k) >= y
    <2>1. k \in 1 .. k /\ \A y \in 1 .. k : k >= y
      OBVIOUS
    <2> QED
      BY <2>1 DEF Max
  <1> QED
    BY <1>1

(***************************************************************************)
(* acc has the intermediate results of a loop over 1 .. n.                 *)
(***************************************************************************)
IsLoop(acc, n, X, base, h) ==
    /\ acc \in [0 .. n -> X]
    /\ acc[0] = base
    /\ \A k \in 1 .. n : acc[k] = h[<<acc[k - 1], k>>]

(***************************************************************************)
(* FoldLeft is a function of sets of indices; on the sets 1 .. k it has    *)
(* the results of a loop.                                                  *)
(***************************************************************************)
IsFoldOf(g, D, base, h) ==
    \A s \in SUBSET D :
       g[s] = IF s = {} THEN base ELSE h[<<g[s \ {Max(s)}], Max(s)>>]

LEMMA FoldByMax ==
    ASSUME NEW n \in Nat, NEW X, NEW base \in X, NEW h, Combines(h, 1 .. n, X)
    PROVE  \E g \in [SUBSET (1 .. n) -> X] :
              /\ IsFoldOf(g, 1 .. n, base, h)
              /\ \A s \in SUBSET (1 .. n) : s # {} => Max(s) \in s
  <1> PICK D : D = 1 .. n
    OBVIOUS
  <1>1. IsFiniteSet(D) /\ \A s \in SUBSET D : s # {} => Max(s) \in s
    <2>1. \A s \in SUBSET D : s # {} => Max(s) \in s
      BY Largest
    <2> QED
      BY <2>1, FS_Interval
  <1>2. PICK c : c = [s \in SUBSET D |-> Max(s)]
    OBVIOUS
  <1>3. Chooses(c, D)
    BY <1>1, <1>2 DEF Chooses
  <1>4. PICK g \in [SUBSET D -> X] : IsFold(g, D, base, c, h)
    BY <1>1, <1>3, FoldExists
  <1>5. IsFoldOf(g, D, base, h)
    BY <1>2, <1>4 DEF IsFold, IsFoldOf
  <1> QED
    BY <1>1, <1>4, <1>5

GoesOn(g, n, X, h) ==
    \A k \in 1 .. n : g[1 .. k - 1] \in X
                        => g[1 .. k] = h[<<g[1 .. k - 1], k>>]

(***************************************************************************)
(* FoldLeft, as a loop.                                                    *)
(***************************************************************************)
LEMMA FoldIsLoop ==
    ASSUME NEW n \in Nat, NEW X, NEW base \in X, NEW h, Combines(h, 1 .. n, X),
           NEW g, g[{}] = base, GoesOn(g, n, X, h)
    PROVE  \E acc : IsLoop(acc, n, X, base, h) /\ acc[n] = g[1 .. n]
  <1> DEFINE acc == [k \in 0 .. n |-> g[1 .. k]]
             S == {k \in Nat : k <= n => g[1 .. k] \in X}
  <1>1. 1 .. 0 = {}
    OBVIOUS
  <1>2. 0 \in S
    BY <1>1
  <1>3. ASSUME NEW k \in Nat, k \in S
        PROVE  k + 1 \in S
    <2>1. CASE k + 1 <= n
      <3>1. k + 1 \in 1 .. n /\ (k + 1) - 1 = k /\ g[1 .. k] \in X
        BY <1>3, <2>1
      <3>2. g[1 .. k + 1] = h[<<g[1 .. k], k + 1>>]
        BY <3>1 DEF GoesOn
      <3> QED
        BY <3>1, <3>2 DEF Combines
    <2> QED
      BY <2>1
  <1>4. Nat \subseteq S
    <2> HIDE DEF S
    <2> QED
      BY <1>2, <1>3, Induction
  <1>5. \A k \in 0 .. n : g[1 .. k] \in X
    BY <1>4
  <1>6. IsLoop(acc, n, X, base, h)
    <2>1. \A k \in 1 .. n : k - 1 \in 0 .. n /\ k \in 0 .. n
      OBVIOUS
    <2> QED
      BY <1>1, <1>5, <2>1 DEF GoesOn, IsLoop
  <1>7. acc[n] = g[1 .. n]
    OBVIOUS
  <1> QED
    BY <1>6, <1>7

(***************************************************************************)
(* What holds before a loop and is kept by each of its steps holds at every*)
(* step.  Q is the set of the steps at which it does.                      *)
(***************************************************************************)
LEMMA LoopInvariant ==
    ASSUME NEW n \in Nat, NEW Q, 0 \in Q,
           \A k \in 1 .. n : k - 1 \in Q => k \in Q
    PROVE  0 .. n \subseteq Q
  <1> DEFINE S == {k \in Nat : k <= n => k \in Q}
  <1>1. 0 \in S
    OBVIOUS
  <1>2. ASSUME NEW k \in Nat, k \in S
        PROVE  k + 1 \in S
    <2>1. k + 1 <= n => k + 1 \in 1 .. n /\ (k + 1) - 1 = k /\ k \in Q
      BY <1>2
    <2> QED
      BY <2>1
  <1>3. Nat \subseteq S
    <2> HIDE DEF S
    <2> QED
      BY <1>1, <1>2, Induction
  <1> QED
    BY <1>3

-----------------------------------------------------------------------------
(* Numbers of two digits. *)

(***************************************************************************)
(* A number of two digits has just these digits.                           *)
(***************************************************************************)
LEMMA TwoDigits ==
    ASSUME NEW base \in Nat \ {0, 1},
           NEW low \in 0 .. base - 1, NEW high \in 0 .. base - 1
    PROVE  /\ low + base * high \in Nat
           /\ (low + base * high) % base = low
           /\ (low + base * high) \div base = high
  <1>2. PICK n \in Nat : n = low + base * high
    OBVIOUS
  <1>3. /\ n \div base \in Int /\ (n % base) \in 0 .. base - 1
        /\ n = base * (n \div base) + (n % base)
    BY <1>2
  <1>4. PICK q \in Int, r \in 0 .. base - 1 : q = n \div base /\ r = n % base
    BY <1>3
  <1>5. base * q + r = base * high + low
    BY <1>2, <1>3, <1>4
  <1>6. q = high
    <2>1. base * (q - high) = low - r
      BY <1>4, <1>5
    <2>2. low - r < base /\ low - r > -base
      BY <1>4
    <2>3. CASE q - high >= 1
      <3>1. base * (q - high) >= base
        BY <1>4, <2>3
      <3> QED
        BY <1>4, <2>1, <2>2, <3>1
    <2>4. CASE q - high <= -1
      <3>1. base * (q - high) <= -base
        BY <1>4, <2>4
      <3> QED
        BY <1>4, <2>1, <2>2, <3>1
    <2> QED
      BY <1>4, <2>3, <2>4
  <1> QED
    BY <1>2, <1>4, <1>5, <1>6

(***************************************************************************)
(* The digits of a number below the square of the base give the number.    *)
(***************************************************************************)
LEMMA DigitsOf ==
    ASSUME NEW base \in Nat \ {0, 1}, NEW n \in Nat, n < base * base
    PROVE  /\ (n % base) \in 0 .. base - 1
           /\ (n \div base) \in 0 .. base - 1
           /\ (n % base) + base * (n \div base) = n
           /\ ((n \div base) % base) = (n \div base)
  <1>1. PICK q \in Nat, r \in 0 .. base - 1 :
          q = n \div base /\ r = n % base /\ n = base * q + r
    OBVIOUS
  <1>2. q < base
    <2> SUFFICES ASSUME q >= base PROVE FALSE
      OBVIOUS
    <2>1. base * q >= base * base
      OBVIOUS
    <2> QED
      BY <1>1, <2>1
  <1>3. q % base = q
    BY <1>2
  <1> QED
    BY <1>1, <1>2, <1>3

-----------------------------------------------------------------------------
(* Parts of lists. *)

(***************************************************************************)
(* A pair as a list.                                                       *)
(***************************************************************************)
LEMMA PairIsSeq ==
    ASSUME NEW S, NEW a \in S, NEW b \in S
    PROVE  /\ <<a, b>> \in Seq(S) /\ Len(<<a, b>>) = 2
           /\ <<a, b>>[1] = a /\ <<a, b>>[2] = b
  OBVIOUS

(***************************************************************************)
(* Three entries as a list.                                                *)
(***************************************************************************)
LEMMA TripleIsSeq ==
    ASSUME NEW S, NEW a \in S, NEW b \in S, NEW c \in S
    PROVE  /\ <<a, b, c>> \in Seq(S) /\ Len(<<a, b, c>>) = 3
           /\ <<a, b, c>>[1] = a /\ <<a, b, c>>[2] = b /\ <<a, b, c>>[3] = c
  OBVIOUS

(***************************************************************************)
(* Four entries as a list.                                                 *)
(***************************************************************************)
LEMMA QuadIsSeq ==
    ASSUME NEW S, NEW a \in S, NEW b \in S, NEW c \in S, NEW d \in S
    PROVE  /\ <<a, b, c, d>> \in Seq(S) /\ Len(<<a, b, c, d>>) = 4
           /\ <<a, b, c, d>>[1] = a /\ <<a, b, c, d>>[2] = b
           /\ <<a, b, c, d>>[3] = c /\ <<a, b, c, d>>[4] = d
  OBVIOUS

(***************************************************************************)
(* A part of a list.                                                       *)
(***************************************************************************)
LEMMA PartIn ==
    ASSUME NEW S, NEW p \in Seq(S), NEW m \in Nat \ {0}, NEW n \in Nat,
           n <= Len(p), m <= n + 1
    PROVE  SubSeq(p, m, n) \in Seq(S) /\ Len(SubSeq(p, m, n)) = n - m + 1
  <1>1. \A i \in 1 .. Len(p) : p[i] \in S
    OBVIOUS
  <1>2. \A i \in m .. n : p[i] \in S
    BY <1>1
  <1> QED
    BY <1>2, SubSeqProperties

(***************************************************************************)
(* One entry and two entries of a list, as parts of it.                    *)
(***************************************************************************)
LEMMA ShortParts ==
    ASSUME NEW S, NEW p \in Seq(S), NEW i \in 1 .. Len(p)
    PROVE  /\ SubSeq(p, i, i) = <<p[i]>>
           /\ i + 1 <= Len(p) => SubSeq(p, i, i + 1) = <<p[i], p[i + 1]>>
  <1>1. SubSeq(p, i, i) = <<p[i]>>
    <2>1. /\ SubSeq(p, i, i) \in Seq(S) /\ Len(SubSeq(p, i, i)) = 1
          /\ SubSeq(p, i, i)[1] = p[i]
      BY SubSeqProperties
    <2>2. PICK e \in S : e = p[i]
      OBVIOUS
    <2>3. PICK one \in Seq(S) : one = SubSeq(p, i, i)
      BY <2>1
    <2>4. <<e>> \in Seq(S) /\ Len(<<e>>) = 1 /\ <<e>>[1] = e
      OBVIOUS
    <2>5. Len(one) = 1 /\ \A j \in 1 .. 1 : one[j] = <<e>>[j]
      BY <2>1, <2>2, <2>3, <2>4
    <2>6. one = <<e>>
      BY <2>4, <2>5, SeqEqual
    <2> QED
      BY <2>2, <2>3, <2>6
  <1>2. ASSUME i + 1 <= Len(p)
        PROVE  SubSeq(p, i, i + 1) = <<p[i], p[i + 1]>>
    <2> DEFINE two == SubSeq(p, i, i + 1)
    <2>1. \A j \in i .. i + 1 : p[j] \in S
      BY <1>2
    <2>2. /\ two \in Seq(S) /\ Len(two) = 2
          /\ \A j \in 1 .. 2 : two[j] = p[i + j - 1]
      BY <2>1, SubSeqProperties
    <2>3. two[1] = p[i] /\ two[2] = p[i + 1]
      BY <2>2
    <2>4. <<p[i], p[i + 1]>> \in Seq(S)
      BY <1>2
    <2> HIDE DEF two
    <2>5. two = <<p[i], p[i + 1]>>
      BY <2>2, <2>3, <2>4, SeqEqual
    <2> QED
      BY <2>5 DEF two
  <1> QED
    BY <1>1, <1>2

(***************************************************************************)
(* A part of a list that has the entries of another one is that one.       *)
(***************************************************************************)
LEMMA PartIs ==
    ASSUME NEW S, NEW s \in Seq(S), NEW part \in Seq(S), NEW from \in Nat,
           from + Len(part) <= Len(s),
           \A i \in 1 .. Len(part) : s[from + i] = part[i]
    PROVE  SubSeq(s, from + 1, from + Len(part)) = part
  <1>1. PICK n \in Nat, m \in Nat : n = Len(part) /\ m = Len(s)
    <2>1. Len(part) \in Nat /\ Len(s) \in Nat
      BY LenProperties
    <2> QED
      BY <2>1
  <1>2. \A i \in from + 1 .. from + n : s[i] \in S
    BY <1>1
  <1>3. PICK cut : cut = SubSeq(s, from + 1, from + n)
    OBVIOUS
  <1>4. /\ cut \in Seq(S)
        /\ Len(cut) = n
        /\ \A i \in 1 .. n : cut[i] = s[from + i]
    <2>1. /\ cut \in Seq(S)
          /\ Len(cut) = IF from + 1 <= from + n THEN (from + n) - (from + 1) + 1
                        ELSE 0
          /\ \A i \in 1 .. (from + n) - (from + 1) + 1 :
                cut[i] = s[(from + 1) + i - 1]
      BY <1>2, <1>3, SubSeqProperties
    <2>2. (from + n) - (from + 1) + 1 = n
      OBVIOUS
    <2>3. \A i \in 1 .. n : (from + 1) + i - 1 = from + i
      OBVIOUS
    <2> QED
      BY <2>1, <2>2, <2>3
  <1>5. cut = part
    BY <1>1, <1>4, SeqEqual
  <1> QED
    BY <1>1, <1>3, <1>5

(***************************************************************************)
(* w is a and b, one behind the other, entry by entry.                     *)
(***************************************************************************)
Joined(w, a, b) ==
    /\ w = a \o b
    /\ Len(w) = Len(a) + Len(b)
    /\ \A i \in 1 .. Len(a) : w[i] = a[i]
    /\ \A i \in 1 .. Len(b) : w[Len(a) + i] = b[i]

(***************************************************************************)
(* Two lists can be put behind one another.                                *)
(***************************************************************************)
LEMMA JoinedExists ==
    ASSUME NEW S, NEW a \in Seq(S), NEW b \in Seq(S)
    PROVE  \E w \in Seq(S) : Joined(w, a, b)
  <1>1. PICK w : w = a \o b
    OBVIOUS
  <1>2. /\ w \in Seq(S) /\ Len(w) = Len(a) + Len(b)
        /\ \A i \in 1 .. Len(a) : w[i] = a[i]
        /\ \A i \in 1 .. Len(b) : w[Len(a) + i] = b[i]
    BY <1>1, ConcatProperties
  <1> QED
    BY <1>1, <1>2 DEF Joined

(***************************************************************************)
(* The start of a list, one entry at a time.                               *)
(***************************************************************************)
LEMMA FirstEntries ==
    ASSUME NEW S, NEW s \in Seq(S)
    PROVE  /\ SubSeq(s, 1, 0) = <<>>
           /\ SubSeq(s, 1, Len(s)) = s
           /\ \A k \in 1 .. Len(s) :
                 /\ s[k] \in S /\ SubSeq(s, 1, k) \in Seq(S)
                 /\ SubSeq(s, 1, k - 1) \in Seq(S)
                 /\ SubSeq(s, 1, k) = Append(SubSeq(s, 1, k - 1), s[k])
  <1>1. SubSeq(s, 1, 0) = <<>>
    BY SubSeqEmpty
  <1>2. SubSeq(s, 1, Len(s)) = s
    BY SubSeqFull
  <1>3. ASSUME NEW k \in 1 .. Len(s)
        PROVE  /\ s[k] \in S /\ SubSeq(s, 1, k) \in Seq(S)
               /\ SubSeq(s, 1, k - 1) \in Seq(S)
               /\ SubSeq(s, 1, k) = Append(SubSeq(s, 1, k - 1), s[k])
    <2>1. s[k] \in S
      OBVIOUS
    <2>2. SubSeq(s, 1, k) \in Seq(S)
      <3>1. k \in Nat /\ k <= Len(s) /\ 1 <= k + 1 /\ 1 \in Nat \ {0}
        OBVIOUS
      <3> QED
        BY <3>1, PartIn
    <2>3. PICK j \in Nat : j = k - 1
      OBVIOUS
    <2>4. SubSeq(s, 1, j) \in Seq(S)
      <3>1. j <= Len(s) /\ 1 <= j + 1 /\ 1 \in Nat \ {0}
        BY <2>3
      <3> QED
        BY <3>1, PartIn
    <2>5. SubSeq(s, 1, k) = SubSeq(s, 1, k - 1) \o <<s[k]>>
      BY SubSeqRecursiveSecond
    <2>6. Append(SubSeq(s, 1, j), s[k]) = SubSeq(s, 1, j) \o <<s[k]>>
      BY <2>1, <2>4, AppendIsConcat
    <2> QED
      BY <2>1, <2>2, <2>3, <2>4, <2>5, <2>6
  <1> QED
    BY <1>1, <1>2, <1>3

(***************************************************************************)
(* The first entries of four.                                              *)
(***************************************************************************)
LEMMA FirstOfFour ==
    ASSUME NEW S, NEW a \in S, NEW b \in S, NEW c \in S, NEW d \in S
    PROVE  /\ SubSeq(<<a, b, c, d>>, 1, 4) = <<a, b, c, d>>
           /\ SubSeq(<<a, b, c, d>>, 1, 3) = <<a, b, c>>
           /\ SubSeq(<<a, b, c, d>>, 1, 2) = <<a, b>>
  <1> DEFINE four == <<a, b, c, d>>
  <1> DEFINE three == <<a, b, c>>
  <1> DEFINE two == <<a, b>>
  <1>1. /\ four \in Seq(S) /\ Len(four) = 4
        /\ four[1] = a /\ four[2] = b /\ four[3] = c
    BY QuadIsSeq
  <1>2. /\ three \in Seq(S) /\ Len(three) = 3
        /\ three[1] = a /\ three[2] = b /\ three[3] = c
    BY TripleIsSeq
  <1>3. two \in Seq(S) /\ Len(two) = 2 /\ two[1] = a /\ two[2] = b
    BY PairIsSeq
  <1> HIDE DEF four, three, two
  <1>4. SubSeq(four, 1, 4) = four
    BY <1>1, FirstEntries
  <1>5. SubSeq(four, 1, 3) = three
    <2>1. \A i \in 1 .. 3 : (i = 1 \/ i = 2 \/ i = 3) /\ 0 + i = i
      OBVIOUS
    <2>2. \A i \in 1 .. Len(three) : four[0 + i] = three[i]
      BY <1>1, <1>2, <2>1
    <2>3. SubSeq(four, 0 + 1, 0 + Len(three)) = three
      BY <1>1, <1>2, <2>2, PartIs
    <2> QED
      BY <1>2, <2>3
  <1>6. SubSeq(four, 1, 2) = two
    <2>1. \A i \in 1 .. 2 : (i = 1 \/ i = 2) /\ 0 + i = i
      OBVIOUS
    <2>2. \A i \in 1 .. Len(two) : four[0 + i] = two[i]
      BY <1>1, <1>3, <2>1
    <2>3. SubSeq(four, 0 + 1, 0 + Len(two)) = two
      BY <1>1, <1>3, <2>2, PartIs
    <2> QED
      BY <1>3, <2>3
  <1> QED
    BY <1>4, <1>5, <1>6 DEF four, three, two

(***************************************************************************)
(* A list and its first entry.                                             *)
(***************************************************************************)
LEMMA HeadAndTail ==
    ASSUME NEW S, NEW e \in S, NEW t \in Seq(S)
    PROVE  /\ <<e>> \in Seq(S)
           /\ <<e>> \o t \in Seq(S) /\ <<e>> \o t # <<>>
           /\ (<<e>> \o t)[1] = e /\ Tail(<<e>> \o t) = t
  <1>1. PICK one \in Seq(S) : one = <<e>> /\ Len(one) = 1 /\ one[1] = e
    <2>1. <<e>> \in Seq(S) /\ Len(<<e>>) = 1 /\ <<e>>[1] = e
      OBVIOUS
    <2> QED
      BY <2>1
  <1>2. PICK w \in Seq(S) : Joined(w, one, t)
    BY JoinedExists
  <1>3. PICK n \in Nat : n = Len(t)
    OBVIOUS
  <1>4. w = one \o t /\ Len(w) = n + 1 /\ w[1] = e /\ \A i \in 1 .. n : w[1 + i] = t[i]
    BY <1>1, <1>2, <1>3 DEF Joined
  <1>5. w # <<>>
    BY <1>3, <1>4
  <1>6. PICK u \in Seq(S) : u = Tail(w) /\ Len(u) = n /\ \A i \in 1 .. n : u[i] = w[i + 1]
    <2>1. /\ Tail(w) \in Seq(S) /\ Len(Tail(w)) = Len(w) - 1
          /\ \A i \in 1 .. Len(Tail(w)) : Tail(w)[i] = w[i + 1]
      BY <1>5, HeadTailProperties
    <2>2. Len(w) - 1 = n
      BY <1>4
    <2> QED
      BY <2>1, <2>2
  <1>7. u = t
    <2>1. \A i \in 1 .. n : u[i] = t[i]
      <3>1. \A i \in 1 .. n : i + 1 = 1 + i
        OBVIOUS
      <3> QED
        BY <1>4, <1>6, <3>1
    <2> QED
      BY <1>3, <1>6, <2>1, SeqEqual
  <1> QED
    BY <1>1, <1>4, <1>5, <1>6, <1>7

-----------------------------------------------------------------------------
(* Lists behind one another. *)

(***************************************************************************)
(* Equal lists that start the same way end the same way.                   *)
(***************************************************************************)
LEMMA SameEnd ==
    ASSUME NEW S, NEW a \in Seq(S), NEW b \in Seq(S), NEW c \in Seq(S),
           a \o b = a \o c
    PROVE  b = c
  <1>1. \A T : \A s, t, v \in Seq(T) : s \o t = s \o v => t = v
    BY ConcatSimplifications
  <1> QED
    BY <1>1

(***************************************************************************)
(* w is a and b, one behind the other.  With the name in the place of the  *)
(* operator, lists can be taken apart and put together.                    *)
(***************************************************************************)
Cat(w, a, b, S) == w \in Seq(S) /\ a \in Seq(S) /\ b \in Seq(S) /\ w = a \o b

(***************************************************************************)
(* Two lists can be put behind one another.                                *)
(***************************************************************************)
LEMMA CatExists ==
    ASSUME NEW S, NEW a \in Seq(S), NEW b \in Seq(S)
    PROVE  \E w \in Seq(S) : Cat(w, a, b, S)
  BY ConcatProperties DEF Cat

(***************************************************************************)
(* Three lists behind one another, in two ways.                            *)
(***************************************************************************)
LEMMA CatRegroups ==
    ASSUME NEW S, NEW a, NEW b, NEW c, NEW ab, NEW bc, NEW w,
           Cat(ab, a, b, S), Cat(bc, b, c, S)
    PROVE  Cat(w, a, bc, S) <=> Cat(w, ab, c, S)
  <1>1. /\ a \in Seq(S) /\ b \in Seq(S) /\ c \in Seq(S)
        /\ ab \in Seq(S) /\ bc \in Seq(S) /\ ab = a \o b /\ bc = b \o c
    BY DEF Cat
  <1>2. (a \o b) \o c = a \o (b \o c)
    BY <1>1, ConcatAssociative
  <1> QED
    BY <1>1, <1>2 DEF Cat

(***************************************************************************)
(* Equal lists that start the same way end the same way, by name.          *)
(***************************************************************************)
LEMMA CatSameEnd ==
    ASSUME NEW S, NEW w, NEW a, NEW b, NEW c, Cat(w, a, b, S), Cat(w, a, c, S)
    PROVE  b = c
  <1>1. a \in Seq(S) /\ b \in Seq(S) /\ c \in Seq(S) /\ a \o b = a \o c
    BY DEF Cat
  <1> QED
    BY <1>1, SameEnd

(***************************************************************************)
(* What is left of a list behind its first piece starts with its second.   *)
(***************************************************************************)
LEMMA NextPiece ==
    ASSUME NEW S, NEW a, NEW b, NEW t, NEW d, NEW r, NEW ab, NEW abt, NEW whole,
           Cat(ab, a, b, S), Cat(abt, ab, t, S),
           Cat(whole, a, r, S), Cat(whole, abt, d, S)
    PROVE  \E rest \in Seq(S) : Cat(r, b, rest, S) /\ Cat(whole, ab, rest, S)
  <1>1. b \in Seq(S) /\ t \in Seq(S) /\ d \in Seq(S)
    BY DEF Cat
  <1>2. PICK rest \in Seq(S) : Cat(rest, t, d, S)
    BY <1>1, CatExists
  <1>3. Cat(whole, ab, rest, S)
    BY <1>2, CatRegroups
  <1>4. PICK x \in Seq(S) : Cat(x, b, rest, S)
    BY <1>1, CatExists
  <1>5. Cat(whole, a, x, S)
    BY <1>3, <1>4, CatRegroups
  <1>6. r = x
    BY <1>5, CatSameEnd
  <1> QED
    BY <1>3, <1>4, <1>6

(***************************************************************************)
(* A list in two parts with the second of a known length.                  *)
(***************************************************************************)
LEMMA CatSameParts ==
    ASSUME NEW S, NEW w, NEW a, NEW b, NEW c, NEW d,
           Cat(w, a, b, S), Cat(w, c, d, S), Len(b) = Len(d)
    PROVE  a = c /\ b = d
  <1>1. PICK m \in Nat, n \in Nat, k \in Nat :
          m = Len(a) /\ n = Len(c) /\ k = Len(b) /\ k = Len(d)
    BY DEF Cat
  <1>2. Len(w) = m + k /\ \A i \in 1 .. m : w[i] = a[i]
    <2>1. PICK x \in Seq(S) : Joined(x, a, b)
      BY JoinedExists DEF Cat
    <2> QED
      BY <1>1, <2>1 DEF Joined, Cat
  <1>3. Len(w) = n + k /\ \A i \in 1 .. n : w[i] = c[i]
    <2>1. PICK x \in Seq(S) : Joined(x, c, d)
      BY JoinedExists DEF Cat
    <2> QED
      BY <1>1, <2>1 DEF Joined, Cat
  <1>4. m = n
    BY <1>2, <1>3
  <1>5. a = c
    <2>1. a \in Seq(S) /\ c \in Seq(S)
      BY DEF Cat
    <2>2. \A i \in 1 .. Len(a) : a[i] = c[i]
      BY <1>1, <1>2, <1>3, <1>4
    <2> QED
      BY <1>1, <1>4, <2>1, <2>2, SeqEqual
  <1>6. b = d
    BY <1>5, CatSameEnd
  <1> QED
    BY <1>5, <1>6

-----------------------------------------------------------------------------
(* Concatenation along a list. *)

(***************************************************************************)
(* acc has what the first pieces of p make up, behind base.                *)
(***************************************************************************)
IsConcat(acc, n, S, base, p) ==
    /\ acc \in [0 .. n -> Seq(S)]
    /\ acc[0] = base
    /\ \A k \in 1 .. n : acc[k] = acc[k - 1] \o p[k]

(***************************************************************************)
(* The fold of a concatenation is a function of sets of indices.           *)
(***************************************************************************)
IsJoin(g, D, base, p) ==
    \A s \in SUBSET D :
       g[s] = IF s = {} THEN base ELSE g[s \ {Max(s)}] \o p[Max(s)]

(***************************************************************************)
(* p is a list of n lists.                                                 *)
(***************************************************************************)
AreLists(p, n, S) == \A k \in 1 .. n : p[k] \in Seq(S)

(***************************************************************************)
(* There is such a function, and the largest index of a set is in the set. *)
(***************************************************************************)
LEMMA JoinExists ==
    ASSUME NEW n \in Nat, NEW S, NEW base \in Seq(S), NEW p,
           AreLists(p, n, S)
    PROVE  \E g \in [SUBSET (1 .. n) -> Seq(S)] :
              /\ IsJoin(g, 1 .. n, base, p)
              /\ \A s \in SUBSET (1 .. n) : s # {} => Max(s) \in s
  <1> PICK D : D = 1 .. n
    OBVIOUS
  <1>1. PICK h : h = [vk \in Seq(S) \X D |-> vk[1] \o p[vk[2]]]
    OBVIOUS
  <1>2. PICK X : X = Seq(S)
    OBVIOUS
  <1>3. Combines(h, 1 .. n, X)
    <2>1. \A v \in Seq(S), k \in D : v \o p[k] \in Seq(S)
      BY <1>2, ConcatProperties DEF AreLists
    <2> QED
      BY <1>1, <1>2, <2>1 DEF Combines
  <1>4. base \in X
    BY <1>2
  <1>5. PICK g \in [SUBSET (1 .. n) -> X] :
           /\ IsFoldOf(g, 1 .. n, base, h)
           /\ \A s \in SUBSET (1 .. n) : s # {} => Max(s) \in s
    BY <1>3, <1>4, FoldByMax
  <1>6. ASSUME NEW s \in SUBSET D
        PROVE  g[s] = IF s = {} THEN base ELSE g[s \ {Max(s)}] \o p[Max(s)]
    <2>1. CASE s = {}
      BY <1>5, <2>1 DEF IsFoldOf
    <2>2. CASE s # {}
      <3>1. PICK m \in D : m = Max(s)
        BY <1>5, <2>2
      <3>2. g[s \ {m}] \in Seq(S)
        BY <1>2, <1>5
      <3>3. g[s] = h[<<g[s \ {m}], m>>]
        BY <1>5, <2>2, <3>1 DEF IsFoldOf
      <3>4. h[<<g[s \ {m}], m>>] = g[s \ {m}] \o p[m]
        BY <1>1, <3>2
      <3> QED
        BY <2>2, <3>1, <3>3, <3>4
    <2> QED
      BY <2>1, <2>2
  <1>7. IsJoin(g, D, base, p)
    BY <1>6 DEF IsJoin
  <1> QED
    BY <1>2, <1>5, <1>7

(***************************************************************************)
(* On the sets 1 .. k it has what the first k pieces make up.              *)
(***************************************************************************)
LEMMA JoinIsConcat ==
    ASSUME NEW n \in Nat, NEW S, NEW base \in Seq(S), NEW p,
           AreLists(p, n, S),
           NEW g, IsJoin(g, 1 .. n, base, p)
    PROVE  \E acc : IsConcat(acc, n, S, base, p) /\ acc[n] = g[1 .. n]
  <1> PICK D : D = 1 .. n
    OBVIOUS
  <1>1. PICK h : h = [vk \in Seq(S) \X D |-> vk[1] \o p[vk[2]]]
    OBVIOUS
  <1>2. PICK X : X = Seq(S)
    OBVIOUS
  <1>3. Combines(h, 1 .. n, X)
    <2>1. \A v \in Seq(S), k \in D : v \o p[k] \in Seq(S)
      BY <1>2, ConcatProperties DEF AreLists
    <2> QED
      BY <1>1, <1>2, <2>1 DEF Combines
  <1>4. base \in X
    BY <1>2
  <1>5. g[{}] = base
    BY DEF IsJoin
  <1>6. ASSUME NEW k \in 1 .. n, g[1 .. k - 1] \in X
        PROVE  g[1 .. k] = h[<<g[1 .. k - 1], k>>]
    <2>1. /\ 1 .. k \in SUBSET (1 .. n) /\ 1 .. k # {}
          /\ Max(1 .. k) = k /\ (1 .. k) \ {k} = 1 .. k - 1
      <3>1. k \in Nat /\ k # 0
        OBVIOUS
      <3>2. Max(1 .. k) = k /\ (1 .. k) \ {k} = 1 .. k - 1
        BY <3>1, LastOfFirst
      <3>3. 1 .. k \subseteq 1 .. n /\ k \in 1 .. k
        OBVIOUS
      <3> QED
        BY <3>2, <3>3
    <2>2. g[1 .. k] = g[1 .. k - 1] \o p[k]
      BY <2>1 DEF IsJoin
    <2> QED
      BY <1>1, <1>2, <1>6, <2>2
  <1>7. PICK acc : IsLoop(acc, n, X, base, h) /\ acc[n] = g[1 .. n]
    <2>1. GoesOn(g, n, X, h)
      BY <1>6 DEF GoesOn
    <2> QED
      BY <1>3, <1>4, <1>5, <2>1, FoldIsLoop
  <1>8. ASSUME NEW k \in 1 .. n
        PROVE  acc[k] = acc[k - 1] \o p[k]
    <2>1. acc[k - 1] \in Seq(S)
      BY <1>2, <1>7 DEF IsLoop
    <2>2. acc[k] = h[<<acc[k - 1], k>>]
      BY <1>7 DEF IsLoop
    <2> QED
      BY <1>1, <2>1, <2>2
  <1>9. IsConcat(acc, n, S, base, p)
    BY <1>2, <1>7, <1>8 DEF IsConcat, IsLoop
  <1> QED
    BY <1>7, <1>9

(***************************************************************************)
(* The whole starts with what the first pieces make up.                    *)
(***************************************************************************)
Starts(whole, part, S) == \E t \in Seq(S) : whole = part \o t

(***************************************************************************)
(* Every intermediate result is a start of the whole.                      *)
(***************************************************************************)
LEMMA ConcatStarts ==
    ASSUME NEW n \in Nat, NEW S, NEW base, NEW p, NEW acc,
           IsConcat(acc, n, S, base, p), AreLists(p, n, S)
    PROVE  \A k \in 0 .. n : acc[k] \in Seq(S) /\ Starts(acc[n], acc[k], S)
  <1> DEFINE Q == {k \in 0 .. n : Starts(acc[n], acc[n - k], S)}
  <1>0. \A k \in 0 .. n : acc[k] \in Seq(S)
    BY DEF IsConcat
  <1>1. 0 \in Q
    <2>1. PICK whole \in Seq(S) : whole = acc[n]
      BY <1>0
    <2>2. whole = whole \o <<>> /\ <<>> \in Seq(S)
      BY ConcatEmptySeq, EmptySeq
    <2>3. Starts(acc[n], acc[n], S)
      BY <2>1, <2>2 DEF Starts
    <2>4. n - 0 = n /\ 0 \in 0 .. n
      OBVIOUS
    <2> QED
      BY <2>3, <2>4
  <1>2. ASSUME NEW k \in 1 .. n, k - 1 \in Q
        PROVE  k \in Q
    <2>1. PICK j \in 1 .. n : j = n - (k - 1) /\ j - 1 = n - k
      OBVIOUS
    <2>2. PICK t \in Seq(S) : acc[n] = acc[j] \o t
      BY <1>2, <2>1 DEF Starts
    <2>3. j - 1 \in 0 .. n
      OBVIOUS
    <2>4. acc[j] = acc[j - 1] \o p[j]
      BY DEF IsConcat
    <2>5. acc[j - 1] \in Seq(S) /\ p[j] \in Seq(S)
      BY <1>0, <2>3 DEF AreLists
    <2>6. acc[n] = acc[j - 1] \o (p[j] \o t)
      <3>1. PICK a \in Seq(S), b \in Seq(S) : a = acc[j - 1] /\ b = p[j]
        BY <2>5
      <3>2. (a \o b) \o t = a \o (b \o t)
        BY ConcatAssociative
      <3> QED
        BY <2>2, <2>4, <3>1, <3>2
    <2>7. p[j] \o t \in Seq(S)
      BY <2>5, ConcatProperties
    <2>8. Starts(acc[n], acc[j - 1], S)
      BY <2>6, <2>7 DEF Starts
    <2> QED
      BY <2>1, <2>8
  <1>3. 0 .. n \subseteq Q
    <2> HIDE DEF Q
    <2> QED
      BY <1>1, <1>2, LoopInvariant
  <1>4. ASSUME NEW k \in 0 .. n
        PROVE  Starts(acc[n], acc[k], S)
    <2>1. PICK j \in 0 .. n : j = n - k /\ n - j = k
      OBVIOUS
    <2>2. j \in Q
      BY <1>3
    <2> QED
      BY <2>1, <2>2
  <1> QED
    BY <1>0, <1>4

(***************************************************************************)
(* Two lists of n pieces, of the same lengths.                             *)
(***************************************************************************)
SameLengths(p, q, n, S) ==
    \A k \in 1 .. n : p[k] \in Seq(S) /\ q[k] \in Seq(S) /\ Len(p[k]) = Len(q[k])

(***************************************************************************)
(* Pieces of the same lengths that make up the same list are the same.     *)
(***************************************************************************)
LEMMA SamePieces ==
    ASSUME NEW n \in Nat, NEW S, NEW p, NEW q, NEW first, NEW second, NEW base,
           IsConcat(first, n, S, base, p), IsConcat(second, n, S, base, q),
           SameLengths(p, q, n, S),
           first[n] = second[n]
    PROVE  \A k \in 1 .. n : p[k] = q[k]
  <1>1. ASSUME NEW k \in 1 .. n, first[k] = second[k]
        PROVE  first[k - 1] = second[k - 1] /\ p[k] = q[k]
    <2>1. k \in 0 .. n /\ k - 1 \in 0 .. n
      OBVIOUS
    <2>2. first[k] = first[k - 1] \o p[k] /\ second[k] = second[k - 1] \o q[k]
      BY DEF IsConcat
    <2>3. /\ first[k] \in Seq(S) /\ first[k - 1] \in Seq(S)
          /\ second[k] \in Seq(S) /\ second[k - 1] \in Seq(S)
      BY <2>1 DEF IsConcat
    <2>4. /\ Cat(first[k], first[k - 1], p[k], S)
          /\ Cat(first[k], second[k - 1], q[k], S)
      BY <1>1, <2>2, <2>3 DEF Cat, SameLengths
    <2>5. Len(p[k]) = Len(q[k])
      BY DEF SameLengths
    <2> QED
      BY <2>4, <2>5, CatSameParts
  <1> DEFINE Q == {m \in 0 .. n : first[n - m] = second[n - m]}
  <1>2. 0 \in Q
    <2>1. n - 0 = n
      OBVIOUS
    <2> QED
      BY <2>1
  <1>3. ASSUME NEW m \in 1 .. n, m - 1 \in Q
        PROVE  m \in Q
    <2>1. PICK k \in 1 .. n : k = n - (m - 1) /\ k - 1 = n - m
      OBVIOUS
    <2>2. first[k] = second[k]
      BY <1>3, <2>1
    <2>3. first[k - 1] = second[k - 1]
      BY <1>1, <2>2
    <2> QED
      BY <2>1, <2>3
  <1>4. 0 .. n \subseteq Q
    <2> HIDE DEF Q
    <2> QED
      BY <1>2, <1>3, LoopInvariant
  <1>5. ASSUME NEW k \in 1 .. n
        PROVE  p[k] = q[k]
    <2>1. PICK m \in 0 .. n : n - m = k
      <3>1. n - k \in 0 .. n /\ n - (n - k) = k
        OBVIOUS
      <3> QED
        BY <3>1
    <2>2. first[k] = second[k]
      BY <1>4, <2>1
    <2> QED
      BY <1>1, <2>2
  <1> QED
    BY <1>5
=============================================================================
