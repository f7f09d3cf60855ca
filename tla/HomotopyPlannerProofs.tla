------------------------ MODULE HomotopyPlannerProofs ------------------------
(* What HomotopyClassPlanner keeps of its candidates, for any number of      *)
(* classes and tebs and any number of cycles.                                *)
EXTENDS HomotopyPlanner, FunctionTheorems, FiniteSetTheorems, SequenceTheorems, TLAPS

-----------------------------------------------------------------------------
(* The inductive invariant.                                                *)

\* A teb is listed once, and what is known is known of the listed ones.
Types ==
  /\ tebs_ \in Seq(Tebs) /\ equivalence_classes_ \in Seq(Classes)
  /\ \A i, j \in DOMAIN tebs_ : tebs_[i] = tebs_[j] => i = j
  /\ DOMAIN class = ToSet(tebs_) /\ costed \subseteq ToSet(tebs_)
  /\ Len(tebs_) <= max_number_classes

Parallel == SizesMatch /\ \A i \in DOMAIN tebs_ : equivalence_classes_[i] = class[tebs_[i]]

\* The best teb has an invalid class, which is not listed.  It is the best until
\* another is selected, which is in the list unless none has a cost.
BestUnlisted ==
  /\ Len(tebs_) = Len(equivalence_classes_) + 1
  /\ class[tebs_[1]] = Invalid
  /\ best_teb_ = tebs_[1] \/ last_best_teb_ = tebs_[1]
  /\ pc \in {"detours", "initial", "explore", "select"} => best_teb_ = tebs_[1]
  /\ pc = "check" /\ ~IsIn(best_teb_) => costed = {}

\* The initial plan's teb, where it is listed, is of the plan's class.
PlanIsOfItsClass ==
  pc \in {"explore", "select", "check"} /\ IsIn(initial_plan_teb_) =>
    class[initial_plan_teb_] = initial_plan_eq_class_

\* Between cycles the last command stands.
CommandInv == command # None => pc = "idle" /\ CommandIsFeasible

Inv ==
  /\ Types /\ (Parallel \/ BestUnlisted) /\ PlanIsOfItsClass /\ CandidatesAreDistinct
  /\ CommandInv

-----------------------------------------------------------------------------
(* Sizes of finite sets.                                                   *)

LEMMA IntervalSize ==
  ASSUME NEW n \in Nat
  PROVE  IsFiniteSet(1 .. n) /\ Cardinality(1 .. n) = n
<1>1. IsFiniteSet(1 .. n) /\ Cardinality(1 .. n) = IF 1 > n THEN 0 ELSE n - 1 + 1
  BY FS_Interval
<1>2. (IF 1 > n THEN 0 ELSE n - 1 + 1) = n
  OBVIOUS
<1> QED  BY <1>1, <1>2

LEMMA OneMore ==
  ASSUME NEW S, IsFiniteSet(S), NEW k \in Nat, Cardinality(S) <= k, NEW x
  PROVE  IsFiniteSet(S \cup {x}) /\ Cardinality(S \cup {x}) <= k + 1
<1>1. /\ IsFiniteSet(S \cup {x})
      /\ Cardinality(S \cup {x}) = IF x \in S THEN Cardinality(S) ELSE Cardinality(S) + 1
  BY FS_AddElement
<1>2. Cardinality(S) \in Nat
  BY FS_CardinalityType
<1> QED  BY <1>1, <1>2

-----------------------------------------------------------------------------
(* Ranks: the i-th of finitely many numbers.                               *)

Rank(S, j) == Cardinality({k \in S : k <= j})

LEMMA RankGrows ==
  ASSUME NEW S, IsFiniteSet(S), S \subseteq Nat, NEW i \in S, NEW j \in S, i < j
  PROVE  Rank(S, i) < Rank(S, j)
<1> DEFINE A == {k \in S : k <= i}
           B == {k \in S : k <= j}
<1>1. i \in Nat /\ j \in Nat /\ \A k \in S : k \in Nat
  OBVIOUS
<1>2. A \subseteq B /\ B \subseteq S
  <2>1. \A k \in S : k <= i => k <= j
    BY <1>1
  <2> QED  BY <2>1
<1>3. j \in B /\ j \notin A
  BY <1>1
<1>4. IsFiniteSet(B)
  BY <1>2, FS_Subset
<1>5. /\ Cardinality(A) <= Cardinality(B) /\ Cardinality(A) # Cardinality(B)
      /\ IsFiniteSet(A)
  BY <1>2, <1>3, <1>4, FS_Subset
<1>6. Cardinality(A) \in Nat /\ Cardinality(B) \in Nat
  BY <1>4, <1>5, FS_CardinalityType
<1> QED  BY <1>5, <1>6 DEF Rank

LEMMA RankBounds ==
  ASSUME NEW S, IsFiniteSet(S), S \subseteq Nat, NEW j \in S
  PROVE  Rank(S, j) \in 1 .. Cardinality(S)
<1> DEFINE A == {k \in S : k <= j}
<1>1. A \subseteq S /\ j \in A
  OBVIOUS
<1>2. IsFiniteSet(A) /\ Cardinality(A) <= Cardinality(S)
  BY <1>1, FS_Subset
<1>3. Cardinality(A) \in Nat /\ Cardinality(S) \in Nat
  BY <1>2, FS_CardinalityType
<1>4. Cardinality(A) # 0
  BY <1>1, <1>2, FS_EmptySet
<1> QED  BY <1>2, <1>3, <1>4 DEF Rank

\* Different elements have different ranks, and every rank is taken.
LEMMA RanksAreTaken ==
  ASSUME NEW S, IsFiniteSet(S), S \subseteq Nat
  PROVE  /\ Cardinality(S) \in Nat
         /\ \A i, j \in S : Rank(S, i) = Rank(S, j) => i = j
         /\ \A r \in 1 .. Cardinality(S) : \E j \in S : Rank(S, j) = r
<1> DEFINE rank == [j \in S |-> Rank(S, j)]
<1>1. Cardinality(S) \in Nat
  BY FS_CardinalityType
<1>2. ASSUME NEW i \in S, NEW j \in S, Rank(S, i) = Rank(S, j)
      PROVE  i = j
  <2>1. Rank(S, i) \in 1 .. Cardinality(S) /\ Rank(S, j) \in 1 .. Cardinality(S)
    BY RankBounds
  <2>2. i < j => Rank(S, i) < Rank(S, j)
    BY RankGrows
  <2>3. j < i => Rank(S, j) < Rank(S, i)
    BY RankGrows
  <2>4. i \in Nat /\ j \in Nat
    OBVIOUS
  <2> QED  BY <1>1, <1>2, <2>1, <2>2, <2>3, <2>4
<1>3. rank \in [S -> 1 .. Cardinality(S)]
  BY RankBounds
<1>4. rank \in Injection(S, 1 .. Cardinality(S))
  BY <1>2, <1>3, Fun_IsInj
<1>5. /\ IsFiniteSet(1 .. Cardinality(S))
      /\ Cardinality(1 .. Cardinality(S)) = Cardinality(S)
  BY <1>1, IntervalSize
<1>6. rank \in Surjection(S, 1 .. Cardinality(S))
  BY <1>4, <1>5, FS_Injection
<1>7. \A r \in 1 .. Cardinality(S) : \E j \in S : rank[j] = r
  BY <1>6 DEF Surjection
<1>8. \A r \in 1 .. Cardinality(S) : \E j \in S : Rank(S, j) = r
  BY <1>7
<1> QED  BY <1>1, <1>2, <1>8

LEMMA MinIsLeast ==
  ASSUME NEW S, IsFiniteSet(S), S \subseteq Nat, S # {}
  PROVE  Min(S) \in S /\ \A x \in S : Min(S) <= x
<1>1. 1 \in 1 .. Cardinality(S)
  BY FS_CardinalityType, FS_EmptySet
<1>2. PICK j \in S : Rank(S, j) = 1
  BY <1>1, RanksAreTaken
<1>3. ASSUME NEW x \in S
      PROVE  j <= x
  <2>1. x \in Nat /\ j \in Nat
    OBVIOUS
  <2>2. Rank(S, x) \in 1 .. Cardinality(S)
    BY RankBounds
  <2>3. x < j => Rank(S, x) < Rank(S, j)
    BY RankGrows
  <2> QED  BY <1>2, <2>1, <2>2, <2>3
<1> QED  BY <1>2, <1>3 DEF Min

\* As many elements as there are ranks.
LEMMA RanksCount ==
  ASSUME NEW S, IsFiniteSet(S), S \subseteq Nat, NEW n \in Nat,
         \A i \in S : Rank(S, i) <= n
  PROVE  Cardinality(S) <= n
<1>1. Cardinality(S) \in Nat
  BY FS_CardinalityType
<1>2. ASSUME Cardinality(S) > n
      PROVE  FALSE
  <2>1. Cardinality(S) \in 1 .. Cardinality(S)
    BY <1>1, <1>2
  <2>2. PICK j \in S : Rank(S, j) = Cardinality(S)
    BY <2>1, RanksAreTaken
  <2> QED  BY <1>1, <1>2, <2>2
<1> QED  BY <1>1, <1>2

-----------------------------------------------------------------------------
(* The helpers on the containers.                                          *)

\* The i-th position that stays.
Place(stay, i) == CHOOSE j \in stay : Rank(stay, j) = i

LEMMA PlacesAreIncreasing ==
  ASSUME NEW S, IsFiniteSet(S), S \subseteq Nat
  PROVE  /\ Cardinality(S) \in Nat
         /\ \A i \in 1 .. Cardinality(S) : Place(S, i) \in S /\ Rank(S, Place(S, i)) = i
         /\ \A j \in S : Place(S, Rank(S, j)) = j /\ Rank(S, j) \in 1 .. Cardinality(S)
<1>1. Cardinality(S) \in Nat
  BY FS_CardinalityType
<1>2. ASSUME NEW i \in 1 .. Cardinality(S)
      PROVE  Place(S, i) \in S /\ Rank(S, Place(S, i)) = i
  <2>1. \E j \in S : Rank(S, j) = i
    BY RanksAreTaken
  <2> QED  BY <2>1 DEF Place
<1>3. ASSUME NEW j \in S
      PROVE  Place(S, Rank(S, j)) = j /\ Rank(S, j) \in 1 .. Cardinality(S)
  <2>1. Rank(S, j) \in 1 .. Cardinality(S)
    BY RankBounds
  <2>2. Place(S, Rank(S, j)) \in S /\ Rank(S, Place(S, Rank(S, j))) = Rank(S, j)
    BY <1>2, <2>1
  <2> QED  BY <2>1, <2>2, RanksAreTaken
<1> QED  BY <1>1, <1>2, <1>3

LEMMA FirstPlace ==
  ASSUME NEW S, IsFiniteSet(S), NEW n \in Nat, S \subseteq 1 .. n, 1 \in S
  PROVE  Place(S, 1) = 1
<1>1. \A k \in S : k \in Nat /\ 1 <= k
  OBVIOUS
<1>2. {k \in S : k <= 1} = {1}
  <2>1. \A k \in S : k <= 1 <=> k = 1
    BY <1>1
  <2> QED  BY <2>1
<1>3. Rank(S, 1) = 1
  BY <1>2, FS_Singleton DEF Rank
<1>4. S \subseteq Nat
  BY <1>1
<1>5. Place(S, Rank(S, 1)) = 1
  BY <1>4, PlacesAreIncreasing
<1> QED  BY <1>3, <1>5

LEMMA PickedElements ==
  ASSUME NEW T, NEW seq \in Seq(T), NEW kept
  PROVE  LET stay == kept \cap DOMAIN seq
         IN  /\ IsFiniteSet(stay) /\ stay \subseteq Nat
             /\ Cardinality(stay) \in Nat /\ Cardinality(stay) <= Len(seq)
             /\ Picked(seq, kept) \in Seq(T)
             /\ Len(Picked(seq, kept)) = Cardinality(stay)
             /\ \A i \in 1 .. Cardinality(stay) :
                  Place(stay, i) \in stay /\ Picked(seq, kept)[i] = seq[Place(stay, i)]
<1> DEFINE stay == kept \cap DOMAIN seq
<1>1. Len(seq) \in Nat /\ DOMAIN seq = 1 .. Len(seq)
  OBVIOUS
<1>2. IsFiniteSet(DOMAIN seq) /\ Cardinality(DOMAIN seq) = Len(seq)
  BY <1>1, IntervalSize
<1>3. /\ stay \subseteq DOMAIN seq /\ stay \subseteq Nat
      /\ IsFiniteSet(stay) /\ Cardinality(stay) <= Len(seq)
  BY <1>1, <1>2, FS_Subset
<1>4. /\ Cardinality(stay) \in Nat
      /\ \A i \in 1 .. Cardinality(stay) : Place(stay, i) \in stay
  BY <1>3, PlacesAreIncreasing
<1>5. Picked(seq, kept) = [i \in 1 .. Cardinality(stay) |-> seq[Place(stay, i)]]
  BY DEF Picked, Place, Rank
<1>6. \A i \in 1 .. Cardinality(stay) : seq[Place(stay, i)] \in T
  <2>1. \A i \in DOMAIN seq : seq[i] \in T
    OBVIOUS
  <2> QED  BY <1>3, <1>4, <2>1
<1>7. Picked(seq, kept) \in Seq(T) /\ Len(Picked(seq, kept)) = Cardinality(stay)
  <2> DEFINE n == Cardinality(stay)
  <2>1. Picked(seq, kept) \in [1 .. n -> T]
    BY <1>5, <1>6
  <2> HIDE DEF n
  <2>2. n \in Nat
    BY <1>4 DEF n
  <2>3. Picked(seq, kept) \in Seq(T) /\ Len(Picked(seq, kept)) = n
    BY <2>1, <2>2
  <2> QED  BY <2>3 DEF n
<1> QED  BY <1>3, <1>4, <1>5, <1>7

LEMMA PickedOwnElements ==
  ASSUME NEW T, NEW seq \in Seq(T), NEW kept \in SUBSET DOMAIN seq
  PROVE  /\ IsFiniteSet(kept) /\ kept \subseteq Nat
         /\ Cardinality(kept) \in Nat /\ Cardinality(kept) <= Len(seq)
         /\ Picked(seq, kept) \in Seq(T)
         /\ Len(Picked(seq, kept)) = Cardinality(kept)
         /\ \A i \in 1 .. Cardinality(kept) :
              Place(kept, i) \in kept /\ Picked(seq, kept)[i] = seq[Place(kept, i)]
<1> DEFINE stay == kept \cap DOMAIN seq
<1>1. /\ IsFiniteSet(stay) /\ stay \subseteq Nat
      /\ Cardinality(stay) \in Nat /\ Cardinality(stay) <= Len(seq)
      /\ Picked(seq, kept) \in Seq(T)
      /\ Len(Picked(seq, kept)) = Cardinality(stay)
      /\ \A i \in 1 .. Cardinality(stay) :
           Place(stay, i) \in stay /\ Picked(seq, kept)[i] = seq[Place(stay, i)]
  BY PickedElements
<1>2. stay = kept
  OBVIOUS
<1> HIDE DEF stay
<1> QED  BY <1>1, <1>2

LEMMA RemoveAtElements ==
  ASSUME NEW T, NEW seq \in Seq(T), NEW i \in 1 .. Len(seq)
  PROVE  /\ RemoveAt(seq, i) \in Seq(T)
         /\ Len(RemoveAt(seq, i)) = Len(seq) - 1
         /\ \A k \in 1 .. Len(seq) - 1 :
              RemoveAt(seq, i)[k] = IF k < i THEN seq[k] ELSE seq[k + 1]
<1> DEFINE n == Len(seq)
           left == SubSeq(seq, 1, i - 1)
           right == SubSeq(seq, i + 1, n)
<1>1. n \in Nat /\ i \in Nat /\ 1 <= i /\ i <= n
  OBVIOUS
<1>2. /\ left \in Seq(T) /\ Len(left) = i - 1
      /\ \A k \in 1 .. i - 1 : left[k] = seq[k]
  <2>1. \A k \in 1 .. i - 1 : seq[k] \in T
    BY <1>1
  <2> QED  BY <1>1, <2>1, SubSeqProperties
<1>3. /\ right \in Seq(T) /\ Len(right) = n - i
      /\ \A k \in 1 .. n - i : right[k] = seq[i + k]
  <2>1. \A k \in i + 1 .. n : seq[k] \in T
    BY <1>1
  <2> QED  BY <1>1, <2>1, SubSeqProperties
<1>4. RemoveAt(seq, i) = left \o right
  BY DEF RemoveAt
<1> HIDE DEF left, right
<1>5. /\ left \o right \in Seq(T) /\ Len(left \o right) = n - 1
      /\ \A k \in 1 .. n - 1 :
           (left \o right)[k] = IF k <= i - 1 THEN left[k] ELSE right[k - (i - 1)]
  <2>1. /\ left \o right \in Seq(T) /\ Len(left \o right) = Len(left) + Len(right)
        /\ \A k \in 1 .. Len(left) + Len(right) :
             (left \o right)[k] = IF k <= Len(left) THEN left[k] ELSE right[k - Len(left)]
    BY <1>2, <1>3, ConcatProperties
  <2>2. Len(left) = i - 1 /\ Len(left) + Len(right) = n - 1
    BY <1>1, <1>2, <1>3
  <2> QED  BY <2>1, <2>2
<1>6. ASSUME NEW k \in 1 .. n - 1
      PROVE  (left \o right)[k] = IF k < i THEN seq[k] ELSE seq[k + 1]
  <2>1. CASE k < i
    BY <1>1, <1>2, <1>5, <2>1
  <2>2. CASE ~(k < i)
    <3>1. k - (i - 1) \in 1 .. n - i /\ i + (k - (i - 1)) = k + 1
      BY <1>1, <2>2
    <3> QED  BY <1>1, <1>3, <1>5, <2>2, <3>1
  <2> QED  BY <2>1, <2>2
<1> QED  BY <1>4, <1>5, <1>6

LEMMA TebElements ==
  ASSUME Types
  PROVE  /\ Len(tebs_) \in Nat /\ DOMAIN tebs_ = 1 .. Len(tebs_)
         /\ Len(equivalence_classes_) \in Nat
         /\ DOMAIN equivalence_classes_ = 1 .. Len(equivalence_classes_)
         /\ \A i \in 1 .. Len(tebs_) : tebs_[i] \in Tebs /\ IsIn(tebs_[i])
         /\ \A i \in 1 .. Len(equivalence_classes_) : equivalence_classes_[i] \in Classes
         /\ \A t : IsIn(t) => \E i \in 1 .. Len(tebs_) : tebs_[i] = t
         /\ ToSet(tebs_) \subseteq Tebs
         /\ ~IsIn(None)
<1>1. /\ Len(tebs_) \in Nat /\ DOMAIN tebs_ = 1 .. Len(tebs_)
      /\ \A i \in 1 .. Len(tebs_) : tebs_[i] \in Tebs
  BY DEF Types
<1>2. /\ Len(equivalence_classes_) \in Nat
      /\ DOMAIN equivalence_classes_ = 1 .. Len(equivalence_classes_)
      /\ \A i \in 1 .. Len(equivalence_classes_) : equivalence_classes_[i] \in Classes
  BY DEF Types
<1>3. \A t : IsIn(t) <=> \E i \in 1 .. Len(tebs_) : tebs_[i] = t
  BY <1>1 DEF IsIn, ToSet
<1>4. ToSet(tebs_) \subseteq Tebs
  BY <1>1 DEF ToSet
<1>5. ~IsIn(None)
  BY <1>4, PointerAssumption DEF IsIn
<1> QED  BY <1>1, <1>2, <1>3, <1>4, <1>5

LEMMA UnlistedDoNotMatch ==
  ASSUME Types, SizesMatch
  PROVE  ~BestUnlisted
<1>1. Len(equivalence_classes_) = Len(tebs_) /\ Len(tebs_) \in Nat
  BY TebElements DEF SizesMatch
<1>2. Len(tebs_) # Len(equivalence_classes_) + 1
  BY <1>1
<1> QED  BY <1>2 DEF BestUnlisted

LEMMA TebsAreFinite ==
  ASSUME Types
  PROVE  IsFiniteSet(ToSet(tebs_)) /\ Cardinality(ToSet(tebs_)) <= Len(tebs_)
<1> DEFINE n == Len(tebs_)
<1>1. n \in Nat
  BY TebElements
<1>2. tebs_ \in Surjection(1 .. n, ToSet(tebs_))
  <2>1. tebs_ \in [1 .. n -> ToSet(tebs_)]
    BY <1>1, TebElements DEF Types, ToSet
  <2>2. \A t \in ToSet(tebs_) : \E i \in 1 .. n : tebs_[i] = t
    BY TebElements DEF ToSet
  <2> QED  BY <2>1, <2>2, Fun_IsSurj
<1>3. IsFiniteSet(1 .. n) /\ Cardinality(1 .. n) = n
  BY <1>1, IntervalSize
<1> QED  BY <1>2, <1>3, FS_Surjection

\* As long as there is room for a teb, there is an address for it.
LEMMA FreshIsNew ==
  ASSUME Types, Len(tebs_) < max_number_classes
  PROVE  /\ Fresh \in Tebs /\ ~IsIn(Fresh)
         /\ Fresh \notin {best_teb_, last_best_teb_, initial_plan_teb_}
<1> DEFINE n == Len(tebs_)
           m == max_number_classes
           S1 == ToSet(tebs_) \cup {best_teb_}
           S2 == S1 \cup {last_best_teb_}
           S3 == S2 \cup {initial_plan_teb_}
<1>1. n \in Nat /\ m \in Nat /\ n < m
  BY TebElements, NumbersAssumption
<1>4. IsFiniteSet(ToSet(tebs_)) /\ Cardinality(ToSet(tebs_)) <= n
  BY TebsAreFinite
<1> HIDE DEF S1, S2, S3
<1>5. IsFiniteSet(S1) /\ Cardinality(S1) <= n + 1
  BY <1>1, <1>4, OneMore DEF S1
<1>6. IsFiniteSet(S2) /\ Cardinality(S2) <= n + 1 + 1
  <2>1. n + 1 \in Nat
    BY <1>1
  <2> QED  BY <1>5, <2>1, OneMore DEF S2
<1>7. IsFiniteSet(S3) /\ Cardinality(S3) <= n + 1 + 1 + 1 /\ Cardinality(S3) \in Nat
  <2>1. n + 1 + 1 \in Nat
    BY <1>1
  <2> QED  BY <1>6, <2>1, OneMore, FS_CardinalityType DEF S3
<1>8. IsFiniteSet(Tebs) /\ Cardinality(Tebs) = m + 4
  BY <1>1, IntervalSize DEF Tebs
<1>9. Tebs \ S3 # {}
  <2>1. ASSUME Tebs \ S3 = {}
        PROVE  FALSE
    <3>1. Tebs \subseteq S3
      BY <2>1
    <3>2. Cardinality(Tebs) <= Cardinality(S3)
      BY <1>7, <3>1, FS_Subset
    <3> QED  BY <1>1, <1>7, <1>8, <3>2
  <2> QED  BY <2>1
<1>10. Tebs \ S3 \subseteq Nat /\ IsFiniteSet(Tebs \ S3)
  <2>1. Tebs \subseteq Nat
    BY <1>1 DEF Tebs
  <2> QED  BY <1>8, <2>1, FS_Subset
<1>11. S3 = ToSet(tebs_) \cup {best_teb_, last_best_teb_, initial_plan_teb_}
  BY DEF S1, S2, S3
<1>12. Fresh \in Tebs \ S3
  BY <1>9, <1>10, <1>11, MinIsLeast DEF Fresh
<1> QED  BY <1>11, <1>12 DEF IsIn

-----------------------------------------------------------------------------
(* Steps that leave the containers alone or clear them.                    *)

\* A planner that was cleared has nothing to keep.
LEMMA ClearedKeepsInv ==
  ASSUME ClearPlanner, command' = None, pc' \in {"idle", "renew"}
  PROVE  Inv'
<1>1. /\ tebs_' = <<>> /\ equivalence_classes_' = <<>>
      /\ DOMAIN (tebs_') = {} /\ ToSet(tebs_') = {}
  BY DEF ClearPlanner, ToSet
<1>2. DOMAIN class' = {} /\ costed' = {}
  BY <1>1 DEF ClearPlanner, ForgetOthers
<1>3. Types'
  <2>1. Len(tebs_') = 0
    BY <1>1
  <2> QED  BY <1>1, <1>2, <2>1, NumbersAssumption DEF Types
<1>4. Parallel'
  BY <1>1 DEF Parallel, SizesMatch
<1>5. CandidatesAreDistinct'
  <2>1. \A c : Cardinality({t \in ToSet(tebs_') : class'[t] = c}) = 0
    <3>1. \A c : {t \in ToSet(tebs_') : class'[t] = c} = {}
      BY <1>1
    <3> QED  BY <3>1, FS_EmptySet
  <2>2. Len(tebs_') <= max_number_classes
    BY <1>3 DEF Types
  <2>3. 0 <= max_number_plans_in_current_class /\ 0 <= 1
    BY NumbersAssumption
  <2> QED  BY <2>1, <2>2, <2>3 DEF CandidatesAreDistinct
<1>6. PlanIsOfItsClass' /\ CommandInv'
  BY DEF PlanIsOfItsClass, CommandInv
<1> QED  BY <1>3, <1>4, <1>5, <1>6 DEF Inv

LEMMA SameContainers ==
  ASSUME Inv, UNCHANGED <<tebs_, equivalence_classes_, class, best_teb_eq_class_>>,
         costed' \subseteq ToSet(tebs_)
  PROVE  Types' /\ CandidatesAreDistinct' /\ (Parallel => Parallel')
<1>1. Types'
  BY DEF Inv, Types, ToSet
<1>2. CandidatesAreDistinct'
  BY DEF Inv, CandidatesAreDistinct, SizesMatch, ToSet
<1>3. Parallel => Parallel'
  BY DEF Parallel, SizesMatch
<1> QED  BY <1>1, <1>2, <1>3

LEMMA UpdateKeepsInv ==
  ASSUME Inv, UpdateAllTEBs
  PROVE  Inv'
<1>1. pc = "idle" /\ pc' = "renew" /\ command' = None /\ UNCHANGED <<bestVars, planVars>>
  BY DEF UpdateAllTEBs
<1>2. CASE ClearPlanner
  BY <1>1, <1>2, ClearedKeepsInv
<1>3. CASE UNCHANGED tebVars
  <2>1. Types' /\ CandidatesAreDistinct' /\ (Parallel => Parallel')
    BY <1>1, <1>3, SameContainers DEF tebVars, bestVars, Inv, Types
  <2>2. BestUnlisted => BestUnlisted'
    BY <1>1, <1>3 DEF BestUnlisted, tebVars, bestVars
  <2>3. PlanIsOfItsClass' /\ CommandInv'
    BY <1>1 DEF PlanIsOfItsClass, CommandInv
  <2> QED  BY <2>1, <2>2, <2>3 DEF Inv
<1> QED  BY <1>2, <1>3 DEF UpdateAllTEBs

LEMMA OptimizeKeepsInv ==
  ASSUME Inv, OptimizeAllTEBs
  PROVE  Inv'
<1>1. /\ pc = "explore" /\ pc' = "select"
      /\ UNCHANGED <<tebs_, equivalence_classes_, bestVars, planVars, class, infeasible, command>>
      /\ costed' \subseteq ToSet(tebs_)
  BY DEF OptimizeAllTEBs, Inv, Types
<1>2. Types' /\ CandidatesAreDistinct' /\ (Parallel => Parallel')
  BY <1>1, SameContainers DEF bestVars
<1>3. BestUnlisted => BestUnlisted'
  BY <1>1 DEF BestUnlisted, bestVars
<1>4. PlanIsOfItsClass'
  BY <1>1 DEF Inv, PlanIsOfItsClass, planVars, IsIn
<1>5. CommandInv'
  BY <1>1 DEF Inv, CommandInv
<1> QED  BY <1>2, <1>3, <1>4, <1>5 DEF Inv

-----------------------------------------------------------------------------
(* Selection and check.                                                    *)

LEMMA SelectEffects ==
  ASSUME Types, SelectBestTeb
  PROVE  /\ UNCHANGED <<best_teb_eq_class_, initial_plan_eq_class_>>
         /\ initial_plan_teb_' = initial_plan_teb_ \/ ~IsIn(initial_plan_teb_')
         /\ IsIn(best_teb_) => /\ last_best_teb_' = best_teb_
                               /\ \/ IsIn(best_teb_')
                                  \/ costed = {} /\ best_teb_' = None
         /\ ~IsIn(best_teb_) => /\ last_best_teb_' = None
                                /\ best_teb_' \in costed \/ best_teb_' = None
<1>1. ~IsIn(None) /\ costed \subseteq ToSet(tebs_)
  BY TebElements DEF Types
<1>2. /\ UNCHANGED <<best_teb_eq_class_, initial_plan_eq_class_>>
      /\ initial_plan_teb_' = initial_plan_teb_ \/ ~IsIn(initial_plan_teb_')
  BY <1>1 DEF SelectBestTeb
<1>3. CASE IsIn(best_teb_)
  BY <1>1, <1>2, <1>3 DEF SelectBestTeb, IsIn
<1>4. CASE ~IsIn(best_teb_)
  BY <1>1, <1>2, <1>4 DEF SelectBestTeb
<1> QED  BY <1>3, <1>4

\* The best teb that is found is a candidate, or there is none with a cost.
LEMMA FindEffects ==
  ASSUME Types, FindBestTeb
  PROVE  /\ UNCHANGED <<best_teb_eq_class_, initial_plan_eq_class_>>
         /\ initial_plan_teb_' = initial_plan_teb_ \/ ~IsIn(initial_plan_teb_')
         /\ \/ IsIn(best_teb_) /\ UNCHANGED <<best_teb_, last_best_teb_>>
            \/ /\ ~IsIn(best_teb_) /\ last_best_teb_' = None
               /\ best_teb_' \in costed \/ best_teb_' = None
  BY SelectEffects DEF FindBestTeb, bestVars, planVars

LEMMA SelectKeepsInv ==
  ASSUME Inv, Select
  PROVE  Inv'
<1>1. /\ pc = "select" /\ pc' = "check" /\ SelectBestTeb
      /\ UNCHANGED <<tebVars, infeasible, command>>
  BY DEF Select
<1>2. Types
  BY DEF Inv
<1>3. /\ UNCHANGED <<best_teb_eq_class_, initial_plan_eq_class_>>
      /\ initial_plan_teb_' = initial_plan_teb_ \/ ~IsIn(initial_plan_teb_')
      /\ IsIn(best_teb_) => /\ last_best_teb_' = best_teb_
                            /\ \/ IsIn(best_teb_')
                               \/ costed = {} /\ best_teb_' = None
  BY <1>1, <1>2, SelectEffects
<1>4. Types' /\ CandidatesAreDistinct' /\ (Parallel => Parallel')
  BY <1>1, <1>2, <1>3, SameContainers DEF tebVars, Types
<1>5. BestUnlisted => BestUnlisted'
  <2>1. ASSUME BestUnlisted
        PROVE  BestUnlisted'
    <3>1. Len(tebs_) \in Nat /\ Len(equivalence_classes_) \in Nat /\ 1 \in 1 .. Len(tebs_)
      BY <1>2, <2>1, TebElements DEF BestUnlisted
    <3>2. best_teb_ = tebs_[1] /\ IsIn(best_teb_)
      BY <1>1, <1>2, <2>1, <3>1, TebElements DEF BestUnlisted
    <3>3. last_best_teb_' = tebs_[1] /\ (IsIn(best_teb_') \/ costed = {})
      BY <1>3, <3>2
    <3> QED  BY <1>1, <2>1, <3>3 DEF BestUnlisted, tebVars, IsIn
  <2> QED  BY <2>1
<1>6. PlanIsOfItsClass'
  BY <1>1, <1>3 DEF Inv, PlanIsOfItsClass, tebVars, IsIn
<1>7. CommandInv'
  BY <1>1 DEF Inv, CommandInv
<1> QED  BY <1>4, <1>5, <1>6, <1>7 DEF Inv

LEMMA FailKeepsInv ==
  ASSUME Fail
  PROVE  Inv'
  BY ClearedKeepsInv DEF Fail

LEMMA FeasibleKeepsInv ==
  ASSUME Inv, FeasibleTeb
  PROVE  Inv'
<1>1. /\ pc = "check" /\ FindBestTeb /\ best_teb_' \notin infeasible \cup {None}
      /\ UNCHANGED infeasible
  BY DEF FeasibleTeb
<1>2. Types
  BY DEF Inv
<1>3. /\ UNCHANGED best_teb_eq_class_
      /\ \/ IsIn(best_teb_) /\ UNCHANGED <<best_teb_, last_best_teb_>>
         \/ /\ ~IsIn(best_teb_) /\ last_best_teb_' = None
            /\ best_teb_' \in costed \/ best_teb_' = None
  BY <1>1, <1>2, FindEffects
<1>4. CASE pc' = "idle" /\ command' = BestTeb /\ UNCHANGED tebVars
  <2>1. Types' /\ CandidatesAreDistinct' /\ (Parallel => Parallel')
    BY <1>2, <1>3, <1>4, SameContainers DEF tebVars, Types
  <2>2. BestUnlisted => BestUnlisted'
    BY <1>1, <1>3, <1>4 DEF BestUnlisted, tebVars
  <2>3. IsIn(best_teb_')
    BY <1>1, <1>2, <1>3 DEF Types, IsIn
  <2>4. BestTeb = best_teb_'
    <3>1. PICK i \in 1 .. Len(tebs_) : tebs_[i] = best_teb_'
      BY <1>2, <2>3, TebElements
    <3>2. CASE Len(tebs_) = 1
      <4>1. i = 1 /\ Head(tebs_) = tebs_[1]
        BY <1>2, <3>1, <3>2 DEF Types
      <4> QED  BY <3>1, <3>2, <4>1 DEF BestTeb
    <3>3. CASE Len(tebs_) # 1
      BY <3>3 DEF BestTeb
    <3> QED  BY <3>2, <3>3
  <2>5. CommandInv'
    BY <1>1, <1>4, <2>3, <2>4 DEF CommandInv, CommandIsFeasible, tebVars, IsIn
  <2>6. PlanIsOfItsClass'
    BY <1>4 DEF PlanIsOfItsClass
  <2> QED  BY <2>1, <2>2, <2>5, <2>6 DEF Inv
<1>5. CASE Fail
  BY <1>5, FailKeepsInv
<1> QED  BY <1>4, <1>5 DEF FeasibleTeb

-----------------------------------------------------------------------------
(* Steps that take tebs out.                                               *)

LEMMA KeptTebs ==
  ASSUME Types, ForgetOthers, tebs_' \in Seq(Tebs), equivalence_classes_' \in Seq(Classes),
         Len(tebs_') <= Len(tebs_), NEW src \in [1 .. Len(tebs_') -> DOMAIN tebs_],
         \A k, l \in 1 .. Len(tebs_') : src[k] = src[l] => k = l,
         \A k \in 1 .. Len(tebs_') : tebs_'[k] = tebs_[src[k]]
  PROVE  /\ Types' /\ ToSet(tebs_') \subseteq ToSet(tebs_)
         /\ \A t \in ToSet(tebs_') : class'[t] = class[t]
<1>1. /\ Len(tebs_') \in Nat /\ DOMAIN (tebs_') = 1 .. Len(tebs_')
      /\ Len(tebs_) \in Nat /\ Len(tebs_) <= max_number_classes
  BY TebElements DEF Types
<1>2. \A k, l \in DOMAIN (tebs_') : tebs_'[k] = tebs_'[l] => k = l
  BY <1>1 DEF Types
<1>3. ToSet(tebs_') \subseteq ToSet(tebs_)
  BY <1>1 DEF ToSet
<1>4. Len(tebs_') <= max_number_classes
  BY <1>1, NumbersAssumption
<1>5. /\ DOMAIN class' = ToSet(tebs_') /\ costed' \subseteq ToSet(tebs_')
      /\ \A t \in ToSet(tebs_') : class'[t] = class[t]
  BY DEF ForgetOthers
<1>6. Types'
  BY <1>2, <1>4, <1>5 DEF Types
<1> QED  BY <1>3, <1>5, <1>6

\* Of fewer candidates no more are of a class.
LEMMA KeptClasses ==
  ASSUME Types, Types', CandidatesAreDistinct, SizesMatch, UNCHANGED best_teb_eq_class_,
         ToSet(tebs_') \subseteq ToSet(tebs_), \A t \in ToSet(tebs_') : class'[t] = class[t]
  PROVE  CandidatesAreDistinct'
<1>1. ASSUME NEW c \in Classes
      PROVE  Cardinality({t \in ToSet(tebs_') : class'[t] = c})
               <= IF c = best_teb_eq_class_' THEN max_number_plans_in_current_class ELSE 1
  <2> DEFINE S == {t \in ToSet(tebs_) : class[t] = c}
             T == {t \in ToSet(tebs_') : class'[t] = c}
  <2>1. S \subseteq ToSet(tebs_) /\ T \subseteq S
    OBVIOUS
  <2>2. IsFiniteSet(S)
    BY <2>1, TebsAreFinite, FS_Subset
  <2>3. IsFiniteSet(T) /\ Cardinality(T) <= Cardinality(S)
    BY <2>1, <2>2, FS_Subset
  <2>4. Cardinality(S) \in Nat /\ Cardinality(T) \in Nat
    BY <2>2, <2>3, FS_CardinalityType
  <2>5. Cardinality(S)
          <= IF c = best_teb_eq_class_ THEN max_number_plans_in_current_class ELSE 1
    BY DEF CandidatesAreDistinct
  <2> HIDE DEF S, T
  <2>6. Cardinality(T)
          <= IF c = best_teb_eq_class_ THEN max_number_plans_in_current_class ELSE 1
    BY <2>3, <2>4, <2>5, NumbersAssumption
  <2> QED  BY <2>6 DEF T
<1>2. Len(tebs_') <= max_number_classes
  BY DEF Types
<1> QED  BY <1>1, <1>2 DEF CandidatesAreDistinct

LEMMA KeptCandidates ==
  ASSUME Inv, Parallel, ForgetOthers, UNCHANGED best_teb_eq_class_,
         tebs_' \in Seq(Tebs), equivalence_classes_' \in Seq(Classes),
         Len(tebs_') <= Len(tebs_), Len(equivalence_classes_') = Len(tebs_'),
         NEW src \in [1 .. Len(tebs_') -> DOMAIN tebs_],
         \A k, l \in 1 .. Len(tebs_') : src[k] = src[l] => k = l,
         \A k \in 1 .. Len(tebs_') : /\ tebs_'[k] = tebs_[src[k]]
                                     /\ equivalence_classes_'[k] = equivalence_classes_[src[k]]
  PROVE  /\ Types' /\ Parallel' /\ CandidatesAreDistinct'
         /\ ToSet(tebs_') \subseteq ToSet(tebs_)
         /\ \A t \in ToSet(tebs_') : class'[t] = class[t]
<1>1. Types /\ CandidatesAreDistinct
  BY DEF Inv
<1>2. /\ Types' /\ ToSet(tebs_') \subseteq ToSet(tebs_)
      /\ \A t \in ToSet(tebs_') : class'[t] = class[t]
  BY <1>1, KeptTebs
<1>3. CandidatesAreDistinct'
  BY <1>1, <1>2, KeptClasses DEF Parallel
<1>4. Parallel'
  <2>1. DOMAIN (tebs_') = 1 .. Len(tebs_')
    OBVIOUS
  <2>2. ASSUME NEW k \in 1 .. Len(tebs_')
        PROVE  equivalence_classes_'[k] = class'[tebs_'[k]]
    <3>1. tebs_'[k] \in ToSet(tebs_')
      BY <2>1 DEF ToSet
    <3>2. class'[tebs_'[k]] = class[tebs_[src[k]]]
      BY <1>2, <3>1
    <3>3. equivalence_classes_[src[k]] = class[tebs_[src[k]]]
      BY DEF Parallel
    <3> QED  BY <3>2, <3>3
  <2> QED  BY <2>1, <2>2 DEF Parallel, SizesMatch
<1> QED  BY <1>2, <1>3, <1>4

LEMMA RemoveKeepsContainers ==
  ASSUME Inv, NEW t, RemoveTeb(t), UNCHANGED best_teb_eq_class_
  PROVE  /\ Types' /\ CandidatesAreDistinct' /\ (Parallel => Parallel')
         /\ BestUnlisted => UNCHANGED tebVars
         /\ ToSet(tebs_') \subseteq ToSet(tebs_)
         /\ \A x \in ToSet(tebs_') : class'[x] = class[x]
<1>1. Types
  BY DEF Inv
<1>2. CASE UNCHANGED tebVars
  BY <1>1, <1>2, SameContainers DEF tebVars, Types
<1>3. CASE ~UNCHANGED tebVars
  <2> DEFINE n == Len(tebs_)
             i == CHOOSE j \in DOMAIN tebs_ : tebs_[j] = t
             src == [k \in 1 .. n - 1 |-> IF k < i THEN k ELSE k + 1]
  <2>1. /\ SizesMatch /\ IsIn(t) /\ ForgetOthers
        /\ tebs_' = RemoveAt(tebs_, i)
        /\ equivalence_classes_' = RemoveAt(equivalence_classes_, i)
    BY <1>3 DEF RemoveTeb, Without
  <2>2. /\ n \in Nat /\ DOMAIN tebs_ = 1 .. n /\ Len(equivalence_classes_) = n
        /\ tebs_ \in Seq(Tebs) /\ equivalence_classes_ \in Seq(Classes)
    BY <1>1, <2>1, TebElements DEF SizesMatch, Types
  <2>3. i \in 1 .. n
    <3>1. \E j \in DOMAIN tebs_ : tebs_[j] = t
      BY <1>1, <2>1, <2>2, TebElements
    <3> QED  BY <2>2, <3>1
  <2> HIDE DEF i
  <2>4. /\ tebs_' \in Seq(Tebs) /\ Len(tebs_') = n - 1
        /\ \A k \in 1 .. n - 1 : tebs_'[k] = IF k < i THEN tebs_[k] ELSE tebs_[k + 1]
    BY <2>1, <2>2, <2>3, RemoveAtElements
  <2>5. /\ equivalence_classes_' \in Seq(Classes) /\ Len(equivalence_classes_') = n - 1
        /\ \A k \in 1 .. n - 1 :
             equivalence_classes_'[k] =
               IF k < i THEN equivalence_classes_[k] ELSE equivalence_classes_[k + 1]
    BY <2>1, <2>2, <2>3, RemoveAtElements
  <2>6. /\ src \in [1 .. Len(tebs_') -> DOMAIN tebs_]
        /\ \A k, l \in 1 .. Len(tebs_') : src[k] = src[l] => k = l
    BY <2>2, <2>3, <2>4
  <2>7. \A k \in 1 .. Len(tebs_') : /\ tebs_'[k] = tebs_[src[k]]
                                    /\ equivalence_classes_'[k] = equivalence_classes_[src[k]]
    BY <2>2, <2>3, <2>4, <2>5
  <2>8. Parallel /\ ~BestUnlisted
    BY <1>1, <2>1, UnlistedDoNotMatch DEF Inv
  <2>9. Len(tebs_') <= Len(tebs_) /\ Len(equivalence_classes_') = Len(tebs_')
    BY <2>2, <2>4, <2>5
  <2> HIDE DEF src
  <2> QED  BY <2>1, <2>4, <2>5, <2>6, <2>7, <2>8, <2>9, KeptCandidates
<1> QED  BY <1>2, <1>3

LEMMA InfeasibleKeepsInv ==
  ASSUME Inv, InfeasibleTeb
  PROVE  Inv'
<1>1. Types /\ pc = "check" /\ FindBestTeb /\ best_teb_' # None
  BY DEF Inv, InfeasibleTeb
<1>2. /\ UNCHANGED <<best_teb_eq_class_, initial_plan_eq_class_>>
      /\ initial_plan_teb_' = initial_plan_teb_ \/ ~IsIn(initial_plan_teb_')
      /\ \/ IsIn(best_teb_) /\ UNCHANGED <<best_teb_, last_best_teb_>>
         \/ /\ ~IsIn(best_teb_) /\ last_best_teb_' = None
            /\ best_teb_' \in costed \/ best_teb_' = None
  BY <1>1, FindEffects
<1>3. CASE Fail
  BY <1>3, FailKeepsInv
<1>4. CASE RemoveTeb(best_teb_') /\ UNCHANGED <<pc, command>>
  <2>1. /\ Types' /\ CandidatesAreDistinct' /\ (Parallel => Parallel')
        /\ BestUnlisted => UNCHANGED tebVars
        /\ ToSet(tebs_') \subseteq ToSet(tebs_)
        /\ \A x \in ToSet(tebs_') : class'[x] = class[x]
    BY <1>2, <1>4, RemoveKeepsContainers
  <2>2. ASSUME BestUnlisted
        PROVE  BestUnlisted'
    <3>1. UNCHANGED tebVars
      BY <2>1, <2>2
    <3>2. IsIn(best_teb_) /\ UNCHANGED <<best_teb_, last_best_teb_>>
      BY <1>1, <1>2, <2>2 DEF BestUnlisted
    <3> QED  BY <1>1, <1>4, <2>2, <3>1, <3>2 DEF BestUnlisted, tebVars, IsIn
  <2>3. PlanIsOfItsClass'
    <3>1. ASSUME initial_plan_teb_' \in ToSet(tebs_')
          PROVE  class'[initial_plan_teb_'] = initial_plan_eq_class_'
      <4>1. initial_plan_teb_' \in ToSet(tebs_)
        BY <2>1, <3>1
      <4>2. initial_plan_teb_' = initial_plan_teb_
        BY <1>2, <4>1 DEF IsIn
      <4>3. class[initial_plan_teb_] = initial_plan_eq_class_
        BY <1>1, <4>1, <4>2 DEF Inv, PlanIsOfItsClass, IsIn
      <4> QED  BY <1>2, <2>1, <3>1, <4>2, <4>3
    <3> QED  BY <3>1 DEF PlanIsOfItsClass, IsIn
  <2>4. CommandInv'
    BY <1>1, <1>4 DEF Inv, CommandInv
  <2> QED  BY <2>1, <2>2, <2>3, <2>4 DEF Inv
<1> QED  BY <1>3, <1>4 DEF InfeasibleTeb

\* What is dropped of the two containers was at the same places.
LEMMA DropKeepsInv ==
  ASSUME Inv, DropTebs
  PROVE  Inv'
<1>1. /\ pc = "detours" /\ pc' = "initial"
      /\ UNCHANGED <<bestVars, planVars, infeasible, command>>
  BY DEF DropTebs
<1>2. PICK kept \in SUBSET DOMAIN tebs_ :
        /\ MayKeep(kept)
        /\ DOMAIN tebs_ \ DOMAIN equivalence_classes_ \subseteq kept
        /\ tebs_' = Picked(tebs_, kept)
        /\ equivalence_classes_' = Picked(equivalence_classes_, kept)
        /\ ForgetOthers
  BY DEF DropTebs
<1> DEFINE n == Len(tebs_)
           m == Cardinality(kept)
           src == [k \in 1 .. m |-> Place(kept, k)]
           listed == kept \cap DOMAIN equivalence_classes_
<1>3. /\ Types /\ n \in Nat /\ DOMAIN tebs_ = 1 .. n
      /\ tebs_ \in Seq(Tebs) /\ equivalence_classes_ \in Seq(Classes)
      /\ DOMAIN equivalence_classes_ = 1 .. Len(equivalence_classes_)
      /\ Len(equivalence_classes_) \in Nat
  BY TebElements DEF Inv, Types
<1>4. /\ IsFiniteSet(kept) /\ kept \subseteq Nat /\ m \in Nat /\ m <= n
      /\ tebs_' \in Seq(Tebs) /\ Len(tebs_') = m
      /\ \A i \in 1 .. m : Place(kept, i) \in kept /\ tebs_'[i] = tebs_[Place(kept, i)]
  <2>1. /\ IsFiniteSet(kept) /\ kept \subseteq Nat
        /\ Cardinality(kept) \in Nat /\ Cardinality(kept) <= Len(tebs_)
        /\ Picked(tebs_, kept) \in Seq(Tebs) /\ Len(Picked(tebs_, kept)) = Cardinality(kept)
        /\ \A i \in 1 .. Cardinality(kept) :
             Place(kept, i) \in kept /\ Picked(tebs_, kept)[i] = tebs_[Place(kept, i)]
    BY <1>3, PickedOwnElements
  <2> QED  BY <1>2, <2>1
<1>5. /\ equivalence_classes_' \in Seq(Classes)
      /\ Len(equivalence_classes_') = Cardinality(listed)
      /\ \A i \in 1 .. Cardinality(listed) :
           equivalence_classes_'[i] = equivalence_classes_[Place(listed, i)]
  <2>1. /\ Picked(equivalence_classes_, kept) \in Seq(Classes)
        /\ Len(Picked(equivalence_classes_, kept)) = Cardinality(listed)
        /\ \A i \in 1 .. Cardinality(listed) :
             Picked(equivalence_classes_, kept)[i] = equivalence_classes_[Place(listed, i)]
    BY <1>3, PickedElements
  <2> QED  BY <1>2, <2>1
<1>6. /\ src \in [1 .. Len(tebs_') -> DOMAIN tebs_]
      /\ \A k, l \in 1 .. Len(tebs_') : src[k] = src[l] => k = l
      /\ \A k \in 1 .. Len(tebs_') : src[k] = Place(kept, k) /\ tebs_'[k] = tebs_[src[k]]
  <2>1. \A i \in 1 .. m : Rank(kept, Place(kept, i)) = i
    BY <1>4, PlacesAreIncreasing
  <2>2. \A k, l \in 1 .. m : Place(kept, k) = Place(kept, l) => k = l
    BY <2>1
  <2>3. \A i \in 1 .. m : Place(kept, i) \in DOMAIN tebs_
    BY <1>4
  <2>4. src \in [1 .. m -> DOMAIN tebs_] /\ \A k \in 1 .. m : src[k] = Place(kept, k)
    BY <2>3
  <2> HIDE DEF src, m
  <2> QED  BY <1>4, <2>2, <2>4
<1> HIDE DEF src, m, listed
<1>7. PlanIsOfItsClass' /\ CommandInv'
  <2>1. PlanIsOfItsClass'
    BY <1>1 DEF PlanIsOfItsClass
  <2>2. command = None
    BY <1>1 DEF Inv, CommandInv
  <2> QED  BY <1>1, <2>1, <2>2 DEF CommandInv
<1>8. CASE Parallel
  <2>1. listed = kept
    BY <1>3, <1>8 DEF listed, Parallel, SizesMatch
  <2>2. /\ Len(equivalence_classes_') = Len(tebs_')
        /\ \A k \in 1 .. Len(tebs_') : equivalence_classes_'[k] = equivalence_classes_[src[k]]
    BY <1>4, <1>5, <1>6, <2>1 DEF m
  <2>3. Types' /\ Parallel' /\ CandidatesAreDistinct'
    BY <1>1, <1>2, <1>4, <1>5, <1>6, <1>8, <2>2, KeptCandidates DEF bestVars
  <2> QED  BY <1>7, <2>3 DEF Inv
<1>9. CASE BestUnlisted
  <2>1. /\ Len(equivalence_classes_) = n - 1 /\ 1 <= n
        /\ class[tebs_[1]] = Invalid /\ best_teb_ = tebs_[1]
    <3>1. /\ n = Len(equivalence_classes_) + 1
          /\ class[tebs_[1]] = Invalid /\ best_teb_ = tebs_[1]
      BY <1>1, <1>9 DEF BestUnlisted
    <3> QED  BY <1>3, <3>1
  <2>2. 1 \in kept /\ n \in kept
    BY <1>2, <1>3, <2>1 DEF MayKeep
  <2>3. kept = listed \cup {n} /\ n \notin listed
    BY <1>3, <2>1, <2>2 DEF listed
  <2>4. /\ IsFiniteSet(listed) /\ Cardinality(listed) \in Nat /\ m = Cardinality(listed) + 1
    <3>1. IsFiniteSet(listed)
      BY <1>4, <2>3, FS_Subset
    <3>2. Cardinality(listed \cup {n}) = Cardinality(listed) + 1
      BY <2>3, <3>1, FS_AddElement
    <3> QED  BY <2>3, <3>1, <3>2, FS_CardinalityType DEF m
  <2>5. Len(tebs_') = Len(equivalence_classes_') + 1
    BY <1>4, <1>5, <2>4
  <2>6. Place(kept, 1) = 1
    BY <1>3, <1>4, <2>2, FirstPlace
  <2>7. tebs_'[1] = tebs_[1]
    <3>1. 1 \in 1 .. m
      BY <1>4, <2>4
    <3> QED  BY <1>4, <2>6, <3>1
  <2>8. /\ Types' /\ ToSet(tebs_') \subseteq ToSet(tebs_)
        /\ \A t \in ToSet(tebs_') : class'[t] = class[t]
    BY <1>2, <1>3, <1>4, <1>5, <1>6, KeptTebs
  <2>9. class'[tebs_'[1]] = Invalid
    <3>1. tebs_'[1] \in ToSet(tebs_')
      BY <1>4, <2>4 DEF ToSet
    <3> QED  BY <2>1, <2>7, <2>8, <3>1
  <2>10. BestUnlisted'
    BY <1>1, <2>1, <2>5, <2>7, <2>9 DEF BestUnlisted, bestVars
  <2>11. CandidatesAreDistinct'
    <3>1. Len(tebs_') \in Nat /\ Len(equivalence_classes_') \in Nat
      BY <1>4, <1>5
    <3>2. Len(tebs_') <= max_number_classes /\ ~SizesMatch'
      BY <2>5, <2>8, <3>1 DEF Types, SizesMatch
    <3> QED  BY <3>2 DEF CandidatesAreDistinct
  <2> QED  BY <1>7, <2>8, <2>10, <2>11 DEF Inv
<1> QED  BY <1>8, <1>9 DEF Inv

-----------------------------------------------------------------------------
(* Steps that add a teb.                                                   *)

\* A class is listed once for each of its tebs.
LEMMA ListedIsEnough ==
  ASSUME Types, Parallel, NEW c \in Classes
  PROVE  LET S == {t \in ToSet(tebs_) : class[t] = c}
         IN  /\ IsFiniteSet(S) /\ Cardinality(S) \in Nat
             /\ NumTebsInClass(c, equivalence_classes_) \in Nat
             /\ Cardinality(S) <= NumTebsInClass(c, equivalence_classes_)
<1> DEFINE S == {t \in ToSet(tebs_) : class[t] = c}
           I == {i \in DOMAIN equivalence_classes_ : IsEqual(c, equivalence_classes_[i])}
           f == [i \in I |-> tebs_[i]]
<1>1. /\ Len(tebs_) \in Nat /\ DOMAIN tebs_ = 1 .. Len(tebs_)
      /\ DOMAIN equivalence_classes_ = 1 .. Len(tebs_)
      /\ \A i \in 1 .. Len(tebs_) : equivalence_classes_[i] = class[tebs_[i]]
  BY TebElements DEF Parallel, SizesMatch
<1>2. I \subseteq 1 .. Len(tebs_) /\ IsFiniteSet(I)
  <2>1. I \subseteq 1 .. Len(tebs_)
    BY <1>1
  <2> QED  BY <1>1, <2>1, IntervalSize, FS_Subset
<1>3. \A i \in I : tebs_[i] \in S
  BY <1>1 DEF IsEqual, ToSet
<1>4. \A t \in S : \E i \in I : tebs_[i] = t
  <2>1. c # Invalid /\ c # None
    BY ClassesAssumption
  <2>2. ASSUME NEW t \in S
        PROVE  \E i \in I : tebs_[i] = t
    <3>1. PICK i \in 1 .. Len(tebs_) : tebs_[i] = t
      BY TebElements DEF IsIn
    <3>2. equivalence_classes_[i] = c
      BY <1>1, <3>1
    <3>3. i \in I
      BY <1>1, <2>1, <3>2 DEF IsEqual
    <3> QED  BY <3>1, <3>3
  <2> QED  BY <2>2
<1> HIDE DEF I, S
<1>5. f \in Surjection(I, S)
  <2>1. f \in [I -> S] /\ \A t \in S : \E i \in I : f[i] = t
    BY <1>3, <1>4
  <2> QED  BY <2>1, Fun_IsSurj
<1>6. IsFiniteSet(S) /\ Cardinality(S) <= Cardinality(I)
  BY <1>2, <1>5, FS_Surjection
<1>7. Cardinality(S) \in Nat /\ Cardinality(I) \in Nat
  BY <1>2, <1>6, FS_CardinalityType
<1> QED  BY <1>6, <1>7 DEF NumTebsInClass, I, S

LEMMA AddKeepsContainers ==
  ASSUME Inv, NEW c \in Classes \cup {Invalid}, Len(tebs_) < max_number_classes,
         AddAndInitNewTeb(c), UNCHANGED best_teb_eq_class_
  PROVE  /\ Types' /\ CandidatesAreDistinct' /\ (Parallel => Parallel')
         /\ BestUnlisted => /\ Len(tebs_') = Len(equivalence_classes_') + 1
                            /\ tebs_'[1] = tebs_[1] /\ class'[tebs_[1]] = Invalid
         /\ \A t \in ToSet(tebs_) : class'[t] = class[t]
         /\ \/ tebs_' = tebs_
            \/ /\ Last(tebs_') = Fresh /\ class'[Fresh] = c
               /\ ToSet(tebs_') = ToSet(tebs_) \cup {Fresh}
<1>1. Types
  BY DEF Inv
<1>2. CASE UNCHANGED tebVars
  <2>1. Types' /\ CandidatesAreDistinct' /\ (Parallel => Parallel')
    BY <1>1, <1>2, SameContainers DEF tebVars, Types
  <2> QED  BY <1>2, <2>1 DEF tebVars, BestUnlisted
<1>3. CASE ~UNCHANGED tebVars
  <2> DEFINE n == Len(tebs_)
             listed == NumTebsInClass(c, equivalence_classes_)
             fresh == Fresh
  <2>1. /\ IsNew(c, best_teb_eq_class_, listed)
        /\ equivalence_classes_' = Append(equivalence_classes_, c)
        /\ tebs_' = Append(tebs_, fresh)
        /\ class' = [t \in ToSet(tebs_') |-> IF t = fresh THEN c ELSE class[t]]
        /\ UNCHANGED costed
    BY <1>3 DEF AddAndInitNewTeb
  <2>2. fresh \in Tebs /\ fresh \notin ToSet(tebs_)
    BY <1>1, FreshIsNew DEF IsIn
  <2> HIDE DEF fresh
  <2>3. c \in Classes
    BY <2>1 DEF IsNew
  <2>4. /\ n \in Nat /\ DOMAIN tebs_ = 1 .. n /\ Len(equivalence_classes_) \in Nat
        /\ DOMAIN equivalence_classes_ = 1 .. Len(equivalence_classes_)
        /\ tebs_ \in Seq(Tebs) /\ equivalence_classes_ \in Seq(Classes)
    BY <1>1, TebElements DEF Types
  <2>5. /\ tebs_' \in Seq(Tebs) /\ Len(tebs_') = n + 1 /\ DOMAIN (tebs_') = 1 .. n + 1
        /\ \A i \in 1 .. n : tebs_'[i] = tebs_[i]
        /\ tebs_'[n + 1] = fresh
    BY <2>1, <2>2, <2>4
  <2>6. /\ equivalence_classes_' \in Seq(Classes)
        /\ Len(equivalence_classes_') = Len(equivalence_classes_) + 1
        /\ \A i \in 1 .. Len(equivalence_classes_) :
             equivalence_classes_'[i] = equivalence_classes_[i]
        /\ equivalence_classes_'[Len(equivalence_classes_) + 1] = c
    BY <2>1, <2>3, <2>4
  <2>7. ToSet(tebs_') = ToSet(tebs_) \cup {fresh}
    <3>1. ASSUME NEW t \in ToSet(tebs_')
          PROVE  t \in ToSet(tebs_) \cup {fresh}
      <4>1. PICK i \in 1 .. n + 1 : tebs_'[i] = t
        BY <2>5 DEF ToSet
      <4>2. i = n + 1 \/ i \in 1 .. n
        BY <2>4
      <4> QED  BY <2>4, <2>5, <4>1, <4>2 DEF ToSet
    <3>2. ASSUME NEW t \in ToSet(tebs_)
          PROVE  t \in ToSet(tebs_')
      <4>1. PICK i \in 1 .. n : tebs_[i] = t
        BY <2>4 DEF ToSet
      <4>2. i \in 1 .. n + 1
        BY <2>4
      <4> QED  BY <2>5, <4>1, <4>2 DEF ToSet
    <3>3. fresh \in ToSet(tebs_')
      <4>1. n + 1 \in 1 .. n + 1
        BY <2>4
      <4> QED  BY <2>5, <4>1 DEF ToSet
    <3> QED  BY <3>1, <3>2, <3>3
  <2>8. class'[fresh] = c /\ \A t \in ToSet(tebs_) : class'[t] = class[t]
    BY <2>1, <2>2, <2>7
  <2>9. Types'
    <3>1. ASSUME NEW i \in 1 .. n + 1, NEW j \in 1 .. n + 1, tebs_'[i] = tebs_'[j]
          PROVE  i = j
      <4>1. \A k \in 1 .. n : tebs_[k] \in ToSet(tebs_)
        BY <2>4 DEF ToSet
      <4>2. \A k \in 1 .. n : tebs_'[k] # fresh
        BY <2>2, <2>5, <4>1
      <4>3. (i = n + 1 \/ i \in 1 .. n) /\ (j = n + 1 \/ j \in 1 .. n)
        BY <2>4
      <4>4. CASE i \in 1 .. n /\ j \in 1 .. n
        BY <1>1, <2>4, <2>5, <3>1, <4>4 DEF Types
      <4> QED  BY <2>5, <3>1, <4>2, <4>3, <4>4
    <3>2. Len(tebs_') <= max_number_classes
      BY <2>4, <2>5, NumbersAssumption
    <3>3. DOMAIN class' = ToSet(tebs_') /\ costed' \subseteq ToSet(tebs_')
      BY <1>1, <2>1, <2>7 DEF Types
    <3> QED  BY <2>5, <2>6, <3>1, <3>2, <3>3 DEF Types
  <2>10. ASSUME Parallel
         PROVE  Parallel'
    <3>1. /\ Len(equivalence_classes_) = n
          /\ \A i \in 1 .. n : equivalence_classes_[i] = class[tebs_[i]]
      BY <2>4, <2>10 DEF Parallel, SizesMatch
    <3>2. ASSUME NEW i \in 1 .. n + 1
          PROVE  equivalence_classes_'[i] = class'[tebs_'[i]]
      <4>1. CASE i = n + 1
        BY <2>5, <2>6, <2>8, <3>1, <4>1
      <4>2. CASE i \in 1 .. n
        <5>1. tebs_[i] \in ToSet(tebs_)
          BY <2>4, <4>2 DEF ToSet
        <5> QED  BY <2>5, <2>6, <2>8, <3>1, <4>2, <5>1
      <4> QED  BY <2>4, <4>1, <4>2
    <3> QED  BY <2>5, <2>6, <3>1, <3>2 DEF Parallel, SizesMatch
  <2>11. ASSUME BestUnlisted
         PROVE  /\ Len(tebs_') = Len(equivalence_classes_') + 1
                /\ tebs_'[1] = tebs_[1] /\ class'[tebs_[1]] = Invalid
    <3>1. n = Len(equivalence_classes_) + 1 /\ class[tebs_[1]] = Invalid
      BY <2>11 DEF BestUnlisted
    <3>2. 1 \in 1 .. n
      BY <2>4, <3>1
    <3>3. tebs_[1] \in ToSet(tebs_)
      BY <2>4, <3>2 DEF ToSet
    <3> QED  BY <2>5, <2>6, <2>8, <3>1, <3>2, <3>3
  <2>12. ASSUME SizesMatch'
         PROVE  Parallel
    <3>1. Len(equivalence_classes_') = Len(tebs_')
      BY <2>12 DEF SizesMatch
    <3>2. /\ Len(equivalence_classes_') = Len(equivalence_classes_) + 1
          /\ Len(tebs_') = Len(tebs_) + 1
          /\ Len(tebs_) \in Nat /\ Len(equivalence_classes_) \in Nat
      BY <2>4, <2>5, <2>6
    <3>3. Len(equivalence_classes_) + 1 = Len(tebs_) + 1
      BY <3>1, <3>2
    <3>4. \A k, l \in Nat : k + 1 = l + 1 => k = l
      OBVIOUS
    <3>5. SizesMatch
      BY <3>2, <3>3, <3>4 DEF SizesMatch
    <3> QED  BY <3>5, UnlistedDoNotMatch DEF Inv
  <2>13. CandidatesAreDistinct'
    <3>1. ASSUME SizesMatch', NEW d \in Classes
          PROVE  Cardinality({t \in ToSet(tebs_') : class'[t] = d})
                   <= IF d = best_teb_eq_class_' THEN max_number_plans_in_current_class ELSE 1
      <4> DEFINE S == {t \in ToSet(tebs_) : class[t] = d}
                 T == {t \in ToSet(tebs_') : class'[t] = d}
                 room == IF d = best_teb_eq_class_ THEN max_number_plans_in_current_class ELSE 1
      <4>1. /\ IsFiniteSet(S) /\ Cardinality(S) \in Nat
            /\ NumTebsInClass(d, equivalence_classes_) \in Nat
            /\ Cardinality(S) <= NumTebsInClass(d, equivalence_classes_)
        BY <1>1, <2>12, <3>1, ListedIsEnough
      <4>2. Cardinality(S) <= room
        BY <2>12, <3>1 DEF Inv, CandidatesAreDistinct, Parallel
      <4>3. CASE d # c
        <5>1. T = S
          BY <2>2, <2>7, <2>8, <4>3
        <5> HIDE DEF S, T
        <5> QED  BY <4>2, <5>1 DEF T
      <4>4. CASE d = c
        <5>1. T = S \cup {fresh} /\ fresh \notin S
          BY <2>2, <2>7, <2>8, <4>4
        <5>2. listed > 0 => d = best_teb_eq_class_ /\ listed < max_number_plans_in_current_class
          BY <2>1, <4>4 DEF IsNew, IsEqual
        <5>3. listed \in Nat /\ Cardinality(S) <= listed
          BY <4>1, <4>4
        <5> HIDE DEF S, T, listed
        <5>4. Cardinality(T) = Cardinality(S) + 1
          BY <4>1, <5>1, FS_AddElement
        <5>5. CASE listed = 0
          <6>1. Cardinality(T) = 1
            BY <4>1, <5>3, <5>4, <5>5
          <6>2. 1 <= max_number_plans_in_current_class
            BY NumbersAssumption
          <6> QED  BY <6>1, <6>2 DEF T
        <5>6. CASE listed > 0
          <6>1. Cardinality(T) <= max_number_plans_in_current_class
            BY <4>1, <5>2, <5>3, <5>4, <5>6, NumbersAssumption
          <6> QED  BY <5>2, <5>6, <6>1 DEF T
        <5> QED  BY <5>3, <5>5, <5>6
      <4> QED  BY <4>3, <4>4
    <3>2. Len(tebs_') <= max_number_classes
      BY <2>9 DEF Types
    <3> QED  BY <3>1, <3>2 DEF CandidatesAreDistinct
  <2>14. Last(tebs_') = fresh
    BY <2>5 DEF Last
  <2> QED  BY <2>7, <2>8, <2>9, <2>10, <2>11, <2>13, <2>14 DEF fresh
<1> QED  BY <1>2, <1>3

LEMMA InjectKeepsInv ==
  ASSUME Inv, InjectInitialPlan
  PROVE  Inv'
<1>1. /\ pc = "initial" /\ pc' = "explore"
      /\ UNCHANGED <<best_teb_, last_best_teb_, best_teb_eq_class_, infeasible, command>>
  BY DEF InjectInitialPlan, bestVars
<1>2. CommandInv'
  <2>1. command = None
    BY <1>1 DEF Inv, CommandInv
  <2> QED  BY <1>1, <2>1 DEF CommandInv
<1>3. Types
  BY DEF Inv
<1>4. CASE initial_plan_teb_' = None /\ UNCHANGED tebVars
  <2>1. Types' /\ CandidatesAreDistinct' /\ (Parallel => Parallel')
    BY <1>1, <1>3, <1>4, SameContainers DEF tebVars, Types
  <2>2. BestUnlisted => BestUnlisted'
    BY <1>1, <1>4 DEF BestUnlisted, tebVars
  <2>3. PlanIsOfItsClass'
    <3>1. ~IsIn(None)
      BY <1>3, TebElements
    <3> QED  BY <1>4, <3>1 DEF PlanIsOfItsClass, IsIn, tebVars
  <2> QED  BY <1>2, <2>1, <2>2, <2>3 DEF Inv
<1>5. ASSUME Len(tebs_) < max_number_classes, NEW c \in Classes \cup {Invalid},
             AddAndInitNewTeb(c), initial_plan_eq_class_' = c,
             initial_plan_teb_' = IF tebs_' # tebs_ THEN Last(tebs_') ELSE None
      PROVE  Inv'
  <2>1. /\ Types' /\ CandidatesAreDistinct' /\ (Parallel => Parallel')
        /\ BestUnlisted => /\ Len(tebs_') = Len(equivalence_classes_') + 1
                           /\ tebs_'[1] = tebs_[1] /\ class'[tebs_[1]] = Invalid
        /\ \/ tebs_' = tebs_
           \/ Last(tebs_') = Fresh /\ class'[Fresh] = c
    BY <1>1, <1>5, AddKeepsContainers
  <2>2. BestUnlisted => BestUnlisted'
    BY <1>1, <2>1 DEF BestUnlisted
  <2>3. PlanIsOfItsClass'
    <3>1. CASE tebs_' = tebs_
      <4>1. ~IsIn(None)
        BY <1>3, TebElements
      <4> QED  BY <1>5, <3>1, <4>1 DEF PlanIsOfItsClass, IsIn
    <3>2. CASE tebs_' # tebs_
      BY <1>5, <2>1, <3>2 DEF PlanIsOfItsClass
    <3> QED  BY <3>1, <3>2
  <2> QED  BY <1>2, <2>1, <2>2, <2>3 DEF Inv
<1> QED  BY <1>4, <1>5 DEF InjectInitialPlan

LEMMA ExploreKeepsInv ==
  ASSUME Inv, ExplorePath
  PROVE  Inv'
<1>1. /\ pc = "explore" /\ Len(tebs_) < max_number_classes
      /\ UNCHANGED <<pc, bestVars, planVars, infeasible, command>>
  BY DEF ExplorePath
<1>2. PICK c \in Classes \cup {Invalid} : AddAndInitNewTeb(c)
  BY DEF ExplorePath
<1>3. /\ Types' /\ CandidatesAreDistinct' /\ (Parallel => Parallel')
      /\ BestUnlisted => /\ Len(tebs_') = Len(equivalence_classes_') + 1
                         /\ tebs_'[1] = tebs_[1] /\ class'[tebs_[1]] = Invalid
      /\ \A t \in ToSet(tebs_) : class'[t] = class[t]
      /\ \/ tebs_' = tebs_
         \/ ToSet(tebs_') = ToSet(tebs_) \cup {Fresh}
  BY <1>1, <1>2, AddKeepsContainers DEF bestVars
<1>4. BestUnlisted => BestUnlisted'
  BY <1>1, <1>3 DEF BestUnlisted, bestVars
<1>5. PlanIsOfItsClass'
  <2>1. Fresh # initial_plan_teb_
    BY <1>1, FreshIsNew DEF Inv
  <2>2. ASSUME initial_plan_teb_ \in ToSet(tebs_')
        PROVE  class'[initial_plan_teb_] = initial_plan_eq_class_
    <3>1. initial_plan_teb_ \in ToSet(tebs_)
      BY <1>3, <2>1, <2>2
    <3> QED  BY <1>1, <1>3, <3>1 DEF Inv, PlanIsOfItsClass, IsIn
  <2> QED  BY <1>1, <2>2 DEF PlanIsOfItsClass, IsIn, planVars
<1>6. CommandInv'
  BY <1>1 DEF Inv, CommandInv
<1> QED  BY <1>3, <1>4, <1>5, <1>6 DEF Inv

-----------------------------------------------------------------------------
(* A new cycle lists the tebs anew.                                        *)

LEMMA BestFirstElements ==
  ASSUME Types
  PROVE  /\ BestFirst \in Seq(Tebs) /\ Len(BestFirst) = Len(tebs_)
         /\ \A k \in 1 .. Len(tebs_) : BestFirst[k] \in ToSet(tebs_)
         /\ \A k, l \in 1 .. Len(tebs_) : BestFirst[k] = BestFirst[l] => k = l
         /\ IsIn(best_teb_) => 1 \in 1 .. Len(tebs_) /\ BestFirst[1] = best_teb_
<1> DEFINE n == Len(tebs_)
           i == CHOOSE j \in DOMAIN tebs_ : tebs_[j] = best_teb_
<1>1. /\ n \in Nat /\ DOMAIN tebs_ = 1 .. n /\ tebs_ \in Seq(Tebs)
      /\ \A k \in 1 .. n : tebs_[k] \in ToSet(tebs_)
      /\ \A k, l \in 1 .. n : tebs_[k] = tebs_[l] => k = l
  BY TebElements DEF Types, IsIn
<1>2. CASE IsIn(best_teb_)
  <2>1. i \in 1 .. n /\ tebs_[i] = best_teb_
    <3>1. \E j \in DOMAIN tebs_ : tebs_[j] = best_teb_
      BY <1>1, <1>2, TebElements
    <3> QED  BY <1>1, <3>1
  <2>2. BestFirst = [tebs_ EXCEPT ![1] = best_teb_, ![i] = tebs_[1]]
    BY <1>2 DEF BestFirst
  <2> HIDE DEF i
  <2>3. 1 \in 1 .. n
    BY <1>1, <2>1
  <2>4. BestFirst = [k \in 1 .. n |-> IF k = i THEN tebs_[1]
                                      ELSE IF k = 1 THEN best_teb_ ELSE tebs_[k]]
    BY <1>1, <2>1, <2>2, <2>3
  <2>5. /\ best_teb_ \in ToSet(tebs_) /\ best_teb_ \in Tebs
        /\ \A k \in 1 .. n : tebs_[k] \in Tebs
    BY <1>2, TebElements DEF IsIn
  <2>6. \A k \in 1 .. n : BestFirst[k] \in ToSet(tebs_) /\ BestFirst[k] \in Tebs
    BY <1>1, <2>3, <2>4, <2>5
  <2>7. BestFirst \in [1 .. n -> Tebs]
    BY <2>4, <2>6
  <2>8. BestFirst \in Seq(Tebs) /\ Len(BestFirst) = n
    BY <1>1, <2>7
  <2>9. BestFirst[1] = best_teb_
    BY <2>1, <2>3, <2>4
  <2>10. \A k, l \in 1 .. n : BestFirst[k] = BestFirst[l] => k = l
    BY <1>1, <2>1, <2>3, <2>4
  <2> QED  BY <2>3, <2>6, <2>8, <2>9, <2>10
<1>3. CASE ~IsIn(best_teb_)
  BY <1>1, <1>3 DEF BestFirst
<1> QED  BY <1>2, <1>3

\* The places whose class c is added.
AddedOf(c, paths, best_class) ==
  {i \in Added(paths, best_class) : paths[BestFirst[i]] = c}

\* Of every class only so many are added as it has room.
LEMMA AddedAreFew ==
  ASSUME Types, NEW paths \in [ToSet(tebs_) -> Classes \cup {Invalid}], NEW best_class,
         NEW c \in Classes
  PROVE  /\ IsFiniteSet(AddedOf(c, paths, best_class))
         /\ Cardinality(AddedOf(c, paths, best_class))
              <= IF c = best_class THEN max_number_plans_in_current_class ELSE 1
<1> DEFINE new == Added(paths, best_class)
           P == {i \in new : paths[BestFirst[i]] = c}
           L(i) == {j \in 1 .. i - 1 : IsEqual(c, paths[BestFirst[j]])}
           room == IF c = best_class THEN max_number_plans_in_current_class ELSE 1
<1>1. /\ Len(tebs_) \in Nat /\ DOMAIN tebs_ = 1 .. Len(tebs_)
      /\ c # Invalid /\ c # None
  BY TebElements, ClassesAssumption
<1>2. P \subseteq 1 .. Len(tebs_) /\ P \subseteq Nat /\ IsFiniteSet(P)
  <2>1. P \subseteq 1 .. Len(tebs_)
    BY <1>1 DEF Added
  <2> QED  BY <1>1, <2>1, IntervalSize, FS_Subset
<1>3. room \in Nat /\ 1 <= room /\ max_number_plans_in_current_class \in Nat
  BY NumbersAssumption
<1>4. ASSUME NEW i \in P
      PROVE  Rank(P, i) <= room
  <2>1. /\ i \in Nat /\ 1 <= i
        /\ IsNew(c, best_class, Cardinality(L(i)))
    <3>1. i \in 1 .. Len(tebs_)
      BY <1>2
    <3>2. IsNew(c, best_class, Cardinality({j \in 1 .. i - 1 :
                  IsEqual(paths[BestFirst[i]], paths[BestFirst[j]])}))
          /\ paths[BestFirst[i]] = c
      BY DEF Added
    <3> QED  BY <3>1, <3>2
  <2>2. IsFiniteSet(L(i))
    <3>1. i - 1 \in Nat /\ L(i) \subseteq 1 .. i - 1
      BY <2>1
    <3> QED  BY <3>1, IntervalSize, FS_Subset
  <2>3. Cardinality(L(i)) \in Nat /\ Cardinality(L(i)) + 1 <= room
    <3>1. Cardinality(L(i)) \in Nat
      BY <2>2, FS_CardinalityType
    <3>2. Cardinality(L(i)) > 0 =>
            best_class = c /\ Cardinality(L(i)) < max_number_plans_in_current_class
      BY <2>1 DEF IsNew, IsEqual
    <3> HIDE DEF L
    <3> QED  BY <1>3, <3>1, <3>2
  <2>4. {k \in P : k <= i} \subseteq L(i) \cup {i}
    <3>1. ASSUME NEW k \in P, k <= i, k # i
          PROVE  k \in L(i)
      <4>1. k \in 1 .. Len(tebs_) /\ paths[BestFirst[k]] = c
        BY <1>2
      <4>2. k \in 1 .. i - 1
        BY <2>1, <3>1, <4>1
      <4>3. IsEqual(c, paths[BestFirst[k]])
        BY <1>1, <4>1 DEF IsEqual
      <4> QED  BY <4>2, <4>3
    <3> HIDE DEF P, L
    <3> QED  BY <3>1
  <2>5. /\ IsFiniteSet(L(i) \cup {i})
        /\ Cardinality(L(i) \cup {i}) <= Cardinality(L(i)) + 1
    <3>1. Cardinality(L(i)) <= Cardinality(L(i))
      BY <2>3
    <3> HIDE DEF L
    <3> QED  BY <2>2, <2>3, <3>1, OneMore
  <2>6. Rank(P, i) <= Cardinality(L(i) \cup {i})
    BY <2>4, <2>5, FS_Subset DEF Rank
  <2>7. Rank(P, i) \in Nat /\ Cardinality(L(i) \cup {i}) \in Nat
    <3>1. IsFiniteSet({k \in P : k <= i})
      BY <2>4, <2>5, FS_Subset
    <3> QED  BY <2>5, <3>1, FS_CardinalityType DEF Rank
  <2> HIDE DEF L, P, room
  <2> QED  BY <1>3, <2>3, <2>5, <2>6, <2>7
<1>5. Cardinality(P) <= room
  <2> HIDE DEF P, room
  <2> QED  BY <1>2, <1>3, <1>4, RanksCount
<1> QED  BY <1>2, <1>5 DEF AddedOf

LEMMA RenewKeepsInv ==
  ASSUME Inv, RenewOldTebs
  PROVE  Inv'
<1> DEFINE n == Len(tebs_)
           best == {i \in DOMAIN tebs_ : BestFirst[i] = best_teb_}
<1>1. PICK paths \in [ToSet(tebs_) -> Classes \cup {Invalid}] :
        /\ best_teb_eq_class_' = IF IsIn(best_teb_) THEN paths[best_teb_] ELSE best_teb_eq_class_
        /\ tebs_' = Picked(BestFirst, Added(paths, best_teb_eq_class_') \cup best)
        /\ equivalence_classes_' =
             Picked([i \in DOMAIN tebs_ |-> paths[BestFirst[i]]], Added(paths, best_teb_eq_class_'))
        /\ class' = [t \in ToSet(tebs_') |-> paths[t]]
        /\ costed' = costed \cap ToSet(tebs_')
  BY DEF RenewOldTebs
<1> DEFINE new == Added(paths, best_teb_eq_class_')
           kept == new \cup best
           classes == [i \in DOMAIN tebs_ |-> paths[BestFirst[i]]]
<1>2. /\ pc = "renew" /\ pc' = "detours"
      /\ UNCHANGED <<best_teb_, last_best_teb_, planVars, infeasible, command>>
  BY DEF RenewOldTebs
<1>3. PlanIsOfItsClass' /\ CommandInv'
  <2>1. PlanIsOfItsClass'
    BY <1>2 DEF PlanIsOfItsClass
  <2>2. command = None
    BY <1>2 DEF Inv, CommandInv
  <2> QED  BY <1>2, <2>1, <2>2 DEF CommandInv
<1>4. /\ Types /\ n \in Nat /\ DOMAIN tebs_ = 1 .. n /\ n <= max_number_classes
      /\ IsIn(best_teb_) \/ \A i \in 1 .. n : BestFirst[i] # best_teb_
      /\ BestFirst \in Seq(Tebs) /\ Len(BestFirst) = n /\ DOMAIN BestFirst = 1 .. n
      /\ \A k \in 1 .. n : BestFirst[k] \in ToSet(tebs_)
      /\ \A k, l \in 1 .. n : BestFirst[k] = BestFirst[l] => k = l
      /\ IsIn(best_teb_) => 1 \in 1 .. n /\ BestFirst[1] = best_teb_
  BY TebElements, BestFirstElements DEF Inv, Types, IsIn
<1>5. /\ new \subseteq 1 .. n
      /\ \A i \in new : paths[BestFirst[i]] \in Classes
      /\ 1 \in 1 .. n /\ 1 \notin new => paths[BestFirst[1]] = Invalid
  <2>1. new \subseteq 1 .. n
    BY <1>4 DEF Added
  <2>2. \A i \in new : paths[BestFirst[i]] # Invalid
    BY DEF Added, IsNew
  <2>3. \A i \in 1 .. n : paths[BestFirst[i]] \in Classes \cup {Invalid}
    BY <1>4
  <2>4. ASSUME 1 \in 1 .. n, paths[BestFirst[1]] # Invalid
        PROVE  1 \in new
    <3>1. Cardinality({j \in 1 .. 1 - 1 : IsEqual(paths[BestFirst[1]], paths[BestFirst[j]])}) = 0
      <4>1. {j \in 1 .. 1 - 1 : IsEqual(paths[BestFirst[1]], paths[BestFirst[j]])} = {}
        OBVIOUS
      <4> QED  BY <4>1, FS_EmptySet
    <3>2. IsNew(paths[BestFirst[1]], best_teb_eq_class_', 0)
      BY <2>4 DEF IsNew
    <3> QED  BY <1>4, <2>4, <3>1, <3>2 DEF Added
  <2> QED  BY <2>1, <2>2, <2>3, <2>4
<1>6. best \subseteq 1 .. n /\ best \subseteq {1} /\ (best # {} => IsIn(best_teb_))
  BY <1>4
<1>7. classes \in Seq(Classes \cup {Invalid}) /\ DOMAIN classes = 1 .. n
  <2>1. classes \in [1 .. n -> Classes \cup {Invalid}]
    BY <1>4
  <2> HIDE DEF classes
  <2> QED  BY <1>4, <2>1
<1> HIDE DEF best, new, classes
<1>8. /\ IsFiniteSet(kept) /\ Cardinality(kept) \in Nat /\ Cardinality(kept) <= n
      /\ kept \subseteq 1 .. n /\ kept \subseteq Nat
      /\ tebs_' \in Seq(Tebs) /\ Len(tebs_') = Cardinality(kept)
      /\ \A i \in 1 .. Cardinality(kept) :
           Place(kept, i) \in kept /\ tebs_'[i] = BestFirst[Place(kept, i)]
  <2>1. kept \in SUBSET DOMAIN BestFirst
    BY <1>4, <1>5, <1>6
  <2>2. tebs_' = Picked(BestFirst, kept)
    BY <1>1 DEF best, new
  <2> HIDE DEF kept
  <2> QED  BY <1>4, <2>1, <2>2, PickedOwnElements
<1>9. /\ IsFiniteSet(new) /\ Cardinality(new) \in Nat
      /\ equivalence_classes_' \in Seq(Classes)
      /\ Len(equivalence_classes_') = Cardinality(new)
      /\ \A i \in 1 .. Cardinality(new) :
           /\ Place(new, i) \in new
           /\ equivalence_classes_'[i] = paths[BestFirst[Place(new, i)]]
  <2>1. new \in SUBSET DOMAIN classes
    BY <1>5, <1>7
  <2>2. equivalence_classes_' = Picked(classes, new)
    BY <1>1 DEF classes, new
  <2>3. /\ IsFiniteSet(new) /\ Cardinality(new) \in Nat
        /\ equivalence_classes_' \in Seq(Classes \cup {Invalid})
        /\ Len(equivalence_classes_') = Cardinality(new)
        /\ \A i \in 1 .. Cardinality(new) :
             Place(new, i) \in new /\ equivalence_classes_'[i] = classes[Place(new, i)]
    BY <1>7, <2>1, <2>2, PickedOwnElements
  <2>4. \A i \in 1 .. Cardinality(new) :
          equivalence_classes_'[i] = paths[BestFirst[Place(new, i)]]
    BY <1>4, <1>5, <2>3 DEF classes
  <2>5. \A i \in 1 .. Cardinality(new) : equivalence_classes_'[i] \in Classes
    BY <1>5, <2>3, <2>4
  <2>6. equivalence_classes_' \in [1 .. Cardinality(new) -> Classes]
    BY <2>3, <2>5
  <2>7. equivalence_classes_' \in Seq(Classes)
    BY <2>3, <2>6
  <2> QED  BY <2>3, <2>4, <2>7
<1> HIDE DEF kept
<1>10. Types'
  <2>1. \A i, j \in 1 .. Cardinality(kept) : Place(kept, i) = Place(kept, j) => i = j
    <3>1. \A i \in 1 .. Cardinality(kept) : Rank(kept, Place(kept, i)) = i
      BY <1>8, PlacesAreIncreasing
    <3> QED  BY <3>1
  <2>2. \A i, j \in 1 .. Cardinality(kept) : tebs_'[i] = tebs_'[j] => i = j
    BY <1>4, <1>8, <2>1
  <2>3. DOMAIN (tebs_') = 1 .. Cardinality(kept)
    BY <1>8
  <2>4. Len(tebs_') <= max_number_classes
    BY <1>4, <1>8, NumbersAssumption
  <2>5. DOMAIN class' = ToSet(tebs_') /\ costed' \subseteq ToSet(tebs_')
    BY <1>1
  <2> QED  BY <1>8, <1>9, <2>2, <2>3, <2>4, <2>5 DEF Types
<1>11. \A k \in 1 .. Len(tebs_') : tebs_'[k] \in ToSet(tebs_') /\ class'[tebs_'[k]] = paths[tebs_'[k]]
  <2>1. \A k \in 1 .. Len(tebs_') : tebs_'[k] \in ToSet(tebs_')
    BY <1>8 DEF ToSet
  <2> QED  BY <1>1, <2>1
<1>12. CASE kept = new
  <2>1. Parallel'
    <3>1. DOMAIN (tebs_') = 1 .. Len(tebs_') /\ Len(tebs_') = Cardinality(new)
      BY <1>8, <1>12
    <3>2. ASSUME NEW k \in 1 .. Len(tebs_')
          PROVE  equivalence_classes_'[k] = class'[tebs_'[k]]
      BY <1>8, <1>9, <1>11, <1>12, <3>1
    <3> QED  BY <1>9, <3>1, <3>2 DEF Parallel, SizesMatch
  <2>2. CandidatesAreDistinct'
    <3>1. ASSUME NEW c \in Classes
          PROVE  Cardinality({t \in ToSet(tebs_') : class'[t] = c})
                   <= IF c = best_teb_eq_class_' THEN max_number_plans_in_current_class ELSE 1
      <4> DEFINE S == {t \in ToSet(tebs_') : class'[t] = c}
                 P == {i \in new : paths[BestFirst[i]] = c}
                 f == [i \in P |-> BestFirst[i]]
                 room == IF c = best_teb_eq_class_' THEN max_number_plans_in_current_class ELSE 1
      <4>1. IsFiniteSet(P) /\ Cardinality(P) <= room
        <5>1. \A b : /\ IsFiniteSet(AddedOf(c, paths, b))
                     /\ Cardinality(AddedOf(c, paths, b))
                          <= IF c = b THEN max_number_plans_in_current_class ELSE 1
          BY <1>4, AddedAreFew
        <5> QED  BY <5>1 DEF AddedOf, new
      <4>2. ASSUME NEW t \in S
            PROVE  \E i \in P : BestFirst[i] = t
        <5>1. PICK k \in 1 .. Len(tebs_') : tebs_'[k] = t
          BY <1>8 DEF ToSet
        <5>2. Place(new, k) \in new /\ t = BestFirst[Place(new, k)]
          BY <1>8, <1>12, <5>1
        <5>3. class'[t] = paths[t] /\ class'[t] = c
          BY <1>11, <5>1
        <5> QED  BY <5>2, <5>3
      <4>3. ASSUME NEW i \in P
            PROVE  BestFirst[i] \in S
        <5>1. /\ Place(kept, Rank(kept, i)) = i
              /\ Rank(kept, i) \in 1 .. Cardinality(kept)
          <6>1. i \in kept
            BY <1>12
          <6> HIDE DEF P
          <6> QED  BY <1>8, <6>1, PlacesAreIncreasing
        <5>2. tebs_'[Rank(kept, i)] = BestFirst[i]
          BY <1>8, <5>1
        <5> QED  BY <1>8, <1>11, <5>1, <5>2
      <4> HIDE DEF S, P, room
      <4>4. f \in Surjection(P, S)
        <5>1. f \in [P -> S] /\ \A t \in S : \E i \in P : f[i] = t
          BY <4>2, <4>3
        <5> QED  BY <5>1, Fun_IsSurj
      <4>5. IsFiniteSet(S) /\ Cardinality(S) <= Cardinality(P)
        BY <4>1, <4>4, FS_Surjection
      <4>6. Cardinality(S) \in Nat /\ Cardinality(P) \in Nat /\ room \in Nat
        BY <4>1, <4>5, FS_CardinalityType, NumbersAssumption DEF room
      <4>7. Cardinality(S) <= room
        BY <4>1, <4>5, <4>6
      <4> QED  BY <4>7 DEF S, room
    <3>2. Len(tebs_') <= max_number_classes
      BY <1>10 DEF Types
    <3> QED  BY <3>1, <3>2 DEF CandidatesAreDistinct
  <2> QED  BY <1>3, <1>10, <2>1, <2>2 DEF Inv
<1>13. CASE kept # new
  <2>1. /\ best = {1} /\ 1 \notin new /\ kept = new \cup {1} /\ 1 \in kept
        /\ IsIn(best_teb_) /\ 1 \in 1 .. n /\ BestFirst[1] = best_teb_
    <3>1. kept = new \cup best
      BY DEF kept
    <3>2. best = {1} /\ 1 \notin new
      BY <1>6, <1>13, <3>1
    <3>3. IsIn(best_teb_)
      BY <1>6, <3>2
    <3> QED  BY <1>4, <3>1, <3>2, <3>3
  <2>2. Cardinality(kept) = Cardinality(new) + 1
    BY <1>9, <2>1, FS_AddElement
  <2>3. Len(tebs_') = Len(equivalence_classes_') + 1 /\ 1 \in 1 .. Cardinality(kept)
    BY <1>8, <1>9, <2>2
  <2>4. tebs_'[1] = best_teb_
    <3>1. Place(kept, 1) = 1
      BY <1>4, <1>8, <2>1, FirstPlace
    <3>2. tebs_'[1] = BestFirst[Place(kept, 1)]
      BY <1>8, <2>3
    <3> QED  BY <2>1, <3>1, <3>2
  <2>5. class'[tebs_'[1]] = Invalid
    BY <1>5, <1>8, <1>11, <2>1, <2>3, <2>4
  <2>6. BestUnlisted'
    BY <1>2, <2>3, <2>4, <2>5 DEF BestUnlisted
  <2>7. CandidatesAreDistinct'
    <3>1. Len(equivalence_classes_') \in Nat
      BY <1>9
    <3>2. Len(tebs_') <= max_number_classes /\ ~SizesMatch'
      BY <1>10, <2>3, <3>1 DEF Types, SizesMatch
    <3> QED  BY <3>2 DEF CandidatesAreDistinct
  <2> QED  BY <1>3, <1>10, <2>6, <2>7 DEF Inv
<1> QED  BY <1>12, <1>13

-----------------------------------------------------------------------------
(* The steps together.                                                     *)

LEMMA InitHasInv ==
  ASSUME Init
  PROVE  Inv
<1>1. /\ tebs_ = <<>> /\ equivalence_classes_ = <<>> /\ costed = {} /\ command = None
      /\ class = [t \in {} |-> None] /\ pc = "idle"
  BY DEF Init
<1>2. ToSet(tebs_) = {} /\ Len(tebs_) = 0 /\ DOMAIN tebs_ = {}
  BY <1>1 DEF ToSet
<1>3. Types
  BY <1>1, <1>2, NumbersAssumption DEF Types
<1>4. Parallel
  BY <1>1, <1>2 DEF Parallel, SizesMatch
<1>5. PlanIsOfItsClass /\ CommandInv
  BY <1>1 DEF PlanIsOfItsClass, CommandInv
<1>6. CandidatesAreDistinct
  <2>1. ASSUME NEW c \in Classes
        PROVE  Cardinality({t \in ToSet(tebs_) : class[t] = c})
                 <= IF c = best_teb_eq_class_ THEN max_number_plans_in_current_class ELSE 1
    <3>1. {t \in ToSet(tebs_) : class[t] = c} = {}
      BY <1>2
    <3>2. Cardinality({t \in ToSet(tebs_) : class[t] = c}) = 0
      BY <3>1, FS_EmptySet
    <3> QED  BY <3>2, NumbersAssumption
  <2>2. Len(tebs_) <= max_number_classes
    BY <1>3 DEF Types
  <2> QED  BY <2>1, <2>2 DEF CandidatesAreDistinct
<1> QED  BY <1>3, <1>4, <1>5, <1>6 DEF Inv

\* What no variable of is changed stays true.
LEMMA StutterKeepsInv ==
  ASSUME Inv, UNCHANGED vars
  PROVE  Inv'
<1>1. /\ UNCHANGED tebVars /\ UNCHANGED bestVars /\ UNCHANGED planVars
      /\ pc' = pc /\ infeasible' = infeasible /\ command' = command
  BY DEF vars
<1>2. /\ tebs_' = tebs_ /\ equivalence_classes_' = equivalence_classes_
      /\ class' = class /\ costed' = costed
      /\ best_teb_' = best_teb_ /\ last_best_teb_' = last_best_teb_
      /\ best_teb_eq_class_' = best_teb_eq_class_
      /\ initial_plan_teb_' = initial_plan_teb_
      /\ initial_plan_eq_class_' = initial_plan_eq_class_
  BY <1>1 DEF tebVars, bestVars, planVars
<1>3. Types' /\ CandidatesAreDistinct' /\ (Parallel => Parallel')
  BY <1>1, <1>2, SameContainers DEF Inv, Types
<1>4. BestUnlisted => BestUnlisted'
  BY <1>1, <1>2 DEF BestUnlisted, IsIn
<1>5. PlanIsOfItsClass'
  BY <1>1, <1>2 DEF Inv, PlanIsOfItsClass, IsIn
<1>6. CommandInv'
  BY <1>1, <1>2 DEF Inv, CommandInv, CommandIsFeasible, IsIn
<1> QED  BY <1>3, <1>4, <1>5, <1>6 DEF Inv

LEMMA StepKeepsInv ==
  ASSUME Inv, [Next]_vars
  PROVE  Inv'
<1>1. CASE UpdateAllTEBs
  BY <1>1, UpdateKeepsInv
<1>2. CASE RenewOldTebs
  BY <1>2, RenewKeepsInv
<1>3. CASE DropTebs
  BY <1>3, DropKeepsInv
<1>4. CASE InjectInitialPlan
  BY <1>4, InjectKeepsInv
<1>5. CASE ExplorePath
  BY <1>5, ExploreKeepsInv
<1>6. CASE OptimizeAllTEBs
  BY <1>6, OptimizeKeepsInv
<1>7. CASE Select
  BY <1>7, SelectKeepsInv
<1>8. CASE FeasibleTeb
  BY <1>8, FeasibleKeepsInv
<1>9. CASE InfeasibleTeb
  BY <1>9, InfeasibleKeepsInv
<1>10. CASE NoTeb
  BY <1>10, FailKeepsInv DEF NoTeb
<1>11. CASE Diverged
  BY <1>11, FailKeepsInv DEF Diverged
<1>12. CASE UNCHANGED vars
  BY <1>12, StutterKeepsInv
<1> QED
  BY <1>1, <1>2, <1>3, <1>4, <1>5, <1>6, <1>7, <1>8, <1>9, <1>10, <1>11, <1>12
  DEF Next, Cycle

\* homotopy_class_planner.cpp:89-751: the invariant holds of every cycle.
THEOREM InvariantHolds == Spec => []Inv
<1>1. Init => Inv
  BY InitHasInv
<1>2. Inv /\ [Next]_vars => Inv'
  BY StepKeepsInv
<1> QED  BY <1>1, <1>2, PTL DEF Spec

-----------------------------------------------------------------------------
(* The promises.                                                           *)

\* homotopy_class_planner.cpp:220-262, 531-545, 731-751: whatever is erased from the
\* two containers, they stay parallel, or the best teb alone is without a class.
THEOREM StaysAligned == Spec => []ClassesAreAligned
<1>1. ASSUME Inv
      PROVE  ClassesAreAligned
  <2>1. CASE Parallel
    BY <2>1 DEF Parallel, ClassesAreAligned
  <2>2. CASE BestUnlisted
    <3>1. Head(tebs_) = tebs_[1]
      BY <1>1 DEF Inv, Types
    <3> QED  BY <2>2, <3>1 DEF BestUnlisted, ClassesAreAligned
  <2> QED  BY <1>1, <2>1, <2>2 DEF Inv
<1> QED  BY <1>1, InvariantHolds, PTL

\* The first listed class equal to the plan's is that of a teb in the list.
LEMMA PreferredIsOfClass ==
  ASSUME Inv
  PROVE  PrefersPlansClass
<1> SUFFICES ASSUME pc \in {"explore", "select", "check"}, InitialPlanTEB # None
             PROVE  class[InitialPlanTEB] = initial_plan_eq_class_
  BY DEF PrefersPlansClass
<1> DEFINE same == {i \in DOMAIN equivalence_classes_ :
                      IsEqual(equivalence_classes_[i], initial_plan_eq_class_)}
<1>1. CASE IsIn(initial_plan_teb_)
  BY <1>1 DEF Inv, PlanIsOfItsClass, InitialPlanTEB
<1>2. CASE ~IsIn(initial_plan_teb_)
  <2>1. SizesMatch /\ same # {} /\ InitialPlanTEB = tebs_[Min(same)]
    BY <1>2 DEF InitialPlanTEB
  <2>2. Parallel
    BY <2>1, UnlistedDoNotMatch DEF Inv
  <2>3. /\ Len(equivalence_classes_) \in Nat /\ DOMAIN tebs_ = DOMAIN equivalence_classes_
        /\ DOMAIN equivalence_classes_ = 1 .. Len(equivalence_classes_)
    BY <2>1 DEF SizesMatch, Inv, Types
  <2>4. same \subseteq 1 .. Len(equivalence_classes_) /\ same \subseteq Nat
    BY <2>3
  <2>5. IsFiniteSet(same)
    BY <2>3, <2>4, IntervalSize, FS_Subset
  <2>6. Min(same) \in same
    <3> HIDE DEF same
    <3> QED  BY <2>1, <2>4, <2>5, MinIsLeast
  <2>7. equivalence_classes_[Min(same)] = initial_plan_eq_class_
    BY <2>6 DEF IsEqual
  <2>8. equivalence_classes_[Min(same)] = class[tebs_[Min(same)]]
    BY <2>2, <2>3, <2>6 DEF Parallel
  <2> QED  BY <2>1, <2>7, <2>8
<1> QED  BY <1>1, <1>2

\* homotopy_class_planner.cpp:506-549, 595-603: the teb whose cost is lowered for the
\* sake of the initial plan is of that plan's class.
THEOREM PlanIsPreferred == Spec => []PrefersPlansClass
<1>1. Inv => PrefersPlansClass
  BY PreferredIsOfClass
<1> QED  BY <1>1, InvariantHolds, PTL

\* homotopy_class_planner.cpp:195-217: no cycle has more candidates than configured,
\* nor two of one class but the best teb's.
THEOREM StaysDistinct == Spec => []CandidatesAreDistinct
<1>1. Inv => CandidatesAreDistinct
  BY DEF Inv
<1> QED  BY <1>1, InvariantHolds, PTL

\* homotopy_class_planner.cpp:699-729: a velocity is taken from the teb that was found
\* free of collisions, however many others were removed before it.
THEOREM CommandsAreFeasible == Spec => []CommandIsFeasible
<1>1. Inv => CommandIsFeasible
  BY DEF Inv, CommandInv, CommandIsFeasible
<1> QED  BY <1>1, InvariantHolds, PTL

=============================================================================
