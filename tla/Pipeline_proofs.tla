-------------------------- MODULE Pipeline_proofs --------------------------
(***************************************************************************)
(* Proofs about Pipeline for any environments, clusters, objects, rules,   *)
(* clock and earlier ledger: what a ledger remembers, what a sidecar says  *)
(* and what a consumer counts.  Sums and least elements are by induction   *)
(* over sets of natural numbers, which have a least element because < is   *)
(* well-founded on them.                                                   *)
(***************************************************************************)
EXTENDS Pipeline, FiniteSetTheorems, WellFoundedInduction, TLAPS

-----------------------------------------------------------------------------
(* Induction over the natural numbers.                                     *)

(* A nonempty set of natural numbers has a least element.                  *)
LEMMA LeastNatural ==
    ASSUME NEW A, A \subseteq Nat, A # {}
    PROVE  \E m \in A : \A n \in A : m <= n
<1> DEFINE Less == OpToRel(<, Nat)
<1>1. IsWellFoundedOn(Less, Nat)
  BY NatLessThanWellFounded
<1>2. PICK m \in A : \A n \in A : ~ (<<n, m>> \in Less)
  <2> HIDE DEF Less
  <2> QED BY <1>1, WFMin
<1>3. ASSUME NEW n \in A PROVE m <= n
  <2>1. <<n, m>> \notin Less BY <1>2
  <2> QED BY <2>1 DEF OpToRel
<1> QED BY <1>2, <1>3

(* Induction over the natural numbers, for the members of a set.           *)
LEMMA NatSetInduction ==
    ASSUME NEW A, 0 \in A, \A n \in Nat : n \in A => n + 1 \in A
    PROVE  \A n \in Nat : n \in A
<1> SUFFICES ASSUME Nat \ A # {} PROVE FALSE
  OBVIOUS
<1>1. PICK m \in Nat \ A : \A n \in Nat \ A : m <= n
  <2> DEFINE B == Nat \ A
  <2> B \subseteq Nat /\ B # {} OBVIOUS
  <2> HIDE DEF B
  <2>1. \E m \in B : \A n \in B : m <= n BY LeastNatural
  <2> QED BY <2>1 DEF B
<1>2. m # 0 OBVIOUS
<1>3. m - 1 \in A BY <1>1, <1>2
<1>4. m - 1 + 1 = m BY <1>1
<1> QED BY <1>1, <1>2, <1>3, <1>4

-----------------------------------------------------------------------------
(* Sums over finite sets.                                                  *)

(* The element the fold takes next, and one step of it.                    *)
Some(s) == CHOOSE x \in s : TRUE

SumStep(fun, g, s) == IF s = {} THEN 0 ELSE fun[Some(s)] + g[s \ {Some(s)}]

IsSum(fun, g, S) == g = [s \in SUBSET S |-> SumStep(fun, g, s)]

(* The fold of the library is the recursive function IsSum describes.      *)
LEMMA SumUnfolded ==
    ASSUME NEW fun, NEW S
    PROVE  SumFunctionOnSet(fun, S) = (CHOOSE g : IsSum(fun, g, S))[S]
BY DEF SumFunctionOnSet, FoldFunctionOnSet, MapThenFoldSet, IsSum, SumStep, Some

(* There is such a function over the subsets of a finite set.              *)
LEMMA SumExists ==
    ASSUME NEW fun, NEW S, IsFiniteSet(S)
    PROVE  \E g : IsSum(fun, g, S)
<1> DEFINE Upto(n) == {s \in SUBSET S : Cardinality(s) <= n}
           A == {n \in Nat : \E g : g = [s \in Upto(n) |-> SumStep(fun, g, s)]}
<1>1. \A s \in SUBSET S : IsFiniteSet(s) /\ Cardinality(s) \in Nat
  BY FS_Subset, FS_CardinalityType
<1>2. 0 \in A
  <2>1. \A s \in Upto(0) : s = {}
    BY <1>1, FS_EmptySet
  <2> DEFINE g == [s \in Upto(0) |-> 0]
  <2>2. g = [s \in Upto(0) |-> SumStep(fun, g, s)]
    BY <2>1 DEF SumStep
  <2> QED BY <2>2
<1>3. ASSUME NEW n \in Nat, n \in A PROVE n + 1 \in A
  <2>1. PICK g : g = [s \in Upto(n) |-> SumStep(fun, g, s)]
    BY <1>3
  <2> DEFINE h == [s \in Upto(n + 1) |-> SumStep(fun, g, s)]
  <2>2. ASSUME NEW s \in Upto(n + 1) PROVE SumStep(fun, g, s) = SumStep(fun, h, s)
    <3>1. CASE s = {} BY <3>1 DEF SumStep
    <3>2. CASE s # {}
      <4> DEFINE t == s \ {Some(s)}
      <4>1. Some(s) \in s BY <3>2 DEF Some
      <4>2. Cardinality(t) = Cardinality(s) - 1 /\ t \in SUBSET S
        BY <4>1, <1>1, FS_RemoveElement
      <4>3. t \in Upto(n) /\ t \in Upto(n + 1)
        BY <4>2, <1>1
      <4>4. g[t] = SumStep(fun, g, t) /\ h[t] = SumStep(fun, g, t)
        <5> HIDE DEF t
        <5> QED BY <4>3, <2>1
      <4> QED BY <4>4, <3>2 DEF SumStep
    <3> QED BY <3>1, <3>2
  <2>3. h = [s \in Upto(n + 1) |-> SumStep(fun, h, s)]
    <3> HIDE DEF Upto
    <3> QED BY <2>2
  <2>4. \E f : f = [s \in Upto(n + 1) |-> SumStep(fun, f, s)]
    <3> HIDE DEF Upto, h
    <3> QED BY <2>3
  <2> QED BY <2>4
<1>4. \A n \in Nat : n \in A
  <2> HIDE DEF A
  <2> QED BY <1>2, <1>3, NatSetInduction
<1>5. Cardinality(S) \in Nat /\ Upto(Cardinality(S)) = SUBSET S
  BY <1>1, FS_CardinalityType, FS_Subset
<1> QED BY <1>4, <1>5 DEF IsSum

(* There is no other, so that the sums of a set and of its subsets agree.  *)
LEMMA SumUnique ==
    ASSUME NEW fun, NEW S, IsFiniteSet(S), NEW T \in SUBSET S, NEW g, NEW h,
           IsSum(fun, g, S), IsSum(fun, h, T)
    PROVE  \A s \in SUBSET T : g[s] = h[s]
<1> DEFINE A == {n \in Nat : \A s \in SUBSET T : Cardinality(s) = n => g[s] = h[s]}
<1>1. \A s \in SUBSET T : IsFiniteSet(s) /\ Cardinality(s) \in Nat
  BY FS_Subset, FS_CardinalityType
<1>2. ASSUME NEW s \in SUBSET T
      PROVE  g[s] = SumStep(fun, g, s) /\ h[s] = SumStep(fun, h, s)
  <2>1. s \in SUBSET S OBVIOUS
  <2> QED BY <2>1 DEF IsSum
<1>3. 0 \in A
  BY <1>1, <1>2, FS_EmptySet DEF SumStep
<1>4. ASSUME NEW n \in Nat, n \in A PROVE n + 1 \in A
  <2>1. SUFFICES ASSUME NEW s \in SUBSET T, Cardinality(s) = n + 1
                 PROVE  g[s] = h[s]
    OBVIOUS
  <2>2. s # {} BY <2>1, FS_EmptySet
  <2> DEFINE t == s \ {Some(s)}
  <2>3. Some(s) \in s BY <2>2 DEF Some
  <2>4. Cardinality(t) = n /\ t \in SUBSET T
    BY <2>1, <2>3, <1>1, FS_RemoveElement
  <2>5. g[t] = h[t] BY <2>4, <1>4
  <2> QED BY <1>2, <2>2, <2>5 DEF SumStep
<1>5. \A n \in Nat : n \in A
  <2> HIDE DEF A
  <2> QED BY <1>3, <1>4, NatSetInduction
<1> QED BY <1>1, <1>5

(* A sum is nothing, or one summand and the sum of the others.             *)
LEMMA SumRecursion ==
    ASSUME NEW fun, NEW S, IsFiniteSet(S)
    PROVE  /\ SumFunctionOnSet(fun, {}) = 0
           /\ S # {} => SumFunctionOnSet(fun, S) =
                          fun[Some(S)] + SumFunctionOnSet(fun, S \ {Some(S)})
<1> DEFINE sum(T) == CHOOSE g : IsSum(fun, g, T)
<1>1. ASSUME NEW T \in SUBSET S PROVE IsSum(fun, sum(T), T)
  <2>1. IsFiniteSet(T) BY FS_Subset
  <2> QED BY <2>1, SumExists
<1>2. ASSUME NEW T \in SUBSET S PROVE SumFunctionOnSet(fun, T) = sum(S)[T]
  <2>1. sum(S)[T] = sum(T)[T]
    <3> HIDE DEF sum
    <3> QED BY <1>1, SumUnique
  <2> QED BY <2>1, SumUnfolded
<1>3. ASSUME NEW T \in SUBSET S PROVE sum(S)[T] = SumStep(fun, sum(S), T)
  <2> HIDE DEF sum
  <2> IsSum(fun, sum(S), S) BY <1>1
  <2> QED BY DEF IsSum
<1> HIDE DEF sum
<1>4. SumFunctionOnSet(fun, {}) = 0
  BY <1>2, <1>3 DEF SumStep
<1>5. CASE S # {}
  <2> DEFINE T == S \ {Some(S)}
  <2>1. T \in SUBSET S OBVIOUS
  <2>2. sum(S)[S] = fun[Some(S)] + sum(S)[T] BY <1>3, <1>5 DEF SumStep
  <2>3. SumFunctionOnSet(fun, S) = sum(S)[S] /\ SumFunctionOnSet(fun, T) = sum(S)[T]
    BY <1>2, <2>1
  <2> QED BY <1>4, <2>2, <2>3
<1> QED BY <1>4, <1>5

(* The sizes of the parts of a finite set add up to its size: what the     *)
(* sidecar counts for the clusters and what it counts in all, a bucket's   *)
(* runs and all runs.                                                      *)
THEOREM SumOfParts ==
    ASSUME NEW R, IsFiniteSet(R), NEW D, IsFiniteSet(D), NEW part, NEW fun,
           \A d \in D : part[d] \subseteq R /\ fun[d] = Cardinality(part[d]),
           \A d, e \in D : d # e => part[d] \cap part[e] = {},
           \A r \in R : \E d \in D : r \in part[d]
    PROVE  SumFunctionOnSet(fun, D) = Cardinality(R)
<1> DEFINE Covered(T) == {r \in R : \E d \in T : r \in part[d]}
           Good(T) == SumFunctionOnSet(fun, T) = Cardinality(Covered(T))
           A == {n \in Nat : \A T \in SUBSET D : Cardinality(T) = n => Good(T)}
<1>1. \A T \in SUBSET D : IsFiniteSet(T) /\ Cardinality(T) \in Nat
  BY FS_Subset, FS_CardinalityType
<1>2. \A Q \in SUBSET R : IsFiniteSet(Q) /\ Cardinality(Q) \in Nat
  BY FS_Subset, FS_CardinalityType
<1>3. 0 \in A
  <2>1. \A T \in SUBSET D : Cardinality(T) = 0 => T = {} BY <1>1, FS_EmptySet
  <2>2. SumFunctionOnSet(fun, {}) = 0 BY SumRecursion
  <2>3. Covered({}) = {} OBVIOUS
  <2> QED BY <2>1, <2>2, <2>3, FS_EmptySet
<1>4. ASSUME NEW n \in Nat, n \in A PROVE n + 1 \in A
  <2> SUFFICES \A T \in SUBSET D : Cardinality(T) = n + 1 => Good(T)
    <3> HIDE DEF Good
    <3> QED OBVIOUS
  <2> TAKE T \in SUBSET D
  <2>1. HAVE Cardinality(T) = n + 1
  <2>2. T # {}
    <3>1. Cardinality({}) = 0 BY FS_EmptySet
    <3> QED BY <2>1, <3>1
  <2> DEFINE x == Some(T)
             U == T \ {x}
  <2>3. x \in T BY <2>2 DEF Some
  <2>4. Cardinality(U) = n /\ U \in SUBSET D
    <3>1. IsFiniteSet(T) BY <1>1
    <3>2. Cardinality(U) = Cardinality(T) - 1
      <4> HIDE DEF x
      <4> QED BY <2>3, <3>1, FS_RemoveElement
    <3> QED BY <2>1, <3>2
  <2>5. \A V \in SUBSET D :
          Cardinality(V) = n => SumFunctionOnSet(fun, V) = Cardinality(Covered(V))
    BY <1>4
  <2>6. SumFunctionOnSet(fun, U) = Cardinality(Covered(U))
    <3> HIDE DEF U, Covered
    <3> QED BY <2>4, <2>5
  <2>7. SumFunctionOnSet(fun, T) = fun[x] + SumFunctionOnSet(fun, U)
    BY <1>1, <2>2, SumRecursion
  <2> DEFINE Here == part[x]
  <2>8. fun[x] = Cardinality(Here) /\ Here \in SUBSET R BY <2>3
  <2>9. Covered(T) = Here \cup Covered(U) /\ Here \cap Covered(U) = {}
    BY <2>3, <2>4, <2>8
  <2>10. /\ IsFiniteSet(Here) /\ Cardinality(Here) \in Nat
        /\ IsFiniteSet(Covered(U)) /\ Cardinality(Covered(U)) \in Nat
    BY <1>2, <2>8
  <2>11. Cardinality(Covered(T)) = Cardinality(Here) + Cardinality(Covered(U))
    <3> HIDE DEF Here, Covered, U, x
    <3>1. Cardinality(Here \cup Covered(U)) =
            Cardinality(Here) + Cardinality(Covered(U)) - Cardinality(Here \cap Covered(U))
      BY <2>10, FS_Union
    <3>2. Cardinality(Here \cap Covered(U)) = 0 BY <2>9, FS_EmptySet
    <3> QED BY <2>9, <2>10, <3>1, <3>2
  <2> QED BY <2>6, <2>7, <2>8, <2>11
<1>5. \A n \in Nat : n \in A
  <2> HIDE DEF A
  <2> QED BY <1>3, <1>4, NatSetInduction
<1>6. Cardinality(D) \in Nat /\ Cardinality(D) \in A BY <1>1, <1>5
<1>7. Covered(D) = R OBVIOUS
<1> QED BY <1>6, <1>7

-----------------------------------------------------------------------------
(* The failed step.                                                        *)

(* The image of a finite set is finite.                                    *)
LEMMA FiniteImage ==
    ASSUME NEW S, IsFiniteSet(S), NEW f
    PROVE  IsFiniteSet({f[x] : x \in S})
<1> DEFINE T == {f[x] : x \in S}
           g == [x \in S |-> f[x]]
<1>1. g \in Surjection(S, T)
  BY DEF Surjection
<1> QED
  <2> HIDE DEF T, g
  <2>1. IsFiniteSet(T) BY <1>1, FS_Surjection
  <2> QED BY <2>1 DEF T

(* A nonempty finite set of integers has a least element.                  *)
LEMMA LeastInteger ==
    ASSUME NEW S, S \subseteq Int, IsFiniteSet(S), S # {}
    PROVE  \E m \in S : \A n \in S : m <= n
<1> DEFINE Has(T) == \E m \in T : \A n \in T : m <= n
           A == {c \in Nat : \A T \in SUBSET S : Cardinality(T) = c + 1 => Has(T)}
<1>1. \A T \in SUBSET S : IsFiniteSet(T) /\ Cardinality(T) \in Nat
  BY FS_Subset, FS_CardinalityType
<1>2. 0 \in A
  <2>1. ASSUME NEW T \in SUBSET S, Cardinality(T) = 1 PROVE Has(T)
    <3>1. PICK x : T = {x} BY <2>1, <1>1, FS_Singleton
    <3> QED BY <3>1
  <2> QED BY <2>1
<1>3. ASSUME NEW c \in Nat, c \in A PROVE c + 1 \in A
  <2>1. ASSUME NEW T \in SUBSET S, Cardinality(T) = c + 2 PROVE Has(T)
    <3>1. T # {} /\ IsFiniteSet(T) BY <2>1, <1>1, FS_EmptySet
    <3>2. PICK x \in T : TRUE BY <3>1
    <3>3. Cardinality(T \ {x}) = c + 1
      <4>1. Cardinality(T \ {x}) = Cardinality(T) - 1 BY <3>1, <3>2, FS_RemoveElement
      <4> QED BY <4>1, <2>1
    <3>4. PICK m \in T \ {x} : \A n \in T \ {x} : m <= n BY <3>3, <1>3
    <3>5. CASE m <= x BY <3>4, <3>5
    <3>6. CASE x <= m
      <4>1. \A n \in T : x <= n BY <3>4, <3>6
      <4> QED BY <4>1
    <3> QED BY <3>5, <3>6
  <2>2. \A T \in SUBSET S : Cardinality(T) = c + 1 + 1 => Has(T)
    <3> HIDE DEF Has
    <3> QED BY <2>1
  <2> QED BY <2>2
<1>4. \A c \in Nat : c \in A
  <2> HIDE DEF A
  <2> QED BY <1>2, <1>3, NatSetInduction
<1>5. Cardinality(S) # 0 BY FS_EmptySet
<1>6. Cardinality(S) - 1 \in A BY <1>1, <1>4, <1>5
<1>7. Cardinality(S) = Cardinality(S) - 1 + 1 BY <1>1
<1> QED BY <1>6, <1>7

(* There is a first among the failed pods of a node map, whatever starts   *)
(* are missing or equal: what the sort of workflows.py takes first is      *)
(* always defined.                                                         *)
THEOREM FirstFailedPod ==
    ASSUME NEW pods, IsFiniteSet(pods), pods # {},
           \A a, b \in pods : a.key \in Int /\ (a.key = b.key => a = b)
    PROVE  \E first \in pods : \A other \in pods \ {first} : Before(first, other)
<1> DEFINE Least(T) == \E a \in T : \A b \in T : a.key <= b.key
<1>1. ASSUME NEW T \in SUBSET pods, T # {} PROVE Least(T)
  <2> DEFINE keyOf == [a \in pods |-> a.key]
             keys == {keyOf[b] : b \in T}
  <2>1. \A b \in T : keyOf[b] = b.key OBVIOUS
  <2> HIDE DEF keyOf
  <2>2. IsFiniteSet(keys)
    <3>1. IsFiniteSet(T) BY FS_Subset
    <3> QED BY <3>1, FiniteImage
  <2>3. keys \subseteq Int /\ keys # {} BY <1>1, <2>1
  <2>4. \E m \in keys : \A n \in keys : m <= n
    <3> HIDE DEF keys
    <3> QED BY <2>2, <2>3, LeastInteger
  <2> QED BY <2>4, <2>1
<1> DEFINE Timed == {a \in pods : a.started \in Int}
<1>2. CASE Timed = {}
  <2>1. PICK a \in pods : \A b \in pods : a.key <= b.key BY <1>1
  <2>2. \A b \in pods \ {a} : a.key < b.key BY <2>1
  <2> QED BY <1>2, <2>2 DEF Before
<1>3. CASE Timed # {}
  <2> DEFINE startOf == [a \in pods |-> a.started]
             starts == {startOf[b] : b \in Timed}
  <2>1. \A b \in Timed : startOf[b] = b.started OBVIOUS
  <2> HIDE DEF startOf
  <2>2. IsFiniteSet(starts)
    <3>1. IsFiniteSet(Timed) BY FS_Subset
    <3> HIDE DEF Timed
    <3> QED BY <3>1, FiniteImage
  <2>3. starts \subseteq Int /\ starts # {} BY <1>3, <2>1
  <2>4. \E m \in starts : \A n \in starts : m <= n
    <3> HIDE DEF starts
    <3> QED BY <2>2, <2>3, LeastInteger
  <2>5. PICK m \in Int : /\ \E a \in Timed : a.started = m
                         /\ \A a \in Timed : m <= a.started
    BY <2>4, <2>1, <2>3
  <2> DEFINE Ties == {a \in Timed : a.started = m}
  <2>6. PICK a \in Ties : \A b \in Ties : a.key <= b.key
    <3>1. Ties \in SUBSET pods /\ Ties # {} BY <2>5
    <3> HIDE DEF Ties
    <3> QED BY <3>1, <1>1
  <2>7. ASSUME NEW b \in pods \ {a} PROVE Before(a, b)
    <3>1. CASE b \notin Timed BY <3>1 DEF Before
    <3>2. CASE b \in Timed /\ b.started # m
      BY <3>2, <2>5 DEF Before
    <3>3. CASE b \in Ties
      <4>1. a.key < b.key BY <2>6, <3>3
      <4> QED BY <4>1, <3>3 DEF Before
    <3> QED BY <3>1, <3>2, <3>3
  <2> QED BY <2>7
<1> QED BY <1>2, <1>3

-----------------------------------------------------------------------------
(* The columns of a row.                                                   *)

(* Min of a nonempty set of natural numbers.                               *)
LEMMA MinIsLeast ==
    ASSUME NEW S, S \subseteq Nat, S # {}
    PROVE  Min(S) \in S /\ \A n \in S : Min(S) <= n
BY LeastNatural DEF Min

(* Every message has a class: the first rule that matches, or unknown.     *)
LEMMA ClassIsKnown ==
    ASSUME NEW message
    PROVE  FailureClass(message) # None
<1> DEFINE matching == {i \in DOMAIN Rules : message \in Rules[i].matches}
<1>1. CASE matching = {}
  <2>1. FailureClass(message) = "unknown" BY <1>1 DEF FailureClass
  <2> QED BY <2>1, ValuesAssumption
<1>2. CASE matching # {}
  <2>1. matching \subseteq Nat BY ExtractionAssumption
  <2>2. Min(matching) \in matching
    <3> HIDE DEF matching
    <3> QED BY <1>2, <2>1, MinIsLeast
  <2>3. FailureClass(message) = Rules[Min(matching)].class BY <1>2 DEF FailureClass
  <2>4. Min(matching) \in DOMAIN Rules BY <2>2
  <2> HIDE DEF matching
  <2> QED BY <2>3, <2>4, ExtractionAssumption
<1> QED BY <1>1, <1>2

(* A message that can be read has a normalized form.                       *)
HasForm(message) == Legible(message) => message \in DOMAIN Normalized

(* The class and the fingerprint of a row are null together.               *)
LEMMA FailureColumnsAgree ==
    ASSUME NEW stepMessage, NEW message, HasForm(stepMessage), HasForm(message)
    PROVE  LET derived == FailureColumns(stepMessage, message)
           IN  derived.class = None <=> derived.fingerprint = None
<1> DEFINE evidence == IF Legible(stepMessage) THEN stepMessage ELSE message
<1>1. HasForm(evidence) OBVIOUS
<1>2. CASE Legible(evidence)
  <2>1. Normalized[evidence] # None
    BY <1>1, <1>2, ExtractionAssumption DEF HasForm, NonEmpty
  <2> QED BY <1>2, <2>1, ClassIsKnown DEF FailureColumns
<1>3. CASE ~ Legible(evidence)
  BY <1>3 DEF FailureColumns
<1> QED BY <1>2, <1>3

(* What the failed step is taken from: the first failed pod, if there is   *)
(* one.                                                                    *)
LEMMA StepIsANode ==
    ASSUME NEW wf \in Workflows, WellFormed(wf)
    PROVE  \/ FailedStep(wf) = NoStep
           \/ \E node \in FailedPods(wf) :
                 /\ \A other \in FailedPods(wf) \ {node} : Before(node, other)
                 /\ FailedStep(wf) =
                      [name |-> IF node.display \in {None, Empty, Falsy}
                                  THEN node.name ELSE node.display,
                       message |-> node.message]
<1> DEFINE pods == FailedPods(wf)
<1>1. CASE pods = {} BY <1>1 DEF FailedStep
<1>2. CASE pods # {}
  <2>1. pods \subseteq wf.nodes \ {Odd}
    BY DEF FailedPods, NodeMap, WellFormed, Workflows
  <2>2. wf.nodes \in NodeMaps \cup {{}} BY DEF Workflows
  <2>3. IsFiniteSet(wf.nodes) /\ \A a, b \in wf.nodes \ {Odd} :
           a.key \in Int /\ (a.key = b.key => a = b)
    BY <2>2, NodesAssumption, FS_EmptySet
  <2>4. IsFiniteSet(pods) /\ \A a, b \in pods : a.key \in Int /\ (a.key = b.key => a = b)
    <3> HIDE DEF pods
    <3>1. pods \in SUBSET wf.nodes BY <2>1
    <3> QED BY <2>1, <2>3, <3>1, FS_Subset
  <2> DEFINE First(node) == \A other \in pods \ {node} : Before(node, other)
             first == CHOOSE node \in pods : First(node)
  <2>5. \E node \in pods : First(node)
    <3> HIDE DEF pods
    <3> QED BY <1>2, <2>4, FirstFailedPod
  <2>6. first \in pods /\ First(first)
    <3> HIDE DEF pods, First
    <3> QED BY <2>5
  <2>7. FailedStep(wf) =
          [name |-> IF first.display \in {None, Empty, Falsy}
                      THEN first.name ELSE first.display,
           message |-> first.message]
    BY <1>2 DEF FailedStep
  <2> HIDE DEF first
  <2> QED BY <2>6, <2>7
<1> QED BY <1>1, <1>2

(* The messages an accepted object has are texts with a normalized form.   *)
LEMMA EvidenceHasForm ==
    ASSUME NEW wf \in Workflows, WellFormed(wf)
    PROVE  HasForm(FailedStep(wf).message) /\ HasForm(wf.message)
<1>1. HasForm(wf.message)
  BY MessagesAssumption DEF Workflows, HasForm, Legible
<1>2. CASE FailedStep(wf) = NoStep
  BY <1>1, <1>2 DEF NoStep, HasForm, Legible
<1>3. CASE FailedStep(wf) # NoStep
  <2>1. PICK node \in FailedPods(wf) : FailedStep(wf).message = node.message
    BY <1>3, StepIsANode
  <2>2. node \in wf.nodes \ {Odd}
    BY <2>1 DEF FailedPods, NodeMap, WellFormed, Workflows
  <2>3. wf.nodes \in NodeMaps BY <2>2 DEF Workflows
  <2> QED BY <1>1, <2>1, <2>2, <2>3, NodesAssumption DEF HasForm
<1> QED BY <1>2, <1>3

(* The row of an accepted object has every column, and those that belong   *)
(* together are null together.                                             *)
LEMMA ColumnsOfObject ==
    ASSUME NEW wf \in Workflows, WellFormed(wf)
    PROVE  DOMAIN ToColumns(wf) = Columns /\ ColumnsAgree(ToColumns(wf))
<1> DEFINE c == ToColumns(wf)
<1>1. DOMAIN c = Columns BY DEF ToColumns, Columns
<1>2. c.template[1] = None <=> c.template[2] = None
  <2>1. c.template = TemplateOf(wf) BY DEF ToColumns
  <2> DEFINE has(label) == NonEmpty(Get(wf.labels, label))
  <2>2. /\ wf.ref # None => Legible(wf.ref.name)
        /\ \A label : has(label) => wf.labels[label] # None
    BY DEF WellFormed, NonEmpty, Get
  <2>3. \/ /\ wf.ref # None
           /\ \E scope \in {"cluster", "namespaced"} : TemplateOf(wf) = <<wf.ref.name, scope>>
        \/ /\ has("cluster-workflow-template")
           /\ TemplateOf(wf) = <<wf.labels["cluster-workflow-template"], "cluster">>
        \/ /\ has("workflow-template")
           /\ TemplateOf(wf) = <<wf.labels["workflow-template"], "namespaced">>
        \/ TemplateOf(wf) = <<None, None>>
    BY DEF TemplateOf
  <2>4. None # "cluster" /\ None # "namespaced" BY ValuesAssumption
  <2> HIDE DEF has, c
  <2> QED BY <2>1, <2>2, <2>3, <2>4 DEF Legible
<1>3. c.trigger[1] = None <=> c.trigger[2] = None
  <2>1. c.trigger = TriggerOf(wf) BY DEF ToColumns
  <2> DEFINE has(label) == Legible(Get(wf.labels, label))
  <2>2. \A label : has(label) => wf.labels[label] # None
    BY DEF Legible, Get
  <2>3. \/ \E kind \in {"cron", "event", "user"} : \E label :
              has(label) /\ TriggerOf(wf) = <<kind, wf.labels[label]>>
        \/ TriggerOf(wf) = <<None, None>>
    <3>1. CASE has("cron-workflow") BY <3>1 DEF TriggerOf
    <3>2. CASE ~ has("cron-workflow") /\ has("sensor") BY <3>2 DEF TriggerOf
    <3>3. CASE ~ has("cron-workflow") /\ ~ has("sensor") BY <3>3 DEF TriggerOf
    <3> QED BY <3>1, <3>2, <3>3
  <2>4. None # "cron" /\ None # "event" /\ None # "user" BY ValuesAssumption
  <2> HIDE DEF has, c
  <2> QED BY <2>1, <2>2, <2>3, <2>4
<1>4. c.class = None <=> c.fingerprint = None
  <2>1. /\ c.class = FailureColumns(FailedStep(wf).message, wf.message).class
        /\ c.fingerprint = FailureColumns(FailedStep(wf).message, wf.message).fingerprint
    BY DEF ToColumns
  <2> QED BY <2>1, EvidenceHasForm, FailureColumnsAgree
<1>5. IF c.started \in Int /\ c.finished \in Int
        THEN c.duration \in Int ELSE c.duration = None
  <2>1. /\ c.started = NormalizeTimestamp(wf.started)
        /\ c.finished = NormalizeTimestamp(wf.finished)
        /\ c.duration = DurationSeconds(wf.started, wf.finished)
    BY DEF ToColumns
  <2>2. \A ticks \in Int : WholeSeconds(ticks) \in Int
    BY ExtractionAssumption DEF WholeSeconds
  <2> QED BY <2>1, <2>2, ValuesAssumption DEF NormalizeTimestamp, DurationSeconds
<1> QED BY <1>1, <1>2, <1>3, <1>4, <1>5 DEF ColumnsAgree

-----------------------------------------------------------------------------
(* The consumer's numbers.                                                 *)

(* Counting rows by a key counts each of them once.                        *)
LEMMA CountsByKey ==
    ASSUME NEW R, IsFiniteSet(R), NEW Q, R \subseteq Q, IsFiniteSet(Q), NEW key
    PROVE  SumFunction([d \in {key[q] : q \in Q} |-> Cardinality({r \in R : key[r] = d})])
             = Cardinality(R)
<1> DEFINE D == {key[q] : q \in Q}
           part == [d \in D |-> {r \in R : key[r] = d}]
           fun == [d \in D |-> Cardinality({r \in R : key[r] = d})]
<1>1. IsFiniteSet(D) BY FiniteImage
<1>2. DOMAIN fun = D OBVIOUS
<1>3. /\ \A d \in D : part[d] \subseteq R /\ fun[d] = Cardinality(part[d])
      /\ \A d, e \in D : d # e => part[d] \cap part[e] = {}
      /\ \A r \in R : \E d \in D : r \in part[d]
  OBVIOUS
<1>4. SumFunctionOnSet(fun, D) = Cardinality(R)
  <2> HIDE DEF D, part, fun
  <2> QED BY <1>1, <1>3, SumOfParts
<1>5. SumFunction(fun) = SumFunctionOnSet(fun, D)
  <2> HIDE DEF D, fun
  <2> QED BY <1>2 DEF SumFunction
<1> QED BY <1>4, <1>5

(* The runs in one of two sets of phases are those of the one and of the   *)
(* other.                                                                  *)
LEMMA PhasesSplit ==
    ASSUME NEW rows, IsFiniteSet(rows), NEW P, NEW Q, P \cap Q = {}
    PROVE  /\ Cardinality(InPhase(rows, P)) \in Nat
           /\ Cardinality(InPhase(rows, Q)) \in Nat
           /\ Cardinality(InPhase(rows, P \cup Q))
                = Cardinality(InPhase(rows, P)) + Cardinality(InPhase(rows, Q))
<1> DEFINE A == InPhase(rows, P)
           B == InPhase(rows, Q)
<1>1. InPhase(rows, P \cup Q) = A \cup B /\ A \cap B = {} BY DEF InPhase
<1>2. A \in SUBSET rows /\ B \in SUBSET rows BY DEF InPhase
<1> HIDE DEF A, B
<1>3. IsFiniteSet(A) /\ IsFiniteSet(B) BY <1>2, FS_Subset
<1>4. Cardinality(A) \in Nat /\ Cardinality(B) \in Nat BY <1>3, FS_CardinalityType
<1>5. Cardinality(A \cup B) = Cardinality(A) + Cardinality(B) - Cardinality(A \cap B)
  BY <1>3, FS_Union
<1>6. Cardinality(A \cap B) = 0 BY <1>1, FS_EmptySet
<1>7. Cardinality(A \cup B) = Cardinality(A) + Cardinality(B) BY <1>4, <1>5, <1>6
<1> QED BY <1>1, <1>4, <1>7 DEF A, B

(* A run falls into a bucket: by its finish, or else its last sighting.    *)
LEMMA EveryRunHasATime ==
    ASSUME NEW row, row.last \in Int
    PROVE  EventTime(row) \in Int
BY ExtractionAssumption DEF EventTime

(* The buckets of a trend add up to the runs, those of each outcome too.   *)
LEMMA TrendTotals ==
    ASSUME NEW rows, IsFiniteSet(rows), \A row \in rows : row.last \in Int, NEW bucket
    PROVE  LET trend == Trends(rows, bucket)
               overall(measure) ==
                 SumFunction([period \in DOMAIN trend |-> trend[period][measure]])
           IN  /\ overall("total") = Cardinality(rows)
               /\ overall("completed") = Cardinality(InPhase(rows, Terminal))
               /\ overall("succeeded") = Cardinality(InPhase(rows, {"Succeeded"}))
               /\ overall("failed") = Cardinality(InPhase(rows, {"Failed"}))
               /\ overall("error") = Cardinality(InPhase(rows, {"Error"}))
<1> DEFINE key == [row \in rows |-> EventTime(row) \div bucket]
           periods == {key[row] : row \in rows}
           within(period) == {row \in rows : EventTime(row) \div bucket = period}
           trend == Trends(rows, bucket)
<1>1. \A row \in rows : EventTime(row) \in Int BY EveryRunHasATime
<1>2. {row \in rows : EventTime(row) \in Int} = rows BY <1>1
<1>3. trend = [period \in periods |->
                 [total |-> Cardinality(within(period)),
                  completed |-> Cardinality(InPhase(within(period), Terminal)),
                  succeeded |-> Cardinality(InPhase(within(period), {"Succeeded"})),
                  failed |-> Cardinality(InPhase(within(period), {"Failed"})),
                  error |-> Cardinality(InPhase(within(period), {"Error"}))]]
  <2>1. {EventTime(row) \div bucket : row \in rows} = periods OBVIOUS
  <2> QED BY <1>2, <2>1 DEF Trends
<1>4. ASSUME NEW phases
      PROVE  SumFunction([period \in periods |-> Cardinality(InPhase(within(period), phases))])
               = Cardinality(InPhase(rows, phases))
  <2> DEFINE R == InPhase(rows, phases)
  <2>1. R \in SUBSET rows BY DEF InPhase
  <2>2. IsFiniteSet(R) BY <2>1, FS_Subset
  <2>3. \A period : {r \in R : key[r] = period} = InPhase(within(period), phases)
    BY DEF InPhase
  <2>4. SumFunction([period \in periods |-> Cardinality({r \in R : key[r] = period})])
          = Cardinality(R)
    <3> HIDE DEF R, key
    <3> QED BY <2>1, <2>2, CountsByKey
  <2> HIDE DEF key, within
  <2> QED BY <2>3, <2>4
<1>5. SumFunction([period \in periods |-> Cardinality(within(period))]) = Cardinality(rows)
  <2>1. \A period : {r \in rows : key[r] = period} = within(period) OBVIOUS
  <2>2. SumFunction([period \in periods |-> Cardinality({r \in rows : key[r] = period})])
          = Cardinality(rows)
    <3> HIDE DEF key
    <3> QED BY CountsByKey
  <2> HIDE DEF key, within
  <2> QED BY <2>1, <2>2
<1> HIDE DEF trend, periods, within
<1>6. /\ DOMAIN trend = periods
      /\ \A period \in periods :
           /\ trend[period]["total"] = Cardinality(within(period))
           /\ trend[period]["completed"] = Cardinality(InPhase(within(period), Terminal))
           /\ trend[period]["succeeded"] = Cardinality(InPhase(within(period), {"Succeeded"}))
           /\ trend[period]["failed"] = Cardinality(InPhase(within(period), {"Failed"}))
           /\ trend[period]["error"] = Cardinality(InPhase(within(period), {"Error"}))
  BY <1>3
<1> DEFINE overall(measure) ==
             SumFunction([period \in DOMAIN trend |-> trend[period][measure]])
<1>7. overall("total") = Cardinality(rows) BY <1>5, <1>6
<1>8. overall("completed") = Cardinality(InPhase(rows, Terminal)) BY <1>4, <1>6
<1>9. overall("succeeded") = Cardinality(InPhase(rows, {"Succeeded"})) BY <1>4, <1>6
<1>10. overall("failed") = Cardinality(InPhase(rows, {"Failed"})) BY <1>4, <1>6
<1>11. overall("error") = Cardinality(InPhase(rows, {"Error"})) BY <1>4, <1>6
<1> QED BY <1>7, <1>8, <1>9, <1>10, <1>11 DEF trend

(* The failures by a label add up to the failed runs.                      *)
LEMMA FailureTotals ==
    ASSUME NEW rows, IsFiniteSet(rows), NEW field
    PROVE  SumFunction(FailureCounts(rows, field)) = Cardinality(InPhase(rows, FailurePhases))
<1> DEFINE R == InPhase(rows, FailurePhases)
           label(row) == IF NonEmpty(row.columns[field]) THEN row.columns[field] ELSE "unknown"
           key == [row \in R |-> label(row)]
<1>1. IsFiniteSet(R)
  <2>1. R \in SUBSET rows BY DEF InPhase
  <2> QED BY <2>1, FS_Subset
<1>2. FailureCounts(rows, field) =
        [v \in {label(row) : row \in R} |-> Cardinality({row \in R : label(row) = v})]
  BY DEF FailureCounts
<1>3. \A row \in R : key[row] = label(row) OBVIOUS
<1>4. SumFunction([v \in {key[row] : row \in R} |-> Cardinality({row \in R : key[row] = v})])
        = Cardinality(R)
  <2> HIDE DEF R, key
  <2> QED BY <1>1, CountsByKey
<1>5. [v \in {label(row) : row \in R} |-> Cardinality({row \in R : label(row) = v})]
        = [v \in {key[row] : row \in R} |-> Cardinality({row \in R : key[row] = v})]
  <2>1. {label(row) : row \in R} = {key[row] : row \in R} BY <1>3
  <2>2. \A v : {row \in R : label(row) = v} = {row \in R : key[row] = v} BY <1>3
  <2> HIDE DEF key, label, R
  <2> QED BY <2>1, <2>2
<1> QED BY <1>2, <1>4, <1>5

(* historical_metrics adds up on every ledger whose rows were last seen at *)
(* some instant and whose columns agree: no run falls out of a rate, of a  *)
(* trend or of the failure counts, and none is counted twice.              *)
THEOREM MeasuresAddUp ==
    ASSUME NEW rows, IsFiniteSet(rows),
           \A row \in rows : row.last \in Int /\ ColumnsAgree(row.columns)
    PROVE  MeasuresAdd(rows)
<1> DEFINE count(phases) == Cardinality(InPhase(rows, phases))
           rates == Rates(rows)
<1>1. /\ rates.total = Cardinality(rows)
      /\ rates.completed = count(Terminal)
      /\ rates.succeeded = count({"Succeeded"})
      /\ rates.failed = count(FailurePhases)
      /\ rates.error = count({"Error"})
  BY DEF Rates
<1>2. count({"Failed"}) + count({"Error"}) = count(FailurePhases)
  <2>1. FailurePhases = {"Failed"} \cup {"Error"} BY DEF FailurePhases
  <2>2. {"Failed"} \cap {"Error"} = {} OBVIOUS
  <2>3. count({"Failed"} \cup {"Error"}) = count({"Failed"}) + count({"Error"})
    BY <2>2, PhasesSplit
  <2> QED BY <2>1, <2>3
<1>3. count(Terminal) = count({"Succeeded"}) + count(FailurePhases)
  <2>1. FailurePhases \cap {"Succeeded"} = {} BY DEF FailurePhases
  <2>2. count(FailurePhases \cup {"Succeeded"}) = count(FailurePhases) + count({"Succeeded"})
        /\ count(FailurePhases) \in Nat /\ count({"Succeeded"}) \in Nat
    BY <2>1, PhasesSplit
  <2> QED BY <2>2 DEF Terminal
<1>4. DurationHistory(rows) =
        {row \in rows : row.columns.started \in Int /\ row.columns.finished \in Int}
  BY ValuesAssumption DEF DurationHistory, ColumnsAgree
<1>5. /\ SumFunction(FailureCounts(rows, "class")) = rates.failed
      /\ SumFunction(FailureCounts(rows, "fingerprint")) = rates.failed
  BY <1>1, FailureTotals
<1> HIDE DEF count, rates
<1>6. ASSUME NEW bucket \in Buckets
      PROVE  LET trend == Trends(rows, bucket)
                 overall(measure) ==
                   SumFunction([period \in DOMAIN trend |-> trend[period][measure]])
             IN  /\ overall("total") = rates.total
                 /\ overall("completed") = rates.completed
                 /\ overall("succeeded") = rates.succeeded
                 /\ overall("failed") + overall("error") = rates.failed
  <2> DEFINE trend == Trends(rows, bucket)
             overall(measure) ==
               SumFunction([period \in DOMAIN trend |-> trend[period][measure]])
  <2>1. /\ overall("total") = Cardinality(rows)
        /\ overall("completed") = count(Terminal)
        /\ overall("succeeded") = count({"Succeeded"})
        /\ overall("failed") = count({"Failed"})
        /\ overall("error") = count({"Error"})
    BY TrendTotals DEF count
  <2> HIDE DEF overall
  <2>2. /\ overall("total") = rates.total
        /\ overall("completed") = rates.completed
        /\ overall("succeeded") = rates.succeeded
        /\ overall("failed") + overall("error") = rates.failed
    BY <1>1, <1>2, <2>1
  <2> QED BY <2>2 DEF overall
<1>7. rates.completed = rates.succeeded + rates.failed BY <1>1, <1>3
<1> QED BY <1>4, <1>5, <1>6, <1>7 DEF MeasuresAdd, rates

-----------------------------------------------------------------------------
(* The sidecar.                                                            *)

(* The sum over no clusters.                                               *)
LEMMA SumOfNothing ==
    ASSUME NEW fun, DOMAIN fun = {}
    PROVE  SumFunction(fun) = 0
<1>1. IsFiniteSet({}) BY FS_EmptySet
<1>2. SumFunctionOnSet(fun, {}) = 0 BY <1>1, SumRecursion
<1> QED BY <1>2 DEF SumFunction

(* A sidecar that validate lets through, whoever wrote it, raises in none  *)
(* of the consumer's helpers, unless its interval is too long for a float. *)
THEOREM AcceptedIsUsable ==
    ASSUME NEW meta, Valid(meta)
    PROVE  /\ AvailabilityKnown(meta)
           /\ meta.poll_interval_seconds <= FloatMax => FreshnessKnown(meta)
           /\ meta.generated_at.written # "lenient"
           /\ meta.workflows > 0 => Available(meta) # {}
<1>1. /\ meta # Odd /\ DOMAIN meta = Fields /\ meta.clusters # Odd
      /\ \A i \in DOMAIN meta.clusters : ClusterConforms(meta.clusters[i])
      /\ \A i, j \in DOMAIN meta.clusters :
            meta.clusters[i].name = meta.clusters[j].name => i = j
  BY DEF Valid, Conforms, CrossFieldsConform
<1>2. AvailabilityKnown(meta)
  <2>1. "clusters" \in DOMAIN meta BY <1>1 DEF Fields
  <2>2. ASSUME NEW i \in DOMAIN meta.clusters
        PROVE  /\ meta.clusters[i] # Odd
               /\ NonEmpty(Get(meta.clusters[i], "name"))
               /\ Get(meta.clusters[i], "ok") \in BOOLEAN
    BY <1>1 DEF ClusterConforms, ClusterFields, Get
  <2> QED BY <1>1, <2>1, <2>2 DEF AvailabilityKnown
<1>3. ASSUME meta.poll_interval_seconds <= FloatMax PROVE FreshnessKnown(meta)
  <2>1. Get(meta, "generated_at") = meta.generated_at
        /\ Get(meta, "poll_interval_seconds") = meta.poll_interval_seconds
    BY <1>1 DEF Get, Fields
  <2>2. RealTime(meta.generated_at) /\ IntegerFrom(1, meta.poll_interval_seconds)
    BY DEF Valid, Conforms
  <2>3. meta.poll_interval_seconds \in 1..FloatMax
    BY <1>3, <2>2, MetricsAssumption DEF IntegerFrom
  <2> QED BY <2>1, <2>2, <2>3 DEF FreshnessKnown
<1>4. meta.generated_at.written # "lenient"
  <2>1. IdPattern(meta.generation_id) BY DEF Valid, Conforms
  <2>2. meta.generation_id.stamp = meta.generated_at BY DEF Valid, CrossFieldsConform
  <2> QED BY <2>1, <2>2 DEF IdPattern
<1>5. ASSUME meta.workflows > 0 PROVE Available(meta) # {}
  <2>1. Accounted(meta) = meta.workflows BY DEF Valid, CrossFieldsConform
  <2>2. CASE Answering(meta) = {}
    <3> DEFINE fun == [i \in Answering(meta) |-> meta.clusters[i].workflows]
    <3>1. DOMAIN fun = {} BY <2>2
    <3>2. SumFunction(fun) = 0
      <4> HIDE DEF fun
      <4> QED BY <3>1, SumOfNothing
    <3>3. Accounted(meta) = 0 BY <3>2 DEF Accounted
    <3> QED BY <1>5, <2>1, <3>3
  <2>3. CASE Answering(meta) # {}
    BY <2>3 DEF Answering, Available
  <2> QED BY <2>2, <2>3
<1> QED BY <1>2, <1>3, <1>4, <1>5

(* What load returns: clusters with distinct names, and positive numbers.  *)
LEMMA ConfigurationTypes ==
    ASSUME NEW c \in Configurations
    PROVE  /\ c.names \in Seq(Range(c.names)) /\ c.names # <<>>
           /\ \A i \in DOMAIN c.names : NonEmpty(c.names[i])
           /\ \A i, j \in DOMAIN c.names : c.names[i] = c.names[j] => i = j
           /\ NonEmpty(c.version)
           /\ c.interval \in Nat \ {0}
           /\ c.retention \in Nat \ {0}
<1>1. PICK e \in Environments : Accepted(e) /\ c = Loaded(e) BY DEF Configurations
<1>2. /\ e.clusters # Odd /\ e.clusters # <<>>
      /\ \A i \in DOMAIN e.clusters : NonEmpty(e.clusters[i].name)
      /\ \A i, j \in DOMAIN e.clusters : i # j => e.clusters[i].name # e.clusters[j].name
  BY <1>1 DEF Accepted, ClustersAccepted, EntryAccepted
<1>3. e.clusters \in Seq(Range(e.clusters)) BY <1>2, EnvironmentsAssumption
<1>4. /\ c.names = [i \in DOMAIN e.clusters |-> e.clusters[i].name]
      /\ c.version = Version(e)
      /\ c.interval = Number(e, "POLL_INTERVAL_SECONDS")
      /\ c.retention = Number(e, "RUN_RETENTION_DAYS")
  BY <1>1 DEF Loaded
<1>5. DOMAIN e.clusters = 1..Len(e.clusters) /\ Len(e.clusters) \in Nat BY <1>3
<1>6. c.names \in Seq(Range(c.names)) /\ c.names # <<>>
  <2>1. \A i \in DOMAIN c.names : c.names[i] \in Range(c.names) BY DEF Range
  <2>2. c.names \in [1..Len(e.clusters) -> Range(c.names)] BY <1>4, <1>5, <2>1
  <2>3. Len(e.clusters) # 0 BY <1>2, <1>3
  <2>4. c.names \in Seq(Range(c.names))
    <3> DEFINE S == Range(c.names)
    <3> HIDE DEF S
    <3> QED BY <1>5, <2>2
  <2>5. 1 \in DOMAIN c.names BY <1>4, <1>5, <2>3
  <2> QED BY <2>4, <2>5
<1>7. NonEmpty(c.version)
  BY <1>4, ValuesAssumption DEF Version, Legible, NonEmpty
<1>8. \A variable \in DOMAIN Defaults : Number(e, variable) \in Nat \ {0}
  BY <1>1 DEF Accepted, PositiveInt
<1>9. {"POLL_INTERVAL_SECONDS", "RUN_RETENTION_DAYS"} \subseteq DOMAIN Defaults
  BY DEF Defaults
<1> QED BY <1>2, <1>4, <1>6, <1>7, <1>8, <1>9

(* The exporter's own sidecar passes validate, whatever the clusters       *)
(* answered and whatever rows there are: the check before the upload       *)
(* cannot fail on what it was built from.                                  *)
THEOREM SidecarIsValid ==
    ASSUME config \in Configurations,
           NEW answered, answered \subseteq Range(config.names),
           NEW rows, IsFiniteSet(rows), \A row \in rows : row.cluster \in answered,
           NEW merged, IsFiniteSet(merged), NEW at \in Int
    PROVE  Valid(Sidecar(answered, rows, merged, at))
<1> DEFINE meta == Sidecar(answered, rows, merged, at)
           names == config.names
           of(i) == {row \in rows : row.cluster = names[i]}
           listed == [i \in DOMAIN names |->
                        [name |-> names[i], ok |-> names[i] \in answered,
                         workflows |-> Cardinality(of(i))]]
<1>1. /\ names \in Seq(Range(names)) /\ names # <<>>
      /\ \A i \in DOMAIN names : NonEmpty(names[i])
      /\ \A i, j \in DOMAIN names : names[i] = names[j] => i = j
      /\ NonEmpty(config.version)
      /\ config.interval \in Nat \ {0}
      /\ config.retention \in Nat \ {0}
  BY ConfigurationTypes
<1>2. \A i : of(i) \in SUBSET rows /\ IsFiniteSet(of(i)) /\ Cardinality(of(i)) \in Nat
  <2>1. \A Q \in SUBSET rows : IsFiniteSet(Q) /\ Cardinality(Q) \in Nat
    BY FS_Subset, FS_CardinalityType
  <2> QED BY <2>1
<1>3. Cardinality(rows) \in Nat /\ Cardinality(merged) \in Nat BY FS_CardinalityType
<1>4. /\ meta.version = config.version
      /\ meta.generated_at = [at |-> at, written |-> "exact"]
      /\ meta.generation_id = [stamp |-> [at |-> at, written |-> "exact"], suffixed |-> TRUE]
      /\ meta.poll_interval_seconds = config.interval
      /\ meta.run_retention_days = config.retention
      /\ meta.clusters = listed
      /\ meta.workflows = Cardinality(rows)
      /\ meta.runs = Cardinality(merged)
      /\ DOMAIN meta = Fields
  BY DEF Sidecar, Exactly, Fields
<1> DEFINE entries == Entries(config)
<1>5. /\ DOMAIN listed = DOMAIN names
      /\ \A i \in DOMAIN names :
            /\ listed[i] \in entries
            /\ DOMAIN listed[i] = ClusterFields
            /\ listed[i].name = names[i]
            /\ listed[i].ok = (names[i] \in answered)
            /\ listed[i].workflows = Cardinality(of(i))
  <2> HIDE DEF of
  <2> QED BY <1>2 DEF Entries, ClusterFields, Range
<1> HIDE DEF listed, of, meta
<1>6. listed \in Seq(entries)
  <2>1. DOMAIN names = 1..Len(names) /\ Len(names) \in Nat BY <1>1
  <2>2. listed \in [1..Len(names) -> entries]
    <3> HIDE DEF entries
    <3> QED BY <1>5, <2>1 DEF listed
  <2> QED BY <2>1, <2>2
<1>7. listed # <<>>
  <2>1. DOMAIN names # {} BY <1>1
  <2> QED BY <1>5, <2>1
<1>8. meta # Odd /\ listed # Odd /\ \A i \in DOMAIN listed : listed[i] # Odd
  <2>1. meta \in Sidecars(config)
    <3>1. meta.generated_at \in Stamps /\ meta.generation_id \in Ids
      BY <1>4 DEF Stamps, Ids
    <3>2. meta.clusters \in Seq(Entries(config)) BY <1>4, <1>6
    <3>3. meta = [version |-> meta.version, generated_at |-> meta.generated_at,
                  generation_id |-> meta.generation_id,
                  poll_interval_seconds |-> meta.poll_interval_seconds,
                  run_retention_days |-> meta.run_retention_days,
                  clusters |-> meta.clusters, workflows |-> meta.workflows,
                  runs |-> meta.runs]
      BY DEF meta, Sidecar
    <3> QED BY <1>3, <1>4, <3>1, <3>2, <3>3 DEF Sidecars
  <2> QED BY <1>5, <1>6, <2>1, EnvironmentsAssumption
<1>9. \A i \in DOMAIN listed : ClusterConforms(listed[i])
  <2>1. ASSUME NEW i \in DOMAIN names
        PROVE  listed[i].ok \in BOOLEAN /\ listed[i].workflows \in Nat
    BY <1>5 DEF Entries
  <2> HIDE DEF entries
  <2> QED BY <1>1, <1>5, <1>8, <2>1 DEF ClusterConforms, IntegerFrom
<1>10. Conforms(meta)
  <2>1. RealTime(meta.generated_at) /\ IdPattern(meta.generation_id)
    BY <1>4 DEF RealTime, IdPattern, Stamps, Ids
  <2> QED BY <1>1, <1>3, <1>4, <1>7, <1>8, <1>9, <2>1 DEF Conforms, IntegerFrom
<1>11. Answering(meta) = {i \in DOMAIN names : names[i] \in answered}
  BY <1>4, <1>5 DEF Answering
<1>12. Accounted(meta) = meta.workflows
  <2> DEFINE D == Answering(meta)
             fun == [i \in D |-> meta.clusters[i].workflows]
  <2>1. \A row \in rows : \E i \in D : names[i] = row.cluster
    BY <1>11 DEF Range
  <2>2. IsFiniteSet(D) /\ D \subseteq DOMAIN names
    <3>1. IsFiniteSet(DOMAIN names)
      <4>1. DOMAIN names = 1..Len(names) /\ Len(names) \in Nat BY <1>1
      <4> QED BY <4>1, FS_Interval
    <3> QED BY <1>11, <3>1, FS_Subset
  <2> DEFINE part == [i \in D |-> of(i)]
  <2>3. DOMAIN fun = D /\ \A i \in D : part[i] \subseteq rows /\ fun[i] = Cardinality(part[i])
    BY <1>2, <1>4, <1>5, <1>11
  <2>4. SumFunctionOnSet(fun, D) = Cardinality(rows)
    <3>1. \A i, j \in D : i # j => part[i] \cap part[j] = {}
      BY <1>1, <2>2 DEF of
    <3>2. \A row \in rows : \E i \in D : row \in part[i]
      BY <2>1 DEF of
    <3> HIDE DEF fun, D, part
    <3> QED BY <2>2, <2>3, <3>1, <3>2, SumOfParts
  <2>5. Accounted(meta) = SumFunctionOnSet(fun, D)
    BY <2>3 DEF Accounted, SumFunction
  <2> QED BY <1>4, <2>4, <2>5
<1>13. \A i \in DOMAIN meta.clusters \ Answering(meta) : meta.clusters[i].workflows = 0
  <2>1. ASSUME NEW i \in DOMAIN names, names[i] \notin answered PROVE Cardinality(of(i)) = 0
    <3>1. of(i) = {} BY <2>1 DEF of
    <3> QED BY <3>1, FS_EmptySet
  <2> QED BY <1>4, <1>5, <1>11, <2>1
<1>14. CrossFieldsConform(meta)
  <2>1. meta.generation_id.stamp = meta.generated_at BY <1>4
  <2>2. \A i, j \in DOMAIN meta.clusters :
           meta.clusters[i].name = meta.clusters[j].name => i = j
    BY <1>1, <1>4, <1>5
  <2> QED BY <1>12, <1>13, <2>1, <2>2 DEF CrossFieldsConform
<1>15. Valid(meta) BY <1>10, <1>14 DEF Valid
<1> QED BY <1>15 DEF meta

-----------------------------------------------------------------------------
(* What the listings say of a run.                                         *)

(* Latest is the latest.                                                   *)
LEMMA LatestIsGreatest ==
    ASSUME NEW h, NEW k, NEW n \in Nat, NEW m \in 1..n, Sighted(h, k, m)
    PROVE  /\ Latest(h, k, n) \in 1..n /\ Sighted(h, k, Latest(h, k, n))
           /\ \A i \in 1..n : Sighted(h, k, i) => i <= Latest(h, k, n)
<1> DEFINE S == {i \in 1..n : Sighted(h, k, i)}
           D == {n - i : i \in S}
<1>1. S # {} /\ S \subseteq 1..n OBVIOUS
<1> HIDE DEF S
<1>2. D \subseteq Nat /\ D # {}
  <2>1. \A i \in S : n - i \in Nat BY <1>1
  <2>2. PICK i \in S : TRUE BY <1>1
  <2> QED BY <2>1, <2>2
<1>3. PICK d \in D : \A e \in D : d <= e
  <2> HIDE DEF D
  <2> QED BY <1>2, LeastNatural
<1>4. PICK g \in S : d = n - g BY <1>3
<1>5. \A i \in S : g >= i
  <2> TAKE i \in S
  <2>1. n - i \in D OBVIOUS
  <2>2. n - g <= n - i BY <1>3, <1>4, <2>1
  <2> QED BY <2>2, <1>1
<1>6. Max(S) \in S /\ \A i \in S : Max(S) >= i
  BY <1>5 DEF Max
<1>7. Latest(h, k, n) = Max(S) BY DEF Latest, S
<1>8. \A i \in 1..n : Max(S) >= i => i <= Max(S)
  BY <1>6, <1>1
<1> QED BY <1>1, <1>6, <1>7, <1>8 DEF S

(* A further listing changes nothing of what the first ones say.           *)
LEMMA LatestAmongFirst ==
    ASSUME NEW h, NEW e, NEW k, h \in Seq(Range(h)), NEW n \in 0..Len(h)
    PROVE  /\ Latest(Append(h, e), k, n) = Latest(h, k, n)
           /\ \A i \in 1..n : Sighted(Append(h, e), k, i) <=> Sighted(h, k, i)
<1> DEFINE g == Append(h, e)
<1>1. \A i \in 1..n : g[i] = h[i] OBVIOUS
<1>2. \A i \in 1..n : Sighted(g, k, i) <=> Sighted(h, k, i) BY <1>1 DEF Sighted
<1> HIDE DEF g
<1>3. {i \in 1..n : Sighted(g, k, i)} = {i \in 1..n : Sighted(h, k, i)} BY <1>2
<1>4. Latest(g, k, n) = Latest(h, k, n) BY <1>3 DEF Latest
<1> QED BY <1>2, <1>4 DEF g

(* Nor of which rows of sightings among them are unbroken.                 *)
LEMMA UnbrokenAmongFirst ==
    ASSUME NEW h, NEW e, NEW k, NEW period, h \in Seq(Range(h)), h # <<>>,
           NEW i \in 1..Len(h), Sighted(h, k, i), NEW j \in 1..Len(h)
    PROVE  Unbroken(Append(h, e), period, k, i, j) <=> Unbroken(h, period, k, i, j)
<1> DEFINE g == Append(h, e)
<1>1. ASSUME NEW n \in i..j
      PROVE  g[Latest(g, k, n)] = h[Latest(h, k, n)] /\ g[n] = h[n]
  <2>1. n \in 0..Len(h) /\ n \in Nat /\ i \in 1..n OBVIOUS
  <2>2. Latest(g, k, n) = Latest(h, k, n) BY <2>1, LatestAmongFirst
  <2>3. Latest(h, k, n) \in 1..n BY <2>1, LatestIsGreatest
  <2>4. \A m \in 1..n : g[m] = h[m] BY <2>1
  <2> HIDE DEF g
  <2> QED BY <2>1, <2>2, <2>3, <2>4
<1> HIDE DEF g
<1>2. Unbroken(g, period, k, i, j) <=> Unbroken(h, period, k, i, j)
  BY <1>1 DEF Unbroken
<1> QED BY <1>2 DEF g

(* A history to recall from.                                               *)
Memory(h) == h \in Seq(Range(h)) /\ h # <<>> /\ \A i \in DOMAIN h : IsListing(h[i])

(* A run is known because some listing had it.                             *)
LEMMA OnesSighting ==
    ASSUME NEW h, Memory(h), NEW k \in Known(h)
    PROVE  \E i \in 1..Len(h) : Sighted(h, k, i)
BY DEF Known, Sighted, Memory

(* What Recalled returns: the columns and the date of the latest sighting, *)
(* and the date of the first that leads there unbroken.                    *)
LEMMA RecalledParts ==
    ASSUME NEW h, Memory(h), NEW k \in Known(h), NEW period \in Nat
    PROVE  LET n == Len(h)
               last == Latest(h, k, n)
               leads(i) == Sighted(h, k, i) /\ Unbroken(h, period, k, i, last)
           IN  /\ last \in 1..n /\ Sighted(h, k, last)
               /\ Identity(Recalled(h, period, k)) = k
               /\ Recalled(h, period, k).last = h[last].at
               /\ \E first \in 1..last :
                     /\ leads(first) /\ \A i \in 1..last : leads(i) => first <= i
                     /\ Recalled(h, period, k).first = h[first].at
               /\ \E row \in h[last].rows :
                     Identity(row) = k /\ Recalled(h, period, k).columns = row.columns
<1> DEFINE n == Len(h)
           last == Latest(h, k, n)
           leads(i) == Sighted(h, k, i) /\ Unbroken(h, period, k, i, last)
           F == {i \in 1..last : leads(i)}
           row == CHOOSE r \in h[last].rows : Identity(r) = k
<1>1. n \in Nat /\ last \in 1..n /\ Sighted(h, k, last)
  <2>1. n \in Nat BY DEF Memory
  <2> QED BY <2>1, OnesSighting, LatestIsGreatest
<1>2. Unbroken(h, period, k, last, last)
  <2> HIDE DEF last
  <2>1. Latest(h, k, last) = last
    <3>1. last \in Nat /\ last \in 1..last BY <1>1
    <3>2. /\ Latest(h, k, last) \in 1..last
          /\ \A i \in 1..last : Sighted(h, k, i) => i <= Latest(h, k, last)
      BY <3>1, <1>1, LatestIsGreatest
    <3> QED BY <3>1, <3>2, <1>1
  <2>2. h[last].at \in Nat BY <1>1 DEF Memory, IsListing
  <2>3. \A j \in last..last : j = last BY <1>1
  <2> QED BY <2>1, <2>2, <2>3 DEF Unbroken
<1>3. F \subseteq Nat /\ F # {}
  <2> HIDE DEF last
  <2> QED BY <1>1, <1>2
<1>4. Min(F) \in F /\ \A i \in F : Min(F) <= i
  <2> HIDE DEF F
  <2> QED BY <1>3, MinIsLeast
<1>5. row \in h[last].rows /\ Identity(row) = k BY <1>1 DEF Sighted
<1>6. Recalled(h, period, k) =
        [cluster |-> k[1], uid |-> k[2], columns |-> row.columns,
         first |-> h[Min(F)].at, last |-> h[last].at]
  BY DEF Recalled
<1>7. Identity(Recalled(h, period, k)) = k
  <2> HIDE DEF last, row, F
  <2> QED BY <1>5, <1>6 DEF Identity
<1>8. /\ Recalled(h, period, k).last = h[last].at
      /\ Recalled(h, period, k).first = h[Min(F)].at
      /\ Recalled(h, period, k).columns = row.columns
  <2> HIDE DEF last, row, F
  <2> QED BY <1>6
<1>9. /\ Min(F) \in 1..last /\ leads(Min(F))
      /\ \A i \in 1..last : leads(i) => Min(F) <= i
  BY <1>4
<1> HIDE DEF row, F, leads
<1>10. \E first \in 1..last :
          /\ leads(first) /\ \A i \in 1..last : leads(i) => first <= i
          /\ Recalled(h, period, k).first = h[first].at
  BY <1>8, <1>9
<1> QED BY <1>1, <1>5, <1>7, <1>8, <1>10 DEF leads

(* A listing without the run leaves its latest sighting as it was.         *)
LEMMA LatestUnlisted ==
    ASSUME NEW h, Memory(h), NEW k \in Known(h), NEW e, ~ Sighted(Append(h, e), k, Len(h) + 1)
    PROVE  Latest(Append(h, e), k, Len(h) + 1) = Latest(h, k, Len(h))
<1> DEFINE g == Append(h, e)
           n == Len(h)
<1>1. n \in Nat BY DEF Memory
<1>2. \A i \in 1..n : Sighted(g, k, i) <=> Sighted(h, k, i)
  <2>1. h \in Seq(Range(h)) /\ n \in 0..Len(h) BY <1>1 DEF Memory
  <2> QED BY <2>1, LatestAmongFirst
<1> HIDE DEF g
<1>3. {i \in 1..(n + 1) : Sighted(g, k, i)} = {i \in 1..n : Sighted(h, k, i)}
  <2>1. ~ Sighted(g, k, n + 1) BY DEF g
  <2>2. \A i \in 1..(n + 1) : i = n + 1 \/ i \in 1..n BY <1>1
  <2>3. \A i \in 1..n : i \in 1..(n + 1) BY <1>1
  <2> HIDE DEF n
  <2> QED BY <1>2, <2>1, <2>2, <2>3
<1>4. Latest(g, k, n + 1) = Latest(h, k, n) BY <1>3 DEF Latest
<1> QED BY <1>4 DEF g

(* A listing without the run leaves what is recalled of it as it was, and  *)
(* the run is kept if it was and its sighting is in the period.            *)
LEMMA RecalledUnlisted ==
    ASSUME NEW h, Memory(h), NEW k \in Known(h), NEW period \in Nat, NEW e, e.at \in Nat,
           ~ Sighted(Append(h, e), k, Len(h) + 1)
    PROVE  /\ Recalled(Append(h, e), period, k) = Recalled(h, period, k)
           /\ Kept(Append(h, e), period, k) <=>
                Kept(h, period, k) /\ Recalled(h, period, k).last >= e.at - period
<1> DEFINE g == Append(h, e)
           n == Len(h)
           last == Latest(h, k, n)
<1>1. n \in Nat /\ h \in Seq(Range(h)) /\ h # <<>> BY DEF Memory
<1>2. last \in 1..n /\ Sighted(h, k, last) /\ Recalled(h, period, k).last = h[last].at
  BY RecalledParts
<1>3. Latest(g, k, n + 1) = last BY LatestUnlisted
<1>4. \A i \in 1..n : /\ Sighted(g, k, i) <=> Sighted(h, k, i)
                      /\ g[i] = h[i]
  <2>1. n \in 0..Len(h) BY <1>1
  <2>2. \A i \in 1..n : Sighted(g, k, i) <=> Sighted(h, k, i)
    BY <1>1, <2>1, LatestAmongFirst
  <2>3. \A i \in 1..n : g[i] = h[i] BY <1>1
  <2> QED BY <2>2, <2>3
<1>5. ASSUME NEW i \in 1..n, Sighted(h, k, i), NEW j \in 1..n
      PROVE  Unbroken(g, period, k, i, j) <=> Unbroken(h, period, k, i, j)
  BY <1>1, <1>5, UnbrokenAmongFirst
<1>6. Len(g) = n + 1 /\ g[n + 1] = e BY <1>1
<1> HIDE DEF g, n, last
<1>7. Recalled(g, period, k) = Recalled(h, period, k)
  <2>1. \A i \in 1..last :
           Sighted(g, k, i) /\ Unbroken(g, period, k, i, last) <=>
           Sighted(h, k, i) /\ Unbroken(h, period, k, i, last)
    <3> TAKE i \in 1..last
    <3>1. i \in 1..n BY <1>1, <1>2
    <3> QED BY <3>1, <1>2, <1>4, <1>5
  <2>2. {i \in 1..last : Sighted(g, k, i) /\ Unbroken(g, period, k, i, last)} =
        {i \in 1..last : Sighted(h, k, i) /\ Unbroken(h, period, k, i, last)}
    BY <2>1
  <2> DEFINE F == {i \in 1..last : Sighted(h, k, i) /\ Unbroken(h, period, k, i, last)}
  <2>3. Min(F) \in 1..n
    <3>1. last \in F
      <4>1. PICK first \in 1..last : Sighted(h, k, first) /\ Unbroken(h, period, k, first, last)
        BY RecalledParts DEF n, last
      <4>2. Unbroken(h, period, k, last, last) BY <4>1, <1>1, <1>2 DEF Unbroken
      <4> QED BY <4>2, <1>1, <1>2
    <3>2. F \subseteq 1..n BY <1>1, <1>2
    <3>3. F \subseteq Nat /\ F # {} BY <3>1, <3>2, <1>1
    <3> HIDE DEF F
    <3>4. Min(F) \in F BY <3>3, MinIsLeast
    <3> QED BY <3>2, <3>4
  <2>4. g[Min(F)] = h[Min(F)] /\ g[last] = h[last] BY <1>2, <1>4, <2>3
  <2>5. Latest(g, k, Len(g)) = last /\ Latest(h, k, Len(h)) = last
    BY <1>3, <1>6 DEF n, last
  <2> HIDE DEF F
  <2> QED BY <2>2, <2>4, <2>5 DEF Recalled, F
<1>8. Kept(g, period, k) <=>
        Kept(h, period, k) /\ h[last].at >= e.at - period
  <2>1. Kept(g, period, k) <=> Unbroken(g, period, k, last, n + 1)
    BY <1>3, <1>6 DEF Kept
  <2>2. Kept(h, period, k) <=> Unbroken(h, period, k, last, n)
    BY DEF Kept, n, last
  <2>3. Unbroken(h, period, k, last, n) <=> Unbroken(g, period, k, last, n)
    BY <1>1, <1>2, <1>5
  <2>4. Unbroken(g, period, k, last, n + 1) <=>
          /\ Unbroken(g, period, k, last, n)
          /\ g[Latest(g, k, n + 1)].at >= g[n + 1].at - period
    <3>1. \A j \in last..(n + 1) : j \in last..n \/ j = n + 1 BY <1>1, <1>2
    <3>2. \A j \in last..n : j \in last..(n + 1) BY <1>1, <1>2
    <3>3. n + 1 \in last..(n + 1) BY <1>1, <1>2
    <3> QED BY <3>1, <3>2, <3>3 DEF Unbroken
  <2>5. g[last] = h[last] BY <1>2, <1>4
  <2> QED BY <1>3, <1>6, <2>1, <2>2, <2>3, <2>4, <2>5
<1> QED BY <1>2, <1>7, <1>8 DEF g

(* A listing with the run is recalled with its columns and its date, and   *)
(* with the first sighting of before if the run was still kept.            *)
LEMMA RecalledListed ==
    ASSUME NEW h, Memory(h), NEW period \in Nat, NEW e, IsListing(e), NEW row \in e.rows
    PROVE  LET g == Append(h, e)
               k == Identity(row)
           IN  /\ Kept(g, period, k)
               /\ Recalled(g, period, k) =
                    [cluster |-> row.cluster, uid |-> row.uid, columns |-> row.columns,
                     first |-> IF k \in Known(h) /\ Kept(h, period, k)
                                 THEN Recalled(h, period, k).first ELSE e.at,
                     last |-> e.at]
<1> DEFINE g == Append(h, e)
           n == Len(h)
           k == Identity(row)
           leads(i) == Sighted(g, k, i) /\ Unbroken(g, period, k, i, n + 1)
           F == {i \in 1..(n + 1) : leads(i)}
           before == k \in Known(h) /\ Kept(h, period, k)
<1>1. n \in Nat /\ h \in Seq(Range(h)) /\ h # <<>> /\ n \in 1..n
  BY DEF Memory
<1>2. /\ Len(g) = n + 1 /\ g[n + 1] = e
      /\ \A i \in 1..n : g[i] = h[i]
  BY <1>1
<1>3. \A i \in 1..n : Sighted(g, k, i) <=> Sighted(h, k, i)
  <2>1. n \in 0..Len(h) BY <1>1
  <2> HIDE DEF k
  <2> QED BY <1>1, <2>1, LatestAmongFirst
<1>4. Sighted(g, k, n + 1) BY <1>2 DEF Sighted
<1> HIDE DEF g, k, n
<1>5. Latest(g, k, n + 1) = n + 1
  <2>1. n + 1 \in Nat /\ n + 1 \in 1..(n + 1) BY <1>1
  <2>2. /\ Latest(g, k, n + 1) \in 1..(n + 1)
        /\ \A i \in 1..(n + 1) : Sighted(g, k, i) => i <= Latest(g, k, n + 1)
    BY <2>1, <1>4, LatestIsGreatest
  <2> QED BY <1>1, <1>4, <2>1, <2>2
<1>6. e.at \in Nat /\ e.at >= e.at - period
  <2>1. e.at \in Nat BY DEF IsListing
  <2> QED BY <2>1
<1>7. Unbroken(g, period, k, n + 1, n + 1)
  <2>1. \A j \in (n + 1)..(n + 1) : j = n + 1 BY <1>1
  <2> QED BY <1>2, <1>5, <1>6, <2>1 DEF Unbroken
<1>8. Kept(g, period, k) BY <1>2, <1>5, <1>7 DEF Kept
<1>9. ASSUME NEW i \in 1..n, Sighted(h, k, i)
      PROVE  Unbroken(g, period, k, i, n + 1) <=> Unbroken(h, period, k, i, n)
  <2>1. Unbroken(g, period, k, i, n) <=> Unbroken(h, period, k, i, n)
    BY <1>1, <1>9, UnbrokenAmongFirst DEF g, n
  <2>2. /\ \A j \in i..(n + 1) : j \in i..n \/ j = n + 1
        /\ \A j \in i..n : j \in i..(n + 1)
    BY <1>1
  <2> QED BY <1>2, <1>5, <1>6, <2>1, <2>2 DEF Unbroken
<1>10. F \subseteq Nat /\ n + 1 \in F
  <2>1. n + 1 \in 1..(n + 1) /\ 1..(n + 1) \subseteq Nat BY <1>1
  <2> QED BY <1>4, <1>7, <2>1
<1>11. Min(F) \in F /\ \A i \in F : Min(F) <= i
  <2> HIDE DEF F
  <2> QED BY <1>10, MinIsLeast
<1>12. ASSUME before PROVE g[Min(F)].at = Recalled(h, period, k).first
  <2> DEFINE last == Latest(h, k, n)
             leadsThere(i) == Sighted(h, k, i) /\ Unbroken(h, period, k, i, last)
  <2>1. PICK first \in 1..last :
           /\ leadsThere(first) /\ \A i \in 1..last : leadsThere(i) => first <= i
           /\ Recalled(h, period, k).first = h[first].at
    BY <1>12, RecalledParts DEF n
  <2>2. last \in 1..n /\ Sighted(h, k, last) BY <1>12, RecalledParts DEF n
  <2>3. Unbroken(h, period, k, last, n) BY <1>12 DEF Kept, n
  <2>4. \A i \in 1..n : Sighted(h, k, i) => i \in 1..last
    BY <1>1, LatestIsGreatest
  <2> HIDE DEF last
  <2>5. \A i \in 1..last : Unbroken(h, period, k, i, n) <=> Unbroken(h, period, k, i, last)
    <3> TAKE i \in 1..last
    <3>1. /\ \A j \in i..n : j \in i..last \/ j \in last..n
          /\ \A j \in i..last : j \in i..n
      BY <1>1, <2>2
    <3> QED BY <2>3, <3>1 DEF Unbroken
  <2>6. \A i \in 1..n : leads(i) <=> i \in 1..last /\ leadsThere(i)
    <3> TAKE i \in 1..n
    <3>1. CASE Sighted(h, k, i)
      <4>1. i \in 1..last BY <2>4, <3>1
      <4> QED BY <1>3, <1>9, <2>5, <3>1, <4>1
    <3>2. CASE ~ Sighted(h, k, i) BY <1>3, <3>2
    <3> QED BY <3>1, <3>2
  <2>7. first \in F
    <3>1. first \in 1..n /\ first \in 1..(n + 1) BY <1>1, <2>2
    <3> QED BY <2>1, <2>6, <3>1
  <2>8. \A i \in F : first <= i
    <3> TAKE i \in F
    <3>1. CASE i = n + 1 BY <3>1, <1>1, <2>2
    <3>2. CASE i # n + 1
      <4>1. i \in 1..n /\ leads(i) BY <3>2, <1>1
      <4> HIDE DEF leads, leadsThere, F
      <4> QED BY <2>1, <2>6, <4>1
    <3> QED BY <3>1, <3>2
  <2>9. Min(F) = first
    <3>1. Min(F) <= first /\ first <= Min(F) BY <1>11, <2>7, <2>8
    <3>2. Min(F) \in Nat /\ first \in Nat BY <1>10, <1>11, <2>7
    <3> HIDE DEF F
    <3> QED BY <3>1, <3>2
  <2>10. g[first] = h[first]
    <3>1. first \in 1..n BY <1>1, <2>2
    <3> QED BY <1>2, <3>1
  <2> HIDE DEF F
  <2> QED BY <2>1, <2>9, <2>10
<1>13. ASSUME ~ before PROVE g[Min(F)].at = e.at
  <2>1. \A i \in 1..n : ~ leads(i)
    <3> SUFFICES ASSUME NEW i \in 1..n, leads(i) PROVE FALSE
      OBVIOUS
    <3>1. Sighted(h, k, i) /\ Unbroken(h, period, k, i, n) BY <1>3, <1>9
    <3>2. k \in Known(h)
      <4>1. i \in DOMAIN h BY <1>1 DEF n
      <4> QED BY <3>1, <4>1 DEF Known, Sighted
    <3>3. Latest(h, k, n) \in i..n /\ i \in Nat BY <1>1, <3>1, LatestIsGreatest
    <3>4. Unbroken(h, period, k, Latest(h, k, n), n)
      <4> DEFINE last == Latest(h, k, n)
      <4>1. \A j \in last..n : j \in i..n BY <1>1, <3>3
      <4> QED BY <3>1, <4>1 DEF Unbroken
    <3> QED BY <1>13, <3>2, <3>4 DEF Kept, n
  <2>2. Min(F) = n + 1
    <3>1. Min(F) \in 1..(n + 1) /\ leads(Min(F)) BY <1>11
    <3>2. \A i \in 1..(n + 1) : i \in 1..n \/ i = n + 1 BY <1>1
    <3> HIDE DEF F, leads
    <3> QED BY <2>1, <3>1, <3>2
  <2> HIDE DEF F
  <2> QED BY <1>2, <2>2
<1>14. g[Min(F)].at = IF before THEN Recalled(h, period, k).first ELSE e.at
  <2> HIDE DEF F, before
  <2> QED BY <1>12, <1>13
<1>15. (CHOOSE r \in e.rows : Identity(r) = k) = row
  <2>1. \A r \in e.rows : Identity(r) = k => r = row BY DEF IsListing, k
  <2>2. Identity(row) = k BY DEF k
  <2> QED BY <2>1, <2>2
<1>16. k[1] = row.cluster /\ k[2] = row.uid BY DEF k, Identity
<1>17. Recalled(g, period, k) =
         [cluster |-> k[1], uid |-> k[2],
          columns |-> (CHOOSE r \in e.rows : Identity(r) = k).columns,
          first |-> g[Min(F)].at, last |-> e.at]
  BY <1>2, <1>5 DEF Recalled
<1>18. Recalled(g, period, k) =
         [cluster |-> row.cluster, uid |-> row.uid, columns |-> row.columns,
          first |-> IF before THEN Recalled(h, period, k).first ELSE e.at,
          last |-> e.at]
  <2> HIDE DEF F, before
  <2> QED BY <1>14, <1>15, <1>16, <1>17
<1> QED BY <1>8, <1>18 DEF g, k

(* Every run that is recalled has a uid.                                   *)
LEMMA EveryRowHasAUid ==
    ASSUME NEW h, Memory(h), NEW period \in Nat
    PROVE  /\ \A k \in Known(h) : k[2] # None
           /\ \A row \in Recollection(h, period) : row.uid # None /\ Identity(row) \in Known(h)
<1>1. ASSUME NEW k \in Known(h) PROVE k[2] # None
  <2>1. PICK i \in DOMAIN h : k \in {Identity(row) : row \in h[i].rows} BY DEF Known
  <2>2. PICK row \in h[i].rows : Identity(row) = k BY <2>1
  <2>3. row.uid # None BY DEF Memory, IsListing, IsSighting, Sound
  <2> QED BY <2>2, <2>3 DEF Identity
<1>2. ASSUME NEW row \in Recollection(h, period)
      PROVE  row.uid # None /\ Identity(row) \in Known(h)
  <2>1. PICK k \in Known(h) : row = Recalled(h, period, k) BY DEF Recollection
  <2>2. Identity(row) = k BY <2>1, RecalledParts
  <2> QED BY <1>1, <2>2 DEF Identity
<1> QED BY <1>1, <1>2

(* merge is the memory of one more listing: folding a cycle's rows into    *)
(* what the listings up to then leave is what the listings up to and with  *)
(* it leave. Whatever the clock says: a run that was trimmed and is listed *)
(* again starts anew, and a clock that steps back makes nothing younger or *)
(* older than it was seen.                                                 *)
THEOREM MergeIsMemory ==
    ASSUME NEW h, Memory(h), Retention \in Nat, NEW e, IsListing(e)
    PROVE  Recollection(Append(h, e), Retention)
             = Merge(Recollection(h, Retention), e.rows, e.at)
<1> DEFINE g == Append(h, e)
           P == Retention
           ledgerBefore == Recollection(h, P)
           unseen == {row \in ledgerBefore :
                        \A seen \in e.rows : Identity(seen) # Identity(row)}
           noted == {Recorded(seen, ledgerBefore, e.at) : seen \in e.rows}
<1>1. P \in Nat /\ e.at \in Nat BY DEF IsListing
<1>2. Tracked(ledgerBefore) = ledgerBefore /\ Tracked(e.rows) = e.rows
  <2> HIDE DEF P
  <2>1. \A row \in ledgerBefore : row.uid # None BY <1>1, EveryRowHasAUid
  <2>2. \A row \in e.rows : row.uid # None BY DEF IsListing, IsSighting, Sound
  <2> HIDE DEF ledgerBefore
  <2> QED BY <2>1, <2>2 DEF Tracked
<1> DEFINE remembered == {row \in unseen \cup noted : row.last >= e.at - P}
<1>3. Merge(ledgerBefore, e.rows, e.at) = remembered
  <2> HIDE DEF ledgerBefore
  <2> QED BY <1>2 DEF Merge, Fold, Cutoff
<1>4. /\ DOMAIN g = 1..(Len(h) + 1) /\ Len(h) \in Nat /\ g[Len(h) + 1] = e
      /\ DOMAIN h = 1..Len(h) /\ \A i \in 1..Len(h) : g[i] = h[i]
  BY DEF Memory
<1>5. \A k : Sighted(g, k, Len(h) + 1) <=> \E row \in e.rows : Identity(row) = k
  BY <1>4 DEF Sighted
<1> HIDE DEF g, P
<1>6. Known(g) = Known(h) \cup {Identity(row) : row \in e.rows}
  <2>1. \A i \in 1..(Len(h) + 1) : i \in 1..Len(h) \/ i = Len(h) + 1 BY <1>4
  <2>2. \A i \in 1..Len(h) : i \in 1..(Len(h) + 1) BY <1>4
  <2>3. Len(h) + 1 \in 1..(Len(h) + 1) BY <1>4
  <2> QED BY <1>4, <2>1, <2>2, <2>3 DEF Known
<1>7. ASSUME NEW row \in e.rows
      PROVE  /\ Kept(g, P, Identity(row))
             /\ Recalled(g, P, Identity(row)) = Recorded(row, ledgerBefore, e.at)
  <2> DEFINE k == Identity(row)
             previous == {r \in ledgerBefore : Identity(r) = k}
  <2>1. /\ Kept(g, P, k)
        /\ Recalled(g, P, k) =
             [cluster |-> row.cluster, uid |-> row.uid, columns |-> row.columns,
              first |-> IF k \in Known(h) /\ Kept(h, P, k)
                          THEN Recalled(h, P, k).first ELSE e.at,
              last |-> e.at]
    BY <1>1, RecalledListed DEF g
  <2>2. \A r \in previous : r = Recalled(h, P, k) /\ k \in Known(h) /\ Kept(h, P, k)
    <3> HIDE DEF k
    <3> QED BY <1>1, RecalledParts DEF Recollection
  <2>3. k \in Known(h) /\ Kept(h, P, k) => Recalled(h, P, k) \in previous
    <3> HIDE DEF k
    <3> QED BY <1>1, RecalledParts DEF Recollection
  <2> HIDE DEF ledgerBefore
  <2>4. Recorded(row, ledgerBefore, e.at) =
          [cluster |-> row.cluster, uid |-> row.uid, columns |-> row.columns,
           first |-> IF previous = {} THEN e.at ELSE (CHOOSE r \in previous : TRUE).first,
           last |-> e.at]
    BY DEF Recorded
  <2> HIDE DEF previous, k
  <2>5. (IF previous = {} THEN e.at ELSE (CHOOSE r \in previous : TRUE).first) =
        (IF k \in Known(h) /\ Kept(h, P, k) THEN Recalled(h, P, k).first ELSE e.at)
    <3>1. CASE previous = {} BY <2>3, <3>1
    <3>2. CASE previous # {}
      <4>1. (CHOOSE r \in previous : TRUE) \in previous BY <3>2
      <4> QED BY <2>2, <3>2, <4>1
    <3> QED BY <3>1, <3>2
  <2>6. Recalled(g, P, k) = Recorded(row, ledgerBefore, e.at) BY <2>1, <2>4, <2>5
  <2> QED BY <2>1, <2>6 DEF k
<1>8. ASSUME NEW k \in Known(h), \A row \in e.rows : Identity(row) # k
      PROVE  /\ Recalled(g, P, k) = Recalled(h, P, k)
             /\ Kept(g, P, k) <=> Kept(h, P, k) /\ Recalled(h, P, k).last >= e.at - P
  BY <1>1, <1>5, <1>8, RecalledUnlisted DEF g
<1>9. Recollection(g, P) \subseteq remembered
  <2> SUFFICES ASSUME NEW new \in Recollection(g, P) PROVE new \in remembered
    OBVIOUS
  <2>1. PICK k \in Known(g) : Kept(g, P, k) /\ new = Recalled(g, P, k)
    BY DEF Recollection
  <2>2. CASE \E row \in e.rows : Identity(row) = k
    <3>1. PICK row \in e.rows : Identity(row) = k BY <2>2
    <3>2. new = Recorded(row, ledgerBefore, e.at) BY <2>1, <3>1, <1>7
    <3>3. new.last = e.at
      <4> HIDE DEF ledgerBefore
      <4> QED BY <3>2 DEF Recorded
    <3>4. new \in noted BY <3>2
    <3> HIDE DEF noted, unseen
    <3> QED BY <1>1, <3>3, <3>4
  <2>3. CASE \A row \in e.rows : Identity(row) # k
    <3>1. k \in Known(h) BY <1>6, <2>3
    <3>2. new = Recalled(h, P, k) /\ Kept(h, P, k) /\ new.last >= e.at - P
      BY <1>8, <2>1, <2>3, <3>1
    <3>3. Identity(new) = k BY <1>1, <3>1, <3>2, RecalledParts
    <3>4. new \in ledgerBefore BY <3>1, <3>2 DEF Recollection
    <3> HIDE DEF ledgerBefore
    <3> QED BY <2>3, <3>2, <3>3, <3>4
  <2> QED BY <2>2, <2>3
<1>10. remembered \subseteq Recollection(g, P)
  <2> SUFFICES ASSUME NEW row \in remembered PROVE row \in Recollection(g, P)
    OBVIOUS
  <2>1. CASE row \in noted
    <3>1. PICK seen \in e.rows : row = Recorded(seen, ledgerBefore, e.at) BY <2>1
    <3>2. Identity(seen) \in Known(g) BY <1>6
    <3>3. Kept(g, P, Identity(seen)) /\ row = Recalled(g, P, Identity(seen))
      BY <1>7, <3>1
    <3> QED BY <3>2, <3>3 DEF Recollection
  <2>2. CASE row \in unseen
    <3>1. row \in ledgerBefore /\ \A seen \in e.rows : Identity(seen) # Identity(row)
      BY <2>2
    <3>2. row.last >= e.at - P OBVIOUS
    <3>3. PICK k \in Known(h) : Kept(h, P, k) /\ row = Recalled(h, P, k)
      BY <3>1 DEF Recollection
    <3>4. Identity(row) = k BY <1>1, <3>3, RecalledParts
    <3>5. Kept(g, P, k) /\ row = Recalled(g, P, k) BY <1>8, <3>1, <3>2, <3>3, <3>4
    <3>6. k \in Known(g) BY <1>6, <3>3
    <3> QED BY <3>5, <3>6 DEF Recollection
  <2> HIDE DEF unseen, noted
  <2> QED BY <2>1, <2>2
<1>11. Recollection(g, P) = remembered
  <2> HIDE DEF remembered
  <2> QED BY <1>9, <1>10
<1> QED BY <1>3, <1>11 DEF g, P

-----------------------------------------------------------------------------
(* Rows and ledgers.                                                       *)

(* The rows a cycle makes of the clusters that answered are a listing:     *)
(* each run once, each with a uid, all of those clusters; and deriving the *)
(* failure columns once more, as merge does, changes none of them.         *)
LEMMA RowsAreAListing ==
    ASSUME TypeOK, NEW up, NEW at \in Nat
    PROVE  LET answered == Answered(up)
               rows == Rows(answered)
           IN  /\ IsListing([at |-> at, answered |-> answered, rows |-> rows])
               /\ \A row \in rows : row.cluster \in answered
               /\ {Rederived(row) : row \in rows} = rows
<1> DEFINE answered == Answered(up)
           named == {j \in DOMAIN world : j[1] \in answered}
           rowOf == [k \in named |->
                       [cluster |-> k[1], uid |-> k[2], columns |-> ToColumns(world[k])]]
           rows == Rows(answered)
<1>1. rows = {rowOf[k] : k \in named} BY DEF Rows
<1>2. ASSUME NEW k \in named
      PROVE  /\ k = <<k[1], k[2]>> /\ k[2] # None /\ k[1] \in answered
             /\ world[k] \in Workflows /\ WellFormed(world[k])
  <2>1. k \in DOMAIN world /\ k[1] \in answered OBVIOUS
  <2>2. k \in Objects /\ world[k] \in Workflows BY <2>1 DEF TypeOK
  <2>3. WellFormed(world[k]) BY <2>1 DEF Answered
  <2> HIDE DEF answered
  <2> QED BY <2>1, <2>2, <2>3, ObjectsAssumption
<1>3. ASSUME NEW k \in named
      PROVE  /\ k[1] \in answered
             /\ rowOf[k] = [cluster |-> k[1], uid |-> k[2], columns |-> ToColumns(world[k])]
  OBVIOUS
<1>4. IsFiniteSet(rows)
  <2>1. IsFiniteSet(DOMAIN world) BY DEF TypeOK
  <2>2. IsFiniteSet(named) BY <2>1, FS_Subset
  <2> HIDE DEF named, rowOf, rows
  <2> QED BY <1>1, <2>2, FiniteImage
<1> HIDE DEF rowOf, named, rows, answered
<1>5. ASSUME NEW k \in named
      PROVE  /\ IsSighting(rowOf[k]) /\ Identity(rowOf[k]) = k
             /\ rowOf[k].cluster \in answered /\ Rederived(rowOf[k]) = rowOf[k]
  <2> DEFINE c == ToColumns(world[k])
  <2>1. DOMAIN c = Columns /\ ColumnsAgree(c) BY <1>2, ColumnsOfObject
  <2>2. /\ c.class = FailureColumns(c.step.message, c.message).class
        /\ c.fingerprint = FailureColumns(c.step.message, c.message).fingerprint
    BY DEF ToColumns
  <2>3. "class" \in DOMAIN c /\ "fingerprint" \in DOMAIN c /\ c = [x \in DOMAIN c |-> c[x]]
    BY DEF ToColumns
  <2> HIDE DEF c
  <2>4. rowOf[k] = [cluster |-> k[1], uid |-> k[2], columns |-> c] BY <1>3 DEF c
  <2>5. k[2] # None BY <1>2
  <2>6. IsSighting(rowOf[k]) BY <2>5, <2>1, <2>4 DEF IsSighting, Sound
  <2>7. Identity(rowOf[k]) = k
    <3>1. k = <<k[1], k[2]>> BY <1>2
    <3>2. Identity(rowOf[k]) = <<k[1], k[2]>> BY <2>4 DEF Identity
    <3> QED BY <3>1, <3>2
  <2>8. Rederived(rowOf[k]) = rowOf[k]
    <3> DEFINE row == rowOf[k]
    <3>1. row.columns = c /\ [row EXCEPT !.columns = c] = row BY <2>4
    <3>2. [c EXCEPT !.class = c.class] = c /\ [c EXCEPT !.fingerprint = c.fingerprint] = c
      BY <2>3
    <3> HIDE DEF row
    <3>3. Rederived(row) = [row EXCEPT !.columns.class = c.class,
                                      !.columns.fingerprint = c.fingerprint]
      BY <2>2, <3>1 DEF Rederived
    <3>4. [row EXCEPT !.columns.class = c.class] = row BY <3>1, <3>2
    <3>5. [row EXCEPT !.columns.fingerprint = c.fingerprint] = row BY <3>1, <3>2
    <3> QED BY <3>3, <3>4, <3>5 DEF row
  <2>9. rowOf[k].cluster = k[1] BY <2>4
  <2>10. k[1] \in answered BY <1>2
  <2> QED BY <2>6, <2>7, <2>8, <2>9, <2>10
<1>6. \A row \in rows : IsSighting(row) /\ row.cluster \in answered /\ Rederived(row) = row
  <2> SUFFICES ASSUME NEW row \in rows
               PROVE  IsSighting(row) /\ row.cluster \in answered /\ Rederived(row) = row
    OBVIOUS
  <2>1. PICK k \in named : row = rowOf[k] BY <1>1
  <2> QED BY <1>5, <2>1
<1>7. \A r, s \in rows : Identity(r) = Identity(s) => r = s
  BY <1>1, <1>5
<1>8. {Rederived(row) : row \in rows} = rows BY <1>6
<1>9. IsListing([at |-> at, answered |-> answered, rows |-> rows])
  BY <1>4, <1>6, <1>7 DEF IsListing
<1> QED BY <1>6, <1>8, <1>9 DEF rows, answered

(* merge makes a ledger of a ledger and a listing.                         *)
LEMMA MergeKeepsRowsSound ==
    ASSUME NEW existing, IsFiniteSet(existing),
           \A row \in existing : Sound(row) /\ row.last \in Int,
           NEW observed, IsFiniteSet(observed), \A row \in observed : Sound(row),
           NEW at \in Int
    PROVE  /\ IsFiniteSet(Merge(existing, observed, at))
           /\ \A row \in Merge(existing, observed, at) : Sound(row) /\ row.last \in Int
<1> DEFINE old == Tracked(existing)
           new == Tracked(observed)
           note == [seen \in new |-> Recorded(seen, old, at)]
           noted == {note[seen] : seen \in new}
<1>1. /\ old \in SUBSET existing /\ new \in SUBSET observed
  BY DEF Tracked
<1>2. IsFiniteSet(old) /\ IsFiniteSet(new)
  <2> HIDE DEF old, new
  <2> QED BY <1>1, FS_Subset
<1>3. noted = {Recorded(seen, old, at) : seen \in new} OBVIOUS
<1>4. \A row \in noted : Sound(row) /\ row.last \in Int
  <2> HIDE DEF new, old
  <2> SUFFICES ASSUME NEW seen \in new
               PROVE  Sound(Recorded(seen, old, at)) /\ Recorded(seen, old, at).last \in Int
    OBVIOUS
  <2>1. Sound(seen) BY <1>1
  <2>2. /\ Recorded(seen, old, at).uid = seen.uid
        /\ Recorded(seen, old, at).columns = seen.columns
        /\ Recorded(seen, old, at).last = at
    BY DEF Recorded
  <2> QED BY <2>1, <2>2 DEF Sound
<1>5. IsFiniteSet(noted)
  <2> HIDE DEF note, new
  <2> QED BY <1>2, FiniteImage
<1> HIDE DEF noted, old, new
<1>6. IsFiniteSet(existing \cup noted) BY <1>5, FS_Union
<1>7. Merge(existing, observed, at) \in SUBSET (existing \cup noted)
  <2>1. Merge(existing, observed, at) \in SUBSET Fold(old, new, at)
    BY DEF Merge, old, new
  <2>2. Fold(old, new, at) \in SUBSET (old \cup noted) BY <1>3 DEF Fold
  <2> QED BY <1>1, <2>1, <2>2
<1> DEFINE merged == Merge(existing, observed, at)
<1> HIDE DEF merged
<1>8. merged \in SUBSET (existing \cup noted) BY <1>7 DEF merged
<1>9. IsFiniteSet(merged) BY <1>6, <1>8, FS_Subset
<1>10. \A row \in merged : Sound(row) /\ row.last \in Int BY <1>4, <1>8
<1> QED BY <1>9, <1>10 DEF merged

(* What an earlier release left is a listing and a ledger, once conformed. *)
LEMMA EarlierIsAListing ==
    /\ IsListing(EarlierListing)
    /\ IsFiniteSet(EarlierLedger)
    /\ \A row \in EarlierLedger : Sound(row) /\ row.last \in Int
<1> DEFINE conform == [row \in EarlierRows |-> [row EXCEPT !.columns = Conform(@)]]
           date == [row \in EarlierSightings |->
                      [cluster |-> row.cluster, uid |-> row.uid, columns |-> row.columns,
                       first |-> 0, last |-> 0]]
<1>1. EarlierSightings = {conform[row] : row \in EarlierRows}
  BY DEF EarlierSightings
<1>2. EarlierLedger = {date[row] : row \in EarlierSightings} BY DEF EarlierLedger
<1>3. ASSUME NEW row \in EarlierRows
      PROVE  IsSighting(conform[row]) /\ Identity(conform[row]) = Identity(row)
  <2>1. /\ row = [cluster |-> row.cluster, uid |-> row.uid, columns |-> row.columns]
        /\ row.uid # None /\ ColumnsAgree(Conform(row.columns))
    BY EarlierAssumption
  <2> DEFINE c == Conform(row.columns)
  <2>2. DOMAIN c = Columns BY DEF Conform
  <2> HIDE DEF c
  <2>3. conform[row] = [cluster |-> row.cluster, uid |-> row.uid, columns |-> c]
    BY <2>1 DEF c
  <2>4. ColumnsAgree(c) BY <2>1 DEF c
  <2> HIDE DEF conform
  <2> QED BY <2>1, <2>2, <2>3, <2>4 DEF IsSighting, Sound, Identity
<1> HIDE DEF conform
<1>4. \A row \in EarlierSightings : IsSighting(row) BY <1>1, <1>3
<1>5. \A r, s \in EarlierSightings : Identity(r) = Identity(s) => r = s
  BY <1>1, <1>3, EarlierAssumption
<1>6. IsFiniteSet(EarlierSightings)
  <2>1. IsFiniteSet(EarlierRows) BY EarlierAssumption
  <2> QED BY <1>1, <2>1, FiniteImage
<1>7. IsListing(EarlierListing) BY <1>4, <1>5, <1>6 DEF IsListing, EarlierListing
<1>8. \A row \in EarlierSightings : Sound(date[row]) /\ date[row].last \in Int
  BY <1>4 DEF IsSighting, Sound
<1> HIDE DEF date
<1>9. IsFiniteSet(EarlierLedger) BY <1>2, <1>6, FiniteImage
<1> QED BY <1>2, <1>7, <1>8, <1>9

(* What one listing leaves: all of its runs, seen once.                    *)
LEMMA OneListingIsRemembered ==
    ASSUME NEW e, IsListing(e), NEW period \in Nat
    PROVE  /\ Memory(<<e>>)
           /\ Recollection(<<e>>, period) =
                {[cluster |-> row.cluster, uid |-> row.uid, columns |-> row.columns,
                  first |-> e.at, last |-> e.at] : row \in e.rows}
<1> DEFINE h == <<e>>
           dated(row) == [cluster |-> row.cluster, uid |-> row.uid, columns |-> row.columns,
                          first |-> e.at, last |-> e.at]
<1>1. /\ Len(h) = 1 /\ h[1] = e /\ h # <<>> /\ DOMAIN h = {1} /\ h \in Seq(Range(h))
      /\ 1..1 = {1} /\ e.at \in Nat
  <2>1. h \in Seq({e}) /\ Range(h) = {e} BY DEF Range
  <2> QED BY <2>1 DEF IsListing
<1>2. Memory(h) BY <1>1 DEF Memory
<1>3. Known(h) = {Identity(row) : row \in e.rows} BY <1>1 DEF Known
<1> HIDE DEF h
<1>4. ASSUME NEW row \in e.rows
      PROVE  /\ Identity(row) \in Known(h) /\ Kept(h, period, Identity(row))
             /\ Recalled(h, period, Identity(row)) = dated(row)
  <2> DEFINE k == Identity(row)
  <2>1. k \in Known(h) BY <1>3
  <2>2. k[1] = row.cluster /\ k[2] = row.uid BY DEF Identity
  <2>3. \A r \in e.rows : Identity(r) = k => r = row BY DEF IsListing
  <2> HIDE DEF k
  <2>4. \A i \in 1..1 : i = 1 OBVIOUS
  <2>5. Latest(h, k, 1) = 1
    <3>1. Latest(h, k, Len(h)) \in 1..Len(h) BY <1>2, <2>1, RecalledParts
    <3> QED BY <1>1, <2>4, <3>1
  <2>6. Kept(h, period, k) BY <1>1, <2>5 DEF Kept, Unbroken
  <2> DEFINE newest == Latest(h, k, Len(h))
  <2>7. newest = 1 BY <1>1, <2>5
  <2>8. /\ Recalled(h, period, k).last = h[newest].at
        /\ \E first \in 1..newest : Recalled(h, period, k).first = h[first].at
        /\ \E r \in h[newest].rows :
              Identity(r) = k /\ Recalled(h, period, k).columns = r.columns
    BY <1>2, <2>1, RecalledParts
  <2> HIDE DEF newest
  <2>9. /\ Recalled(h, period, k).last = e.at
        /\ Recalled(h, period, k).first = e.at
    BY <1>1, <2>4, <2>7, <2>8
  <2>10. PICK r \in e.rows : Identity(r) = k /\ Recalled(h, period, k).columns = r.columns
    BY <1>1, <2>7, <2>8
  <2>11. r = row BY <2>3, <2>10
  <2>12. \E columns, first, last :
           Recalled(h, period, k) = [cluster |-> k[1], uid |-> k[2], columns |-> columns,
                                     first |-> first, last |-> last]
    BY DEF Recalled
  <2>13. Recalled(h, period, k) = dated(row) BY <2>2, <2>9, <2>10, <2>11, <2>12
  <2> QED BY <2>1, <2>6, <2>13 DEF k
<1>5. Recollection(h, period) = {dated(row) : row \in e.rows}
  <2> HIDE DEF dated
  <2> QED BY <1>3, <1>4 DEF Recollection
<1> QED BY <1>2, <1>5 DEF h

-----------------------------------------------------------------------------
(* The inductive invariant.                                                *)

(* The inductive invariant: what the prefix holds has to be known for the  *)
(* ledger to be the history, and both for the sidecar to be accepted.      *)
IInv == PipelineInv /\ LedgerIsHistory /\ SidecarIsNeverRefused

(* The history is never empty.                                             *)
LEMMA HistoryIsMemory ==
    ASSUME TypeOK
    PROVE  Memory(history) /\ history # <<>>
BY DEF TypeOK, Memory

(* The prefix as the process finds it.                                     *)
LEMMA InitInv == Init => IInv
<1> SUFFICES ASSUME Init PROVE IInv
  OBVIOUS
<1>1. TypeOK
  <2>1. /\ stage \in {"start", "foreign"} /\ config = None /\ submitted = {}
        /\ outcome = "none" /\ world = <<>> /\ DOMAIN world = {}
        /\ world \in [DOMAIN world -> Workflows]
    BY DEF Init
  <2>2. IsFiniteSet(DOMAIN world) BY <2>1, FS_EmptySet
  <2>3. history = <<EarlierListing>> BY DEF Init
  <2>4. /\ history \in Seq(Range(history)) /\ Len(history) \in 1..(MaxCycles + 1)
        /\ \A i \in DOMAIN history : IsListing(history[i])
    <3>1. history \in Seq({EarlierListing}) /\ Range(history) = {EarlierListing}
      BY <2>3 DEF Range
    <3>2. Len(history) = 1 /\ DOMAIN history = {1} /\ history[1] = EarlierListing
      BY <2>3
    <3>3. MaxCycles \in Nat BY PipelineAssumption
    <3> QED BY <3>1, <3>2, <3>3, EarlierIsAListing
  <2>5. IsFiniteSet(ledger) /\ \A row \in ledger : Sound(row) /\ row.last \in Int
    BY EarlierIsAListing, FS_EmptySet DEF Init
  <2> QED BY <2>1, <2>2, <2>4, <2>5 DEF TypeOK, Outcomes
<1>2. PrefixIsLatest
  <2>1. stage # "running" BY DEF Init
  <2> QED BY <2>1 DEF Init, PrefixIsLatest
<1>3. LedgerIsHistory /\ SidecarIsNeverRefused
  BY DEF Init, LedgerIsHistory, SidecarIsNeverRefused
<1> QED BY <1>1, <1>2, <1>3 DEF IInv, PipelineInv

(* The process starts, or exits on its environment.                        *)
LEMMA LoadStep == IInv /\ Load => IInv'
<1> SUFFICES ASSUME IInv, Load PROVE IInv'
  OBVIOUS
<1>1. /\ stage = "start"
      /\ \/ stage' = "running" /\ config' \in Configurations
         \/ stage' = "exited" /\ config' = config
      /\ UNCHANGED <<world, submitted, outcome, stored>>
  BY DEF Load, Configurations
<1>2. TypeOK' 
  BY <1>1 DEF IInv, PipelineInv, TypeOK, stored
<1>3. /\ history = <<EarlierListing>> /\ ledger = EarlierLedger /\ marker = None
      /\ world = <<>>
  BY <1>1 DEF IInv, PipelineInv, PrefixIsLatest
<1>4. PrefixIsLatest'
  <2>1. Len(history') = 1 BY <1>1, <1>3 DEF stored
  <2> QED BY <1>1, <1>3, <2>1 DEF PrefixIsLatest, stored
<1>5. LedgerIsHistory'
  <2>1. SUFFICES ASSUME stage' = "running" PROVE (ledger = Recollection(history, Retention))'
    BY DEF LedgerIsHistory
  <2>2. Retention' \in Nat
    <3>1. config'.retention \in Nat \ {0} BY <1>1, <2>1, ConfigurationTypes
    <3> QED BY <3>1, PipelineAssumption DEF Retention
  <2> DEFINE P == Retention'
  <2> HIDE DEF P
  <2>3. Recollection(<<EarlierListing>>, P) =
           {[cluster |-> row.cluster, uid |-> row.uid, columns |-> row.columns,
             first |-> 0, last |-> 0] : row \in EarlierSightings}
    <3>1. IsListing(EarlierListing) BY EarlierIsAListing
    <3>2. P \in Nat BY <2>2 DEF P
    <3>3. EarlierListing.at = 0 /\ EarlierListing.rows = EarlierSightings
      BY DEF EarlierListing
    <3>4. Recollection(<<EarlierListing>>, P) =
             {[cluster |-> row.cluster, uid |-> row.uid, columns |-> row.columns,
               first |-> EarlierListing.at, last |-> EarlierListing.at] :
                row \in EarlierListing.rows}
      BY <3>1, <3>2, OneListingIsRemembered
    <3> QED BY <3>3, <3>4
  <2>4. Recollection(<<EarlierListing>>, P) = EarlierLedger BY <2>3 DEF EarlierLedger
  <2>5. ledger' = EarlierLedger /\ history' = <<EarlierListing>>
    BY <1>1, <1>3 DEF stored
  <2> QED BY <2>4, <2>5 DEF P
<1>6. SidecarIsNeverRefused' BY <1>1 DEF IInv, SidecarIsNeverRefused
<1> QED BY <1>2, <1>4, <1>5, <1>6 DEF IInv, PipelineInv

(* An object appears or changes.                                           *)
LEMMA ObjectChanges ==
    ASSUME TypeOK, NEW k \in Objects, NEW object \in Workflows, Becomes(k, object),
           submitted' = submitted \cup {k}
    PROVE  /\ submitted' \subseteq Objects /\ DOMAIN world' \subseteq submitted'
           /\ IsFiniteSet(DOMAIN world') /\ world' \in [DOMAIN world' -> Workflows]
<1>1. world' = [j \in DOMAIN world \cup {k} |-> IF j = k THEN object ELSE world[j]]
  BY DEF Becomes
<1>2. DOMAIN world' = DOMAIN world \cup {k} BY <1>1
<1>3. submitted \subseteq Objects /\ DOMAIN world \subseteq submitted BY DEF TypeOK
<1>4. IsFiniteSet(DOMAIN world')
  <2>1. IsFiniteSet(DOMAIN world) BY DEF TypeOK
  <2> QED BY <1>2, <2>1, FS_AddElement
<1>5. world' \in [DOMAIN world' -> Workflows]
  <2>1. \A j \in DOMAIN world : world[j] \in Workflows BY DEF TypeOK
  <2> QED BY <1>1, <2>1
<1> QED BY <1>2, <1>3, <1>4, <1>5

(* What Argo does to the objects, it does while the exporter runs, and it  *)
(* touches nothing else.                                                   *)
LEMMA WorldSteps ==
    ASSUME TypeOK, PrefixIsLatest, NEW k \in Objects,
           \/ Submit(k) \/ Admit(k) \/ Account(k) \/ StepsFail(k)
           \/ Finish(k) \/ Shrink(k) \/ Delete(k)
    PROVE  /\ stage = "running"
           /\ UNCHANGED <<stage, config, outcome, stored>>
           /\ submitted' \subseteq Objects /\ DOMAIN world' \subseteq submitted'
           /\ IsFiniteSet(DOMAIN world') /\ world' \in [DOMAIN world' -> Workflows]
<1> DEFINE Result == /\ stage = "running"
                     /\ UNCHANGED <<stage, config, outcome, stored>>
                     /\ submitted' \subseteq Objects /\ DOMAIN world' \subseteq submitted'
                     /\ IsFiniteSet(DOMAIN world') /\ world' \in [DOMAIN world' -> Workflows]
<1>1. ASSUME k \in DOMAIN world
      PROVE  stage = "running" /\ world[k] \in Workflows /\ k \in submitted
  <2>1. world # <<>> BY <1>1
  <2> QED BY <1>1, <2>1 DEF TypeOK, PrefixIsLatest
<1>2. ASSUME NEW object \in Workflows, Becomes(k, object), UNCHANGED submitted,
             k \in DOMAIN world
      PROVE  Result
  <2>1. stage = "running" /\ submitted' = submitted \cup {k} BY <1>1, <1>2
  <2>2. UNCHANGED <<stage, config, outcome, stored>> BY <1>2 DEF Becomes
  <2> QED BY <1>2, <2>1, <2>2, ObjectChanges
<1>3. CASE Submit(k)
  <2>1. PICK metadata \in Metadata :
           Becomes(k, [labels |-> metadata.labels, ref |-> metadata.ref,
                       phase |-> Empty, message |-> None, started |-> None,
                       finished |-> None, resources |-> None,
                       storage |-> "plain", nodes |-> {}])
    BY <1>3 DEF Submit
  <2> DEFINE object == [labels |-> metadata.labels, ref |-> metadata.ref,
                        phase |-> Empty, message |-> None, started |-> None,
                        finished |-> None, resources |-> None,
                        storage |-> "plain", nodes |-> {}]
  <2>2. object \in Workflows BY DEF Workflows
  <2>3. stage = "running" /\ submitted' = submitted \cup {k} BY <1>3 DEF Submit
  <2>4. UNCHANGED <<stage, config, outcome, stored>> BY <2>1 DEF Becomes
  <2> HIDE DEF object
  <2>5. Becomes(k, object) BY <2>1 DEF object
  <2> QED BY <2>2, <2>3, <2>4, <2>5, ObjectChanges
<1>4. CASE Admit(k)
  <2>1. /\ k \in DOMAIN world /\ UNCHANGED submitted
        /\ Becomes(k, [world[k] EXCEPT !.phase = "Running", !.started = 0])
    BY <1>4 DEF Admit, Phase
  <2>2. [world[k] EXCEPT !.phase = "Running", !.started = 0] \in Workflows
    BY <1>1, <2>1 DEF Workflows
  <2> QED BY <1>2, <2>1, <2>2
<1>5. CASE StepsFail(k)
  <2>1. k \in DOMAIN world /\ UNCHANGED submitted BY <1>5 DEF StepsFail, Phase
  <2>2. PICK nodes \in NodeMaps : Becomes(k, [world[k] EXCEPT !.nodes = nodes])
    BY <1>5 DEF StepsFail
  <2>3. [world[k] EXCEPT !.nodes = nodes] \in Workflows
    BY <1>1, <2>1 DEF Workflows
  <2> QED BY <1>2, <2>1, <2>2, <2>3
<1>6. CASE Finish(k)
  <2>1. k \in DOMAIN world /\ UNCHANGED submitted BY <1>6 DEF Finish, Phase
  <2>2. PICK phase \in Terminal, message \in Messages, finished \in Finishes :
           Becomes(k, [world[k] EXCEPT !.phase = phase, !.message = message,
                                       !.finished = finished])
    BY <1>6 DEF Finish
  <2>3. [world[k] EXCEPT !.phase = phase, !.message = message, !.finished = finished]
           \in Workflows
    BY <1>1, <2>1 DEF Workflows
  <2> QED BY <1>2, <2>1, <2>2, <2>3
<1>7. CASE Shrink(k)
  <2>1. k \in DOMAIN world /\ UNCHANGED submitted BY <1>7 DEF Shrink
  <2>2. PICK storage \in {"compressed", "lost"} :
           Becomes(k, [world[k] EXCEPT !.storage = storage])
    BY <1>7 DEF Shrink
  <2>3. [world[k] EXCEPT !.storage = storage] \in Workflows
    BY <1>1, <2>1 DEF Workflows
  <2> QED BY <1>2, <2>1, <2>2, <2>3
<1>8. CASE Delete(k)
  <2>1. /\ k \in DOMAIN world /\ world' = [j \in DOMAIN world \ {k} |-> world[j]]
        /\ UNCHANGED <<stage, config, submitted, outcome, stored>>
    BY <1>8 DEF Delete
  <2>2. DOMAIN world' = DOMAIN world \ {k} BY <2>1
  <2>3. IsFiniteSet(DOMAIN world')
    <3>1. IsFiniteSet(DOMAIN world) BY DEF TypeOK
    <3> QED BY <2>2, <3>1, FS_RemoveElement, FS_Subset
  <2>4. world' \in [DOMAIN world' -> Workflows]
    <3>1. \A j \in DOMAIN world : world[j] \in Workflows BY DEF TypeOK
    <3> QED BY <2>1, <3>1
  <2>5. submitted' \subseteq Objects /\ DOMAIN world' \subseteq submitted'
    BY <2>1, <2>2 DEF TypeOK
  <2> QED BY <1>1, <2>1, <2>3, <2>4, <2>5
<1>9. CASE Account(k)
  <2>1. k \in DOMAIN world /\ UNCHANGED submitted BY <1>9 DEF Account, Phase
  <2>2. PICK resources \in Counters :
           Becomes(k, [world[k] EXCEPT !.resources = resources])
    BY <1>9 DEF Account
  <2>3. [world[k] EXCEPT !.resources = resources] \in Workflows
    BY <1>1, <2>1 DEF Workflows
  <2> QED BY <1>2, <2>1, <2>2, <2>3
<1> QED BY <1>3, <1>4, <1>5, <1>6, <1>7, <1>8, <1>9

(* A longer history is a history.                                          *)
LEMMA AppendStays ==
    ASSUME NEW h, h \in Seq(Range(h)), NEW e
    PROVE  Append(h, e) \in Seq(Range(Append(h, e)))
<1> DEFINE g == Append(h, e)
<1>1. /\ Len(h) \in Nat /\ DOMAIN h = 1..Len(h) /\ DOMAIN g = 1..(Len(h) + 1)
      /\ g[Len(h) + 1] = e /\ \A i \in 1..Len(h) : g[i] = h[i]
  OBVIOUS
<1>2. h \in Seq(Range(g)) /\ e \in Range(g)
  <2> HIDE DEF g
  <2>1. Len(h) + 1 \in DOMAIN g /\ \A i \in 1..Len(h) : i \in DOMAIN g BY <1>1
  <2>2. e \in Range(g) BY <1>1, <2>1 DEF Range
  <2>3. \A i \in 1..Len(h) : h[i] \in Range(g) BY <1>1, <2>1 DEF Range
  <2>4. h = [i \in 1..Len(h) |-> h[i]] BY <1>1
  <2> QED BY <1>1, <2>2, <2>3, <2>4
<1> HIDE DEF g
<1>3. Append(h, e) \in Seq(Range(g)) BY <1>2
<1> QED BY <1>3 DEF g

(* The retention of a process that runs is a number.                       *)
LEMMA RetentionIsNat ==
    ASSUME TypeOK, stage = "running"
    PROVE  config \in Configurations /\ Retention \in Nat
<1>1. config \in Configurations BY DEF TypeOK
<1>2. config.retention \in Nat \ {0} BY <1>1, ConfigurationTypes
<1> QED BY <1>1, <1>2, PipelineAssumption DEF Retention

(* Argo's steps preserve the invariant.                                    *)
LEMMA WorldStep == IInv /\ WorldNext => IInv'
<1> SUFFICES ASSUME IInv, NEW k \in Objects,
                    \/ Submit(k) \/ Admit(k) \/ Account(k) \/ StepsFail(k)
                    \/ Finish(k) \/ Shrink(k) \/ Delete(k)
             PROVE  IInv'
  BY DEF WorldNext
<1>1. TypeOK /\ PrefixIsLatest BY DEF IInv, PipelineInv
<1>2. /\ stage = "running"
      /\ UNCHANGED <<stage, config, outcome, stored>>
      /\ submitted' \subseteq Objects /\ DOMAIN world' \subseteq submitted'
      /\ IsFiniteSet(DOMAIN world') /\ world' \in [DOMAIN world' -> Workflows]
  BY <1>1, WorldSteps
<1>3. /\ stage' = stage /\ config' = config /\ outcome' = outcome /\ snapshot' = snapshot
      /\ ledger' = ledger /\ marker' = marker /\ history' = history
  BY <1>2 DEF stored
<1>4. TypeOK' BY <1>1, <1>2, <1>3 DEF TypeOK
<1>5. PrefixIsLatest' BY <1>1, <1>2, <1>3 DEF PrefixIsLatest, Sidecar
<1>6. LedgerIsHistory'
  <2>1. Retention' = Retention BY <1>3 DEF Retention
  <2> QED BY <1>3, <2>1 DEF LedgerIsHistory, IInv
<1>7. SidecarIsNeverRefused' BY <1>3 DEF SidecarIsNeverRefused, IInv
<1> QED BY <1>4, <1>5, <1>6, <1>7 DEF IInv, PipelineInv

(* A cycle that ends before the upload preserves the invariant.            *)
LEMMA NothingUploaded ==
    ASSUME IInv, NEW reason \in Outcomes \ {"invalid"}, Fails(reason)
    PROVE  IInv'
<1>1. /\ stage' = stage /\ config' = config /\ world' = world /\ submitted' = submitted
      /\ snapshot' = snapshot /\ ledger' = ledger /\ marker' = marker /\ history' = history
      /\ outcome' \in Outcomes /\ outcome' # "invalid"
  BY DEF Fails, stored
<1>2. TypeOK' BY <1>1 DEF TypeOK, IInv, PipelineInv
<1>3. PrefixIsLatest' BY <1>1 DEF PrefixIsLatest, Sidecar, IInv, PipelineInv
<1>4. LedgerIsHistory'
  <2>1. Retention' = Retention BY <1>1 DEF Retention
  <2> QED BY <1>1, <2>1 DEF LedgerIsHistory, IInv
<1>5. SidecarIsNeverRefused' BY <1>1 DEF SidecarIsNeverRefused
<1> QED BY <1>2, <1>3, <1>4, <1>5 DEF IInv, PipelineInv

(* A cycle that reaches the upload publishes, and preserves the invariant. *)
LEMMA PublishStep ==
    ASSUME IInv, stage = "running", Len(history) <= MaxCycles,
           NEW up \in SUBSET (ClusterNames \cap Range(config.names)), NEW at \in Times,
           Publish(Answered(up), at)
    PROVE  IInv'
<1> DEFINE answered == Answered(up)
           rows == Rows(answered)
           merged == Merged(rows, at)
           sidecar == Sidecar(answered, rows, merged, at)
           listing == [at |-> at, answered |-> answered, rows |-> rows]
<1>1. TypeOK /\ PrefixIsLatest /\ ledger = Recollection(history, Retention)
  BY DEF IInv, PipelineInv, LedgerIsHistory
<1>2. at \in Nat BY PipelineAssumption
<1>3. /\ IsListing(listing)
      /\ \A row \in rows : row.cluster \in answered
      /\ {Rederived(row) : row \in rows} = rows
  BY <1>1, <1>2, RowsAreAListing
<1>4. config \in Configurations /\ Retention \in Nat BY <1>1, RetentionIsNat
<1>5. answered \subseteq Range(config.names) BY DEF Answered
<1>6. /\ Publish(answered, at)
      /\ Publish(answered, at) =>
            IF Valid(sidecar)
              THEN /\ snapshot' = rows /\ ledger' = merged /\ marker' = sidecar
                   /\ history' = Append(history, listing)
                   /\ outcome' = "published"
                   /\ UNCHANGED <<stage, config, world, submitted>>
              ELSE Fails("invalid")
  BY DEF Publish
<1> HIDE DEF rows, answered, merged, sidecar
<1>7. IsFiniteSet(rows) /\ \A row \in rows : Sound(row)
  BY <1>3 DEF IsListing, IsSighting
<1>8. merged = Merge(ledger, rows, at) BY <1>3 DEF merged, Merged
<1>9. IsFiniteSet(merged) /\ \A row \in merged : Sound(row) /\ row.last \in Int
  <2>1. IsFiniteSet(ledger) /\ \A row \in ledger : Sound(row) /\ row.last \in Int
    BY <1>1 DEF TypeOK
  <2> QED BY <1>2, <1>7, <1>8, <2>1, MergeKeepsRowsSound
<1>10. Valid(sidecar)
  BY <1>2, <1>3, <1>4, <1>5, <1>7, <1>9, SidecarIsValid DEF sidecar
<1>11. /\ snapshot' = rows /\ ledger' = merged /\ marker' = sidecar
       /\ history' = Append(history, listing) /\ outcome' = "published"
       /\ stage' = stage /\ config' = config /\ world' = world /\ submitted' = submitted
  BY <1>6, <1>10
<1>12. /\ history \in Seq(Range(history)) /\ Len(history) \in 1..(MaxCycles + 1)
       /\ \A i \in DOMAIN history : IsListing(history[i])
  BY <1>1 DEF TypeOK
<1> HIDE DEF listing
<1>13. /\ Len(history') = Len(history) + 1 /\ Len(history) \in Nat \ {0}
       /\ DOMAIN history' = 1..(Len(history) + 1)
       /\ history'[Len(history')] = listing
       /\ \A i \in 1..Len(history) : history'[i] = history[i]
  BY <1>11, <1>12
<1>14. TypeOK'
  <2>1. history' \in Seq(Range(history')) BY <1>11, <1>12, AppendStays
  <2>2. Len(history') \in 1..(MaxCycles + 1) BY <1>13, PipelineAssumption
  <2>3. \A i \in DOMAIN history' : IsListing(history'[i])
    <3>1. \A i \in DOMAIN history' : i = Len(history') \/ i \in 1..Len(history)
      BY <1>13
    <3>2. DOMAIN history = 1..Len(history) BY <1>12
    <3> QED BY <1>3, <1>12, <1>13, <3>1, <3>2
  <2> QED BY <1>1, <1>9, <1>11, <2>1, <2>2, <2>3 DEF TypeOK, Outcomes
<1>15. PrefixIsLatest'
  <2> DEFINE Image(c, a, r, m, t) ==
               [version |-> c.version, generated_at |-> Exactly(t),
                generation_id |-> [stamp |-> Exactly(t), suffixed |-> TRUE],
                poll_interval_seconds |-> c.interval, run_retention_days |-> c.retention,
                clusters |-> [i \in DOMAIN c.names |->
                                [name |-> c.names[i], ok |-> c.names[i] \in a,
                                 workflows |->
                                   Cardinality({row \in r : row.cluster = c.names[i]})]],
                workflows |-> Cardinality(r), runs |-> Cardinality(m)]
             latest == history'[Len(history')]
  <2>1. Len(history') # 1 BY <1>13
  <2>2. listing.at = at /\ listing.answered = answered /\ listing.rows = rows
    BY DEF listing
  <2>3. sidecar = Image(config, answered, rows, merged, at) BY DEF sidecar, Sidecar
  <2>4. /\ stage' = "running" /\ Len(history') # 1
        /\ latest.answered \subseteq Range(config'.names)
        /\ \A row \in latest.rows : row.cluster \in latest.answered
        /\ snapshot' = latest.rows
        /\ marker' = Image(config', latest.answered, snapshot', ledger', latest.at)
        => PrefixIsLatest'
    BY DEF PrefixIsLatest, Sidecar
  <2> HIDE DEF Image
  <2> QED BY <1>3, <1>5, <1>11, <1>13, <2>1, <2>2, <2>3, <2>4
<1>16. LedgerIsHistory'
  <2>1. Retention' = Retention BY <1>11 DEF Retention
  <2>2. Recollection(Append(history, listing), Retention)
          = Merge(Recollection(history, Retention), listing.rows, listing.at)
    BY <1>1, <1>3, <1>4, HistoryIsMemory, MergeIsMemory
  <2>3. listing.rows = rows /\ listing.at = at BY DEF listing
  <2> QED BY <1>1, <1>8, <1>11, <2>1, <2>2, <2>3 DEF LedgerIsHistory
<1>17. SidecarIsNeverRefused' BY <1>11 DEF SidecarIsNeverRefused
<1> QED BY <1>14, <1>15, <1>16, <1>17 DEF IInv, PipelineInv

(* Every cycle preserves the invariant.                                    *)
LEMMA CycleStep == IInv /\ Cycle => IInv'
<1> SUFFICES ASSUME IInv, stage = "running", Len(history) <= MaxCycles,
                    NEW up \in SUBSET (ClusterNames \cap Range(config.names)),
                    NEW at \in Times,
                    \/ Fails("unanswered")
                    \/ CutoffFails(Answered(up), at)
                    \/ EncodeFails(Answered(up), at)
                    \/ Publish(Answered(up), at)
             PROVE  IInv'
  BY DEF Cycle
<1>1. \A reason \in {"unanswered", "overflow", "unencodable"} :
         reason \in Outcomes \ {"invalid"}
  BY DEF Outcomes
<1>2. CASE Fails("unanswered") BY <1>1, <1>2, NothingUploaded
<1>3. CASE CutoffFails(Answered(up), at)
  BY <1>1, <1>3, NothingUploaded DEF CutoffFails
<1>4. CASE EncodeFails(Answered(up), at)
  BY <1>1, <1>4, NothingUploaded DEF EncodeFails
<1>5. CASE Publish(Answered(up), at) BY <1>5, PublishStep
<1> QED BY <1>2, <1>3, <1>4, <1>5

(* Every step preserves the invariant.                                     *)
LEMMA NextInv == IInv /\ [Next]_vars => IInv'
<1> SUFFICES ASSUME IInv, [Next]_vars PROVE IInv'
  OBVIOUS
<1>1. CASE Load BY <1>1, LoadStep
<1>2. CASE WorldNext BY <1>2, WorldStep
<1>3. CASE Cycle BY <1>3, CycleStep
<1>4. CASE UNCHANGED vars
  <2>1. /\ stage' = stage /\ config' = config /\ world' = world /\ submitted' = submitted
        /\ snapshot' = snapshot /\ ledger' = ledger /\ marker' = marker /\ history' = history
        /\ outcome' = outcome
    BY <1>4 DEF vars, stored
  <2>2. TypeOK' BY <2>1 DEF TypeOK, IInv, PipelineInv
  <2>3. PrefixIsLatest' BY <2>1 DEF PrefixIsLatest, Sidecar, IInv, PipelineInv
  <2>4. LedgerIsHistory'
    <3>1. Retention' = Retention BY <2>1 DEF Retention
    <3> QED BY <2>1, <3>1 DEF LedgerIsHistory, IInv
  <2>5. SidecarIsNeverRefused' BY <2>1 DEF SidecarIsNeverRefused, IInv
  <2> QED BY <2>2, <2>3, <2>4, <2>5 DEF IInv, PipelineInv
<1> QED BY <1>1, <1>2, <1>3, <1>4 DEF Next

(* The inductive invariant holds throughout.                               *)
THEOREM Invariance == Spec => []IInv
<1>1. Init => IInv BY InitInv
<1>2. IInv /\ [Next]_vars => IInv' BY NextInv
<1> QED BY <1>1, <1>2, PTL DEF Spec

-----------------------------------------------------------------------------
(* The properties.                                                         *)

(* Type correctness; and the prefix holds what the latest published cycle  *)
(* put there, or what was there before the first.                          *)
THEOREM TypeCorrect == Spec => []PipelineInv
<1>1. IInv => PipelineInv BY DEF IInv
<1> QED BY <1>1, Invariance, PTL

(* runs.parquet is, after every cycle, what the published listings say of  *)
(* each run within the retention: no outage, deletion, restart of a run's  *)
(* life or step of the clock leaves another trace.                         *)
THEOREM TheLedgerIsItsHistory == Spec => []LedgerIsHistory
<1>1. IInv => LedgerIsHistory BY DEF IInv
<1> QED BY <1>1, Invariance, PTL

(* No environment that load accepts makes the exporter refuse its own      *)
(* sidecar.                                                                *)
THEOREM NoSidecarIsRefused == Spec => []SidecarIsNeverRefused
<1>1. IInv => SidecarIsNeverRefused BY DEF IInv
<1> QED BY <1>1, Invariance, PTL

(* historical_metrics adds up on every ledger the exporter has or finds.   *)
THEOREM TheMeasuresAgree == Spec => []MeasuresAgree
<1>1. IInv => MeasuresAgree
  <2> SUFFICES ASSUME IInv PROVE MeasuresAgree
    OBVIOUS
  <2>1. /\ IsFiniteSet(ledger)
        /\ \A row \in ledger : row.last \in Int /\ ColumnsAgree(row.columns)
    BY DEF IInv, PipelineInv, TypeOK, Sound
  <2> QED BY <2>1, MeasuresAddUp DEF MeasuresAgree
<1> QED BY <1>1, Invariance, PTL

(* What the sidecar counts is what the inventory and the ledger have, and  *)
(* a cluster is available exactly when the published cycle had its         *)
(* listing.                                                                *)
THEOREM TheInventoryIsAccounted == Spec => []InventoryIsAccounted
<1>1. IInv => InventoryIsAccounted
  <2> SUFFICES ASSUME IInv, stage = "running", marker # None
               PROVE  /\ Available(marker) = history[Len(history)].answered
                      /\ \A i \in DOMAIN marker.clusters :
                            Cardinality({row \in Inventory(marker, snapshot) :
                                           row.cluster = marker.clusters[i].name})
                              = marker.clusters[i].workflows
                      /\ marker.runs = Cardinality(ledger)
    BY DEF InventoryIsAccounted
  <2> DEFINE answered == history[Len(history)].answered
             names == config.names
             of(name) == {row \in snapshot : row.cluster = name}
  <2>1. /\ answered \subseteq Range(names)
        /\ \A row \in snapshot : row.cluster \in answered
        /\ marker = Sidecar(answered, snapshot, ledger, history[Len(history)].at)
    BY DEF IInv, PipelineInv, PrefixIsLatest
  <2> HIDE DEF answered, names, of
  <2>2. /\ DOMAIN marker.clusters = DOMAIN names
        /\ \A i \in DOMAIN names :
              /\ marker.clusters[i].name = names[i]
              /\ marker.clusters[i].ok = (names[i] \in answered)
              /\ marker.clusters[i].workflows = Cardinality(of(names[i]))
        /\ marker.runs = Cardinality(ledger)
    BY <2>1 DEF Sidecar, names, of
  <2>3. Available(marker) = answered
    <3>1. Available(marker) \subseteq answered BY <2>2 DEF Available
    <3>2. answered \subseteq Available(marker)
      <4> SUFFICES ASSUME NEW c \in answered PROVE c \in Available(marker)
        OBVIOUS
      <4>1. PICK i \in DOMAIN names : c = names[i] BY <2>1 DEF Range
      <4> QED BY <2>2, <4>1 DEF Available
    <3> QED BY <3>1, <3>2
  <2>4. Inventory(marker, snapshot) = snapshot BY <2>1, <2>3 DEF Inventory
  <2>5. ASSUME NEW i \in DOMAIN marker.clusters
        PROVE  Cardinality({row \in Inventory(marker, snapshot) :
                              row.cluster = marker.clusters[i].name})
                 = marker.clusters[i].workflows
    <3>1. {row \in Inventory(marker, snapshot) : row.cluster = marker.clusters[i].name}
            = of(names[i])
      BY <2>2, <2>4 DEF of
    <3> QED BY <2>2, <3>1
  <2> QED BY <2>2, <2>3, <2>5 DEF answered
<1> QED BY <1>1, Invariance, PTL

(* Whatever is on the prefix, a sidecar that validate accepts is usable.   *)
THEOREM AnAcceptedMarkerIsUsable == Spec => []AcceptedMarkerIsUsable
<1>1. AcceptedMarkerIsUsable BY AcceptedIsUsable DEF AcceptedMarkerIsUsable
<1> QED BY <1>1, PTL

=============================================================================
