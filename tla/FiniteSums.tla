------------------------------- MODULE FiniteSums -------------------------------
(***************************************************************************)
(* Finite sets, and sums over them, for the proofs of the other modules.   *)
(*                                                                         *)
(* An induction over finite sets needs no operator parameter when it is    *)
(* put as a set of counterexamples that has a least member: what holds of  *)
(* every finite set is shown of a smallest counterexample.                 *)
(***************************************************************************)
EXTENDS Integers, FiniteSetTheorems, TLAPS

LEMMA FiniteImage ==
    ASSUME NEW S, IsFiniteSet(S), NEW f, DOMAIN f = S
    PROVE  /\ IsFiniteSet({f[x] : x \in S})
           /\ Cardinality({f[x] : x \in S}) <= Cardinality(S)
           /\ (\A x, y \in S : f[x] = f[y] => x = y)
                => Cardinality({f[x] : x \in S}) = Cardinality(S)
  <1> DEFINE T == {f[x] : x \in S}
             g == [x \in S |-> f[x]]
  <1>1. g \in Surjection(S, T)
    BY DEF Surjection
  <1>2. (\A x, y \in S : f[x] = f[y] => x = y) => g \in Injection(S, T)
    BY DEF Injection, IsInjective
  <1> HIDE DEF T, g
  <1>3. /\ IsFiniteSet(T) /\ Cardinality(T) <= Cardinality(S)
        /\ Cardinality(T) = Cardinality(S) <=> g \in Injection(S, T)
    BY <1>1, FS_Surjection
  <1> QED
    BY <1>2, <1>3 DEF T

LEMMA FiniteUnion ==
    ASSUME NEW S, IsFiniteSet(S), NEW f, DOMAIN f = S, \A x \in S : IsFiniteSet(f[x])
    PROVE  IsFiniteSet(UNION {f[x] : x \in S})
  <1>1. IsFiniteSet({f[x] : x \in S})
    BY FiniteImage
  <1>2. \A T \in {f[x] : x \in S} : IsFiniteSet(T)
    OBVIOUS
  <1> QED
    BY <1>1, <1>2, FS_UNION

(* Of finite sets one is the smallest; what holds of every finite set is   *)
(* shown of a smallest counterexample.                                     *)
LEMMA SmallestSubset ==
    ASSUME NEW S, IsFiniteSet(S), NEW C, C \subseteq SUBSET S, C # {}
    PROVE  \E x \in C : \A y \in C : y \subseteq x => y = x
  <1>1. IsWellFoundedOn(StrictSubsetOrdering(S), FiniteSubsetsOf(S))
    BY FS_StrictSubsetOrderingWellFounded
  <1>2. FiniteSubsetsOf(S) = SUBSET S
    BY FS_FiniteSubsetsOfFinite
  <1>3. PICK x \in C : \A y \in C : ~ (<<y, x>> \in StrictSubsetOrdering(S))
    BY <1>1, <1>2, WFMin
  <1> QED
    BY <1>3 DEF StrictSubsetOrdering

(* In a finite set whose members are all related one is above the others.  *)
LEMMA TopElement ==
    ASSUME NEW S, IsFiniteSet(S), S # {}, NEW R,
           \A x, y \in S : <<x, y>> \in R \/ <<y, x>> \in R,
           \A x, y, z \in S : <<x, y>> \in R /\ <<y, z>> \in R => <<x, z>> \in R
    PROVE  \E x \in S : \A y \in S : <<y, x>> \in R
  <1> DEFINE C == {A \in SUBSET S : A # {} /\ ~\E x \in A : \A y \in A : <<y, x>> \in R}
  <1>1. CASE C = {}
    BY <1>1
  <1>2. CASE C # {}
    <2>1. PICK A \in C : \A B \in C : B \subseteq A => B = A
      <3>1. C \subseteq SUBSET S
        OBVIOUS
      <3> HIDE DEF C
      <3> QED
        BY <1>2, <3>1, SmallestSubset
    <2>2. PICK a \in A : TRUE
      OBVIOUS
    <2>3. A \in SUBSET S /\ A # {} /\ ~\E x \in A : \A y \in A : <<y, x>> \in R
      OBVIOUS
    <2>4. A \ {a} \notin C
      <3>1. A \ {a} \subseteq A /\ A \ {a} # A
        BY <2>2
      <3> HIDE DEF C
      <3> QED
        BY <2>1, <3>1
    <2>5. A \ {a} # {} => \E x \in A \ {a} : \A y \in A \ {a} : <<y, x>> \in R
      BY <2>4, <2>3
    <2> HIDE DEF C
    <2>6. CASE A \ {a} = {}
      BY <2>3, <2>2, <2>6
    <2>7. CASE A \ {a} # {}
      <3>1. PICK x \in A \ {a} : \A y \in A \ {a} : <<y, x>> \in R
        BY <2>5, <2>7
      <3>2. x \in S /\ a \in S /\ A \subseteq S
        BY <2>2, <2>3, <3>1
      <3>3. CASE <<a, x>> \in R
        <4>1. \A y \in A : <<y, x>> \in R
          BY <3>1, <3>3
        <4> QED
          BY <2>3, <3>1, <4>1
      <3>4. CASE <<x, a>> \in R
        <4>1. <<a, a>> \in R
          BY <3>2
        <4>2. \A y \in A : <<y, a>> \in R
          <5>1. ASSUME NEW y \in A, y # a PROVE <<y, a>> \in R
            <6>1. <<y, x>> \in R
              BY <3>1, <5>1
            <6>2. y \in S
              BY <3>2
            <6> QED
              BY <3>2, <3>4, <6>1, <6>2
          <5> QED
            BY <4>1, <5>1
        <4> QED
          BY <2>2, <2>3, <4>2
      <3> QED
        BY <3>2, <3>3, <3>4
    <2> QED
      BY <2>6, <2>7
  <1> QED
    BY <1>1, <1>2

(* A finite set of numbers has a least and a greatest one.                 *)
LEMMA Extremes ==
    ASSUME NEW S \in SUBSET Int, IsFiniteSet(S), S # {}
    PROVE  /\ \E x \in S : \A y \in S : y <= x
           /\ \E x \in S : \A y \in S : x <= y
  <1>1. \E x \in S : \A y \in S : y <= x
    <2> DEFINE R == {p \in S \X S : p[1] <= p[2]}
    <2>1. \A x, y \in S : <<x, y>> \in R <=> x <= y
      OBVIOUS
    <2>2. /\ \A x, y \in S : <<x, y>> \in R \/ <<y, x>> \in R
          /\ \A x, y, z \in S : <<x, y>> \in R /\ <<y, z>> \in R => <<x, z>> \in R
      BY <2>1
    <2> HIDE DEF R
    <2>3. \E x \in S : \A y \in S : <<y, x>> \in R
      BY <2>2, TopElement
    <2> QED
      BY <2>1, <2>3
  <1>2. \E x \in S : \A y \in S : x <= y
    <2> DEFINE R == {p \in S \X S : p[2] <= p[1]}
    <2>1. \A x, y \in S : <<x, y>> \in R <=> y <= x
      OBVIOUS
    <2>2. /\ \A x, y \in S : <<x, y>> \in R \/ <<y, x>> \in R
          /\ \A x, y, z \in S : <<x, y>> \in R /\ <<y, z>> \in R => <<x, z>> \in R
      BY <2>1
    <2> HIDE DEF R
    <2>3. \E x \in S : \A y \in S : <<y, x>> \in R
      BY <2>2, TopElement
    <2> QED
      BY <2>1, <2>3
  <1> QED
    BY <1>1, <1>2

LEMMA GreatestBelow ==
    ASSUME NEW S \in SUBSET Nat, S # {}, NEW n \in Nat, \A s \in S : s < n
    PROVE  \E m \in S : \A s \in S : s <= m
  <1>1. IsFiniteSet(S)
    BY FS_BoundedSetOfNaturals
  <1> QED
    BY <1>1, Extremes

-----------------------------------------------------------------------------
(***************************************************************************)
(* Sums.  A fold over a set of rows takes it apart one at a                *)
(* time, in an order CHOOSE decides; a sum of numbers does not depend on   *)
(* it.  sum[A] is the sum of value[x] over the members x of A.             *)
(***************************************************************************)
OneOf(A) == CHOOSE x \in A : TRUE

Sums(sum, value, S) ==
    sum = [A \in SUBSET S |-> IF A = {} THEN 0 ELSE value[OneOf(A)] + sum[A \ {OneOf(A)}]]

LEMMA SumUnfolds ==
    ASSUME NEW S, NEW value, NEW sum, Sums(sum, value, S)
    PROVE  /\ sum[{}] = 0
           /\ \A A \in SUBSET S : A # {} =>
                OneOf(A) \in A /\ sum[A] = value[OneOf(A)] + sum[A \ {OneOf(A)}]
  <1>1. \A A : A # {} => OneOf(A) \in A
    BY DEF OneOf
  <1> QED
    BY <1>1 DEF Sums

(* There is one sum of each set.                                           *)
LEMMA SumIsUnique ==
    ASSUME NEW S, IsFiniteSet(S), NEW value, NEW T \in SUBSET S,
           NEW sum, Sums(sum, value, S), NEW other, Sums(other, value, T)
    PROVE  \A A \in SUBSET T : sum[A] = other[A]
  <1> DEFINE C == {A \in SUBSET T : sum[A] # other[A]}
  <1>1. CASE C = {}
    BY <1>1
  <1>2. CASE C # {}
    <2>1. PICK A \in C : \A B \in C : B \subseteq A => B = A
      <3>1. C \subseteq SUBSET S
        OBVIOUS
      <3> HIDE DEF C
      <3> QED
        BY <1>2, <3>1, SmallestSubset
    <2>2. A \in SUBSET T /\ A \in SUBSET S /\ sum[A] # other[A]
      OBVIOUS
    <2>3. A # {}
      BY <2>2, SumUnfolds
    <2>4. PICK x : x = OneOf(A)
      OBVIOUS
    <2>5. /\ x \in A /\ sum[A] = value[x] + sum[A \ {x}]
          /\ other[A] = value[x] + other[A \ {x}]
      BY <2>2, <2>3, <2>4, SumUnfolds
    <2>6. sum[A \ {x}] = other[A \ {x}]
      <3>1. A \ {x} \subseteq A /\ A \ {x} # A /\ A \ {x} \in SUBSET T
        BY <2>2, <2>5
      <3>2. A \ {x} \notin C
        <4> HIDE DEF C
        <4> QED
          BY <2>1, <3>1
      <3> QED
        BY <3>1, <3>2
    <2> QED
      BY <2>2, <2>5, <2>6
  <1> QED
    BY <1>1, <1>2

(* The fold is well defined: a set of which every smaller set has a sum    *)
(* has one.                                                                *)
LEMMA SumExists ==
    ASSUME NEW S, IsFiniteSet(S), NEW value
    PROVE  \E sum : Sums(sum, value, S)
  <1> DEFINE C == {A \in SUBSET S : ~\E sum : Sums(sum, value, A)}
  <1>1. CASE C = {}
    BY <1>1
  <1>2. CASE C # {}
    <2>1. PICK A \in C : \A B \in C : B \subseteq A => B = A
      <3>1. C \subseteq SUBSET S
        OBVIOUS
      <3> HIDE DEF C
      <3> QED
        BY <1>2, <3>1, SmallestSubset
    <2>2. A \in SUBSET S /\ IsFiniteSet(A)
      BY FS_Subset
    <2> DEFINE below(B) == CHOOSE sum : Sums(sum, value, B)
               total == [B \in SUBSET A |->
                           IF B = {} THEN 0
                           ELSE value[OneOf(B)] + below(B \ {OneOf(B)})[B \ {OneOf(B)}]]
    <2>3. ASSUME NEW B \in SUBSET A, B # A
          PROVE  Sums(below(B), value, B)
      <3>1. B \notin C
        <4> HIDE DEF C
        <4> QED
          BY <2>1, <2>3
      <3>2. \E sum : Sums(sum, value, B)
        BY <2>2, <3>1
      <3> QED
        BY <3>2
    <2>4. \A B : B # {} => OneOf(B) \in B
      BY DEF OneOf
    <2>5. ASSUME NEW B \in SUBSET A, B # A
          PROVE  total[B] = below(B)[B]
      <3>1. Sums(below(B), value, B)
        BY <2>3, <2>5
      <3> HIDE DEF below
      <3>2. CASE B = {}
        BY <3>1, <3>2, SumUnfolds
      <3>3. CASE B # {}
        <4>1. PICK D : D = B \ {OneOf(B)}
          OBVIOUS
        <4>2. D \in SUBSET B /\ D \in SUBSET A /\ D # A
          BY <2>4, <2>5, <3>3, <4>1
        <4>3. Sums(below(D), value, D)
          BY <2>3, <4>2
        <4>4. IsFiniteSet(B)
          BY <2>2, FS_Subset
        <4>5. below(B)[D] = below(D)[D]
          BY <3>1, <4>2, <4>3, <4>4, SumIsUnique
        <4>6. below(B)[B] = value[OneOf(B)] + below(B)[D]
          <5>1. PICK k : k = below(B) /\ Sums(k, value, B)
            BY <3>1
          <5>2. k[B] = value[OneOf(B)] + k[B \ {OneOf(B)}]
            BY <3>3, <5>1, SumUnfolds
          <5> QED
            BY <4>1, <5>1, <5>2
        <4>7. total[B] = value[OneOf(B)] + below(D)[D]
          BY <3>3, <4>1
        <4> QED
          BY <4>5, <4>6, <4>7
      <3> QED
        BY <3>2, <3>3
    <2>6. ASSUME NEW B \in SUBSET A, B # {}
          PROVE  total[B] = value[OneOf(B)] + total[B \ {OneOf(B)}]
      <3>1. PICK D : D = B \ {OneOf(B)}
        OBVIOUS
      <3>2. D \in SUBSET A /\ D # A
        BY <2>4, <2>6, <3>1
      <3>3. total[D] = below(D)[D]
        BY <2>5, <3>2
      <3>4. total[B] = value[OneOf(B)] + below(D)[D]
        BY <2>6, <3>1
      <3> QED
        BY <3>1, <3>3, <3>4
    <2>7. total[{}] = 0 /\ total = [B \in SUBSET A |-> total[B]]
      OBVIOUS
    <2> HIDE DEF total, below
    <2>8. Sums(total, value, A)
      BY <2>6, <2>7 DEF Sums
    <2> QED
      BY <2>8
  <1> QED
    BY <1>1, <1>2

Summable(value, S) == IsFiniteSet(S) /\ \A x \in S : value[x] \in Int

AddsUp(sum, value, S) ==
    /\ sum[{}] = 0
    /\ \A A \in SUBSET S : sum[A] \in Int
    /\ \A A \in SUBSET S : \A x \in A : sum[A] = value[x] + sum[A \ {x}]

(* The sum of a set is that of a member and of the rest, any member.       *)
LEMMA SumAdds ==
    ASSUME NEW S, NEW value, Summable(value, S),
           NEW sum, Sums(sum, value, S)
    PROVE  AddsUp(sum, value, S)
  <1> DEFINE Adds(A) == sum[A] \in Int /\ \A x \in A : sum[A] = value[x] + sum[A \ {x}]
             C == {A \in SUBSET S : ~Adds(A)}
  <1>0. /\ \A A : A # {} => OneOf(A) \in A
        /\ \A A \in SUBSET S : A # {} => sum[A] = value[OneOf(A)] + sum[A \ {OneOf(A)}]
        /\ sum[{}] = 0
    BY DEF OneOf, Sums
  <1>1. CASE C = {}
    BY <1>0, <1>1 DEF AddsUp
  <1>2. CASE C # {}
    <2>1. PICK A \in C : \A B \in C : B \subseteq A => B = A
      <3>1. C \subseteq SUBSET S
        OBVIOUS
      <3> HIDE DEF C
      <3> QED
        BY <1>2, <3>1, SmallestSubset DEF Summable
    <2>2. A \in SUBSET S /\ ~Adds(A)
      OBVIOUS
    <2>3. ASSUME NEW B \in SUBSET A, B # A PROVE Adds(B)
      <3>1. B \notin C
        <4> HIDE DEF C
        <4> QED
          BY <2>1, <2>3
      <3> QED
        BY <2>2, <3>1
    <2>4. A # {}
      <3>1. Adds({})
        BY <1>0
      <3> QED
        BY <2>2, <3>1
    <2> HIDE DEF C
    <2>5. PICK p : p = OneOf(A)
      OBVIOUS
    <2>6. p \in A /\ sum[A] = value[p] + sum[A \ {p}]
      BY <1>0, <2>2, <2>4, <2>5
    <2>7. Adds(A \ {p}) /\ value[p] \in Int
      BY <2>2, <2>3, <2>6 DEF Summable
    <2>8. sum[A] \in Int
      BY <2>6, <2>7
    <2>9. ASSUME NEW x \in A PROVE sum[A] = value[x] + sum[A \ {x}]
      <3>1. CASE x = p
        BY <2>6, <3>1
      <3>2. CASE x # p
        <4>1. PICK rest : rest = (A \ {p}) \ {x}
          OBVIOUS
        <4>2. rest = (A \ {x}) \ {p}
          BY <4>1
        <4>3. sum[A \ {p}] = value[x] + sum[rest]
          BY <2>7, <3>2, <4>1
        <4>4. Adds(A \ {x}) /\ Adds(rest) /\ p \in A \ {x}
          BY <2>3, <2>6, <3>2, <4>1
        <4>5. sum[A \ {x}] = value[p] + sum[rest]
          BY <4>2, <4>4
        <4>6. value[x] \in Int /\ sum[rest] \in Int
          BY <2>2, <4>4 DEF Summable
        <4> HIDE DEF Adds
        <4> QED
          BY <2>6, <2>7, <4>3, <4>5, <4>6
      <3> QED
        BY <3>1, <3>2
    <2> QED
      BY <2>2, <2>8, <2>9
  <1> QED
    BY <1>1, <1>2

(* A set and its complement sum up to the whole.                           *)
LEMMA SumSplits ==
    ASSUME NEW S, NEW value, Summable(value, S),
           NEW sum, Sums(sum, value, S), NEW T \in SUBSET S
    PROVE  sum[S] = sum[T] + sum[S \ T]
  <1> DEFINE C == {A \in SUBSET S : sum[S] # sum[A] + sum[S \ A]}
  <1>0. AddsUp(sum, value, S)
    BY SumAdds
  <1>1. CASE C = {}
    BY <1>1
  <1>2. CASE C # {}
    <2>1. PICK A \in C : \A B \in C : B \subseteq A => B = A
      <3>1. C \subseteq SUBSET S
        OBVIOUS
      <3> HIDE DEF C
      <3> QED
        BY <1>2, <3>1, SmallestSubset DEF Summable
    <2>2. A \in SUBSET S /\ sum[S] # sum[A] + sum[S \ A]
      OBVIOUS
    <2>3. sum[{}] = 0 /\ sum[S] \in Int /\ S \ {} = S
      BY <1>0 DEF AddsUp
    <2>4. PICK x \in A : TRUE
      BY <2>2, <2>3
    <2>5. PICK B : B = A \ {x}
      OBVIOUS
    <2>6. B \in SUBSET S /\ B \notin C
      <3>1. B \subseteq A /\ B # A
        BY <2>4, <2>5
      <3> HIDE DEF C
      <3> QED
        BY <2>1, <2>2, <3>1
    <2>7. sum[S] = sum[B] + sum[S \ B]
      BY <2>6
    <2> HIDE DEF C
    <2>8. sum[A] = value[x] + sum[B]
      BY <1>0, <2>2, <2>4, <2>5 DEF AddsUp
    <2>9. x \in S \ B /\ (S \ B) \ {x} = S \ A
      BY <2>2, <2>4, <2>5
    <2>10. sum[S \ B] = value[x] + sum[S \ A]
      BY <1>0, <2>9 DEF AddsUp
    <2>11. {sum[A], sum[B], sum[S \ A], sum[S \ B]} \subseteq Int /\ value[x] \in Int
      BY <1>0, <2>2, <2>6, <2>9 DEF AddsUp, Summable
    <2> QED
      BY <2>2, <2>7, <2>8, <2>10, <2>11
  <1> QED
    BY <1>1, <1>2

(* Renaming the members one by one leaves the sum as it is.                *)
LEMMA SumRenames ==
    ASSUME NEW S, NEW value, Summable(value, S),
           NEW sum, Sums(sum, value, S),
           NEW T, NEW worth, Summable(worth, T),
           NEW other, Sums(other, worth, T),
           NEW name, \A x \in S : name[x] \in T /\ worth[name[x]] = value[x],
           \A x, y \in S : name[x] = name[y] => x = y
    PROVE  sum[S] = other[{name[x] : x \in S}]
  <1> DEFINE named(A) == {name[x] : x \in A}
             C == {A \in SUBSET S : sum[A] # other[named(A)]}
  <1>0. AddsUp(sum, value, S) /\ AddsUp(other, worth, T)
    BY SumAdds
  <1>1. CASE C = {}
    BY <1>1
  <1>2. CASE C # {}
    <2>1. PICK A \in C : \A B \in C : B \subseteq A => B = A
      <3>1. C \subseteq SUBSET S
        OBVIOUS
      <3> HIDE DEF C
      <3> QED
        BY <1>2, <3>1, SmallestSubset DEF Summable
    <2>2. A \in SUBSET S /\ sum[A] # other[named(A)]
      OBVIOUS
    <2>3. sum[{}] = 0 /\ other[{}] = 0 /\ named({}) = {}
      BY <1>0 DEF AddsUp
    <2>4. PICK x \in A : TRUE
      BY <2>2, <2>3
    <2>5. PICK B : B = A \ {x}
      OBVIOUS
    <2>6. B \in SUBSET S /\ B \notin C
      <3>1. B \subseteq A /\ B # A
        BY <2>4, <2>5
      <3> HIDE DEF C
      <3> QED
        BY <2>1, <2>2, <3>1
    <2>7. sum[B] = other[named(B)]
      BY <2>6
    <2> HIDE DEF C
    <2>8. sum[A] = value[x] + sum[B]
      BY <1>0, <2>2, <2>4, <2>5 DEF AddsUp
    <2>9. /\ named(A) \in SUBSET T /\ name[x] \in named(A)
          /\ named(A) \ {name[x]} = named(B)
      BY <2>2, <2>4, <2>5
    <2> HIDE DEF named
    <2>10. other[named(A)] = worth[name[x]] + other[named(B)]
      BY <1>0, <2>9 DEF AddsUp
    <2>11. worth[name[x]] = value[x]
      BY <2>2, <2>4
    <2> QED
      BY <2>2, <2>7, <2>8, <2>10, <2>11
  <1> QED
    BY <1>1, <1>2

LEMMA SumOfPart ==
    ASSUME NEW S, NEW value, Summable(value, S), NEW sum, Sums(sum, value, S),
           NEW T \in SUBSET S, NEW worth, \A x \in T : worth[x] = value[x],
           NEW other, Sums(other, worth, T)
    PROVE  other[T] = sum[T]
  <1>1. PICK name : name = [x \in T |-> x]
    OBVIOUS
  <1>2. Summable(worth, T)
    <2>1. IsFiniteSet(T)
      BY FS_Subset DEF Summable
    <2> QED
      BY <2>1 DEF Summable
  <1>3. /\ \A x \in T : name[x] \in S /\ value[name[x]] = worth[x]
        /\ \A x, y \in T : name[x] = name[y] => x = y
        /\ {name[x] : x \in T} = T
    BY <1>1
  <1>4. other[T] = sum[{name[x] : x \in T}]
    BY <1>2, <1>3, SumRenames
  <1> QED
    BY <1>3, <1>4

LEMMA SumIsNat ==
    ASSUME NEW S, IsFiniteSet(S), NEW value, \A x \in S : value[x] \in Nat,
           NEW sum, Sums(sum, value, S)
    PROVE  sum[S] \in Nat
  <1> DEFINE C == {A \in SUBSET S : sum[A] \notin Nat}
  <1>0. AddsUp(sum, value, S)
    BY SumAdds DEF Summable
  <1>1. CASE C = {}
    BY <1>1
  <1>2. CASE C # {}
    <2>1. PICK A \in C : \A B \in C : B \subseteq A => B = A
      <3>1. C \subseteq SUBSET S
        OBVIOUS
      <3> HIDE DEF C
      <3> QED
        BY <1>2, <3>1, SmallestSubset
    <2>2. A \in SUBSET S /\ sum[A] \notin Nat
      OBVIOUS
    <2>3. PICK x \in A : TRUE
      <3>1. sum[{}] = 0
        BY <1>0 DEF AddsUp
      <3>2. A # {}
        BY <2>2, <3>1
      <3> QED
        BY <3>2
    <2>4. PICK B : B = A \ {x}
      OBVIOUS
    <2>5. B \in SUBSET S /\ B \notin C
      <3>1. B \subseteq A /\ B # A
        BY <2>3, <2>4
      <3> HIDE DEF C
      <3> QED
        BY <2>1, <2>2, <3>1
    <2>6. sum[B] \in Nat
      BY <2>5
    <2> HIDE DEF C
    <2>7. sum[A] = value[x] + sum[B]
      BY <1>0, <2>2, <2>3, <2>4 DEF AddsUp
    <2> QED
      BY <2>2, <2>6, <2>7
  <1> QED
    BY <1>1, <1>2

-----------------------------------------------------------------------------
(* How many elements a set has whose elements are named.                   *)
LEMMA OneMore ==
    ASSUME NEW S, IsFiniteSet(S), NEW x, x \notin S, NEW T, T = S \cup {x}
    PROVE  IsFiniteSet(T) /\ Cardinality(T) = Cardinality(S) + 1
  BY FS_AddElement

LEMMA One ==
    ASSUME NEW x, NEW S, S = {x}
    PROVE  IsFiniteSet(S) /\ Cardinality(S) = 1
  BY FS_Singleton

LEMMA Two ==
    ASSUME NEW x, NEW y, x # y, NEW S, S = {x, y}
    PROVE  IsFiniteSet(S) /\ Cardinality(S) = 2
  <1>1. IsFiniteSet({x}) /\ Cardinality({x}) = 1
    BY One
  <1>2. S = {x} \cup {y} /\ y \notin {x}
    OBVIOUS
  <1>3. IsFiniteSet(S) /\ Cardinality(S) = Cardinality({x}) + 1
    BY <1>1, <1>2, OneMore
  <1> QED
    BY <1>1, <1>3

LEMMA Three ==
    ASSUME NEW x, NEW y, NEW z, x # y, z # x, z # y, NEW S, S = {x, y, z}
    PROVE  IsFiniteSet(S) /\ Cardinality(S) = 3
  <1>1. PICK T : T = {x, y}
    OBVIOUS
  <1>2. IsFiniteSet(T) /\ Cardinality(T) = 2
    BY <1>1, Two
  <1>3. S = T \cup {z} /\ z \notin T
    BY <1>1
  <1>4. IsFiniteSet(S) /\ Cardinality(S) = Cardinality(T) + 1
    BY <1>2, <1>3, OneMore
  <1> QED
    BY <1>2, <1>4
=============================================================================
