--------------------------- MODULE PracticeProofs ---------------------------
(***************************************************************************)
(* What is asked of a candidate and what is made of the answers: theorems  *)
(* about InterviewPlan for any questions, types and history, and about     *)
(* AnswerScoring for any rubrics, answers and number of probes.            *)
(*                                                                         *)
(* Sums come first.  No theorem with an operator parameter can be cited    *)
(* here, so induction is over sets: AllNumbers and AllSubsets.             *)
(***************************************************************************)
EXTENDS InterviewPlan, AnswerScoring, FiniteSetTheorems, SequenceTheorems, TLAPS

-----------------------------------------------------------------------------
(* Least numbers *)

(* The smallest number of a set is one of it.                              *)
LEMMA MinIsLeast ==
  ASSUME NEW S, S \subseteq Nat, S # {}
  PROVE  Min(S) \in S /\ \A y \in S : Min(S) <= y
<1>1. PICK x \in S : \A y \in S : ~(<<y, x>> \in OpToRel(<, Nat))
  BY NatLessThanWellFounded, WFMin
<1>2. ASSUME NEW y \in S PROVE x <= y
  <2>1. x \in Nat /\ y \in Nat
    OBVIOUS
  <2>2. y < x => <<y, x>> \in OpToRel(<, Nat)
    <3> DEFINE p == <<y, x>>
    <3>1. p \in Nat \X Nat /\ p[1] = y /\ p[2] = x
      BY <2>1
    <3>2. QED
      BY <3>1 DEF OpToRel
  <2>3. ~(y < x)
    BY <1>1, <2>2
  <2>4. QED
    BY <2>1, <2>3
<1>3. QED
  BY <1>1, <1>2 DEF Min

-----------------------------------------------------------------------------
(* Sums over finite sets.  Induction is over sets: a set of numbers, or of *)
(* subsets, that has the first and with each the next.                     *)

LEMMA AllNumbers ==
  ASSUME NEW G, 0 \in G, \A n \in Nat : n \in G => n + 1 \in G
  PROVE  Nat \subseteq G
<1> SUFFICES ASSUME Nat \ G # {} PROVE FALSE
  OBVIOUS
<1>1. Min(Nat \ G) \in Nat \ G /\ \A n \in Nat \ G : Min(Nat \ G) <= n
  BY MinIsLeast
<1>2. PICK n \in Nat : Min(Nat \ G) = n + 1
  <2>1. Min(Nat \ G) # 0
    BY <1>1
  <2>2. Min(Nat \ G) - 1 \in Nat /\ Min(Nat \ G) = Min(Nat \ G) - 1 + 1
    BY <1>1, <2>1
  <2>3. QED
    BY <2>2
<1>3. n \in G
  BY <1>1, <1>2
<1>4. QED
  BY <1>1, <1>2, <1>3

LEMMA AllSubsets ==
  ASSUME NEW U, IsFiniteSet(U), NEW G, {} \in G,
         \A S \in SUBSET U : \A x \in U \ S : S \in G => S \cup {x} \in G
  PROVE  SUBSET U \subseteq G
<1> DEFINE H == {n \in Nat : \A S \in SUBSET U : Cardinality(S) = n => S \in G}
<1>1. \A S \in SUBSET U : IsFiniteSet(S) /\ Cardinality(S) \in Nat
  BY FS_Subset, FS_CardinalityType
<1>2. 0 \in H
  BY <1>1, FS_EmptySet
<1>3. ASSUME NEW n \in Nat, n \in H
      PROVE  n + 1 \in H
  <2> SUFFICES ASSUME NEW S \in SUBSET U, Cardinality(S) = n + 1 PROVE S \in G
    OBVIOUS
  <2>1. S # {}
    BY FS_EmptySet
  <2>2. PICK x \in S : TRUE
    BY <2>1
  <2>3. Cardinality(S \ {x}) = n
    <3>1. IsFiniteSet(S) /\ x \in S
      BY <1>1, <2>2
    <3>2. Cardinality(S \ {x}) = Cardinality(S) - 1
      BY <3>1, FS_RemoveElement
    <3>3. QED
      BY <3>2
  <2>4. S \ {x} \in G
    BY <1>3, <2>3
  <2>5. S = (S \ {x}) \cup {x} /\ S \ {x} \in SUBSET U /\ x \in U \ (S \ {x})
    BY <2>2
  <2>6. QED
    BY <2>4, <2>5
<1> HIDE DEF H
<1>4. Nat \subseteq H
  BY <1>2, <1>3, AllNumbers
<1>5. QED
  BY <1>1, <1>4 DEF H

(* A way of adding up f that does not depend on the order.                 *)
Adds(f, S, h) ==
  /\ h \in [SUBSET S -> Int] /\ h[{}] = 0
  /\ \A R \in SUBSET S : \A x \in R : h[R] = f[x] + h[R \ {x}]

LEMMA ThereIsAdder ==
  ASSUME NEW U, IsFiniteSet(U), NEW f, \A x \in U : f[x] \in Int, NEW T \in SUBSET U
  PROVE  \E h : Adds(f, T, h)
<1> DEFINE G == {S \in SUBSET U : \E h : Adds(f, S, h)}
<1>1. {} \in G
  <2> DEFINE h == [S \in SUBSET {} |-> 0]
  <2>1. Adds(f, {}, h)
    BY DEF Adds
  <2>2. QED
    BY <2>1
<1>2. ASSUME NEW S \in SUBSET U, NEW x \in U \ S, S \in G
      PROVE  S \cup {x} \in G
  <2>1. PICK h : Adds(f, S, h)
    BY <1>2
  <2> DEFINE k == [R \in SUBSET (S \cup {x}) |->
                     IF x \in R THEN f[x] + h[R \ {x}] ELSE h[R \ {x}]]
  <2>2. \A R \in SUBSET (S \cup {x}) : R \ {x} \in SUBSET S
    OBVIOUS
  <2>3. f[x] \in Int /\ h \in [SUBSET S -> Int] /\ h[{}] = 0
    BY <2>1 DEF Adds
  <2>4. k \in [SUBSET (S \cup {x}) -> Int] /\ k[{}] = 0
    BY <2>2, <2>3
  <2>5. \A R \in SUBSET (S \cup {x}) :
          k[R] = IF x \in R THEN f[x] + h[R \ {x}] ELSE h[R \ {x}]
    OBVIOUS
  <2> HIDE DEF k
  <2>6. \A R \in SUBSET (S \cup {x}) : \A y \in R : k[R] = f[y] + k[R \ {y}]
    <3>1. TAKE R \in SUBSET (S \cup {x})
    <3>2. TAKE y \in R
    <3>3. /\ k[R] = IF x \in R THEN f[x] + h[R \ {x}] ELSE h[R \ {x}]
          /\ k[R \ {y}] = IF x \in R \ {y} THEN f[x] + h[(R \ {y}) \ {x}] ELSE h[(R \ {y}) \ {x}]
      BY <2>5
    <3>4. CASE y = x
      <4>1. (R \ {y}) \ {x} = R \ {x}
        BY <3>4
      <4>2. QED
        BY <3>3, <3>4, <4>1
    <3>5. CASE y # x
      <4>1. y \in R \ {x} /\ R \ {x} \in SUBSET S
        BY <3>5
      <4>2. h[R \ {x}] = f[y] + h[(R \ {x}) \ {y}]
        BY <2>1, <4>1 DEF Adds
      <4>3. (R \ {y}) \ {x} = (R \ {x}) \ {y} /\ (R \ {x}) \ {y} \in SUBSET S
        OBVIOUS
      <4>4. h[(R \ {x}) \ {y}] \in Int /\ f[y] \in Int
        BY <2>3, <4>3
      <4>5. CASE x \in R
        <5> DEFINE rest == h[(R \ {x}) \ {y}]
        <5>1. k[R] = f[x] + (f[y] + rest)
          BY <3>3, <4>2, <4>5
        <5>2. k[R \ {y}] = f[x] + rest
          BY <3>3, <3>5, <4>3, <4>5
        <5>3. rest \in Int /\ f[y] \in Int /\ f[x] \in Int
          BY <2>3, <4>4
        <5> HIDE DEF rest
        <5>4. f[x] + (f[y] + rest) = f[y] + (f[x] + rest)
          BY <5>3
        <5>5. QED
          BY <5>1, <5>2, <5>4
      <4>6. CASE x \notin R
        BY <3>3, <3>5, <4>2, <4>3, <4>6
      <4>7. QED
        BY <4>5, <4>6
    <3>6. QED
      BY <3>4, <3>5
  <2>7. Adds(f, S \cup {x}, k)
    BY <2>4, <2>6 DEF Adds
  <2>8. QED
    BY <2>7
<1> HIDE DEF G
<1>3. SUBSET U \subseteq G
  BY <1>1, <1>2, AllSubsets
<1>4. QED
  BY <1>3 DEF G

(* The fold adds up, whatever order it takes.                              *)
Folded(f, S, g) ==
  g = [R \in SUBSET S |->
         IF R = {} THEN 0 ELSE f[CHOOSE x \in R : TRUE] + g[R \ {CHOOSE x \in R : TRUE}]]

LEMMA SumIsFold ==
  ASSUME NEW f, NEW S
  PROVE  SumFunctionOnSet(f, S) = (CHOOSE g : Folded(f, S, g))[S]
  BY DEF SumFunctionOnSet, FoldFunctionOnSet, MapThenFoldSet, Folded

LEMMA FoldAdds ==
  ASSUME NEW S, IsFiniteSet(S), NEW f, NEW h, Adds(f, S, h)
  PROVE  SumFunctionOnSet(f, S) = h[S]
<1>1. \A R \in SUBSET S : R # {} => (CHOOSE x \in R : TRUE) \in R
  OBVIOUS
<1>2. Folded(f, S, h)
  <2>1. \A R \in SUBSET S :
          h[R] = IF R = {} THEN 0
                 ELSE f[CHOOSE x \in R : TRUE] + h[R \ {CHOOSE x \in R : TRUE}]
    BY <1>1 DEF Adds
  <2>2. h = [R \in SUBSET S |-> h[R]]
    BY DEF Adds
  <2>3. QED
    BY <2>1, <2>2 DEF Folded
<1> DEFINE g == CHOOSE g : Folded(f, S, g)
<1>3. Folded(f, S, g)
  BY <1>2
<1> HIDE DEF g
<1> DEFINE H == {n \in Nat : \A R \in SUBSET S : Cardinality(R) = n => g[R] = h[R]}
<1>4. \A R \in SUBSET S : IsFiniteSet(R) /\ Cardinality(R) \in Nat
  BY FS_Subset, FS_CardinalityType
<1>5. \A R \in SUBSET S :
        g[R] = IF R = {} THEN 0
               ELSE f[CHOOSE x \in R : TRUE] + g[R \ {CHOOSE x \in R : TRUE}]
  BY <1>3 DEF Folded
<1>6. 0 \in H
  BY <1>4, <1>5, FS_EmptySet DEF Adds
<1>7. ASSUME NEW n \in Nat, n \in H
      PROVE  n + 1 \in H
  <2> SUFFICES ASSUME NEW R \in SUBSET S, Cardinality(R) = n + 1 PROVE g[R] = h[R]
    OBVIOUS
  <2> DEFINE x == CHOOSE x \in R : TRUE
  <2>1. R # {} /\ x \in R
    BY FS_EmptySet
  <2>2. g[R] = f[x] + g[R \ {x}]
    BY <1>5, <2>1
  <2> HIDE DEF x
  <2>3. Cardinality(R \ {x}) = n /\ R \ {x} \in SUBSET S
    BY <1>4, <2>1, FS_RemoveElement
  <2>4. g[R \ {x}] = h[R \ {x}]
    BY <1>7, <2>3
  <2>5. h[R] = f[x] + h[R \ {x}]
    BY <2>1 DEF Adds
  <2>6. QED
    BY <2>2, <2>4, <2>5
<1> HIDE DEF H
<1>8. Nat \subseteq H
  BY <1>6, <1>7, AllNumbers
<1>9. g[S] = h[S]
  BY <1>4, <1>8 DEF H
<1>10. QED
  BY <1>9, SumIsFold DEF g

(* What every sum does: nothing over nothing, and each element once.       *)
LEMMA SumFacts ==
  ASSUME NEW U, IsFiniteSet(U), NEW f, \A x \in U : f[x] \in Int
  PROVE  /\ SumFunctionOnSet(f, {}) = 0
         /\ \A S \in SUBSET U : SumFunctionOnSet(f, S) \in Int
         /\ \A S \in SUBSET U : \A x \in U \ S :
              SumFunctionOnSet(f, S \cup {x}) = f[x] + SumFunctionOnSet(f, S)
<1>1. PICK h : Adds(f, U, h)
  BY ThereIsAdder
<1>2. \A S \in SUBSET U : SumFunctionOnSet(f, S) = h[S]
  <2>1. TAKE S \in SUBSET U
  <2> DEFINE k == [R \in SUBSET S |-> h[R]]
  <2>2. Adds(f, S, k)
    <3>1. k \in [SUBSET S -> Int] /\ k[{}] = 0
      BY <1>1 DEF Adds
    <3>2. \A R \in SUBSET S : \A x \in R : k[R] = f[x] + k[R \ {x}]
      BY <1>1 DEF Adds
    <3>3. QED
      BY <3>1, <3>2 DEF Adds
  <2>3. IsFiniteSet(S)
    BY FS_Subset
  <2>4. k[S] = h[S]
    OBVIOUS
  <2> HIDE DEF k
  <2>5. QED
    BY <2>2, <2>3, <2>4, FoldAdds
<1>3. \A S \in SUBSET U : \A x \in U \ S : h[S \cup {x}] = f[x] + h[S]
  <2>1. TAKE S \in SUBSET U
  <2>2. TAKE x \in U \ S
  <2>3. S \cup {x} \in SUBSET U /\ x \in S \cup {x} /\ (S \cup {x}) \ {x} = S
    OBVIOUS
  <2>4. QED
    BY <1>1, <2>3 DEF Adds
<1>4. \A S \in SUBSET U : \A x \in U \ S : S \cup {x} \in SUBSET U
  OBVIOUS
<1>5. h \in [SUBSET U -> Int] /\ h[{}] = 0
  BY <1>1 DEF Adds
<1>6. QED
  BY <1>2, <1>3, <1>4, <1>5

LEMMA SumMonotone ==
  ASSUME NEW U, IsFiniteSet(U), NEW f, NEW g,
         \A x \in U : f[x] \in Int /\ g[x] \in Int /\ f[x] <= g[x]
  PROVE  SumFunctionOnSet(f, U) <= SumFunctionOnSet(g, U)
<1> DEFINE F(S) == SumFunctionOnSet(f, S)
           H(S) == SumFunctionOnSet(g, S)
           G == {S \in SUBSET U : F(S) <= H(S)}
<1>1. /\ F({}) = 0 /\ H({}) = 0
      /\ \A S \in SUBSET U : F(S) \in Int /\ H(S) \in Int
      /\ \A S \in SUBSET U : \A x \in U \ S : /\ F(S \cup {x}) = f[x] + F(S)
                                              /\ H(S \cup {x}) = g[x] + H(S)
  <2>1. (\A x \in U : f[x] \in Int) /\ (\A x \in U : g[x] \in Int)
    OBVIOUS
  <2>2. /\ F({}) = 0 /\ \A S \in SUBSET U : F(S) \in Int
        /\ \A S \in SUBSET U : \A x \in U \ S : F(S \cup {x}) = f[x] + F(S)
    BY <2>1, SumFacts
  <2>3. /\ H({}) = 0 /\ \A S \in SUBSET U : H(S) \in Int
        /\ \A S \in SUBSET U : \A x \in U \ S : H(S \cup {x}) = g[x] + H(S)
    BY <2>1, SumFacts
  <2> HIDE DEF F, H
  <2>4. QED
    BY <2>2, <2>3
<1> HIDE DEF F, H
<1>2. {} \in G
  BY <1>1
<1>3. \A S \in SUBSET U : \A x \in U \ S : S \in G => S \cup {x} \in G
  <2> SUFFICES ASSUME NEW S \in SUBSET U, NEW x \in U \ S, F(S) <= H(S)
               PROVE  F(S \cup {x}) <= H(S \cup {x})
    OBVIOUS
  <2>1. F(S) \in Int /\ H(S) \in Int /\ f[x] \in Int /\ g[x] \in Int /\ f[x] <= g[x]
    BY <1>1
  <2>2. f[x] + F(S) <= g[x] + H(S)
    BY <2>1
  <2>3. QED
    BY <1>1, <2>2
<1> HIDE DEF G
<1>4. SUBSET U \subseteq G
  BY <1>2, <1>3, AllSubsets
<1>5. QED
  BY <1>4 DEF G, F, H

LEMMA SumScale ==
  ASSUME NEW U, IsFiniteSet(U), NEW f, NEW g, NEW k \in Int,
         \A x \in U : f[x] \in Int /\ g[x] = k * f[x]
  PROVE  SumFunctionOnSet(g, U) = k * SumFunctionOnSet(f, U)
<1> DEFINE F(S) == SumFunctionOnSet(f, S)
           H(S) == SumFunctionOnSet(g, S)
           G == {S \in SUBSET U : H(S) = k * F(S)}
<1>1. (\A x \in U : f[x] \in Int) /\ (\A x \in U : g[x] \in Int)
  OBVIOUS
<1>2. /\ F({}) = 0 /\ H({}) = 0
      /\ \A S \in SUBSET U : F(S) \in Int
      /\ \A S \in SUBSET U : \A x \in U \ S : /\ F(S \cup {x}) = f[x] + F(S)
                                              /\ H(S \cup {x}) = g[x] + H(S)
  <2>1. /\ F({}) = 0 /\ \A S \in SUBSET U : F(S) \in Int
        /\ \A S \in SUBSET U : \A x \in U \ S : F(S \cup {x}) = f[x] + F(S)
    BY <1>1, SumFacts
  <2>2. /\ H({}) = 0
        /\ \A S \in SUBSET U : \A x \in U \ S : H(S \cup {x}) = g[x] + H(S)
    BY <1>1, SumFacts
  <2> HIDE DEF F, H
  <2>3. QED
    BY <2>1, <2>2
<1> HIDE DEF F, H
<1>3. {} \in G
  BY <1>2
<1>4. \A S \in SUBSET U : \A x \in U \ S : S \in G => S \cup {x} \in G
  <2> SUFFICES ASSUME NEW S \in SUBSET U, NEW x \in U \ S, H(S) = k * F(S)
               PROVE  H(S \cup {x}) = k * F(S \cup {x})
    OBVIOUS
  <2>1. F(S) \in Int /\ f[x] \in Int
    BY <1>2
  <2>2. k * f[x] + k * F(S) = k * (f[x] + F(S))
    BY <2>1
  <2>3. QED
    BY <1>2, <2>2
<1> HIDE DEF G
<1>5. SUBSET U \subseteq G
  BY <1>3, <1>4, AllSubsets
<1>6. QED
  BY <1>5 DEF G, F, H

LEMMA SumConstant ==
  ASSUME NEW U, IsFiniteSet(U), NEW f, NEW k \in Int, \A x \in U : f[x] = k
  PROVE  SumFunctionOnSet(f, U) = k * Cardinality(U)
<1> DEFINE F(S) == SumFunctionOnSet(f, S)
           G == {S \in SUBSET U : F(S) = k * Cardinality(S)}
<1>1. /\ F({}) = 0
      /\ \A S \in SUBSET U : \A x \in U \ S : F(S \cup {x}) = f[x] + F(S)
  BY SumFacts
<1> HIDE DEF F
<1>2. {} \in G
  BY <1>1, FS_EmptySet
<1>3. \A S \in SUBSET U : \A x \in U \ S : S \in G => S \cup {x} \in G
  <2> SUFFICES ASSUME NEW S \in SUBSET U, NEW x \in U \ S, F(S) = k * Cardinality(S)
               PROVE  F(S \cup {x}) = k * Cardinality(S \cup {x})
    OBVIOUS
  <2>1. IsFiniteSet(S) /\ Cardinality(S) \in Nat
    BY FS_Subset, FS_CardinalityType
  <2>2. Cardinality(S \cup {x}) = Cardinality(S) + 1
    BY <2>1, FS_AddElement
  <2>3. k + k * Cardinality(S) = k * (Cardinality(S) + 1)
    BY <2>1
  <2>4. QED
    BY <1>1, <2>2, <2>3
<1> HIDE DEF G
<1>4. SUBSET U \subseteq G
  BY <1>2, <1>3, AllSubsets
<1>5. QED
  BY <1>4 DEF G, F

LEMMA SumUnion ==
  ASSUME NEW U, IsFiniteSet(U), NEW f, \A x \in U : f[x] \in Int,
         NEW A \in SUBSET U, NEW B \in SUBSET U, A \cap B = {}
  PROVE  SumFunctionOnSet(f, A \cup B) = SumFunctionOnSet(f, A) + SumFunctionOnSet(f, B)
<1> DEFINE F(S) == SumFunctionOnSet(f, S)
           G == {S \in SUBSET U : S \cap A = {} => F(A \cup S) = F(A) + F(S)}
<1>1. /\ F({}) = 0
      /\ \A S \in SUBSET U : F(S) \in Int
      /\ \A S \in SUBSET U : \A x \in U \ S : F(S \cup {x}) = f[x] + F(S)
  BY SumFacts
<1> HIDE DEF F
<1>2. {} \in G
  <2>1. A \cup {} = A
    OBVIOUS
  <2>2. QED
    BY <1>1, <2>1
<1>3. \A S \in SUBSET U : \A x \in U \ S : S \in G => S \cup {x} \in G
  <2> SUFFICES ASSUME NEW S \in SUBSET U, NEW x \in U \ S, (S \cup {x}) \cap A = {},
                      S \cap A = {} => F(A \cup S) = F(A) + F(S)
               PROVE  F(A \cup (S \cup {x})) = F(A) + F(S \cup {x})
    OBVIOUS
  <2>1. /\ S \cap A = {} /\ A \cup S \in SUBSET U /\ x \in U \ (A \cup S)
        /\ A \cup (S \cup {x}) = (A \cup S) \cup {x}
    OBVIOUS
  <2>2. F(A \cup (S \cup {x})) = f[x] + (F(A) + F(S)) /\ F(S \cup {x}) = f[x] + F(S)
    BY <1>1, <2>1
  <2>3. f[x] \in Int /\ F(A) \in Int /\ F(S) \in Int
    BY <1>1, <2>1
  <2>4. f[x] + (F(A) + F(S)) = F(A) + (f[x] + F(S))
    BY <2>3
  <2>5. QED
    BY <2>2, <2>4
<1> HIDE DEF G
<1>4. SUBSET U \subseteq G
  BY <1>2, <1>3, AllSubsets
<1>5. QED
  BY <1>4 DEF G, F

(* What is not below zero adds up to what is not, and more of it to more.  *)
LEMMA SumNatural ==
  ASSUME NEW U, IsFiniteSet(U), NEW f, \A x \in U : f[x] \in Nat
  PROVE  SumFunctionOnSet(f, U) \in Nat
<1> DEFINE z == [x \in U |-> 0]
<1>1. \A x \in U : z[x] = 0 /\ z[x] \in Int /\ f[x] \in Int /\ z[x] <= f[x]
  OBVIOUS
<1> HIDE DEF z
<1>2. SumFunctionOnSet(z, U) = 0 * Cardinality(U)
  BY <1>1, SumConstant
<1>3. SumFunctionOnSet(z, U) <= SumFunctionOnSet(f, U)
  BY <1>1, SumMonotone
<1>4. SumFunctionOnSet(f, U) \in Int
  BY <1>1, SumFacts
<1>5. Cardinality(U) \in Nat
  BY FS_CardinalityType
<1>6. QED
  BY <1>2, <1>3, <1>4, <1>5

LEMMA SumGrows ==
  ASSUME NEW U, IsFiniteSet(U), NEW f, \A x \in U : f[x] \in Nat,
         NEW B \in SUBSET U, NEW A \in SUBSET B
  PROVE  SumFunctionOnSet(f, A) <= SumFunctionOnSet(f, B)
<1>1. \A x \in U : f[x] \in Int
  OBVIOUS
<1>2. A \in SUBSET U /\ B \ A \in SUBSET U /\ A \cap (B \ A) = {} /\ B = A \cup (B \ A)
  OBVIOUS
<1>3. SumFunctionOnSet(f, B) = SumFunctionOnSet(f, A) + SumFunctionOnSet(f, B \ A)
  BY <1>1, <1>2, SumUnion
<1>4. IsFiniteSet(B \ A)
  BY <1>2, FS_Subset
<1>5. SumFunctionOnSet(f, B \ A) \in Nat
  BY <1>2, <1>4, SumNatural
<1>6. SumFunctionOnSet(f, A) \in Int
  BY <1>1, <1>2, SumFacts
<1>7. QED
  BY <1>3, <1>5, <1>6

(* A sum that no class of its elements takes below zero is not below zero. *)
LEMMA SumOfClasses ==
  ASSUME NEW U, IsFiniteSet(U), NEW f, \A x \in U : f[x] \in Int, NEW c,
         \A x \in U : SumFunctionOnSet(f, {y \in U : c[y] = c[x]}) >= 0
  PROVE  SumFunctionOnSet(f, U) >= 0
<1> DEFINE K == {c[x] : x \in U}
           In(R) == {y \in U : c[y] \in R}
           G == {R \in SUBSET K : SumFunctionOnSet(f, In(R)) >= 0}
<1>1. IsFiniteSet(K)
  <2>1. [x \in U |-> c[x]] \in Surjection(U, K)
    BY DEF Surjection
  <2> HIDE DEF K
  <2>2. QED
    BY <2>1, FS_Surjection
<1>2. {} \in G
  <2>1. In({}) = {}
    OBVIOUS
  <2>2. SumFunctionOnSet(f, {}) = 0
    BY SumFacts
  <2>3. QED
    BY <2>1, <2>2
<1>3. \A R \in SUBSET K : \A k \in K \ R : R \in G => R \cup {k} \in G
  <2> SUFFICES ASSUME NEW R \in SUBSET K, NEW k \in K \ R, SumFunctionOnSet(f, In(R)) >= 0
               PROVE  SumFunctionOnSet(f, In(R \cup {k})) >= 0
    OBVIOUS
  <2>1. PICK x \in U : k = c[x]
    OBVIOUS
  <2> DEFINE C == {y \in U : c[y] = c[x]}
  <2>2. /\ In(R \cup {k}) = In(R) \cup C /\ In(R) \cap C = {}
        /\ In(R) \in SUBSET U /\ C \in SUBSET U
    BY <2>1
  <2>3. SumFunctionOnSet(f, C) >= 0
    OBVIOUS
  <2> HIDE DEF In, C
  <2>4. SumFunctionOnSet(f, In(R) \cup C) = SumFunctionOnSet(f, In(R)) + SumFunctionOnSet(f, C)
    BY <2>2, SumUnion
  <2>5. SumFunctionOnSet(f, In(R)) \in Int /\ SumFunctionOnSet(f, C) \in Int
    BY <2>2, SumFacts
  <2>6. SumFunctionOnSet(f, In(R \cup {k})) = SumFunctionOnSet(f, In(R) \cup C)
    BY <2>2
  <2>7. \A a, b \in Int : a >= 0 /\ b >= 0 => a + b >= 0
    OBVIOUS
  <2>8. QED
    BY <2>3, <2>4, <2>5, <2>6, <2>7
<1> HIDE DEF G
<1>4. SUBSET K \subseteq G
  <2> HIDE DEF K
  <2>1. QED
    BY <1>1, <1>2, <1>3, AllSubsets
<1>5. K \in G /\ In(K) = U
  BY <1>4
<1>6. QED
  BY <1>5 DEF G

(* ... and one that every class takes above zero is above zero.            *)
LEMMA SumOfPositiveClasses ==
  ASSUME NEW U, IsFiniteSet(U), NEW f, \A x \in U : f[x] \in Int, NEW c, U # {},
         \A x \in U : SumFunctionOnSet(f, {y \in U : c[y] = c[x]}) > 0
  PROVE  SumFunctionOnSet(f, U) > 0
<1>1. PICK x \in U : TRUE
  OBVIOUS
<1> DEFINE C == {y \in U : c[y] = c[x]}
           V == U \ C
<1>2. C \in SUBSET U /\ V \in SUBSET U /\ C \cap V = {} /\ C \cup V = U
  OBVIOUS
<1>3. \A A \in SUBSET U : SumFunctionOnSet(f, A) \in Int
  BY SumFacts
<1>4. \A z \in V : SumFunctionOnSet(f, {y \in V : c[y] = c[z]}) >= 0
  <2>1. TAKE z \in V
  <2>2. {y \in V : c[y] = c[z]} = {y \in U : c[y] = c[z]}
    OBVIOUS
  <2>3. SumFunctionOnSet(f, {y \in U : c[y] = c[z]}) > 0
    BY <1>2
  <2>4. SumFunctionOnSet(f, {y \in U : c[y] = c[z]}) \in Int
    BY <1>3
  <2>5. QED
    BY <2>2, <2>3, <2>4
<1>5. SumFunctionOnSet(f, C) > 0
  OBVIOUS
<1> HIDE DEF C, V
<1>6. SumFunctionOnSet(f, V) >= 0
  <2>1. IsFiniteSet(V) /\ \A z \in V : f[z] \in Int
    BY <1>2, FS_Subset
  <2>2. QED
    BY <1>4, <2>1, SumOfClasses
<1>7. SumFunctionOnSet(f, U) = SumFunctionOnSet(f, C) + SumFunctionOnSet(f, V)
  BY <1>2, SumUnion
<1>8. SumFunctionOnSet(f, C) \in Int /\ SumFunctionOnSet(f, V) \in Int
  BY <1>2, <1>3
<1>9. QED
  BY <1>5, <1>6, <1>7, <1>8

LEMMA SumAffine ==
  ASSUME NEW U, IsFiniteSet(U), NEW f, NEW g, NEW k \in Int, NEW b \in Int,
         \A x \in U : f[x] \in Int /\ g[x] = k * f[x] + b
  PROVE  SumFunctionOnSet(g, U) = k * SumFunctionOnSet(f, U) + b * Cardinality(U)
<1> DEFINE F(S) == SumFunctionOnSet(f, S)
           H(S) == SumFunctionOnSet(g, S)
           G == {S \in SUBSET U : H(S) = k * F(S) + b * Cardinality(S)}
<1>1. (\A x \in U : f[x] \in Int) /\ (\A x \in U : g[x] \in Int)
  OBVIOUS
<1>2. /\ F({}) = 0 /\ H({}) = 0
      /\ \A S \in SUBSET U : F(S) \in Int
      /\ \A S \in SUBSET U : \A x \in U \ S : /\ F(S \cup {x}) = f[x] + F(S)
                                              /\ H(S \cup {x}) = g[x] + H(S)
  <2>1. /\ F({}) = 0 /\ \A S \in SUBSET U : F(S) \in Int
        /\ \A S \in SUBSET U : \A x \in U \ S : F(S \cup {x}) = f[x] + F(S)
    BY <1>1, SumFacts
  <2>2. /\ H({}) = 0
        /\ \A S \in SUBSET U : \A x \in U \ S : H(S \cup {x}) = g[x] + H(S)
    BY <1>1, SumFacts
  <2> HIDE DEF F, H
  <2>3. QED
    BY <2>1, <2>2
<1> HIDE DEF F, H
<1>3. {} \in G
  BY <1>2, FS_EmptySet
<1>4. \A S \in SUBSET U : \A x \in U \ S : S \in G => S \cup {x} \in G
  <2> SUFFICES ASSUME NEW S \in SUBSET U, NEW x \in U \ S,
                      H(S) = k * F(S) + b * Cardinality(S)
               PROVE  H(S \cup {x}) = k * F(S \cup {x}) + b * Cardinality(S \cup {x})
    OBVIOUS
  <2>1. IsFiniteSet(S) /\ Cardinality(S) \in Nat
    BY FS_Subset, FS_CardinalityType
  <2>2. Cardinality(S \cup {x}) = Cardinality(S) + 1
    BY <2>1, FS_AddElement
  <2>3. \A y, s, n \in Int :
          (k * y + b) + (k * s + b * n) = k * (y + s) + b * (n + 1)
    OBVIOUS
  <2>4. F(S) \in Int /\ f[x] \in Int /\ g[x] = k * f[x] + b
    BY <1>2
  <2>5. H(S \cup {x}) = (k * f[x] + b) + (k * F(S) + b * Cardinality(S))
    BY <1>2, <2>4
  <2>6. F(S \cup {x}) = f[x] + F(S)
    BY <1>2
  <2>7. QED
    BY <2>1, <2>2, <2>3, <2>4, <2>5, <2>6
<1> HIDE DEF G
<1>5. SUBSET U \subseteq G
  BY <1>3, <1>4, AllSubsets
<1>6. QED
  BY <1>5 DEF G, F, H

-----------------------------------------------------------------------------
(* Plans, and the ends of histories *)

LEMMA PlansAreSequences ==
  ASSUME NEW p
  PROVE  p \in Plans <=> /\ p \in Seq(Questions) /\ IsInjective(p)
                         /\ Len(p) <= Cardinality(Questions)
<1>1. Cardinality(Questions) \in Nat
  BY PlanAssumption, FS_CardinalityType DEF PlanAssumption
<1>2. ASSUME p \in SeqOf(Questions, Cardinality(Questions))
      PROVE  p \in Seq(Questions) /\ Len(p) <= Cardinality(Questions)
  <2>1. PICK m \in 0 .. Cardinality(Questions) : p \in [1 .. m -> Questions]
    BY <1>2 DEF SeqOf
  <2>2. m \in Nat
    BY <1>1
  <2>3. QED
    BY <1>1, <2>1, <2>2
<1>3. ASSUME p \in Seq(Questions), Len(p) <= Cardinality(Questions)
      PROVE  p \in SeqOf(Questions, Cardinality(Questions))
  <2>1. Len(p) \in 0 .. Cardinality(Questions) /\ p \in [1 .. Len(p) -> Questions]
    BY <1>1, <1>3, LenProperties
  <2>2. QED
    BY <2>1 DEF SeqOf
<1>4. QED
  BY <1>2, <1>3 DEF Plans

(* A plan has as many questions as it is long.                             *)
LEMMA PlanCounts ==
  ASSUME NEW p \in Plans
  PROVE  /\ IsFiniteSet(Range(p)) /\ Cardinality(Range(p)) = Len(p)
         /\ Range(p) \subseteq Questions
<1>1. p \in Seq(Questions) /\ IsInjective(p)
  BY PlansAreSequences
<1>2. Len(p) \in Nat /\ DOMAIN p = 1 .. Len(p) /\ p \in [1 .. Len(p) -> Questions]
  BY <1>1, LenProperties
<1>3. p \in [1 .. Len(p) -> Range(p)] /\ \A q \in Range(p) : \E i \in 1 .. Len(p) : p[i] = q
  BY <1>2 DEF Range
<1>4. p \in Surjection(1 .. Len(p), Range(p)) /\ p \in Injection(1 .. Len(p), Range(p))
  BY <1>1, <1>3 DEF Surjection, Injection, IsInjective
<1>5. IsFiniteSet(1 .. Len(p)) /\ Cardinality(1 .. Len(p)) = Len(p)
  BY <1>2, FS_Interval
<1>6. QED
  BY <1>1, <1>4, <1>5, FS_Surjection, RangeOfSeq

LEMMA PlanGrows ==
  ASSUME NEW p \in Plans, NEW q \in Questions, q \notin Range(p)
  PROVE  /\ Append(p, q) \in Plans
         /\ Range(Append(p, q)) = Range(p) \cup {q}
         /\ Len(Append(p, q)) = Len(p) + 1
         /\ Append(p, q)[Len(p) + 1] = q
         /\ \A i \in 1 .. Len(p) : Append(p, q)[i] = p[i]
<1> DEFINE longer == Append(p, q)
<1>1. p \in Seq(Questions) /\ IsInjective(p) /\ Len(p) \in Nat /\ DOMAIN p = 1 .. Len(p)
  BY PlansAreSequences, LenProperties
<1>2. /\ longer \in Seq(Questions) /\ Len(longer) = Len(p) + 1
      /\ \A i \in 1 .. Len(p) : longer[i] = p[i]
      /\ longer[Len(p) + 1] = q
  BY <1>1, AppendProperties
<1>3. DOMAIN longer = 1 .. Len(p) + 1
  BY <1>2, LenProperties
<1> HIDE DEF longer
<1>4. IsInjective(longer)
  <2> SUFFICES ASSUME NEW i \in 1 .. Len(p) + 1, NEW j \in 1 .. Len(p) + 1, longer[i] = longer[j]
               PROVE  i = j
    BY <1>3 DEF IsInjective
  <2>1. i \in 1 .. Len(p) \/ i = Len(p) + 1
    BY <1>1
  <2>2. j \in 1 .. Len(p) \/ j = Len(p) + 1
    BY <1>1
  <2>3. \A k \in 1 .. Len(p) : p[k] # q
    BY <1>1 DEF Range
  <2>4. QED
    BY <1>1, <1>2, <2>1, <2>2, <2>3 DEF IsInjective
<1>5. Range(longer) = Range(p) \cup {q}
  <2>1. \A i \in 1 .. Len(p) + 1 : i \in 1 .. Len(p) \/ i = Len(p) + 1
    BY <1>1
  <2>2. \A i \in 1 .. Len(p) : i \in 1 .. Len(p) + 1
    BY <1>1
  <2>3. Len(p) + 1 \in 1 .. Len(p) + 1
    BY <1>1
  <2>4. QED
    BY <1>1, <1>2, <1>3, <2>1, <2>2, <2>3 DEF Range
<1>6. Len(longer) <= Cardinality(Questions)
  <2>1. IsFiniteSet(Range(p)) /\ Cardinality(Range(p)) = Len(p) /\ Range(p) \subseteq Questions
    BY PlanCounts
  <2>2. Cardinality(Range(longer)) = Len(p) + 1
    BY <1>5, <2>1, FS_AddElement
  <2>3. Range(longer) \in SUBSET Questions
    BY <1>5, <2>1
  <2>4. QED
    BY <1>2, <2>2, <2>3, FS_Subset, PlanAssumption DEF PlanAssumption
<1>7. longer \in Plans
  BY <1>2, <1>4, <1>6, PlansAreSequences
<1>8. QED
  BY <1>2, <1>5, <1>7 DEF longer

LEMMA PlanCutShort ==
  ASSUME NEW p \in Plans, NEW n \in 0 .. Len(p)
  PROVE  /\ SubSeq(p, 1, n) \in Plans /\ Len(SubSeq(p, 1, n)) = n
         /\ \A i \in 1 .. n : SubSeq(p, 1, n)[i] = p[i]
<1> DEFINE start == SubSeq(p, 1, n)
<1>1. /\ p \in Seq(Questions) /\ IsInjective(p) /\ Len(p) <= Cardinality(Questions)
      /\ Len(p) \in Nat /\ DOMAIN p = 1 .. Len(p)
  BY PlansAreSequences, LenProperties
<1>2. n \in Nat /\ \A i \in 1 .. n : i \in 1 .. Len(p) /\ p[i] \in Questions
  BY <1>1, ElementOfSeq
<1>3. /\ start \in Seq(Questions) /\ Len(start) = n
      /\ \A i \in 1 .. n : start[i] = p[i]
  BY <1>2, SubSeqProperties
<1> HIDE DEF start
<1>4. DOMAIN start = 1 .. n
  BY <1>3, LenProperties
<1>5. IsInjective(start)
  BY <1>1, <1>2, <1>3, <1>4 DEF IsInjective
<1>6. Cardinality(Questions) \in Nat
  BY PlanAssumption, FS_CardinalityType DEF PlanAssumption
<1>7. Len(start) <= Cardinality(Questions)
  BY <1>1, <1>2, <1>3, <1>6
<1>8. start \in Plans
  BY <1>3, <1>5, <1>7, PlansAreSequences
<1>9. QED
  BY <1>3, <1>8 DEF start

(* The latest n of a history, or all of it.                                *)
LEMMA LatestFacts ==
  ASSUME NEW S, NEW seq \in Seq(S), NEW n \in Nat
  PROVE  /\ Latest(n, seq) \in Seq(S)
         /\ Len(Latest(n, seq)) = IF Len(seq) > n THEN n ELSE Len(seq)
         /\ \A i \in 1 .. Len(Latest(n, seq)) :
              Latest(n, seq)[i] = seq[Len(seq) - Len(Latest(n, seq)) + i]
<1>1. Len(seq) \in Nat
  BY LenProperties
<1> DEFINE first == IF Len(seq) > n THEN Len(seq) - n + 1 ELSE 1
<1>2. first \in Int /\ first >= 1 /\ first <= Len(seq) + 1
  BY <1>1
<1>3. \A i \in first .. Len(seq) : seq[i] \in S
  BY <1>1, <1>2, ElementOfSeq
<1>4. Latest(n, seq) = SubSeq(seq, first, Len(seq))
  BY DEF Latest
<1>5. /\ SubSeq(seq, first, Len(seq)) \in Seq(S)
      /\ Len(SubSeq(seq, first, Len(seq)))
           = IF first <= Len(seq) THEN Len(seq) - first + 1 ELSE 0
      /\ \A i \in 1 .. Len(seq) - first + 1 :
           SubSeq(seq, first, Len(seq))[i] = seq[first + i - 1]
  <2> HIDE DEF first
  <2>1. QED
    BY <1>1, <1>2, <1>3, SubSeqProperties
<1>6. Len(Latest(n, seq)) = Len(seq) - first + 1
  <2> HIDE DEF first
  <2>1. QED
    BY <1>1, <1>2, <1>4, <1>5
<1>7. Len(seq) - first + 1 = IF Len(seq) > n THEN n ELSE Len(seq)
  BY <1>1
<1>8. \A i \in 1 .. Len(Latest(n, seq)) :
        Latest(n, seq)[i] = seq[Len(seq) - Len(Latest(n, seq)) + i]
  <2>1. TAKE i \in 1 .. Len(Latest(n, seq))
  <2>2. Len(seq) - Len(Latest(n, seq)) + i = first + i - 1
    BY <1>1, <1>2, <1>6
  <2>3. i \in 1 .. Len(seq) - first + 1
    BY <1>6
  <2> HIDE DEF first
  <2>4. QED
    BY <1>4, <1>5, <2>2, <2>3
<1>9. QED
  BY <1>4, <1>5, <1>6, <1>7, <1>8

LEMMA LatestOfLatest ==
  ASSUME NEW S, NEW seq \in Seq(S), NEW m \in Nat, NEW n \in Nat, m <= n
  PROVE  Latest(m, Latest(n, seq)) = Latest(m, seq)
<1> DEFINE late == Latest(n, seq)
<1>1. Len(seq) \in Nat
  BY LenProperties
<1>2. /\ late \in Seq(S) /\ Len(late) = IF Len(seq) > n THEN n ELSE Len(seq)
      /\ \A i \in 1 .. Len(late) : late[i] = seq[Len(seq) - Len(late) + i]
  BY LatestFacts
<1> HIDE DEF late
<1>3. Len(late) \in Nat /\ Len(late) <= Len(seq)
  BY <1>1, <1>2
<1>4. /\ Latest(m, seq) \in Seq(S)
      /\ Len(Latest(m, seq)) = IF Len(seq) > m THEN m ELSE Len(seq)
      /\ \A i \in 1 .. Len(Latest(m, seq)) :
           Latest(m, seq)[i] = seq[Len(seq) - Len(Latest(m, seq)) + i]
  BY LatestFacts
<1>5. /\ Latest(m, late) \in Seq(S)
      /\ Len(Latest(m, late)) = IF Len(late) > m THEN m ELSE Len(late)
      /\ \A i \in 1 .. Len(Latest(m, late)) :
           Latest(m, late)[i] = late[Len(late) - Len(Latest(m, late)) + i]
  BY <1>2, LatestFacts
<1>6. Len(Latest(m, late)) = Len(Latest(m, seq))
  BY <1>1, <1>2, <1>4, <1>5
<1>7. \A i \in 1 .. Len(Latest(m, late)) : Latest(m, late)[i] = Latest(m, seq)[i]
  <2>1. TAKE i \in 1 .. Len(Latest(m, late))
  <2>2. /\ Len(Latest(m, late)) \in Nat /\ Len(Latest(m, late)) <= Len(late)
        /\ i \in Nat
    BY <1>3, <1>5
  <2>3. Len(late) - Len(Latest(m, late)) + i \in 1 .. Len(late)
    BY <1>3, <2>2
  <2>4. late[Len(late) - Len(Latest(m, late)) + i]
          = seq[Len(seq) - Len(late) + (Len(late) - Len(Latest(m, late)) + i)]
    BY <1>2, <2>3
  <2>5. Len(seq) - Len(late) + (Len(late) - Len(Latest(m, late)) + i)
          = Len(seq) - Len(Latest(m, seq)) + i
    BY <1>1, <1>3, <1>6, <2>2
  <2>6. Latest(m, late)[i] = late[Len(late) - Len(Latest(m, late)) + i]
    BY <1>5
  <2>7. Latest(m, seq)[i] = seq[Len(seq) - Len(Latest(m, seq)) + i]
    BY <1>4, <1>6
  <2>8. QED
    BY <2>4, <2>5, <2>6, <2>7
<1>8. Latest(m, late) = Latest(m, seq)
  BY <1>4, <1>5, <1>6, <1>7, SeqEqual
<1>9. QED
  BY <1>8 DEF late

(* Which of two was asked last does not depend on how far back one looks,  *)
(* as long as the first is found there.                                    *)
LEMMA LastSeenOfLatest ==
  ASSUME NEW seen \in Seq(Plans), NEW m \in Nat, NEW p, NEW q, LastSeenNoLater(p, q, seen)
  PROVE  LastSeenNoLater(p, q, Latest(m, seen))
<1> DEFINE late  == Latest(m, seen)
           apart == Len(seen) - Len(late)
<1>1. Len(seen) \in Nat /\ DOMAIN seen = 1 .. Len(seen)
  BY LenProperties
<1>2. /\ late \in Seq(Plans) /\ Len(late) = IF Len(seen) > m THEN m ELSE Len(seen)
      /\ \A i \in 1 .. Len(late) : late[i] = seen[apart + i]
  BY LatestFacts
<1>3. DOMAIN late = 1 .. Len(late) /\ Len(late) \in Nat
  BY <1>2, LenProperties
<1>4. apart \in Nat
  BY <1>1, <1>2
<1> HIDE DEF late
<1>5. \A i \in 1 .. Len(late) : apart + i \in 1 .. Len(seen)
  BY <1>1, <1>3, <1>4
<1>6. SUFFICES ASSUME NEW s \in 1 .. Len(late), NEW i \in DOMAIN late[s], late[s][i] = p
               PROVE  \E t \in 1 .. Len(late) : \E j \in DOMAIN late[t] :
                        late[t][j] = q /\ (s < t \/ (s = t /\ i <= j))
  BY <1>3 DEF LastSeenNoLater, late
<1>7. late[s] = seen[apart + s] /\ apart + s \in 1 .. Len(seen)
  BY <1>2, <1>5
<1>8. PICK t \in 1 .. Len(seen) : \E j \in DOMAIN seen[t] :
        seen[t][j] = q /\ (apart + s < t \/ (apart + s = t /\ i <= j))
  BY <1>1, <1>6, <1>7 DEF LastSeenNoLater
<1>9. PICK j \in DOMAIN seen[t] : seen[t][j] = q /\ (apart + s < t \/ (apart + s = t /\ i <= j))
  BY <1>8
<1> DEFINE u == t - apart
<1>10. u \in 1 .. Len(late) /\ t = apart + u /\ (s < u \/ (s = u /\ i <= j))
  BY <1>1, <1>3, <1>4, <1>8, <1>9
<1>11. late[u] = seen[t]
  BY <1>2, <1>10
<1>12. QED
  BY <1>9, <1>10, <1>11

-----------------------------------------------------------------------------
(* The inductive invariant of planning *)

(* The pool is of the types asked for, the plan of the pool and no longer  *)
(* than was asked for.                                                     *)
Chosen ==
  Drawing => /\ \A q \in draft.pool : TypeOf[q] \in Range(draft.types)
             /\ Planned \subseteq draft.pool
             /\ Len(draft.plan) <= draft.count

Mixed ==
  Drawing => \A t, u \in Range(draft.types) :
               AskedOf(t) > AskedOf(u) + 1 => Type(u) \subseteq Planned

(* What the request remembers is what the database holds, but for what the *)
(* running session has asked since.                                        *)
Remembered ==
  Drawing => draft.mark <= live.asked /\ draft.seen = Latest(HistorySessions, Before)

PlanInv == TypeOK /\ Chosen /\ Mixed /\ Remembered /\ RepeatsAreSpaced

LEMMA BoundsAreNumbers ==
  /\ RecentSessions \in Nat /\ HistorySessions \in Nat /\ Kept \in Nat
  /\ RecentSessions <= HistorySessions
  BY PlanAssumption DEF PlanAssumption

(* While a plan is drawn it is a draft.                                    *)
LEMMA DraftAtHand ==
  ASSUME TypeOK, Drawing
  PROVE  /\ draft \in Draft /\ draft.plan \in Plans /\ draft.seen \in Seq(Plans)
         /\ draft.pool \subseteq Questions /\ draft.types \in Seq(Types)
         /\ draft.count \in Nat /\ draft.count > 0 /\ draft.mark \in Nat
<1>1. draft \in Draft
  BY DEF TypeOK, Drawing
<1>2. /\ draft.plan \in Plans /\ draft.seen \in Seq(Plans)
      /\ draft.pool \subseteq Questions /\ draft.types \in Seq(Types)
      /\ draft.count \in Budgets /\ draft.mark \in Nat
  BY <1>1, Zenon DEF Draft
<1>3. \A n \in Budgets : n \in Nat /\ n > 0
  BY PlanAssumption DEF PlanAssumption
<1>4. draft.count \in Nat /\ draft.count > 0
  BY <1>2, <1>3
<1>5. QED
  BY <1>1, <1>2, <1>4

(* The sessions as they were when the request looked at them: those before *)
(* `h', and the m questions of plan p that had been asked, of a by now.    *)
AsTheyWere(h, p, a, m) ==
  LET sessions == Append(h, SubSeq(p, 1, a))
  IN  [s \in DOMAIN sessions |->
         IF s = Len(sessions) THEN SubSeq(SubSeq(p, 1, a), 1, m) ELSE sessions[s]]

LEMMA BeforeIs ==
  ASSUME NEW h \in Seq(Plans), NEW p \in Plans, NEW a \in 0 .. Len(p), NEW m \in 0 .. a
  PROVE  /\ AsTheyWere(h, p, a, m) = Append(h, SubSeq(p, 1, m))
         /\ AsTheyWere(h, p, a, m) \in Seq(Plans)
<1> DEFINE now      == SubSeq(p, 1, a)
           then     == SubSeq(p, 1, m)
           sessions == Append(h, now)
           before   == AsTheyWere(h, p, a, m)
<1>1. Len(p) \in Nat /\ Len(h) \in Nat
  BY PlansAreSequences, LenProperties
<1>2. now \in Plans /\ Len(now) = a /\ \A i \in 1 .. a : now[i] = p[i]
  BY PlanCutShort
<1>3. then \in Plans /\ Len(then) = m /\ \A i \in 1 .. m : then[i] = p[i]
  BY <1>1, PlanCutShort
<1>4. /\ SubSeq(now, 1, m) \in Plans /\ Len(SubSeq(now, 1, m)) = m
      /\ \A i \in 1 .. m : SubSeq(now, 1, m)[i] = now[i]
  BY <1>2, PlanCutShort
<1>5. SubSeq(now, 1, m) = then
  <2>1. \A i \in 1 .. m : i \in 1 .. a
    BY <1>1
  <2>2. SubSeq(now, 1, m) \in Seq(Questions) /\ then \in Seq(Questions)
    BY <1>3, <1>4, PlansAreSequences
  <2>3. QED
    BY <1>2, <1>3, <1>4, <2>1, <2>2, SeqEqual
<1>6. before = [s \in DOMAIN sessions |-> IF s = Len(sessions) THEN then ELSE sessions[s]]
  BY <1>5 DEF AsTheyWere
<1> HIDE DEF then, now, before
<1>7. /\ sessions \in Seq(Plans) /\ Len(sessions) = Len(h) + 1
      /\ \A i \in 1 .. Len(h) : sessions[i] = h[i]
      /\ DOMAIN sessions = 1 .. Len(h) + 1
  BY <1>2, AppendProperties, LenProperties
<1> HIDE DEF sessions
<1>8. /\ Append(h, then) \in Seq(Plans) /\ Len(Append(h, then)) = Len(h) + 1
      /\ \A i \in 1 .. Len(h) : Append(h, then)[i] = h[i]
      /\ Append(h, then)[Len(h) + 1] = then
  BY <1>3, AppendProperties
<1>9. \A i \in 1 .. Len(h) + 1 : before[i] = Append(h, then)[i]
  <2>1. TAKE i \in 1 .. Len(h) + 1
  <2>2. i \in 1 .. Len(h) \/ i = Len(h) + 1
    BY <1>1
  <2>3. before[i] = IF i = Len(h) + 1 THEN then ELSE sessions[i]
    BY <1>6, <1>7
  <2>4. QED
    BY <1>1, <1>7, <1>8, <2>2, <2>3
<1>10. before = Append(h, then)
  <2>1. before = [i \in 1 .. Len(h) + 1 |-> before[i]]
    BY <1>6, <1>7
  <2>2. Append(h, then) \in [1 .. Len(h) + 1 -> Plans]
    BY <1>8, LenProperties
  <2>3. QED
    BY <1>9, <2>1, <2>2
<1>11. QED
  BY <1>8, <1>10 DEF then, before

LEMMA BeforeIsThat ==
  ASSUME TypeOK, draft.mark \in 0 .. live.asked
  PROVE  /\ Before = Append(past, SubSeq(live.plan, 1, draft.mark))
         /\ Before \in Seq(Plans)
<1>1. past \in Seq(Plans) /\ live.plan \in Plans /\ live.asked \in 0 .. Len(live.plan)
  BY DEF TypeOK
<1>2. Before = AsTheyWere(past, live.plan, live.asked, draft.mark)
  BY DEF Before, Sessions, Asked, AsTheyWere
<1>3. QED
  BY <1>1, <1>2, BeforeIs

(* The recent part of what the request remembers.                          *)
LEMMA RecentIs ==
  ASSUME TypeOK, Remembered, Drawing
  PROVE  Recent = Latest(RecentSessions, draft.seen)
<1>1. draft.mark \in 0 .. live.asked
  BY DraftAtHand DEF Remembered, TypeOK
<1>2. Before \in Seq(Plans)
  BY <1>1, BeforeIsThat
<1>3. QED
  BY <1>2, BoundsAreNumbers, LatestOfLatest DEF Recent, Remembered

LEMMA AskedIsNumber ==
  ASSUME TypeOK, Drawing, NEW t
  PROVE  /\ IsFiniteSet({q \in Range(draft.plan) : TypeOf[q] = t})
         /\ AskedOf(t) \in Nat
<1>1. IsFiniteSet(Range(draft.plan))
  BY DraftAtHand, PlanCounts
<1>2. {q \in Range(draft.plan) : TypeOf[q] = t} \in SUBSET Range(draft.plan)
  OBVIOUS
<1>3. QED
  BY <1>1, <1>2, FS_Subset, FS_CardinalityType DEF AskedOf

(* The next type has a question left, and none that has was asked less.    *)
LEMMA NextTypeIsLeast ==
  ASSUME TypeOK, Drawing, Open # {}
  PROVE  /\ \E i \in Open : NextType = draft.types[i]
         /\ \A j \in Open : AskedOf(NextType) <= AskedOf(draft.types[j])
<1> DEFINE counts == {AskedOf(draft.types[i]) : i \in Open}
           least  == {i \in Open : \A j \in Open : AskedOf(draft.types[i]) <= AskedOf(draft.types[j])}
<1>1. Open \subseteq Nat
  BY DraftAtHand, LenProperties DEF Open
<1>2. counts \subseteq Nat /\ counts # {}
  BY AskedIsNumber
<1>3. Min(counts) \in counts /\ \A n \in counts : Min(counts) <= n
  BY <1>2, MinIsLeast
<1>4. least # {} /\ least \subseteq Nat
  <2>1. PICK i \in Open : Min(counts) = AskedOf(draft.types[i])
    BY <1>3
  <2>2. \A j \in Open : AskedOf(draft.types[i]) <= AskedOf(draft.types[j])
    BY <1>3, <2>1
  <2>3. QED
    BY <1>1, <2>2
<1>5. Min(least) \in least
  BY <1>4, MinIsLeast
<1>6. NextType = draft.types[Min(least)]
  BY DEF NextType
<1>7. QED
  BY <1>5, <1>6

-----------------------------------------------------------------------------
(* The steps of planning *)

(* What a draw adds to the plan.                                           *)
LEMMA DrawAdds ==
  ASSUME PlanInv, Draw
  PROVE  \E q \in Remaining :
           /\ q \in Questions /\ q \in draft.pool /\ q \notin Planned
           /\ TypeOf[q] = NextType
           /\ q \in Fresh \/ (Fresh = {} /\ q \in LeastRecentlySeen)
           /\ draft' = [draft EXCEPT !.plan = Append(draft.plan, q)]
           /\ draft' \in Draft
           /\ draft'.plan = Append(draft.plan, q) /\ draft'.pool = draft.pool
           /\ draft'.types = draft.types /\ draft'.count = draft.count
           /\ draft'.seen = draft.seen /\ draft'.mark = draft.mark
<1>1. Drawing /\ TypeOK
  BY DEF Draw, PlanInv
<1>2. PICK q \in IF Fresh # {} THEN Fresh ELSE LeastRecentlySeen :
        draft' = [draft EXCEPT !.plan = Append(draft.plan, q)]
  BY DEF Draw
<1>3. /\ q \in Remaining /\ TypeOf[q] = NextType
      /\ q \in Fresh \/ (Fresh = {} /\ q \in LeastRecentlySeen)
  BY <1>2 DEF Fresh, LeastRecentlySeen
<1>4. q \in Questions /\ q \in draft.pool /\ q \notin Planned
  BY <1>1, <1>3, DraftAtHand DEF Remaining, Planned
<1>5. Append(draft.plan, q) \in Plans
  BY <1>1, <1>4, DraftAtHand, PlanGrows DEF Planned
<1>6. /\ draft' \in Draft
      /\ draft'.plan = Append(draft.plan, q) /\ draft'.pool = draft.pool
      /\ draft'.types = draft.types /\ draft'.count = draft.count
      /\ draft'.seen = draft.seen /\ draft'.mark = draft.mark
  BY <1>1, <1>2, <1>5, DraftAtHand DEF Draft
<1>7. QED
  BY <1>2, <1>3, <1>4, <1>6

(* The type drawn from has one more, the others as many as before.         *)
LEMMA DrawCounts ==
  ASSUME TypeOK, Drawing, NEW q \in Questions, q \notin Planned,
         draft'.plan = Append(draft.plan, q), NEW t
  PROVE  /\ Planned' = Planned \cup {q}
         /\ AskedOf(t)' = IF TypeOf[q] = t THEN AskedOf(t) + 1 ELSE AskedOf(t)
<1> DEFINE of  == {p \in Range(draft.plan) : TypeOf[p] = t}
           ofN == {p \in Range(Append(draft.plan, q)) : TypeOf[p] = t}
<1>1. Range(Append(draft.plan, q)) = Range(draft.plan) \cup {q}
  BY DraftAtHand, PlanGrows DEF Planned
<1>2. IsFiniteSet(of) /\ AskedOf(t) = Cardinality(of)
  BY AskedIsNumber DEF AskedOf
<1>3. AskedOf(t)' = Cardinality(ofN)
  BY DEF AskedOf
<1>4. ofN = IF TypeOf[q] = t THEN of \cup {q} ELSE of
  BY <1>1
<1>5. q \notin of
  BY DEF Planned
<1>6. Cardinality(of \cup {q}) = Cardinality(of) + 1
  BY <1>2, <1>5, FS_AddElement
<1>7. QED
  BY <1>1, <1>2, <1>3, <1>4, <1>6 DEF Planned

LEMMA DrawKeepsMixed ==
  ASSUME PlanInv, Draw
  PROVE  Chosen' /\ Mixed'
<1>1. TypeOK /\ Drawing /\ Unfinished /\ Open # {} /\ Chosen /\ Mixed
  BY DEF PlanInv, Draw, Unfinished
<1>2. PICK q \in Remaining :
        /\ q \in Questions /\ q \in draft.pool /\ q \notin Planned /\ TypeOf[q] = NextType
        /\ draft'.plan = Append(draft.plan, q) /\ draft'.pool = draft.pool
        /\ draft'.types = draft.types /\ draft'.count = draft.count
  BY DrawAdds
<1>3. /\ Planned' = Planned \cup {q}
      /\ \A t : AskedOf(t)' = IF TypeOf[q] = t THEN AskedOf(t) + 1 ELSE AskedOf(t)
  BY <1>1, <1>2, DrawCounts
<1>4. Len(draft.plan) \in Nat /\ draft.count \in Nat /\ Len(draft'.plan) = Len(draft.plan) + 1
  BY <1>1, <1>2, DraftAtHand, PlanGrows, PlansAreSequences, LenProperties DEF Planned
<1>5. Chosen'
  <2>1. Len(draft'.plan) <= draft'.count
    BY <1>1, <1>2, <1>4 DEF Unfinished
  <2>2. Planned' \subseteq draft'.pool
    BY <1>1, <1>2, <1>3 DEF Chosen
  <2>3. \A p \in draft'.pool : TypeOf[p] \in Range(draft'.types)
    BY <1>1, <1>2 DEF Chosen
  <2>4. QED
    BY <2>1, <2>2, <2>3 DEF Chosen
<1>6. Mixed'
  <2> SUFFICES ASSUME NEW t \in Range(draft.types), NEW u \in Range(draft.types),
                      AskedOf(t)' > AskedOf(u)' + 1
               PROVE  Type(u) \subseteq Planned'
    BY <1>2 DEF Mixed, Type
  <2>1. AskedOf(t) \in Nat /\ AskedOf(u) \in Nat
    BY <1>1, AskedIsNumber
  <2>2. CASE AskedOf(t) > AskedOf(u) + 1
    BY <1>1, <1>3, <2>2 DEF Mixed
  <2>3. CASE ~(AskedOf(t) > AskedOf(u) + 1)
    <3>1. TypeOf[q] = t /\ AskedOf(t) + 1 > AskedOf(u)' + 1
      BY <1>3, <2>1, <2>3
    <3>2. u # t
      BY <1>3, <2>1, <3>1
    <3>3. AskedOf(t) > AskedOf(u)
      BY <1>3, <2>1, <3>1, <3>2
    <3>4. \A j \in Open : draft.types[j] # u
      BY <1>1, <1>2, <2>1, <3>1, <3>3, NextTypeIsLeast
    <3>5. \A p \in Remaining : TypeOf[p] # u
      BY <3>4 DEF Open, Range
    <3>6. QED
      BY <1>3, <3>5 DEF Type, Remaining, Planned
  <2>4. QED
    BY <2>2, <2>3
<1>7. QED
  BY <1>5, <1>6

(* Nothing but the plan changes: the request remembers the same.           *)
LEMMA DrawRemembers ==
  ASSUME PlanInv, Draw
  PROVE  /\ TypeOK' /\ Remembered'
         /\ Recent' = Latest(RecentSessions, draft.seen)
         /\ Recent = Latest(RecentSessions, draft.seen)
<1>1. TypeOK /\ Drawing /\ Remembered /\ past' = past /\ live' = live
  BY DEF PlanInv, Draw
<1>2. /\ draft' \in Draft /\ draft'.seen = draft.seen /\ draft'.mark = draft.mark
  BY DrawAdds
<1>3. TypeOK'
  BY <1>1, <1>2 DEF TypeOK
<1>4. Before' = Before
  BY <1>1, <1>2 DEF Before, Sessions, Asked
<1>5. Remembered'
  BY <1>1, <1>2, <1>4 DEF Remembered
<1>6. Recent' = Recent
  BY <1>4 DEF Recent
<1>7. QED
  BY <1>1, <1>3, <1>5, <1>6, RecentIs

LEMMA DrawSpaces ==
  ASSUME PlanInv, Draw
  PROVE  RepeatsAreSpaced'
<1>1. TypeOK /\ Drawing /\ RepeatsAreSpaced
  BY DEF PlanInv, Draw
<1>2. PICK q \in Remaining :
        /\ q \in Questions /\ q \in draft.pool /\ q \notin Planned /\ TypeOf[q] = NextType
        /\ q \in Fresh \/ (Fresh = {} /\ q \in LeastRecentlySeen)
        /\ draft'.plan = Append(draft.plan, q) /\ draft'.pool = draft.pool
  BY DrawAdds
<1>3. /\ Recent' = Recent /\ Recent = Latest(RecentSessions, draft.seen)
  BY DrawRemembers
<1> DEFINE n == Len(draft.plan)
<1>4. /\ draft.plan \in Plans /\ n \in Nat /\ DOMAIN draft.plan = 1 .. n
      /\ draft.plan \in Seq(Questions)
  BY <1>1, DraftAtHand, PlansAreSequences, LenProperties
<1>5. /\ draft'.plan \in Plans /\ Len(draft'.plan) = n + 1
      /\ draft'.plan[n + 1] = q /\ \A i \in 1 .. n : draft'.plan[i] = draft.plan[i]
      /\ Range(draft'.plan) = Range(draft.plan) \cup {q}
  BY <1>2, <1>4, PlanGrows DEF Planned
<1>6. DOMAIN draft'.plan = 1 .. n + 1 /\ draft'.plan \in Seq(Questions)
  BY <1>5, PlansAreSequences, LenProperties
<1> SUFFICES ASSUME NEW i \in 1 .. n + 1, AskedIn(draft'.plan[i], Recent),
                    NEW p \in draft.pool, TypeOf[p] = TypeOf[draft'.plan[i]],
                    p \notin Range(SubSeq(draft'.plan, 1, i))
             PROVE  AskedIn(p, Recent) /\ LastSeenNoLater(draft'.plan[i], p, Recent)
  BY <1>2, <1>3, <1>6 DEF RepeatsAreSpaced, Type, AskedIn, LastSeenNoLater
<1>7. CASE i \in 1 .. n
  <2>1. SubSeq(draft'.plan, 1, i) = SubSeq(draft.plan, 1, i)
    <3>1. i \in 0 .. n /\ i \in 0 .. n + 1
      BY <1>4, <1>7
    <3>2. /\ SubSeq(draft.plan, 1, i) \in Plans /\ Len(SubSeq(draft.plan, 1, i)) = i
          /\ \A j \in 1 .. i : SubSeq(draft.plan, 1, i)[j] = draft.plan[j]
      BY <1>4, <3>1, PlanCutShort
    <3>3. /\ SubSeq(draft'.plan, 1, i) \in Plans /\ Len(SubSeq(draft'.plan, 1, i)) = i
          /\ \A j \in 1 .. i : SubSeq(draft'.plan, 1, i)[j] = draft'.plan[j]
      BY <1>5, <3>1, PlanCutShort
    <3>4. \A j \in 1 .. i : j \in 1 .. n
      BY <1>4, <1>7
    <3>5. /\ SubSeq(draft.plan, 1, i) \in Seq(Questions)
          /\ SubSeq(draft'.plan, 1, i) \in Seq(Questions)
      BY <3>2, <3>3, PlansAreSequences
    <3>6. QED
      BY <1>5, <3>2, <3>3, <3>4, <3>5, SeqEqual
  <2>2. draft'.plan[i] = draft.plan[i]
    BY <1>5, <1>7
  <2>3. p \in Type(TypeOf[draft.plan[i]]) \ Range(SubSeq(draft.plan, 1, i))
    BY <2>1, <2>2 DEF Type
  <2>4. QED
    BY <1>1, <1>4, <1>7, <2>2, <2>3 DEF RepeatsAreSpaced
<1>8. CASE i = n + 1
  <2>1. draft'.plan[i] = q /\ SubSeq(draft'.plan, 1, i) = draft'.plan
    BY <1>5, <1>6, <1>8, SubSeqFull
  <2>2. p \in Remaining /\ TypeOf[p] = NextType
    BY <1>2, <1>5, <2>1 DEF Remaining
  <2>3. SeenRecently(q)
    BY <1>3, <2>1 DEF SeenRecently
  <2>4. Fresh = {} /\ q \in LeastRecentlySeen
    BY <1>2, <2>3 DEF Fresh
  <2>5. AskedIn(p, Recent)
    BY <1>3, <2>2, <2>4 DEF Fresh, SeenRecently
  <2>6. LastSeenNoLater(q, p, draft.seen)
    BY <2>2, <2>4 DEF LeastRecentlySeen
  <2>7. LastSeenNoLater(q, p, Recent)
    BY <1>1, <1>3, <2>6, DraftAtHand, BoundsAreNumbers, LastSeenOfLatest
  <2>8. QED
    BY <2>1, <2>5, <2>7
<1>9. QED
  BY <1>4, <1>7, <1>8

(* The running session going on does not reach what was remembered.        *)
LEMMA AskKeepsPlan ==
  ASSUME PlanInv, Ask
  PROVE  PlanInv'
<1>1. /\ TypeOK /\ Chosen /\ Mixed /\ Remembered /\ RepeatsAreSpaced
      /\ past' = past /\ draft' = draft
  BY DEF PlanInv, Ask
<1>2. live.plan \in Plans /\ live.asked \in Nat /\ Len(live.plan) \in Nat
  BY <1>1, PlansAreSequences, LenProperties DEF TypeOK
<1>3. live'.plan = live.plan /\ live'.asked = live.asked + 1 /\ live.asked < Len(live.plan)
  BY DEF Ask
<1>4. TypeOK'
  BY <1>1, <1>2, <1>3 DEF TypeOK
<1>5. Drawing => Before' = Before
  <2>1. SUFFICES ASSUME Drawing PROVE Before' = Before
    OBVIOUS
  <2>2. draft.mark \in 0 .. live.asked /\ draft.mark \in 0 .. live.asked + 1
    BY <1>1, <1>2, <2>1, DraftAtHand DEF Remembered
  <2>3. Before = Append(past, SubSeq(live.plan, 1, draft.mark))
    BY <1>1, <2>2, BeforeIsThat
  <2>4. Before' = Append(past, SubSeq(live.plan, 1, draft.mark))
    <3>1. past \in Seq(Plans) /\ live.plan \in Plans /\ live.asked + 1 \in 0 .. Len(live.plan)
      BY <1>1, <1>2, <1>3 DEF TypeOK
    <3>2. Before' = AsTheyWere(past, live.plan, live.asked + 1, draft.mark)
      BY <1>1, <1>3 DEF Before, Sessions, Asked, AsTheyWere
    <3>3. QED
      BY <2>2, <3>1, <3>2, BeforeIs
  <2>5. QED
    BY <2>3, <2>4
<1>6. Drawing' <=> Drawing
  BY <1>1 DEF Drawing
<1>7. Remembered'
  <2>1. Drawing => draft.mark \in Nat
    BY <1>1, DraftAtHand
  <2>2. QED
    BY <1>1, <1>2, <1>3, <1>5, <1>6, <2>1 DEF Remembered
<1>8. Chosen' /\ Mixed'
  BY <1>1 DEF Chosen, Mixed, Drawing, Planned, AskedOf, Type
<1>9. RepeatsAreSpaced'
  BY <1>1, <1>5, <1>6 DEF RepeatsAreSpaced, Recent, Type
<1>10. QED
  BY <1>4, <1>7, <1>8, <1>9 DEF PlanInv

LEMMA EmptyPlan == <<>> \in Plans /\ Len(<<>>) = 0 /\ Range(<<>>) = {}
<1>1. <<>> \in Seq(Questions) /\ Len(<<>>) = 0 /\ DOMAIN <<>> = {}
  BY EmptySeq
<1>2. Len(<<>>) <= Cardinality(Questions)
  BY <1>1, PlanAssumption, FS_CardinalityType DEF PlanAssumption
<1>3. IsInjective(<<>>)
  BY <1>1 DEF IsInjective
<1>4. Range(<<>>) = {}
  BY <1>1 DEF Range
<1>5. QED
  BY <1>1, <1>2, <1>3, <1>4, PlansAreSequences

LEMMA SessionsArePlans ==
  ASSUME TypeOK
  PROVE  Sessions \in Seq(Plans)
<1>1. past \in Seq(Plans) /\ Asked \in Plans
  BY PlanCutShort DEF TypeOK, Asked
<1>2. QED
  BY <1>1, AppendProperties DEF Sessions

LEMMA TypesAreTypes ==
  ASSUME NEW types \in TypesFor
  PROVE  types \in Seq(Types)
<1>1. Supported \in Seq(Types) /\ Range(Supported) \subseteq Types
  BY PlanAssumption, RangeOfSeq DEF PlanAssumption
<1>2. ASSUME types \in SeqOf(Range(Supported), Len(Supported))
      PROVE  types \in Seq(Types)
  <2>1. Len(Supported) \in Nat
    BY <1>1, LenProperties
  <2>2. PICK m \in 0 .. Len(Supported) : types \in [1 .. m -> Range(Supported)]
    BY <1>2 DEF SeqOf
  <2>3. m \in Nat /\ types \in [1 .. m -> Types]
    BY <1>1, <2>1, <2>2
  <2>4. QED
    BY <2>3
<1>3. QED
  BY <1>1, <1>2 DEF TypesFor

(* A request that begins remembers the sessions as they are.               *)
LEMMA ReadKeepsPlan ==
  ASSUME PlanInv, Read
  PROVE  PlanInv'
<1>1. TypeOK /\ past' = past /\ live' = live
  BY DEF PlanInv, Read
<1>2. PICK shown \in SUBSET Questions, types \in TypesFor, stack \in Stacks \cup {None},
           count \in Budgets :
        draft' = [pool |-> Eligible(shown, types, stack), types |-> types, count |-> count,
                  seen |-> Latest(HistorySessions, Sessions), mark |-> live.asked, plan |-> <<>>]
  BY DEF Read
<1>3. /\ draft'.pool = Eligible(shown, types, stack) /\ draft'.types = types
      /\ draft'.count = count /\ draft'.seen = Latest(HistorySessions, Sessions)
      /\ draft'.mark = live.asked /\ draft'.plan = <<>>
  BY <1>2
<1>4. draft' \in Draft
  <2>1. Eligible(shown, types, stack) \in SUBSET Questions
    BY DEF Eligible
  <2>2. types \in Seq(Types)
    BY TypesAreTypes
  <2>3. Latest(HistorySessions, Sessions) \in Seq(Plans)
    BY <1>1, SessionsArePlans, BoundsAreNumbers, LatestFacts
  <2>4. live.asked \in Nat
    BY <1>1, PlansAreSequences, LenProperties DEF TypeOK
  <2>5. QED
    BY <1>2, <2>1, <2>2, <2>3, <2>4, EmptyPlan DEF Draft
<1>5. TypeOK'
  BY <1>1, <1>4 DEF TypeOK
<1>6. Chosen'
  <2>1. \A q \in Eligible(shown, types, stack) : TypeOf[q] \in Range(types)
    BY DEF Eligible
  <2>2. count \in Nat
    BY PlanAssumption DEF PlanAssumption
  <2>3. QED
    BY <1>3, <2>1, <2>2, EmptyPlan DEF Chosen, Planned
<1>7. Mixed'
  <2>1. \A t : AskedOf(t)' = 0
    <3>1. TAKE t
    <3>2. {q \in Range(draft'.plan) : TypeOf[q] = t} = {}
      BY <1>3, EmptyPlan
    <3>3. QED
      BY <3>2, FS_EmptySet DEF AskedOf
  <2>2. QED
    BY <2>1 DEF Mixed
<1>8. Remembered'
  <2>1. live.asked \in 0 .. Len(live.plan) /\ live.asked \in 0 .. live.asked
    BY <1>1, PlansAreSequences, LenProperties DEF TypeOK
  <2>2. Before' = AsTheyWere(past, live.plan, live.asked, live.asked)
    BY <1>1, <1>3 DEF Before, Sessions, Asked, AsTheyWere
  <2>3. past \in Seq(Plans) /\ live.plan \in Plans
    BY <1>1 DEF TypeOK
  <2>4. Before' = Sessions
    BY <2>1, <2>2, <2>3, BeforeIs DEF Sessions, Asked
  <2>5. QED
    BY <1>1, <1>3, <2>1, <2>4 DEF Remembered
<1>9. RepeatsAreSpaced'
  BY <1>3, EmptyPlan DEF RepeatsAreSpaced
<1>10. QED
  BY <1>5, <1>6, <1>7, <1>8, <1>9 DEF PlanInv

(* Without a draft only the types have to be kept.                         *)
LEMMA IdleKeepsPlan ==
  ASSUME TypeOK', draft' = NoDraft
  PROVE  PlanInv'
<1>1. ~Drawing'
  BY DEF Drawing
<1>2. QED
  BY <1>1 DEF PlanInv, Chosen, Mixed, Remembered, RepeatsAreSpaced

LEMMA EndKeepsPlan ==
  ASSUME PlanInv, Create \/ Fails
  PROVE  PlanInv'
<1>1. TypeOK
  BY DEF PlanInv
<1>2. CASE Create
  <2>1. draft' = NoDraft /\ live' = [plan |-> draft.plan, asked |-> 0] /\ draft.plan \in Plans
    BY <1>1, <1>2, DraftAtHand DEF Create
  <2>2. past' \in Seq(Plans) /\ Len(past') <= Kept
    <3>1. past' = past \/ past' = Latest(Kept, Sessions)
      BY <1>2 DEF Create
    <3>2. /\ Latest(Kept, Sessions) \in Seq(Plans)
          /\ Len(Latest(Kept, Sessions)) = IF Len(Sessions) > Kept THEN Kept ELSE Len(Sessions)
          /\ Len(Sessions) \in Nat
      BY <1>1, SessionsArePlans, BoundsAreNumbers, LatestFacts, LenProperties
    <3>3. Len(Latest(Kept, Sessions)) <= Kept
      BY <3>2, BoundsAreNumbers
    <3>4. QED
      BY <1>1, <3>1, <3>2, <3>3 DEF TypeOK
  <2>3. live'.plan \in Plans /\ live'.asked \in 0 .. Len(live'.plan)
    BY <2>1, PlansAreSequences, LenProperties
  <2>4. TypeOK'
    BY <2>1, <2>2, <2>3 DEF TypeOK
  <2>5. QED
    BY <2>1, <2>4, IdleKeepsPlan
<1>3. CASE Fails
  <2>1. draft' = NoDraft /\ TypeOK'
    BY <1>1, <1>3 DEF Fails, TypeOK
  <2>2. QED
    BY <2>1, IdleKeepsPlan
<1>4. QED
  BY <1>2, <1>3

LEMMA PlanStarts == Init => PlanInv
<1> SUFFICES ASSUME Init PROVE PlanInv
  OBVIOUS
<1>1. past = <<>> /\ live.plan = <<>> /\ live.asked = 0 /\ draft = NoDraft
  BY DEF Init
<1>2. past \in Seq(Plans) /\ Len(past) <= Kept
  BY <1>1, EmptySeq, BoundsAreNumbers
<1>3. TypeOK
  BY <1>1, <1>2, EmptyPlan DEF TypeOK
<1>4. QED
  BY <1>1, <1>3 DEF PlanInv, Chosen, Mixed, Remembered, RepeatsAreSpaced, Drawing

LEMMA PlanStep == PlanInv /\ [Next]_vars => PlanInv'
<1> SUFFICES ASSUME PlanInv, [Next]_vars PROVE PlanInv'
  OBVIOUS
<1>1. CASE Ask
  BY <1>1, AskKeepsPlan
<1>2. CASE Read
  BY <1>2, ReadKeepsPlan
<1>3. CASE Draw
  BY <1>3, DrawKeepsMixed, DrawRemembers, DrawSpaces DEF PlanInv
<1>4. CASE Create \/ Fails
  BY <1>4, EndKeepsPlan
<1>5. CASE UNCHANGED vars
  BY <1>5 DEF vars, PlanInv, TypeOK, Chosen, Mixed, Remembered, RepeatsAreSpaced, Drawing,
              Planned, AskedOf, Type, Recent, Before, Sessions, Asked
<1>6. QED
  BY <1>1, <1>2, <1>3, <1>4, <1>5 DEF Next

THEOREM PlanInvariance == Spec => []PlanInv
  BY PlanStarts, PlanStep, PTL DEF Spec

(* Plans never ask twice, drafts and histories are what they should be,    *)
(* for any questions and any history.                                      *)
THEOREM PlansTyped == Spec => []TypeOK
<1>1. PlanInv => TypeOK
  BY DEF PlanInv
<1>2. QED
  BY <1>1, PlanInvariance, PTL

(* Whatever is published, whatever types are asked for and however long    *)
(* the interview: the plan is as mixed as the pool allows at every point,  *)
(* as long as it can be, and asks nothing twice.                           *)
THEOREM PlansAreMixedAndFull == Spec => []MixedAndFull
<1>1. ASSUME PlanInv PROVE MixedAndFull
  <2> SUFFICES ASSUME Drawing
               PROVE  /\ \A t, u \in Range(draft.types) :
                           AskedOf(t) > AskedOf(u) + 1 => Type(u) \subseteq Planned
                      /\ ~Unfinished => Len(draft.plan) = draft.count \/ Planned = draft.pool
                      /\ Cardinality(Planned) = Len(draft.plan) /\ Planned \subseteq draft.pool
    BY DEF MixedAndFull
  <2>1. TypeOK /\ Chosen /\ Mixed
    BY <1>1 DEF PlanInv
  <2>2. /\ draft.plan \in Plans /\ draft.count \in Nat /\ draft.types \in Seq(Types)
        /\ Len(draft.plan) \in Nat
    BY <2>1, DraftAtHand, PlansAreSequences, LenProperties
  <2>3. ASSUME ~Unfinished, Len(draft.plan) # draft.count PROVE Planned = draft.pool
    <3>1. Open = {}
      BY <2>1, <2>2, <2>3 DEF Unfinished, Chosen
    <3>2. \A q \in Remaining : TypeOf[q] \notin Range(draft.types)
      BY <3>1 DEF Open, Range
    <3>3. QED
      BY <2>1, <3>2 DEF Remaining, Chosen, Planned
  <2>4. QED
    BY <2>1, <2>2, <2>3, PlanCounts DEF Chosen, Mixed, Planned
<1>2. QED
  BY <1>1, PlanInvariance, PTL

(* Whatever was asked before, and whatever the running session asks        *)
(* meanwhile: a question of the last sessions comes back only when its     *)
(* type has nothing else left, the one asked longest ago first.            *)
THEOREM PlansSpaceRepeats == Spec => []RepeatsAreSpaced
<1>1. PlanInv => RepeatsAreSpaced
  BY DEF PlanInv
<1>2. QED
  BY <1>1, PlanInvariance, PTL

-----------------------------------------------------------------------------
(* Rounding and readings *)

Reading == [Criteria -> [score : 0 .. MaxScore, quoted : BOOLEAN]]

(* A rounded ratio is within a half of it.                                 *)
LEMMA PercentBounds ==
  ASSUME NEW r, r.num \in Nat, r.den \in Nat \ {0}, NEW n \in Percent(r)
  PROVE  /\ n \in Nat
         /\ 2 * r.num <= 2 * (r.den * n) + r.den
         /\ 2 * (r.den * n) <= 2 * r.num + r.den
<1> DEFINE num == r.num
           den == r.den
           twice == 2 * num + den
           d == 2 * den
           up == twice \div d
<1>1. num \in Nat /\ den \in Nat /\ den > 0 /\ twice \in Nat /\ d \in Nat /\ d > 0
  OBVIOUS
<1>2. n = up \/ (n = up - 1 /\ n >= 0 /\ twice % d = 0)
  BY DEF Percent
<1> HIDE DEF twice, d, num, den
<1>3. \A a, b \in Int : b > 0 => /\ a \div b \in Int /\ a % b \in Int
                                 /\ b * (a \div b) <= a /\ a < b * (a \div b) + b
                                 /\ a = b * (a \div b) + (a % b)
  OBVIOUS
<1>4. up \in Int /\ d * up <= twice /\ twice < d * up + d /\ twice = d * up + (twice % d)
  BY <1>1, <1>3
<1> HIDE DEF up
<1>5. up >= 0
  <2>1. up + 1 <= 0 => d * up + d <= 0
    <3>1. d * (up + 1) = d * up + d
      BY <1>1, <1>4
    <3>2. \A a, b \in Int : a > 0 /\ b <= 0 => a * b <= 0
      OBVIOUS
    <3>3. QED
      BY <1>1, <1>4, <3>1, <3>2
  <2>2. QED
    BY <1>1, <1>4, <2>1
<1>6. /\ n \in Nat /\ 2 * num <= d * n + den /\ d * n <= 2 * num + den
  <2>1. twice = 2 * num + den /\ d = 2 * den
    BY DEF twice, d
  <2>2. CASE n = up
    BY <1>1, <1>4, <1>5, <2>1, <2>2
  <2>3. CASE n = up - 1 /\ n >= 0 /\ twice % d = 0
    <3>1. d * up = twice
      BY <1>1, <1>4, <2>3
    <3>2. d * n = d * up - d
      BY <1>1, <1>4, <2>3
    <3>3. QED
      BY <1>1, <1>4, <2>1, <2>3, <3>1, <3>2
  <2>4. QED
    BY <1>2, <2>2, <2>3
<1>7. d * n = 2 * (den * n)
  BY <1>1, <1>6 DEF d
<1>8. QED
  BY <1>6, <1>7 DEF num, den

LEMMA RubricIs ==
  ASSUME rubric \in Rubrics
  PROVE  /\ rubric.topic \in Topics
         /\ \A c \in Criteria : rubric.weight[c] \in 1 .. 100
         /\ rubric.probes \in Seq(Criteria)
         /\ \A i \in DOMAIN rubric.probes : rubric.probes[i] \in Criteria
<1>1. rubric \in Rubric
  BY ScoringAssumption DEF ScoringAssumption
<1>2. rubric.weight \in [Criteria -> 1 .. 100] /\ rubric.probes \in Seq(Criteria) /\ rubric.topic \in Topics
  BY <1>1 DEF Rubric
<1>3. \A i \in DOMAIN rubric.probes : rubric.probes[i] \in Criteria
  <2>1. rubric.probes \in [1 .. Len(rubric.probes) -> Criteria]
    BY <1>2, LenProperties
  <2>2. QED
    BY <2>1
<1>4. QED
  BY <1>2, <1>3

(* What is not assessed was given nothing, and was asked of nobody.        *)
LEMMA NotAssessedIs ==
  ASSUME rubric \in Rubrics, NEW reading \in Reading, NEW probed \in SUBSET DOMAIN rubric.probes
  PROVE  /\ NotAssessedCriteria(reading, probed) \subseteq Criteria
         /\ Criteria \ NotAssessedCriteria(reading, probed) # {}
         /\ PromptedBy(probed) \subseteq Criteria \ NotAssessedCriteria(reading, probed)
         /\ \A c \in NotAssessedCriteria(reading, probed) :
              reading[c].score = 0 /\ ~reading[c].quoted
<1>1. PromptedBy(probed) \subseteq Criteria /\ Range(rubric.probes) \subseteq Criteria
  BY RubricIs DEF PromptedBy, Range
<1>2. Criteria # {}
  BY ScoringAssumption DEF ScoringAssumption
<1>3. QED
  BY <1>1, <1>2 DEF NotAssessedCriteria, UnaskedAfter

LEMMA SharesAre ==
  ASSUME rubric \in Rubrics, NEW reading \in Reading, NEW probed, NEW c \in Criteria
  PROVE  /\ reading[c].score \in 0 .. 4 /\ rubric.weight[c] \in 1 .. 100
         /\ reading[c].score * rubric.weight[c] \in Nat
         /\ Shares(reading, probed)[c] \in Nat
         /\ Shares(reading, probed)[c] =
              reading[c].score * rubric.weight[c] * (IF c \in PromptedBy(probed) THEN 85 ELSE 100)
         /\ 85 * (reading[c].score * rubric.weight[c]) <= Shares(reading, probed)[c]
         /\ Shares(reading, probed)[c] <= 100 * (reading[c].score * rubric.weight[c])
         /\ reading[c].score * rubric.weight[c] <= 4 * rubric.weight[c]
<1>1. reading[c] \in [score : 0 .. MaxScore, quoted : BOOLEAN]
  BY DEF Reading
<1>2. reading[c].score \in 0 .. 4 /\ rubric.weight[c] \in 1 .. 100
  BY <1>1, RubricIs DEF MaxScore
<1>3. Shares(reading, probed)[c] =
        reading[c].score * rubric.weight[c] * (IF c \in PromptedBy(probed) THEN 85 ELSE 100)
  BY DEF Shares
<1> DEFINE s == reading[c].score
           w == rubric.weight[c]
<1> HIDE DEF s, w
<1>4. s \in 0 .. 4 /\ w \in 1 .. 100
  BY <1>2 DEF s, w
<1>5. s * w \in Nat /\ s * w <= 4 * w
  BY <1>4
<1>6. \A p \in Nat : p * 85 = 85 * p /\ p * 100 = 100 * p /\ 85 * p <= 100 * p
  OBVIOUS
<1>7. Shares(reading, probed)[c] = (s * w) * 85 \/ Shares(reading, probed)[c] = (s * w) * 100
  BY <1>3 DEF s, w
<1>8. /\ Shares(reading, probed)[c] \in Nat
      /\ 85 * (s * w) <= Shares(reading, probed)[c] /\ Shares(reading, probed)[c] <= 100 * (s * w)
  <2> DEFINE p == s * w
  <2> HIDE DEF p
  <2>1. p \in Nat
    BY <1>5 DEF p
  <2>2. Shares(reading, probed)[c] = p * 85 \/ Shares(reading, probed)[c] = p * 100
    BY <1>7 DEF p
  <2>3. QED
    BY <2>1, <2>2 DEF p
<1>9. QED
  BY <1>2, <1>3, <1>5, <1>8 DEF s, w

LEMMA CriteriaAre ==
  IsFiniteSet(Criteria) /\ Criteria # {} /\ \A S \in SUBSET Criteria : IsFiniteSet(S)
  BY ScoringAssumption, FS_Subset DEF ScoringAssumption

(* Weights are positive, and what is assessed weighs no more than all.     *)
LEMMA WeightIs ==
  ASSUME rubric \in Rubrics, NEW B \in SUBSET Criteria, NEW A \in SUBSET B
  PROVE  /\ Weight(A) \in Nat /\ Weight(A) <= Weight(B)
         /\ A # {} => Weight(A) > 0
<1>1. \A c \in Criteria : rubric.weight[c] \in Nat /\ rubric.weight[c] > 0
  <2>1. \A n \in 1 .. 100 : n \in Nat /\ n > 0
    OBVIOUS
  <2>2. QED
    BY <2>1, RubricIs
<1>2. /\ \A S \in SUBSET Criteria : Weight(S) \in Nat
      /\ \A S, T \in SUBSET Criteria : S \subseteq T => Weight(S) <= Weight(T)
  <2>1. \A S \in SUBSET Criteria : Weight(S) \in Nat
    <3>1. TAKE S \in SUBSET Criteria
    <3>2. IsFiniteSet(S) /\ \A c \in S : rubric.weight[c] \in Nat
      BY <1>1, CriteriaAre
    <3>3. QED
      BY <3>2, SumNatural DEF Weight
  <2>2. \A S, T \in SUBSET Criteria : S \subseteq T => Weight(S) <= Weight(T)
    BY <1>1, CriteriaAre, SumGrows DEF Weight
  <2>3. QED
    BY <2>1, <2>2
<1>3. A # {} => Weight(A) > 0
  <2> SUFFICES ASSUME A # {} PROVE Weight(A) > 0
    OBVIOUS
  <2>1. PICK c \in A : TRUE
    OBVIOUS
  <2>2. Weight({c}) = rubric.weight[c]
    <3>1. \A x \in Criteria : rubric.weight[x] \in Int
      BY <1>1
    <3>2. /\ SumFunctionOnSet(rubric.weight, {}) = 0
          /\ \A S \in SUBSET Criteria : \A x \in Criteria \ S :
               SumFunctionOnSet(rubric.weight, S \cup {x})
                 = rubric.weight[x] + SumFunctionOnSet(rubric.weight, S)
      BY <3>1, CriteriaAre, SumFacts
    <3>3. SumFunctionOnSet(rubric.weight, {} \cup {c}) = rubric.weight[c] + 0
      BY <3>2
    <3>4. {} \cup {c} = {c} /\ rubric.weight[c] + 0 = rubric.weight[c]
      BY <1>1
    <3>5. QED
      BY <3>3, <3>4 DEF Weight
  <2>3. Weight({c}) <= Weight(A) /\ Weight({c}) \in Nat /\ Weight(A) \in Nat
    BY <1>2
  <2>4. rubric.weight[c] > 0
    BY <1>1
  <2>5. QED
    BY <2>2, <2>3, <2>4
<1>4. QED
  BY <1>2, <1>3

(* The numerator is over all criteria: what is left out had nothing.       *)
LEMMA RatioIs ==
  ASSUME rubric \in Rubrics, NEW reading \in Reading, NEW probed \in SUBSET DOMAIN rubric.probes
  PROVE  /\ Ratio(reading, probed).num = SumFunctionOnSet(Shares(reading, probed), Criteria)
         /\ Ratio(reading, probed).num \in Nat
         /\ Ratio(reading, probed).den
              = 4 * Weight(Criteria \ NotAssessedCriteria(reading, probed))
         /\ Ratio(reading, probed).den \in Nat \ {0}
<1> DEFINE N == NotAssessedCriteria(reading, probed)
           f == Shares(reading, probed)
<1>1. N \subseteq Criteria /\ Criteria \ N # {} /\ \A c \in N : reading[c].score = 0
  BY NotAssessedIs
<1>2. \A c \in Criteria : f[c] \in Nat /\ f[c] \in Int
  BY SharesAre
<1>3. \A c \in N : f[c] = 0
  <2>1. TAKE c \in N
  <2>2. 0 <= f[c] /\ f[c] <= 100 * (reading[c].score * rubric.weight[c])
        /\ reading[c].score = 0 /\ rubric.weight[c] \in 1 .. 100 /\ f[c] \in Nat
    BY <1>1, <1>2, SharesAre
  <2>3. reading[c].score * rubric.weight[c] = 0
    BY <2>2
  <2>4. QED
    BY <2>2, <2>3
<1>4. Ratio(reading, probed).num = SumFunctionOnSet(f, Criteria \ N)
  BY DEF Ratio
<1>5. Ratio(reading, probed).den = 4 * Weight(Criteria \ N)
  BY DEF Ratio, MaxScore
<1> HIDE DEF f, N
<1>6. SumFunctionOnSet(f, N) = 0
  <2>1. IsFiniteSet(N) /\ 0 \in Int
    BY <1>1, CriteriaAre
  <2>2. SumFunctionOnSet(f, N) = 0 * Cardinality(N)
    BY <1>3, <2>1, SumConstant
  <2>3. Cardinality(N) \in Nat
    BY <2>1, FS_CardinalityType
  <2>4. QED
    BY <2>2, <2>3
<1>7. SumFunctionOnSet(f, Criteria) = SumFunctionOnSet(f, Criteria \ N) + SumFunctionOnSet(f, N)
  <2>1. /\ N \in SUBSET Criteria /\ Criteria \ N \in SUBSET Criteria
        /\ (Criteria \ N) \cap N = {} /\ (Criteria \ N) \cup N = Criteria
    BY <1>1
  <2>2. QED
    BY <1>2, <2>1, CriteriaAre, SumUnion
<1>8. SumFunctionOnSet(f, Criteria) \in Nat /\ SumFunctionOnSet(f, Criteria \ N) \in Nat
  BY <1>2, CriteriaAre, SumNatural
<1>9. Weight(Criteria \ N) \in Nat /\ Weight(Criteria \ N) > 0
  BY <1>1, WeightIs
<1>10. Ratio(reading, probed).num = SumFunctionOnSet(f, Criteria)
  BY <1>4, <1>6, <1>7, <1>8
<1>11. 4 * Weight(Criteria \ N) \in Nat \ {0}
  BY <1>9
<1>12. QED
  BY <1>5, <1>8, <1>10, <1>11 DEF f, N

(* What the marks weigh.                                                   *)
Marks(reading) ==
  SumFunctionOnSet([c \in Criteria |-> reading[c].score * rubric.weight[c]], Criteria)

LEMMA MarksBound ==
  ASSUME rubric \in Rubrics, NEW reading \in Reading, NEW probed \in SUBSET DOMAIN rubric.probes
  PROVE  /\ Marks(reading) \in Nat
         /\ 85 * Marks(reading) <= Ratio(reading, probed).num
         /\ Ratio(reading, probed).num <= 100 * Marks(reading)
         /\ PromptedBy(probed) = {} => Ratio(reading, probed).num = 100 * Marks(reading)
         /\ RawRatio(reading).num = 100 * Marks(reading)
         /\ RawRatio(reading).den = 4 * Weight(Criteria)
         /\ RawRatio(reading).den \in Nat \ {0}
<1> DEFINE f == Shares(reading, probed)
           m == [c \in Criteria |-> reading[c].score * rubric.weight[c]]
           low == [c \in Criteria |-> 85 * m[c]]
           top == [c \in Criteria |-> 100 * m[c]]
           raw == [c \in Criteria |-> reading[c].score * rubric.weight[c] * 100]
<1>1. \A c \in Criteria :
        /\ m[c] \in Nat /\ m[c] \in Int /\ f[c] \in Int /\ low[c] = 85 * m[c] /\ top[c] = 100 * m[c]
        /\ low[c] \in Int /\ top[c] \in Int /\ low[c] <= f[c] /\ f[c] <= top[c]
  <2>1. TAKE c \in Criteria
  <2>2. m[c] \in Nat /\ f[c] \in Nat /\ 85 * m[c] <= f[c] /\ f[c] <= 100 * m[c]
    BY SharesAre
  <2>3. low[c] = 85 * m[c] /\ top[c] = 100 * m[c]
    OBVIOUS
  <2> HIDE DEF m, f, low, top
  <2>4. QED
    BY <2>2, <2>3
<1>2. raw = top
  <2>1. \A c \in Criteria : reading[c].score * rubric.weight[c] \in Nat
    BY SharesAre
  <2>2. \A n \in Nat : n * 100 = 100 * n
    OBVIOUS
  <2>3. \A c \in Criteria : reading[c].score * rubric.weight[c] * 100
                              = 100 * (reading[c].score * rubric.weight[c])
    BY <2>1, <2>2
  <2>4. QED
    BY <2>3
<1>3. /\ RawRatio(reading).num = SumFunctionOnSet(raw, Criteria)
      /\ RawRatio(reading).den = 4 * Weight(Criteria)
  BY DEF RawRatio, MaxScore
<1>4. Ratio(reading, probed).num = SumFunctionOnSet(f, Criteria)
  BY RatioIs
<1>5. Marks(reading) = SumFunctionOnSet(m, Criteria)
  BY DEF Marks
<1>6. ASSUME PromptedBy(probed) = {} PROVE f = top
  <2>1. \A c \in Criteria : reading[c].score * rubric.weight[c] \in Nat
    BY SharesAre
  <2>2. \A n \in Nat : n * 100 = 100 * n
    OBVIOUS
  <2>3. \A c \in Criteria : Shares(reading, probed)[c]
                              = 100 * (reading[c].score * rubric.weight[c])
    BY <1>6, <2>1, <2>2, SharesAre
  <2>4. \A c \in Criteria : f[c] = top[c]
    BY <2>3
  <2>5. f = [c \in Criteria |-> f[c]]
    BY DEF Shares
  <2>6. QED
    BY <2>4, <2>5
<1> HIDE DEF f, m, low, top, raw
<1>7. SumFunctionOnSet(low, Criteria) = 85 * SumFunctionOnSet(m, Criteria)
  <2>1. 85 \in Int /\ \A c \in Criteria : m[c] \in Int /\ low[c] = 85 * m[c]
    BY <1>1
  <2>2. QED
    BY <2>1, CriteriaAre, SumScale
<1>8. SumFunctionOnSet(top, Criteria) = 100 * SumFunctionOnSet(m, Criteria)
  <2>1. 100 \in Int /\ \A c \in Criteria : m[c] \in Int /\ top[c] = 100 * m[c]
    BY <1>1
  <2>2. QED
    BY <2>1, CriteriaAre, SumScale
<1>9. SumFunctionOnSet(low, Criteria) <= SumFunctionOnSet(f, Criteria)
  <2>1. \A c \in Criteria : low[c] \in Int /\ f[c] \in Int /\ low[c] <= f[c]
    BY <1>1
  <2>2. QED
    BY <2>1, CriteriaAre, SumMonotone
<1>10. SumFunctionOnSet(f, Criteria) <= SumFunctionOnSet(top, Criteria)
  <2>1. \A c \in Criteria : f[c] \in Int /\ top[c] \in Int /\ f[c] <= top[c]
    BY <1>1
  <2>2. QED
    BY <2>1, CriteriaAre, SumMonotone
<1>11. SumFunctionOnSet(m, Criteria) \in Nat
  BY <1>1, CriteriaAre, SumNatural
<1>12. Weight(Criteria) \in Nat /\ Weight(Criteria) > 0
  BY CriteriaAre, WeightIs
<1>13. 4 * Weight(Criteria) \in Nat \ {0}
  BY <1>12
<1>14. QED
  BY <1>2, <1>3, <1>4, <1>5, <1>6, <1>7, <1>8, <1>9, <1>10, <1>11, <1>13

(* No ratio is above one, and it is one when everything is full marks.     *)
LEMMA RatioWithin ==
  ASSUME rubric \in Rubrics, NEW reading \in Reading, NEW probed \in SUBSET DOMAIN rubric.probes
  PROVE  /\ Ratio(reading, probed).num <= 100 * Ratio(reading, probed).den
         /\ (\A c \in Criteria \ NotAssessedCriteria(reading, probed) :
               reading[c].score = MaxScore /\ c \notin PromptedBy(probed)) =>
              Ratio(reading, probed).num = 100 * Ratio(reading, probed).den
         /\ Marks(reading) <= 4 * Weight(Criteria)
<1> DEFINE A == Criteria \ NotAssessedCriteria(reading, probed)
           f == Shares(reading, probed)
           w == rubric.weight
           m == [c \in Criteria |-> reading[c].score * rubric.weight[c]]
           four == [c \in Criteria |-> 4 * w[c]]
           top == [c \in Criteria |-> 400 * w[c]]
<1>1. A \in SUBSET Criteria /\ IsFiniteSet(A) /\ IsFiniteSet(Criteria)
  BY CriteriaAre
<1>2. \A c \in Criteria :
        /\ w[c] \in Int /\ f[c] \in Int /\ m[c] \in Int /\ four[c] \in Int /\ top[c] \in Int
        /\ four[c] = 4 * w[c] /\ top[c] = 400 * w[c] /\ m[c] <= four[c] /\ f[c] <= top[c]
  <2>1. TAKE c \in Criteria
  <2>2. /\ reading[c].score * rubric.weight[c] \in Nat /\ f[c] \in Nat /\ w[c] \in 1 .. 100
        /\ f[c] <= 100 * (reading[c].score * rubric.weight[c])
        /\ reading[c].score * rubric.weight[c] <= 4 * w[c]
    BY SharesAre
  <2>3. m[c] = reading[c].score * rubric.weight[c] /\ four[c] = 4 * w[c] /\ top[c] = 400 * w[c]
    OBVIOUS
  <2> HIDE DEF f, w, m, four, top
  <2>4. QED
    BY <2>2, <2>3
<1>3. ASSUME \A c \in A : reading[c].score = MaxScore /\ c \notin PromptedBy(probed)
      PROVE  \A c \in A : f[c] = 400 * w[c]
  <2>1. TAKE c \in A
  <2>2. /\ f[c] = reading[c].score * w[c] * (IF c \in PromptedBy(probed) THEN 85 ELSE 100)
        /\ w[c] \in 1 .. 100
    BY SharesAre
  <2>3. f[c] = 4 * w[c] * 100
    BY <1>3, <2>2 DEF MaxScore
  <2> HIDE DEF f, w
  <2>4. QED
    BY <2>2, <2>3
<1>4. /\ Ratio(reading, probed).num = SumFunctionOnSet(f, A)
      /\ Ratio(reading, probed).den = 4 * SumFunctionOnSet(w, A)
  BY DEF Ratio, MaxScore, Weight
<1>5. Marks(reading) = SumFunctionOnSet(m, Criteria) /\ Weight(Criteria) = SumFunctionOnSet(w, Criteria)
  BY DEF Marks, Weight
<1> HIDE DEF A, f, w, m, four, top
<1>6. SumFunctionOnSet(top, A) = 400 * SumFunctionOnSet(w, A)
  <2>1. 400 \in Int /\ \A c \in A : w[c] \in Int /\ top[c] = 400 * w[c]
    BY <1>1, <1>2
  <2>2. QED
    BY <1>1, <2>1, SumScale
<1>7. SumFunctionOnSet(f, A) <= SumFunctionOnSet(top, A)
  <2>1. \A c \in A : f[c] \in Int /\ top[c] \in Int /\ f[c] <= top[c]
    BY <1>1, <1>2
  <2>2. QED
    BY <1>1, <2>1, SumMonotone
<1>8. SumFunctionOnSet(w, A) \in Int
  <2>1. \A c \in Criteria : w[c] \in Int
    BY <1>2
  <2>2. QED
    BY <1>1, <2>1, SumFacts
<1>9. ASSUME \A c \in A : reading[c].score = MaxScore /\ c \notin PromptedBy(probed)
      PROVE  SumFunctionOnSet(f, A) = 400 * SumFunctionOnSet(w, A)
  <2>1. 400 \in Int /\ \A c \in A : w[c] \in Int /\ f[c] = 400 * w[c]
    BY <1>1, <1>2, <1>3, <1>9
  <2>2. QED
    BY <1>1, <2>1, SumScale
<1>10. SumFunctionOnSet(m, Criteria) <= SumFunctionOnSet(four, Criteria)
  <2>1. \A c \in Criteria : m[c] \in Int /\ four[c] \in Int /\ m[c] <= four[c]
    BY <1>2
  <2>2. QED
    BY <1>1, <2>1, SumMonotone
<1>11. SumFunctionOnSet(four, Criteria) = 4 * SumFunctionOnSet(w, Criteria)
  <2>1. 4 \in Int /\ \A c \in Criteria : w[c] \in Int /\ four[c] = 4 * w[c]
    BY <1>2
  <2>2. QED
    BY <1>1, <2>1, SumScale
<1>12. \A n \in Int : 400 * n = 100 * (4 * n)
  OBVIOUS
<1>13. QED
  BY <1>4, <1>5, <1>6, <1>7, <1>8, <1>9, <1>10, <1>11, <1>12 DEF A

(* Asking about one more criterion never raises the number.                *)
LEMMA NudgesOnlyLower ==
  ASSUME rubric \in Rubrics, NEW reading \in Reading, NEW probed \in SUBSET DOMAIN rubric.probes,
         NEW i \in DOMAIN rubric.probes
  PROVE  LessOrEqual(Ratio(reading, probed \cup {i}), Ratio(reading, probed))
<1> DEFINE more == probed \cup {i}
           f == Shares(reading, probed)
           g == Shares(reading, more)
           N == NotAssessedCriteria(reading, probed)
           M == NotAssessedCriteria(reading, more)
<1>1. more \in SUBSET DOMAIN rubric.probes
  OBVIOUS
<1>2. PromptedBy(probed) \subseteq PromptedBy(more)
  BY DEF PromptedBy
<1>3. \A c \in Criteria : g[c] \in Nat /\ f[c] \in Nat /\ g[c] <= f[c]
  <2>1. TAKE c \in Criteria
  <2>2. /\ f[c] \in Nat /\ g[c] \in Nat /\ reading[c].score * rubric.weight[c] \in Nat
        /\ f[c] = reading[c].score * rubric.weight[c] * (IF c \in PromptedBy(probed) THEN 85 ELSE 100)
        /\ g[c] = reading[c].score * rubric.weight[c] * (IF c \in PromptedBy(more) THEN 85 ELSE 100)
    BY SharesAre
  <2>3. \A p \in Nat : p * 85 <= p * 100
    OBVIOUS
  <2> HIDE DEF f, g, more
  <2>4. QED
    BY <1>2, <2>2, <2>3
<1>4. /\ Ratio(reading, probed).num = SumFunctionOnSet(f, Criteria)
      /\ Ratio(reading, probed).num \in Nat
      /\ Ratio(reading, probed).den = 4 * Weight(Criteria \ N)
      /\ Ratio(reading, probed).den \in Nat
  BY RatioIs
<1>5. /\ Ratio(reading, more).num = SumFunctionOnSet(g, Criteria)
      /\ Ratio(reading, more).num \in Nat
      /\ Ratio(reading, more).den = 4 * Weight(Criteria \ M)
      /\ Ratio(reading, more).den \in Nat
  BY <1>1, RatioIs
<1>6. Ratio(reading, more).num <= Ratio(reading, probed).num
  <2> HIDE DEF f, g, more
  <2>1. \A c \in Criteria : g[c] \in Int /\ f[c] \in Int /\ g[c] <= f[c]
    BY <1>3
  <2>2. SumFunctionOnSet(g, Criteria) <= SumFunctionOnSet(f, Criteria)
    BY <2>1, CriteriaAre, SumMonotone
  <2>3. QED
    BY <1>4, <1>5, <2>2
<1> DEFINE left == {c \in UnaskedAfter(probed) : reading[c].score = 0 /\ ~reading[c].quoted}
<1>7. CASE left = Criteria
  <2>1. \A c \in Criteria : f[c] = 0
    <3>1. TAKE c \in Criteria
    <3>2. f[c] <= 100 * (reading[c].score * rubric.weight[c]) /\ f[c] \in Nat
          /\ reading[c].score = 0 /\ rubric.weight[c] \in 1 .. 100
      BY <1>7, SharesAre
    <3>3. reading[c].score * rubric.weight[c] = 0
      BY <3>2
    <3> HIDE DEF f
    <3>4. QED
      BY <3>2, <3>3
  <2>2. SumFunctionOnSet(f, Criteria) = 0
    <3> HIDE DEF f
    <3>1. SumFunctionOnSet(f, Criteria) = 0 * Cardinality(Criteria)
      <4>1. 0 \in Int
        OBVIOUS
      <4>2. QED
        BY <2>1, <4>1, CriteriaAre, SumConstant
    <3>2. Cardinality(Criteria) \in Nat
      BY CriteriaAre, FS_CardinalityType
    <3>3. QED
      BY <3>1, <3>2
  <2>3. Ratio(reading, probed).num = 0 /\ Ratio(reading, more).num = 0
    BY <1>4, <1>5, <1>6, <2>2
  <2>4. \A a, b \in Nat : 0 * a <= 0 * b
    OBVIOUS
  <2>5. QED
    BY <1>4, <1>5, <2>3, <2>4 DEF LessOrEqual
<1>8. CASE left # Criteria
  <2>1. N = left
    BY <1>8 DEF NotAssessedCriteria
  <2>2. M \subseteq left
    BY <1>2 DEF NotAssessedCriteria, UnaskedAfter
  <2>3. Criteria \ N \in SUBSET (Criteria \ M) /\ Criteria \ M \in SUBSET Criteria
    BY <2>1, <2>2
  <2>4. Weight(Criteria \ N) <= Weight(Criteria \ M)
    <3> HIDE DEF M, N
    <3>1. QED
      BY <2>3, WeightIs
  <2>5. Weight(Criteria \ N) \in Nat /\ Weight(Criteria \ M) \in Nat
    <3>1. Criteria \ N \in SUBSET Criteria /\ Criteria \ M \in SUBSET Criteria
      OBVIOUS
    <3> HIDE DEF M, N
    <3>2. QED
      BY <3>1, WeightIs
  <2>6. Ratio(reading, probed).den <= Ratio(reading, more).den
    <3> HIDE DEF M, N, more
    <3>1. QED
      BY <1>4, <1>5, <2>4, <2>5
  <2>7. \A a, b, d, e \in Nat : a <= b /\ d <= e => a * d <= b * e
    <3>1. TAKE a, b, d, e \in Nat
    <3>2. HAVE a <= b /\ d <= e
    <3>3. a * d <= b * d /\ b * d <= b * e
      BY <3>2
    <3>4. a * d \in Nat /\ b * d \in Nat /\ b * e \in Nat
      OBVIOUS
    <3>5. QED
      BY <3>3, <3>4
  <2>8. Ratio(reading, more).num * Ratio(reading, probed).den
          <= Ratio(reading, probed).num * Ratio(reading, more).den
    BY <1>4, <1>5, <1>6, <2>6, <2>7
  <2>9. QED
    BY <2>8 DEF LessOrEqual
<1>9. QED
  BY <1>7, <1>8

-----------------------------------------------------------------------------
(* The invariant of an answer's way *)

(* One conjunct per variable.                                              *)
Typed ==
  /\ rubric \in Rubrics /\ others \in Others
  /\ stage \in {"asking", "reading", "stored", "reported"}
  /\ asked \in SUBSET DOMAIN rubric.probes
  /\ attempts \in 0 .. MaxAttempts
  /\ row.scored \in BOOLEAN

(* Once a row is stored nothing is asked any more, and it says who was.    *)
RowIsOfTheInterview ==
  /\ stage \in {"asking", "reading"} => row = NoRow /\ attempts < MaxAttempts
  /\ stage \in {"stored", "reported"} => row.prompted = PromptedBy(asked)
  /\ ~row.scored => row.notAssessed = {}

(* A scored row is what the arithmetic makes of a reading that stood.      *)
RowIsOfItsReading ==
  row.scored =>
    /\ row.reading \in Reading /\ EvidenceRule(row.reading) /\ row.tip \in Tips
    /\ row.overall \in Percent(Ratio(row.reading, asked))
    /\ row.raw \in Percent(RawRatio(row.reading))
    /\ row.notAssessed = NotAssessedCriteria(row.reading, asked)

(* The report is of the rows as they are.                                  *)
ReportIsOfTheRows ==
  /\ stage = "reported" =>
       report = [status |-> StatusOf, overall |-> SessionOverall, by_topic |-> ByTopic,
                 fixes |-> Fixes, question |-> QuestionReport]
  /\ stage # "reported" => report = NoReport

ScoringInv == Typed /\ RowIsOfTheInterview /\ RowIsOfItsReading /\ ReportIsOfTheRows

LEMMA ScoringStarts == ScoringInit => ScoringInv
<1> SUFFICES ASSUME ScoringInit PROVE ScoringInv
  OBVIOUS
<1>1. MaxAttempts \in Nat \ {0}
  BY ScoringAssumption DEF ScoringAssumption
<1>2. row.scored = FALSE /\ row.notAssessed = {}
  BY DEF ScoringInit, NoRow
<1>3. /\ rubric \in Rubrics /\ others \in Others /\ stage = "asking" /\ asked = {} /\ attempts = 0
      /\ row = NoRow /\ report = NoReport
  BY DEF ScoringInit
<1>4. Typed
  <2>1. row.scored \in BOOLEAN
    BY <1>2
  <2>2. attempts \in 0 .. MaxAttempts /\ asked \in SUBSET DOMAIN rubric.probes
    BY <1>1, <1>3
  <2>3. QED
    BY <1>3, <2>1, <2>2 DEF Typed
<1>5. RowIsOfTheInterview
  BY <1>1, <1>2, <1>3 DEF RowIsOfTheInterview
<1>6. RowIsOfItsReading /\ ReportIsOfTheRows
  BY <1>2, <1>3 DEF RowIsOfItsReading, ReportIsOfTheRows
<1>7. QED
  BY <1>4, <1>5, <1>6 DEF ScoringInv

(* What the interview decides while nothing is stored.                     *)
LEMMA InterviewKeepsScoring ==
  ASSUME ScoringInv, AskProbe \/ MoveOn
  PROVE  ScoringInv'
<1>1. /\ rubric \in Rubrics /\ others \in Others /\ asked \in SUBSET DOMAIN rubric.probes
      /\ stage = "asking" /\ row = NoRow /\ attempts < MaxAttempts /\ attempts \in 0 .. MaxAttempts
      /\ report = NoReport
  BY DEF ScoringInv, Typed, RowIsOfTheInterview, ReportIsOfTheRows, AskProbe, MoveOn
<1>2. /\ rubric' = rubric /\ others' = others /\ row' = row /\ attempts' = attempts
      /\ report' = report /\ stage' \in {"asking", "reading"}
      /\ asked' \in SUBSET DOMAIN rubric.probes
  BY <1>1 DEF AskProbe, MoveOn
<1>3. row'.scored = FALSE /\ row'.notAssessed = {}
  BY <1>1, <1>2 DEF NoRow
<1>4. Typed'
  BY <1>1, <1>2, <1>3 DEF Typed
<1>5. RowIsOfTheInterview' /\ RowIsOfItsReading'
  BY <1>1, <1>2, <1>3 DEF RowIsOfTheInterview, RowIsOfItsReading, NoRow
<1>6. ReportIsOfTheRows'
  BY <1>1, <1>2 DEF ReportIsOfTheRows, NoReport
<1>7. QED
  BY <1>4, <1>5, <1>6 DEF ScoringInv

LEMMA VerifiedIsReading ==
  ASSUME NEW entries \in [Criteria -> Entry]
  PROVE  Verified(entries) \in Reading
<1>1. \A c \in Criteria : entries[c] \in Entry
  OBVIOUS
<1>2. \A c \in Criteria : entries[c].score \in 0 .. MaxScore
  BY <1>1 DEF Entry
<1>3. QED
  BY <1>2 DEF Verified, Reading

LEMMA ReadingKeepsScoring ==
  ASSUME ScoringInv, ReadingStands \/ ReadingFails \/ Refused
  PROVE  ScoringInv'
<1>1. /\ rubric \in Rubrics /\ others \in Others /\ asked \in SUBSET DOMAIN rubric.probes
      /\ stage = "reading" /\ row = NoRow /\ attempts < MaxAttempts /\ attempts \in 0 .. MaxAttempts
      /\ report = NoReport
  BY DEF ScoringInv, Typed, RowIsOfTheInterview, ReportIsOfTheRows, ReadingStands, ReadingFails,
         Refused
<1>2. MaxAttempts \in Nat \ {0}
  BY ScoringAssumption DEF ScoringAssumption
<1>3. attempts + 1 \in 0 .. MaxAttempts
  BY <1>1, <1>2
<1>4. CASE ReadingStands
  <2>1. PICK entries \in [Criteria -> Entry], tip \in Tips :
          LET reading == Verified(entries) IN
            /\ EvidenceRule(reading)
            /\ \E overall \in Percent(Ratio(reading, asked)), raw \in Percent(RawRatio(reading)) :
                 Store([scored |-> TRUE, reading |-> reading, tip |-> tip,
                        overall |-> overall, raw |-> raw, prompted |-> PromptedBy(asked),
                        notAssessed |-> NotAssessedCriteria(reading, asked)])
    BY <1>4 DEF ReadingStands
  <2> DEFINE reading == Verified(entries)
  <2>2. reading \in Reading
    BY VerifiedIsReading
  <2> HIDE DEF reading
  <2>3. EvidenceRule(reading)
    BY <2>1 DEF reading
  <2>4. PICK overall \in Percent(Ratio(reading, asked)), raw \in Percent(RawRatio(reading)) :
          Store([scored |-> TRUE, reading |-> reading, tip |-> tip,
                 overall |-> overall, raw |-> raw, prompted |-> PromptedBy(asked),
                 notAssessed |-> NotAssessedCriteria(reading, asked)])
    BY <2>1 DEF reading
  <2> DEFINE new == [scored |-> TRUE, reading |-> reading, tip |-> tip,
                     overall |-> overall, raw |-> raw, prompted |-> PromptedBy(asked),
                     notAssessed |-> NotAssessedCriteria(reading, asked)]
  <2>5. /\ new.scored = TRUE /\ new.reading = reading /\ new.tip = tip /\ new.overall = overall
        /\ new.raw = raw /\ new.prompted = PromptedBy(asked)
        /\ new.notAssessed = NotAssessedCriteria(reading, asked)
    OBVIOUS
  <2>6. /\ row' = new /\ stage' = "stored" /\ attempts' = attempts + 1
        /\ rubric' = rubric /\ others' = others /\ asked' = asked /\ report' = report
    BY <1>4, <2>4 DEF Store, ReadingStands
  <2> HIDE DEF new
  <2>7. Typed'
    BY <1>1, <1>3, <2>5, <2>6 DEF Typed
  <2>8. RowIsOfTheInterview'
    BY <2>5, <2>6 DEF RowIsOfTheInterview, PromptedBy
  <2>9. RowIsOfItsReading'
    <3>1. /\ Percent(Ratio(row.reading, asked))' = Percent(Ratio(row'.reading, asked))
          /\ Percent(RawRatio(row.reading))' = Percent(RawRatio(row'.reading))
          /\ NotAssessedCriteria(row.reading, asked)' = NotAssessedCriteria(row'.reading, asked)
      BY <2>6 DEF Ratio, RawRatio, Weight, Shares, NotAssessedCriteria, UnaskedAfter, PromptedBy
    <3>2. QED
      BY <2>2, <2>3, <2>4, <2>5, <2>6, <3>1 DEF RowIsOfItsReading
  <2>10. ReportIsOfTheRows'
    BY <1>1, <2>6 DEF ReportIsOfTheRows, NoReport
  <2>11. QED
    BY <2>7, <2>8, <2>9, <2>10 DEF ScoringInv
<1>5. CASE ReadingFails /\ attempts' < MaxAttempts
  <2>1. UNCHANGED <<rubric, others, stage, asked, row, report>> /\ attempts' = attempts + 1
    BY <1>5 DEF ReadingFails
  <2>2. row'.scored = FALSE /\ row'.notAssessed = {}
    BY <1>1, <2>1 DEF NoRow
  <2>3. QED
    BY <1>1, <1>3, <1>5, <2>1, <2>2
       DEF ScoringInv, Typed, RowIsOfTheInterview, RowIsOfItsReading, ReportIsOfTheRows, NoReport
<1>6. CASE Store(Unscored) /\ attempts' \in {attempts, attempts + 1}
  <2>1. /\ row' = Unscored /\ stage' = "stored" /\ attempts' \in 0 .. MaxAttempts
        /\ rubric' = rubric /\ others' = others /\ asked' = asked /\ report' = report
    BY <1>1, <1>3, <1>6 DEF Store
  <2>2. row'.scored = FALSE /\ row'.notAssessed = {} /\ row'.prompted = PromptedBy(asked)
    BY <2>1 DEF Unscored
  <2>3. PromptedBy(asked)' = PromptedBy(asked)
    BY <2>1 DEF PromptedBy
  <2>4. QED
    BY <1>1, <2>1, <2>2, <2>3
       DEF ScoringInv, Typed, RowIsOfTheInterview, RowIsOfItsReading, ReportIsOfTheRows, NoReport
<1>7. QED
  BY <1>4, <1>5, <1>6 DEF ReadingFails, Refused

LEMMA ReportKeepsScoring ==
  ASSUME ScoringInv, Assemble \/ UNCHANGED scoringVars
  PROVE  ScoringInv'
<1>1. UNCHANGED <<rubric, others, asked, attempts, row>>
  BY DEF Assemble, scoringVars
<1>2. PromptedBy(asked)' = PromptedBy(asked)
  BY <1>1 DEF PromptedBy
<1>3. Typed' /\ RowIsOfTheInterview'
  <2>1. \/ stage = "stored" /\ stage' = "reported"
        \/ stage' = stage
    BY DEF Assemble, scoringVars
  <2>2. QED
    BY <1>1, <1>2, <2>1 DEF ScoringInv, Typed, RowIsOfTheInterview
<1>4. RowIsOfItsReading'
  <2>1. /\ Percent(Ratio(row.reading, asked))' = Percent(Ratio(row.reading, asked))
        /\ Percent(RawRatio(row.reading))' = Percent(RawRatio(row.reading))
        /\ NotAssessedCriteria(row.reading, asked)' = NotAssessedCriteria(row.reading, asked)
    BY <1>1 DEF Ratio, RawRatio, Weight, Shares, NotAssessedCriteria, UnaskedAfter, PromptedBy
  <2>2. QED
    BY <1>1, <2>1 DEF ScoringInv, RowIsOfItsReading
<1>5. ReportIsOfTheRows'
  <2>1. /\ StatusOf' = StatusOf /\ SessionOverall' = SessionOverall /\ ByTopic' = ByTopic
        /\ Fixes' = Fixes /\ QuestionReport' = QuestionReport
    <3>1. Answers' = Answers
      BY <1>1 DEF Answers, Mine
    <3>2. ScoredOnes' = ScoredOnes
      BY <3>1 DEF ScoredOnes
    <3>3. Overalls' = Overalls
      BY <3>1, <3>2 DEF Overalls
    <3>4. SessionOverall' = SessionOverall
      BY <3>2, <3>3 DEF SessionOverall, Total
    <3>5. ByTopic' = ByTopic
      BY <3>1, <3>2, <3>3 DEF ByTopic, Total, On
    <3>6. Deduped' = Deduped
      BY <3>1, <3>2 DEF Deduped, Worse
    <3>7. Fixes' = Fixes
      BY <3>1, <3>6 DEF Fixes, Place, Worse
    <3>8. StatusOf' = StatusOf /\ QuestionReport' = QuestionReport
      BY <1>1, <3>1, <3>2 DEF StatusOf, QuestionReport
    <3>9. QED
      BY <3>4, <3>5, <3>7, <3>8
  <2>2. CASE Assemble
    BY <2>1, <2>2 DEF Assemble, ReportIsOfTheRows
  <2>3. CASE UNCHANGED scoringVars
    <3>1. stage' = stage /\ report' = report
      BY <2>3 DEF scoringVars
    <3>2. QED
      BY <2>1, <3>1 DEF ScoringInv, ReportIsOfTheRows, NoReport
  <2>4. QED
    BY <2>2, <2>3
<1>6. QED
  BY <1>3, <1>4, <1>5 DEF ScoringInv

LEMMA ScoringStep == ScoringInv /\ [ScoringNext]_scoringVars => ScoringInv'
  BY InterviewKeepsScoring, ReadingKeepsScoring, ReportKeepsScoring DEF ScoringNext

(* What a row and a report say is what the arithmetic makes of the reading *)
(* and of what was asked, to the end.                                      *)
THEOREM ScoringInvariance == ScoringSpec => []ScoringInv
  BY ScoringStarts, ScoringStep, PTL DEF ScoringSpec

(* What a stored row's numbers are, within a half.                         *)
LEMMA RowIs ==
  ASSUME ScoringInv, row.scored
  PROVE  /\ rubric \in Rubrics /\ asked \in SUBSET DOMAIN rubric.probes
         /\ row.reading \in Reading
         /\ row.notAssessed = NotAssessedCriteria(row.reading, asked)
         /\ row.prompted = PromptedBy(asked)
         /\ row.overall \in Percent(Ratio(row.reading, asked))
         /\ row.raw \in Percent(RawRatio(row.reading))
<1>1. stage \in {"stored", "reported"}
  <2>1. NoRow.scored = FALSE
    BY DEF NoRow
  <2>2. row # NoRow
    BY <2>1
  <2>3. QED
    BY <2>2 DEF ScoringInv, Typed, RowIsOfTheInterview
<1>2. QED
  BY <1>1 DEF ScoringInv, Typed, RowIsOfTheInterview, RowIsOfItsReading

(* N / D and 100 M / D0 are the two ratios, by the percentages they became. *)
LEMMA NumbersAre ==
  ASSUME ScoringInv, row.scored
  PROVE  \E N, D, M, D0 \in Nat :
           /\ D > 0 /\ D <= D0 /\ 85 * M <= N /\ N <= 100 * D /\ M <= D0
           /\ row.prompted = {} => N = 100 * M
           /\ (\A c \in Criteria \ row.notAssessed :
                 row.reading[c].score = MaxScore /\ c \notin row.prompted) => N = 100 * D
           /\ row.overall \in Nat /\ row.raw \in Nat
           /\ 2 * N <= 2 * (D * row.overall) + D /\ 2 * (D * row.overall) <= 2 * N + D
           /\ 2 * (D0 * row.raw) <= 2 * (100 * M) + D0
<1> DEFINE N == Ratio(row.reading, asked).num
           D == Ratio(row.reading, asked).den
           M == Marks(row.reading)
           D0 == RawRatio(row.reading).den
           A == Criteria \ row.notAssessed
<1>1. /\ rubric \in Rubrics /\ asked \in SUBSET DOMAIN rubric.probes /\ row.reading \in Reading
      /\ row.notAssessed = NotAssessedCriteria(row.reading, asked) /\ row.prompted = PromptedBy(asked)
  BY RowIs
<1>2. M \in Nat /\ 85 * M <= N /\ (row.prompted = {} => N = 100 * M)
  BY <1>1, MarksBound
<1>3. RawRatio(row.reading).num = 100 * M /\ D0 = 4 * Weight(Criteria) /\ D0 \in Nat \ {0}
  BY <1>1, MarksBound
<1>4. N \in Nat /\ D = 4 * Weight(A) /\ D \in Nat \ {0}
  BY <1>1, RatioIs
<1>5. D <= D0
  <2>1. A \in SUBSET Criteria
    OBVIOUS
  <2>2. Weight(A) \in Nat /\ Weight(A) <= Weight(Criteria)
    BY <1>1, <2>1, WeightIs
  <2>3. Weight(Criteria) \in Nat
    BY <1>1, WeightIs
  <2>4. QED
    BY <1>3, <1>4, <2>2, <2>3
<1>6. /\ N <= 100 * D /\ M <= D0
      /\ (\A c \in A : row.reading[c].score = MaxScore /\ c \notin row.prompted) => N = 100 * D
  BY <1>1, <1>3, RatioWithin
<1>7. row.overall \in Nat /\ 2 * N <= 2 * (D * row.overall) + D /\ 2 * (D * row.overall) <= 2 * N + D
  BY <1>4, RowIs, PercentBounds
<1>8. row.raw \in Nat /\ 2 * (D0 * row.raw) <= 2 * (100 * M) + D0
  <2>1. RawRatio(row.reading).num \in Nat
    BY <1>2, <1>3
  <2>2. row.raw \in Percent(RawRatio(row.reading))
    BY RowIs
  <2>3. row.raw \in Nat /\ 2 * (D0 * row.raw) <= 2 * RawRatio(row.reading).num + D0
    BY <1>3, <2>1, <2>2, PercentBounds
  <2>4. QED
    BY <1>3, <2>3
<1> HIDE DEF N, D, M, D0
<1>9. N \in Nat /\ D \in Nat /\ M \in Nat /\ D0 \in Nat /\ D > 0
  BY <1>2, <1>3, <1>4
<1>10. QED
  BY <1>2, <1>5, <1>6, <1>7, <1>8, <1>9

(* A factor comes off both sides.                                          *)
LEMMA Cancel ==
  \A d \in Nat : \A a, b \in Int : d > 0 /\ d * a <= d * b => a <= b
<1>1. TAKE d \in Nat
<1>2. TAKE a, b \in Int
<1>3. SUFFICES ASSUME d > 0, a > b PROVE d * a > d * b
  OBVIOUS
<1>4. QED
  BY <1>3

(* Arithmetic of the discounts.                                            *)
LEMMA Discounts ==
  ASSUME NEW N \in Nat, NEW D \in Nat, NEW M \in Nat, NEW D0 \in Nat, NEW o \in Nat, NEW r \in Nat,
         D > 0, D <= D0, 85 * M <= N, N <= 100 * D, M <= D0,
         2 * N <= 2 * (D * o) + D, 2 * (D * o) <= 2 * N + D, 2 * (D0 * r) <= 2 * (100 * M) + D0
  PROVE  /\ o <= 100 /\ r <= 100
         /\ 100 * o + 100 >= 85 * r
         /\ N = 100 * M => o + 1 >= r
         /\ N = 100 * D => o = 100
<1>1. D * o \in Nat /\ D0 * r \in Nat /\ D0 * o \in Nat /\ D0 > 0
  OBVIOUS
<1>2. D * (2 * o) = 2 * (D * o) /\ D * 201 = 201 * D /\ D * (2 * o + 1) = 2 * (D * o) + D
      /\ D * 200 = 200 * D
  OBVIOUS
<1>3. o <= 100
  <2>1. D * (2 * o) <= D * 201
    BY <1>1, <1>2
  <2>2. 2 * o <= 201
    BY <2>1, Cancel
  <2>3. QED
    BY <2>2
<1>4. r <= 100
  <2>1. D0 * (2 * r) <= D0 * 201
    BY <1>1
  <2>2. 2 * r <= 201
    BY <1>1, <2>1, Cancel
  <2>3. QED
    BY <2>2
<1>5. ASSUME N = 100 * D PROVE o = 100
  <2>1. D * 200 <= D * (2 * o + 1)
    BY <1>1, <1>2, <1>5
  <2>2. 200 <= 2 * o + 1
    BY <2>1, Cancel
  <2>3. QED
    BY <1>3, <2>2
<1>6. 2 * N <= 2 * (D0 * o) + D0
  <2>1. D * (2 * o + 1) <= D0 * (2 * o + 1)
    <3>1. \A k \in Nat : D * k <= D0 * k
      OBVIOUS
    <3>2. 2 * o + 1 \in Nat
      OBVIOUS
    <3>3. QED
      BY <3>1, <3>2
  <2>2. D0 * (2 * o + 1) = 2 * (D0 * o) + D0
    OBVIOUS
  <2>3. QED
    BY <1>1, <1>2, <2>1, <2>2
<1>7. 100 * o + 100 >= 85 * r
  <2>1. 170 * (2 * (D0 * r) - D0) <= 200 * (2 * (D0 * o) + D0)
    BY <1>1, <1>6
  <2>2. /\ D0 * (170 * (2 * r - 1)) = 170 * (2 * (D0 * r) - D0)
        /\ D0 * (200 * (2 * o + 1)) = 200 * (2 * (D0 * o) + D0)
    OBVIOUS
  <2>3. 170 * (2 * r - 1) <= 200 * (2 * o + 1)
    BY <1>1, <2>1, <2>2, Cancel
  <2>4. QED
    BY <2>3
<1>8. ASSUME N = 100 * M PROVE o + 1 >= r
  <2>1. 2 * (D0 * r) - D0 <= 2 * (D0 * o) + D0
    BY <1>1, <1>6, <1>8
  <2>2. D0 * (2 * r - 1) = 2 * (D0 * r) - D0 /\ D0 * (2 * o + 1) = 2 * (D0 * o) + D0
    OBVIOUS
  <2>3. 2 * r - 1 <= 2 * o + 1
    BY <1>1, <2>1, <2>2, Cancel
  <2>4. QED
    BY <2>3
<1>9. QED
  BY <1>3, <1>4, <1>5, <1>7, <1>8

(* percent()'s clamp never bites: a stored row's two numbers are           *)
(* percentages as they come out of the division, for any rubric, reading   *)
(* and set of nudges.                                                      *)
ScoresArePercentages == row.scored => row.overall \in 0 .. 100 /\ row.raw \in 0 .. 100

LEMMA PercentagesFollow == ScoringInv => ScoresArePercentages
<1> SUFFICES ASSUME ScoringInv, row.scored PROVE row.overall \in 0 .. 100 /\ row.raw \in 0 .. 100
  BY DEF ScoresArePercentages
<1>1. PICK N, D, M, D0 \in Nat :
           /\ D > 0 /\ D <= D0 /\ 85 * M <= N /\ N <= 100 * D /\ M <= D0
           /\ row.overall \in Nat /\ row.raw \in Nat
           /\ 2 * N <= 2 * (D * row.overall) + D /\ 2 * (D * row.overall) <= 2 * N + D
           /\ 2 * (D0 * row.raw) <= 2 * (100 * M) + D0
  BY NumbersAre
<1> DEFINE o == row.overall
           r == row.raw
<1>2. o \in Nat /\ r \in Nat
  BY <1>1
<1> HIDE DEF o, r
<1>3. o <= 100 /\ r <= 100
  BY <1>1, <1>2, Discounts DEF o, r
<1>4. o \in 0 .. 100 /\ r \in 0 .. 100
  BY <1>2, <1>3
<1>5. QED
  BY <1>4 DEF o, r

THEOREM ScoresArePercents == ScoringSpec => []ScoresArePercentages
  BY PercentagesFollow, ScoringInvariance, PTL

LEMMA FairnessFollows == ScoringInv => ScoreIsFair
<1> SUFFICES ASSUME ScoringInv, row.scored
             PROVE  LET mine     == Ratio(row.reading, asked)
                        assessed == Criteria \ row.notAssessed
                    IN  /\ \A i \in DOMAIN rubric.probes \ asked :
                             LessOrEqual(Ratio(row.reading, asked \cup {i}), mine)
                        /\ 100 * row.overall + 100 >= 85 * row.raw
                        /\ row.prompted = {} => row.overall + 1 >= row.raw
                        /\ (\A c \in assessed : row.reading[c].score = MaxScore /\ c \notin row.prompted) =>
                             row.overall = 100
                        /\ \A c \in Criteria : row.reading[c].quoted => c \in assessed
  BY DEF ScoreIsFair
<1>1. /\ rubric \in Rubrics /\ asked \in SUBSET DOMAIN rubric.probes /\ row.reading \in Reading
      /\ row.notAssessed = NotAssessedCriteria(row.reading, asked)
  BY RowIs
<1>2. \A i \in DOMAIN rubric.probes : LessOrEqual(Ratio(row.reading, asked \cup {i}),
                                                  Ratio(row.reading, asked))
  BY <1>1, NudgesOnlyLower
<1>3. PICK N, D, M, D0 \in Nat :
           /\ D > 0 /\ D <= D0 /\ 85 * M <= N /\ N <= 100 * D /\ M <= D0
           /\ row.prompted = {} => N = 100 * M
           /\ (\A c \in Criteria \ row.notAssessed :
                 row.reading[c].score = MaxScore /\ c \notin row.prompted) => N = 100 * D
           /\ row.overall \in Nat /\ row.raw \in Nat
           /\ 2 * N <= 2 * (D * row.overall) + D /\ 2 * (D * row.overall) <= 2 * N + D
           /\ 2 * (D0 * row.raw) <= 2 * (100 * M) + D0
  BY NumbersAre
<1>4. /\ 100 * row.overall + 100 >= 85 * row.raw
      /\ N = 100 * M => row.overall + 1 >= row.raw
      /\ N = 100 * D => row.overall = 100
  <2> DEFINE o == row.overall
             r == row.raw
  <2>1. /\ o \in Nat /\ r \in Nat
        /\ 2 * N <= 2 * (D * o) + D /\ 2 * (D * o) <= 2 * N + D
        /\ 2 * (D0 * r) <= 2 * (100 * M) + D0
    BY <1>3
  <2> HIDE DEF o, r
  <2>2. 100 * o + 100 >= 85 * r /\ (N = 100 * M => o + 1 >= r) /\ (N = 100 * D => o = 100)
    <3>1. D > 0 /\ D <= D0 /\ 85 * M <= N /\ N <= 100 * D /\ M <= D0
      BY <1>3
    <3>2. QED
      BY <2>1, <3>1, Discounts
  <2>3. QED
    BY <2>2 DEF o, r
<1>5. \A c \in row.notAssessed : ~row.reading[c].quoted
  BY <1>1, NotAssessedIs
<1>6. QED
  BY <1>2, <1>3, <1>4, <1>5

(* The number is fair for any rubric of positive weights, any reading the  *)
(* evidence rule lets through and whichever probes were asked, however the *)
(* halves are rounded.                                                     *)
THEOREM ScoresAreFair == ScoringSpec => []ScoreIsFair
  BY FairnessFollows, ScoringInvariance, PTL

-----------------------------------------------------------------------------
(* The report *)

LEMMA AnswersAre ==
  ASSUME ScoringInv
  PROVE  /\ Answers \in Seq(Answer) /\ IsFiniteSet(DOMAIN Answers)
         /\ ScoredOnes \subseteq DOMAIN Answers /\ IsFiniteSet(ScoredOnes)
         /\ DOMAIN Answers \subseteq Nat
         /\ \A i \in ScoredOnes : Answers[i].overall \in 0 .. 100
<1>1. others \in Seq(Answer)
  BY ScoringAssumption DEF ScoringInv, Typed, ScoringAssumption
<1>2. Mine \in Answer
  <2>1. CASE row.scored
    <3>1. row.overall \in 0 .. 100 /\ row.tip \in Tips /\ rubric.topic \in Topics
      BY <2>1, PercentagesFollow, RubricIs
         DEF ScoresArePercentages, ScoringInv, RowIsOfItsReading, Typed
    <3>2. Mine \in [scored : {TRUE}, topic : Topics, overall : 0 .. 100, tip : Tips]
      BY <2>1, <3>1 DEF Mine
    <3>3. QED
      BY <3>2 DEF Answer
  <2>2. CASE ~row.scored
    <3>1. Mine \in [scored : {FALSE}]
      BY <2>2 DEF Mine
    <3>2. QED
      BY <3>1 DEF Answer
  <2>3. QED
    BY <2>1, <2>2
<1>3. Answers \in Seq(Answer)
  <2>1. <<Mine>> \in Seq(Answer)
    BY <1>2
  <2>2. QED
    BY <1>1, <2>1, ConcatProperties DEF Answers
<1>4. DOMAIN Answers = 1 .. Len(Answers) /\ Len(Answers) \in Nat
  BY <1>3, LenProperties
<1>5. IsFiniteSet(DOMAIN Answers) /\ DOMAIN Answers \subseteq Nat
  <2>1. 1 \in Int /\ Len(Answers) \in Int
    BY <1>4
  <2>2. QED
    BY <1>4, <2>1, FS_Interval
<1>6. ScoredOnes \subseteq DOMAIN Answers
  BY DEF ScoredOnes
<1>7. \A i \in ScoredOnes : Answers[i].overall \in 0 .. 100
  <2>1. TAKE i \in ScoredOnes
  <2>2. Answers[i] \in Answer /\ Answers[i].scored
    BY <1>3, <1>4 DEF ScoredOnes
  <2>3. Answers[i] \in [scored : {TRUE}, topic : Topics, overall : 0 .. 100, tip : Tips]
    <3>1. \A a \in [scored : {FALSE}] : ~a.scored
      OBVIOUS
    <3>2. QED
      BY <2>2, <3>1 DEF Answer
  <2>4. QED
    BY <2>3
<1>8. QED
  BY <1>3, <1>5, <1>6, <1>7, FS_Subset

(* A mean is rounded half up.                                              *)
LEMMA MeanIs ==
  ASSUME NEW sum \in Nat, NEW n \in Nat \ {0}
  PROVE  /\ Mean(sum, n) \in Nat
         /\ 2 * (n * Mean(sum, n)) <= 2 * sum + n
         /\ 2 * sum + n < 2 * (n * Mean(sum, n)) + 2 * n
<1> DEFINE a == 2 * sum + n
           b == 2 * n
           m == a \div b
<1>1. a \in Nat /\ b \in Nat /\ b > 0
  OBVIOUS
<1>2. \A x, y \in Int : y > 0 => x \div y \in Int /\ y * (x \div y) <= x /\ x < y * (x \div y) + y
  OBVIOUS
<1>3. m = Mean(sum, n)
  BY DEF Mean
<1> HIDE DEF a, b
<1>4. m \in Int /\ b * m <= a /\ a < b * m + b
  BY <1>1, <1>2
<1> HIDE DEF m
<1>5. m \in Nat
  <2> SUFFICES ASSUME m + 1 <= 0 PROVE FALSE
    BY <1>4
  <2>1. \A x, y \in Int : x > 0 /\ y <= 0 => x * y <= 0
    OBVIOUS
  <2>2. b * (m + 1) <= 0 /\ b * (m + 1) = b * m + b
    BY <1>1, <1>4, <2>1
  <2>3. QED
    BY <1>1, <1>4, <2>2
<1>6. b * m = 2 * (n * m)
  BY <1>5 DEF b
<1>7. QED
  BY <1>3, <1>4, <1>5, <1>6 DEF a, b

LEMMA TotalIs ==
  ASSUME ScoringInv, NEW A \in SUBSET ScoredOnes
  PROVE  /\ Total(A) \in Nat /\ IsFiniteSet(A) /\ Cardinality(A) \in Nat
         /\ A # {} => Cardinality(A) \in Nat \ {0}
         /\ \A i \in A : Overalls[i] \in Int
<1>1. IsFiniteSet(A)
  BY AnswersAre, FS_Subset
<1>2. \A i \in A : Overalls[i] \in Nat /\ Overalls[i] \in Int
  <2>1. \A i \in A : Answers[i].overall \in 0 .. 100
    BY AnswersAre
  <2>2. \A i \in A : Overalls[i] = Answers[i].overall
    BY DEF Overalls
  <2>3. QED
    BY <2>1, <2>2
<1>3. Total(A) \in Nat
  BY <1>1, <1>2, SumNatural DEF Total
<1>4. Cardinality(A) \in Nat /\ (A # {} => Cardinality(A) # 0)
  BY <1>1, FS_CardinalityType, FS_EmptySet
<1>5. QED
  BY <1>1, <1>2, <1>3, <1>4

(* The session's number lies among its topics'.                            *)
LEMMA TopicsBracket ==
  ASSUME ScoringInv, ScoredOnes # {}
  PROVE  \E t, u \in DOMAIN ByTopic :
           ByTopic[t] <= SessionOverall /\ SessionOverall <= ByTopic[u]
<1> DEFINE S == ScoredOnes
           n == Cardinality(S)
           m == SessionOverall
           c == [i \in S |-> Answers[i].topic]
           C(i) == {j \in S : c[j] = c[i]}
           o == Overalls
<1>1. /\ IsFiniteSet(S) /\ n \in Nat \ {0} /\ Total(S) \in Nat /\ \A i \in S : o[i] \in Int
  <2>1. S \in SUBSET ScoredOnes
    OBVIOUS
  <2>2. QED
    BY <2>1, TotalIs
<1>2. m \in Nat /\ 2 * (n * m) <= 2 * Total(S) + n /\ 2 * Total(S) + n < 2 * (n * m) + 2 * n
  <2>1. m = Mean(Total(S), n)
    BY DEF SessionOverall
  <2> HIDE DEF m, n, S
  <2>2. QED
    BY <1>1, <2>1, MeanIs
<1>3. \A i \in S : c[i] \in DOMAIN ByTopic /\ ByTopic[c[i]] = Mean(Total(C(i)), Cardinality(C(i)))
  <2>1. TAKE i \in S
  <2>2. DOMAIN ByTopic = {Answers[j].topic : j \in ScoredOnes}
    BY DEF ByTopic
  <2>3. c[i] = Answers[i].topic /\ c[i] \in DOMAIN ByTopic
    BY <2>2
  <2>4. On(c[i]) = C(i)
    BY <2>3 DEF On
  <2>5. ByTopic[c[i]] = Mean(Total(On(c[i])), Cardinality(On(c[i])))
    BY <2>2, <2>3 DEF ByTopic
  <2>6. QED
    BY <2>3, <2>4, <2>5
<1>4. \A i \in S : /\ C(i) \in SUBSET S /\ i \in C(i) /\ IsFiniteSet(C(i))
                   /\ Cardinality(C(i)) \in Nat \ {0} /\ Total(C(i)) \in Nat
                   /\ \A j \in C(i) : o[j] \in Int
  <2>1. TAKE i \in S
  <2>2. C(i) \in SUBSET ScoredOnes /\ i \in C(i) /\ C(i) # {}
    OBVIOUS
  <2> HIDE DEF C
  <2>3. QED
    BY <2>2, TotalIs
<1>5. \A i \in S : LET q == ByTopic[c[i]]
                       k == Cardinality(C(i))
                   IN  /\ q \in Nat /\ 2 * (k * q) <= 2 * Total(C(i)) + k
                       /\ 2 * Total(C(i)) + k < 2 * (k * q) + 2 * k
  <2>1. TAKE i \in S
  <2>2. Total(C(i)) \in Nat /\ Cardinality(C(i)) \in Nat \ {0}
    BY <1>4
  <2>3. ByTopic[c[i]] = Mean(Total(C(i)), Cardinality(C(i)))
    BY <1>3
  <2> HIDE DEF C, c
  <2>4. QED
    BY <2>2, <2>3, MeanIs
<1>6. \E i \in S : ByTopic[c[i]] <= m
  <2> SUFFICES ASSUME \A i \in S : ~(ByTopic[c[i]] <= m) PROVE FALSE
    OBVIOUS
  <2> DEFINE b == 1 - 2 * (m + 1)
             d == [i \in S |-> 2 * o[i] + b]
  <2>1. b \in Int /\ \A i \in S : o[i] \in Int /\ d[i] = 2 * o[i] + b /\ d[i] \in Int
    BY <1>1, <1>2
  <2>2. \A A \in SUBSET S : IsFiniteSet(A) =>
          SumFunctionOnSet(d, A) = 2 * Total(A) + b * Cardinality(A)
    <3>1. TAKE A \in SUBSET S
    <3>2. \A i \in A : o[i] \in Int /\ d[i] = 2 * o[i] + b
      BY <2>1
    <3> HIDE DEF d, b, o
    <3>3. HAVE IsFiniteSet(A)
    <3>4. SumFunctionOnSet(d, A) = 2 * SumFunctionOnSet(o, A) + b * Cardinality(A)
      BY <2>1, <3>2, <3>3, SumAffine
    <3>5. QED
      BY <3>4 DEF Total, o
  <2>3. \A i \in S : SumFunctionOnSet(d, C(i)) >= 0
    <3>1. TAKE i \in S
    <3> DEFINE k == Cardinality(C(i))
               q == ByTopic[c[i]]
               T == Total(C(i))
    <3>2. SumFunctionOnSet(d, C(i)) = 2 * T + b * k
      BY <1>4, <2>2
    <3>3. k \in Nat /\ q \in Nat /\ T \in Nat /\ 2 * (k * q) <= 2 * T + k /\ m + 1 <= q
      <4>1. k \in Nat /\ T \in Nat
        BY <1>4
      <4>2. q \in Nat /\ 2 * (k * q) <= 2 * T + k
        BY <1>5
      <4>3. ~(q <= m) /\ m \in Nat
        BY <1>2
      <4> HIDE DEF k, q, T, m
      <4>4. QED
        BY <4>1, <4>2, <4>3
    <3> HIDE DEF k, q, T, m
    <3>4. k * (m + 1) <= k * q /\ k * (m + 1) \in Nat /\ k * q \in Nat
      BY <1>2, <3>3
    <3>5. b * k = k - 2 * (k * (m + 1))
      BY <1>2, <3>3
    <3>6. 2 * T + b * k >= 0
      BY <3>3, <3>4, <3>5
    <3>7. QED
      BY <3>2, <3>6
  <2>4. SumFunctionOnSet(d, S) >= 0
    <3> HIDE DEF d, S, c
    <3>1. QED
      BY <1>1, <2>1, <2>3, SumOfClasses
  <2>5. SumFunctionOnSet(d, S) = 2 * Total(S) + b * n
    BY <1>1, <2>2
  <2>6. b * n = n - (2 * (n * m) + 2 * n)
    <3> HIDE DEF n, m
    <3>1. QED
      BY <1>1, <1>2
  <2>7. n * m \in Nat
    <3> HIDE DEF n, m
    <3>1. QED
      BY <1>1, <1>2
  <2> HIDE DEF n, m, S, b, d
  <2>8. QED
    BY <1>1, <1>2, <2>4, <2>5, <2>6, <2>7
<1>7. \E i \in S : m <= ByTopic[c[i]]
  <2> SUFFICES ASSUME \A i \in S : ~(m <= ByTopic[c[i]]) PROVE FALSE
    OBVIOUS
  <2> DEFINE b == 2 * m - 1
             d == [i \in S |-> (-2) * o[i] + b]
  <2>1. b \in Int /\ \A i \in S : o[i] \in Int /\ d[i] = (-2) * o[i] + b /\ d[i] \in Int
    BY <1>1, <1>2
  <2>2. \A A \in SUBSET S : IsFiniteSet(A) =>
          SumFunctionOnSet(d, A) = (-2) * Total(A) + b * Cardinality(A)
    <3>1. TAKE A \in SUBSET S
    <3>2. \A i \in A : o[i] \in Int /\ d[i] = (-2) * o[i] + b
      BY <2>1
    <3>3. -2 \in Int
      OBVIOUS
    <3> HIDE DEF d, b, o
    <3>4. HAVE IsFiniteSet(A)
    <3>5. SumFunctionOnSet(d, A) = (-2) * SumFunctionOnSet(o, A) + b * Cardinality(A)
      BY <2>1, <3>2, <3>3, <3>4, SumAffine
    <3>6. QED
      BY <3>5 DEF Total, o
  <2>3. \A i \in S : SumFunctionOnSet(d, C(i)) > 0
    <3>1. TAKE i \in S
    <3> DEFINE k == Cardinality(C(i))
               q == ByTopic[c[i]]
               T == Total(C(i))
    <3>2. SumFunctionOnSet(d, C(i)) = (-2) * T + b * k
      BY <1>4, <2>2
    <3>3. k \in Nat /\ q \in Nat /\ T \in Nat /\ 2 * T + k < 2 * (k * q) + 2 * k /\ q + 1 <= m
      <4>1. k \in Nat /\ T \in Nat
        BY <1>4
      <4>2. q \in Nat /\ 2 * T + k < 2 * (k * q) + 2 * k
        BY <1>5
      <4>3. ~(m <= q) /\ m \in Nat
        BY <1>2
      <4> HIDE DEF k, q, T, m
      <4>4. QED
        BY <4>1, <4>2, <4>3
    <3> HIDE DEF k, q, T, m
    <3>4. k * (q + 1) <= k * m /\ k * q \in Nat /\ k * m \in Nat /\ k * (q + 1) = k * q + k
      <4>1. \A a, x, y \in Nat : /\ x <= y => a * x <= a * y
                                /\ a * x \in Nat /\ a * (x + 1) = a * x + a
        OBVIOUS
      <4>2. q + 1 \in Nat /\ m \in Nat
        BY <1>2, <3>3
      <4>3. QED
        BY <3>3, <4>1, <4>2
    <3>5. b * k = 2 * (k * m) - k
      BY <1>2, <3>3
    <3>6. (-2) * T + b * k > 0
      BY <3>3, <3>4, <3>5
    <3>7. QED
      BY <3>2, <3>6
  <2>4. SumFunctionOnSet(d, S) > 0
    <3>1. S # {}
      OBVIOUS
    <3> HIDE DEF d, S, c
    <3>2. QED
      BY <1>1, <2>1, <2>3, <3>1, SumOfPositiveClasses
  <2>5. SumFunctionOnSet(d, S) = (-2) * Total(S) + b * n
    BY <1>1, <2>2
  <2>6. b * n = 2 * (n * m) - n
    <3> HIDE DEF n, m
    <3>1. QED
      BY <1>1, <1>2
  <2>7. n * m \in Nat
    <3> HIDE DEF n, m
    <3>1. QED
      BY <1>1, <1>2
  <2> HIDE DEF n, m, S, b, d
  <2>8. QED
    BY <1>1, <1>2, <2>4, <2>5, <2>6, <2>7
<1>8. QED
  BY <1>3, <1>6, <1>7

(* The order of the fixes: a total one.                                    *)
LEMMA WorseIs ==
  ASSUME ScoringInv
  PROVE  /\ \A i \in ScoredOnes : ~Worse(i, i)
         /\ \A i, j \in ScoredOnes : i # j => Worse(i, j) \/ Worse(j, i)
         /\ \A i, j \in ScoredOnes : Worse(i, j) => Answers[i].overall <= Answers[j].overall
         /\ \A i, j, k \in ScoredOnes : Worse(i, j) /\ Worse(j, k) => Worse(i, k)
<1> DEFINE o(i) == Answers[i].overall
<1>1. \A i \in ScoredOnes : i \in Nat /\ o(i) \in Nat
  <2>1. \A i \in ScoredOnes : i \in Nat /\ o(i) \in 0 .. 100
    BY AnswersAre
  <2>2. QED
    BY <2>1
<1>2. \A i, j : Worse(i, j) <=> o(i) < o(j) \/ (o(i) = o(j) /\ i < j)
  BY DEF Worse
<1> HIDE DEF o
<1>3. /\ \A i \in ScoredOnes : ~Worse(i, i)
      /\ \A i, j \in ScoredOnes : i # j => Worse(i, j) \/ Worse(j, i)
      /\ \A i, j \in ScoredOnes : Worse(i, j) => o(i) <= o(j)
  BY <1>1, <1>2
<1>4. \A i, j, k \in ScoredOnes : Worse(i, j) /\ Worse(j, k) => Worse(i, k)
  BY <1>1, <1>2
<1>5. QED
  BY <1>3, <1>4 DEF o

(* Of the answers with a tip, one is the worst, and keeps it.              *)
LEMMA TipIsKept ==
  ASSUME ScoringInv, NEW i \in ScoredOnes
  PROVE  \E j \in Deduped : /\ Answers[j].tip = Answers[i].tip
                            /\ Answers[j].overall <= Answers[i].overall
<1> DEFINE o(j) == Answers[j].overall
           S == {j \in ScoredOnes : Answers[j].tip = Answers[i].tip}
           V == {o(j) : j \in S}
           W == {j \in S : o(j) = Min(V)}
<1>1. \A j \in ScoredOnes : j \in Nat /\ o(j) \in Nat
  <2>1. \A j \in ScoredOnes : j \in Nat /\ o(j) \in 0 .. 100
    BY AnswersAre
  <2>2. QED
    BY <2>1
<1>2. i \in S /\ S \subseteq ScoredOnes
  OBVIOUS
<1>3. Min(V) \in V /\ \A v \in V : Min(V) <= v
  <2>1. V \subseteq Nat /\ V # {}
    BY <1>1, <1>2
  <2> HIDE DEF V
  <2>2. QED
    BY <2>1, MinIsLeast
<1>4. Min(W) \in W /\ \A j \in W : Min(W) <= j
  <2>1. W \subseteq Nat /\ W # {}
    BY <1>1, <1>3
  <2> HIDE DEF W
  <2>2. QED
    BY <2>1, MinIsLeast
<1> DEFINE j == Min(W)
<1>5. j \in S /\ o(j) = Min(V) /\ j \in ScoredOnes
  BY <1>4
<1>6. \A k \in S : o(j) <= o(k) /\ (o(k) = o(j) => j <= k)
  BY <1>3, <1>4, <1>5
<1> HIDE DEF j, W, V
<1>7. \A k \in S \ {j} : Worse(j, k)
  <2>1. TAKE k \in S \ {j}
  <2>2. /\ j \in Nat /\ k \in Nat /\ o(j) \in Nat /\ o(k) \in Nat /\ j # k
        /\ o(j) <= o(k) /\ (o(k) = o(j) => j <= k)
    BY <1>1, <1>2, <1>5, <1>6
  <2>3. o(j) < o(k) \/ (o(j) = o(k) /\ j < k)
    <3> HIDE DEF o, S
    <3>1. QED
      BY <2>2
  <2>4. QED
    BY <2>3 DEF Worse
<1>8. j \in Deduped
  BY <1>5, <1>7 DEF Deduped
<1>9. QED
  BY <1>2, <1>5, <1>6, <1>8

(* Places are 1, 2, ... in the order of the fixes.                         *)
LEMMA PlacesAre ==
  ASSUME ScoringInv
  PROVE  /\ Cardinality(Deduped) \in Nat /\ Deduped \subseteq ScoredOnes
         /\ \A i \in Deduped : Place(i) \in 1 .. Cardinality(Deduped)
         /\ \A i, j \in Deduped : Worse(i, j) => Place(i) < Place(j)
         /\ \A k \in 1 .. Cardinality(Deduped) : \E i \in Deduped : Place(i) = k
<1> DEFINE n == Cardinality(Deduped)
           Lower(i) == {j \in Deduped : Worse(j, i)}
<1>1. Deduped \subseteq ScoredOnes /\ IsFiniteSet(Deduped) /\ n \in Nat
  <2>1. Deduped \subseteq ScoredOnes
    BY DEF Deduped
  <2>2. QED
    BY <2>1, AnswersAre, FS_Subset, FS_CardinalityType
<1>2. \A i : Place(i) = 1 + Cardinality(Lower(i)) /\ Lower(i) \in SUBSET Deduped
  BY DEF Place
<1>3. \A A \in SUBSET Deduped : /\ IsFiniteSet(A) /\ Cardinality(A) \in Nat /\ Cardinality(A) <= n
                                /\ Cardinality(A) = n => A = Deduped
  BY <1>1, FS_Subset, FS_CardinalityType
<1>4. \A i \in Deduped : Place(i) \in 1 .. n
  <2>1. TAKE i \in Deduped
  <2>2. i \notin Lower(i)
    BY <1>1, WorseIs
  <2>3. Lower(i) # Deduped
    BY <2>2
  <2> HIDE DEF Lower, n
  <2>4. Cardinality(Lower(i)) \in Nat /\ Cardinality(Lower(i)) < n
    BY <1>1, <1>2, <1>3, <2>3
  <2>5. QED
    BY <1>1, <1>2, <2>4
<1>5. \A i, j \in Deduped : Worse(i, j) => Place(i) < Place(j)
  <2>1. TAKE i, j \in Deduped
  <2>2. HAVE Worse(i, j)
  <2>3. Lower(i) \subseteq Lower(j)
    BY <1>1, <2>2, WorseIs
  <2>4. i \in Lower(j) /\ i \notin Lower(i)
    BY <1>1, <2>2, WorseIs
  <2> HIDE DEF Lower
  <2>5. Lower(i) \in SUBSET Lower(j) /\ Lower(i) # Lower(j) /\ IsFiniteSet(Lower(j))
    BY <1>2, <1>3, <2>3, <2>4
  <2>6. Cardinality(Lower(i)) <= Cardinality(Lower(j)) /\ Cardinality(Lower(i)) # Cardinality(Lower(j))
    BY <2>5, FS_Subset
  <2>7. Cardinality(Lower(i)) \in Nat /\ Cardinality(Lower(j)) \in Nat
    BY <1>2, <1>3
  <2>8. QED
    BY <1>2, <2>6, <2>7
<1>6. \A k \in 1 .. n : \E i \in Deduped : Place(i) = k
  <2> DEFINE p == [i \in Deduped |-> Place(i)]
  <2>1. p \in [Deduped -> 1 .. n]
    BY <1>4
  <2>2. \A i, j \in Deduped : p[i] = p[j] => i = j
    <3>1. TAKE i, j \in Deduped
    <3>2. HAVE p[i] = p[j]
    <3>3. Place(i) = Place(j) /\ Place(i) \in Nat
      BY <1>1, <1>4, <3>2
    <3>4. ~Worse(i, j) /\ ~Worse(j, i)
      BY <1>5, <3>3
    <3>5. QED
      BY <1>1, <3>4, WorseIs
  <2> HIDE DEF p
  <2>3. p \in Injection(Deduped, 1 .. n)
    BY <2>1, <2>2 DEF Injection, IsInjective
  <2>4. IsFiniteSet(1 .. n) /\ Cardinality(1 .. n) = n
    <3>1. 1 \in Int /\ n \in Int
      BY <1>1
    <3> HIDE DEF n
    <3>2. IsFiniteSet(1 .. n) /\ Cardinality(1 .. n) = IF 1 > n THEN 0 ELSE n - 1 + 1
      BY <3>1, FS_Interval
    <3>3. QED
      BY <1>1, <3>2
  <2>5. p \in Surjection(Deduped, 1 .. n)
    BY <2>3, <2>4, FS_Injection
  <2>6. \A k \in 1 .. n : \E i \in Deduped : p[i] = k
    BY <2>5 DEF Surjection
  <2>7. QED
    BY <2>6 DEF p
<1>7. QED
  BY <1>1, <1>4, <1>5, <1>6

LEMMA FixesAre ==
  ASSUME ScoringInv
  PROVE  /\ DOMAIN Fixes = 1 .. Len(Fixes) /\ Len(Fixes) \in Nat
         /\ Len(Fixes) <= Highlights /\ Len(Fixes) <= Cardinality(Deduped)
         /\ Len(Fixes) < Cardinality(Deduped) => Len(Fixes) = Highlights
         /\ \A k \in 1 .. Len(Fixes) : Fixes[k] \in Deduped /\ Place(Fixes[k]) = k
<1> DEFINE c == Cardinality(Deduped)
           n == Min({Highlights, c})
<1>1. Highlights \in Nat /\ c \in Nat
  BY PlacesAre, ScoringAssumption DEF ScoringAssumption
<1>2. n \in Nat /\ n <= Highlights /\ n <= c /\ (n = Highlights \/ n = c)
  <2>1. {Highlights, c} \subseteq Nat /\ {Highlights, c} # {}
    BY <1>1
  <2>2. n \in {Highlights, c} /\ \A y \in {Highlights, c} : n <= y
    BY <2>1, MinIsLeast
  <2>3. QED
    BY <1>1, <2>2
<1>3. \A k \in 1 .. n : k \in 1 .. c
  <2> HIDE DEF n, c
  <2>1. QED
    BY <1>1, <1>2
<1>4. Fixes = [k \in 1 .. n |-> CHOOSE i \in Deduped : Place(i) = k]
  BY DEF Fixes
<1> HIDE DEF n
<1>5. \A k \in 1 .. n : Fixes[k] \in Deduped /\ Place(Fixes[k]) = k
  BY <1>3, <1>4, PlacesAre
<1>6. Fixes \in [1 .. n -> Deduped]
  BY <1>4, <1>5
<1>7. Len(Fixes) = n /\ DOMAIN Fixes = 1 .. n
  <2>1. Fixes \in Seq(Deduped)
    BY <1>2, <1>6
  <2>2. QED
    BY <1>2, <1>6, <2>1, LenProperties
<1>8. QED
  BY <1>1, <1>2, <1>5, <1>7

(* A tip is among the fixes, or those that are went no better.             *)
LEMMA FixesFollow ==
  ASSUME ScoringInv, NEW i \in ScoredOnes
  PROVE  \/ \E k \in DOMAIN Fixes : Answers[Fixes[k]].tip = Answers[i].tip
         \/ /\ Len(Fixes) = Highlights
            /\ \A k \in DOMAIN Fixes : Answers[Fixes[k]].overall <= Answers[i].overall
<1>1. PICK j \in Deduped : /\ Answers[j].tip = Answers[i].tip
                           /\ Answers[j].overall <= Answers[i].overall
  BY TipIsKept
<1> DEFINE n == Len(Fixes)
           c == Cardinality(Deduped)
           p == Place(j)
<1>2. n \in Nat /\ c \in Nat /\ p \in 1 .. c /\ DOMAIN Fixes = 1 .. n /\ n <= c
      /\ (n < c => n = Highlights)
  BY FixesAre, PlacesAre
<1>3. \A k \in 1 .. n : Fixes[k] \in Deduped /\ Place(Fixes[k]) = k
  BY FixesAre
<1>4. Deduped \subseteq ScoredOnes /\ \A a, b \in Deduped : Worse(a, b) => Place(a) < Place(b)
  BY PlacesAre
<1>5. \A a \in Deduped : Place(a) \in Nat
  BY <1>2, PlacesAre
<1> HIDE DEF n, c, p
<1>6. CASE p <= n
  <2>1. p \in 1 .. n
    BY <1>2, <1>6
  <2>2. Fixes[p] \in Deduped /\ Place(Fixes[p]) = Place(j)
    BY <1>3, <2>1 DEF p
  <2>3. ~Worse(Fixes[p], j) /\ ~Worse(j, Fixes[p])
    BY <1>4, <1>5, <2>2
  <2>4. Fixes[p] = j
    BY <1>4, <2>2, <2>3, WorseIs
  <2>5. QED
    BY <1>1, <1>2, <2>1, <2>4
<1>7. CASE n < p
  <2>1. n < c /\ n = Highlights
    BY <1>2, <1>7
  <2>2. \A k \in 1 .. n : Answers[Fixes[k]].overall <= Answers[i].overall
    <3>1. TAKE k \in 1 .. n
    <3>2. Fixes[k] \in Deduped /\ Place(Fixes[k]) = k /\ k \in Nat /\ k < p
      BY <1>2, <1>3, <1>7
    <3>3. ~Worse(j, Fixes[k]) /\ Fixes[k] # j
      BY <1>2, <1>4, <3>2 DEF p
    <3>4. Worse(Fixes[k], j)
      BY <1>4, <3>2, <3>3, WorseIs
    <3>5. Answers[Fixes[k]].overall <= Answers[j].overall
      BY <1>4, <3>2, <3>4, WorseIs
    <3> DEFINE x == Answers[Fixes[k]].overall
               y == Answers[j].overall
               z == Answers[i].overall
    <3>6. x \in Nat /\ y \in Nat /\ z \in Nat
      <4>1. x \in 0 .. 100 /\ y \in 0 .. 100 /\ z \in 0 .. 100
        BY <1>4, <3>2, AnswersAre
      <4>2. QED
        BY <4>1
    <3>7. x <= y /\ y <= z
      BY <1>1, <3>5
    <3> HIDE DEF x, y, z
    <3>8. x <= z
      BY <3>6, <3>7
    <3>9. QED
      BY <3>8 DEF x, z
  <2>3. QED
    BY <1>2, <2>1, <2>2 DEF n
<1>8. QED
  BY <1>2, <1>6, <1>7

(* What was judged, what was not, and what was volunteered.                *)
LEMMA QuestionFollows ==
  ASSUME ScoringInv, stage = "reported"
  PROVE  /\ row.scored => /\ QuestionReport.criteria = Criteria \ row.notAssessed
                          /\ row.notAssessed \subseteq Criteria
                          /\ Criteria \ row.notAssessed # {}
         /\ ~row.scored => QuestionReport.criteria = {}
         /\ QuestionReport.not_assessed = row.notAssessed
         /\ QuestionReport.volunteered = Cardinality((Criteria \ row.notAssessed) \ row.prompted)
<1> DEFINE A == Criteria \ row.notAssessed
           n == Cardinality(A) - Cardinality(row.prompted)
<1>1. rubric \in Rubrics /\ asked \in SUBSET DOMAIN rubric.probes /\ row.prompted = PromptedBy(asked)
  BY DEF ScoringInv, Typed, RowIsOfTheInterview
<1>2. row.prompted \subseteq A /\ (row.scored => row.notAssessed \subseteq Criteria /\ A # {})
  <2>1. CASE row.scored
    BY <1>1, <2>1, RowIs, NotAssessedIs
  <2>2. CASE ~row.scored
    <3>1. row.notAssessed = {}
      BY <2>2 DEF ScoringInv, RowIsOfTheInterview
    <3>2. PromptedBy(asked) \subseteq Criteria
      BY <1>1, RubricIs DEF PromptedBy
    <3>3. QED
      BY <1>1, <2>2, <3>1, <3>2
  <2>3. QED
    BY <2>1, <2>2
<1>3. n = Cardinality(A \ row.prompted) /\ n \in Nat
  <2>1. IsFiniteSet(A) /\ A \cap row.prompted = row.prompted
    BY <1>2, CriteriaAre
  <2>2. /\ IsFiniteSet(A \ row.prompted)
        /\ Cardinality(A \ row.prompted) = Cardinality(A) - Cardinality(row.prompted)
    BY <2>1, FS_Difference
  <2>3. Cardinality(A \ row.prompted) \in Nat
    BY <2>2, FS_CardinalityType
  <2>4. QED
    BY <2>2, <2>3
<1>4. QuestionReport.volunteered = Max({0, n}) /\ QuestionReport.not_assessed = row.notAssessed
      /\ QuestionReport.criteria = IF row.scored THEN A ELSE {}
  BY DEF QuestionReport
<1>5. \A k \in Nat : Max({0, k}) = k
  <2>1. TAKE k \in Nat
  <2>2. k \in {0, k} /\ \A y \in {0, k} : k >= y
    OBVIOUS
  <2>3. \A x \in {0, k} : (\A y \in {0, k} : x >= y) => x = k
    OBVIOUS
  <2>4. QED
    BY <2>2, <2>3 DEF Max
<1> HIDE DEF n, A
<1>6. QuestionReport.volunteered = Cardinality(A \ row.prompted)
  BY <1>3, <1>4, <1>5
<1>7. QED
  BY <1>2, <1>4, <1>6 DEF A

LEMMA ReportFollows == ScoringInv => ReportAddsUp
<1> SUFFICES ASSUME ScoringInv, stage = "reported"
             PROVE  LET mine == report.question IN
                    /\ mine.criteria \cap mine.not_assessed = {}
                    /\ row.scored => mine.criteria \cup mine.not_assessed = Criteria /\ mine.criteria # {}
                    /\ mine.volunteered = Cardinality((Criteria \ row.notAssessed) \ row.prompted)
                    /\ report.overall = -1 <=> report.status = "failed"
                    /\ report.status = "ready" <=> ScoredOnes = DOMAIN Answers
                    /\ ScoredOnes # {} =>
                         \E t, u \in DOMAIN report.by_topic :
                           report.by_topic[t] <= report.overall /\ report.overall <= report.by_topic[u]
                    /\ \A i \in ScoredOnes :
                         \/ \E k \in DOMAIN report.fixes : Answers[report.fixes[k]].tip = Answers[i].tip
                         \/ /\ Len(report.fixes) = Highlights
                            /\ \A k \in DOMAIN report.fixes :
                                 Answers[report.fixes[k]].overall <= Answers[i].overall
  BY DEF ReportAddsUp
<1>1. /\ report.status = StatusOf /\ report.overall = SessionOverall /\ report.by_topic = ByTopic
      /\ report.fixes = Fixes /\ report.question = QuestionReport
  BY DEF ScoringInv, ReportIsOfTheRows
<1>2. /\ QuestionReport.criteria \cap QuestionReport.not_assessed = {}
      /\ row.scored => /\ QuestionReport.criteria \cup QuestionReport.not_assessed = Criteria
                       /\ QuestionReport.criteria # {}
      /\ QuestionReport.volunteered = Cardinality((Criteria \ row.notAssessed) \ row.prompted)
  BY QuestionFollows
<1>3. SessionOverall = -1 <=> ScoredOnes = {}
  <2>1. CASE ScoredOnes = {}
    BY <2>1 DEF SessionOverall
  <2>2. CASE ScoredOnes # {}
    <3>1. ScoredOnes \in SUBSET ScoredOnes
      OBVIOUS
    <3>2. Total(ScoredOnes) \in Nat /\ Cardinality(ScoredOnes) \in Nat \ {0}
      BY <2>2, <3>1, TotalIs
    <3>3. Mean(Total(ScoredOnes), Cardinality(ScoredOnes)) \in Nat
      BY <3>2, MeanIs
    <3>4. SessionOverall = Mean(Total(ScoredOnes), Cardinality(ScoredOnes))
      BY <2>2 DEF SessionOverall
    <3>5. \A k \in Nat : k # -1
      OBVIOUS
    <3>6. QED
      BY <2>2, <3>3, <3>4, <3>5
  <2>3. QED
    BY <2>1, <2>2
<1>4. /\ StatusOf = "failed" <=> ScoredOnes = {}
      /\ StatusOf = "ready" <=> ScoredOnes = DOMAIN Answers
  <2>1. DOMAIN Answers # {}
    <3>1. Answers \in Seq(Answer) /\ Answers = <<Mine>> \o others
      BY AnswersAre DEF Answers
    <3>2. others \in Seq(Answer)
      BY ScoringAssumption DEF ScoringInv, Typed, ScoringAssumption
    <3>3. Len(Answers) = 1 + Len(others) /\ Len(others) \in Nat /\ DOMAIN Answers = 1 .. Len(Answers)
      BY <3>1, <3>2
    <3>4. 1 \in DOMAIN Answers
      BY <3>3
    <3>5. QED
      BY <3>4
  <2>2. QED
    BY <2>1 DEF StatusOf
<1>5. ScoredOnes # {} => \E t, u \in DOMAIN ByTopic :
                           ByTopic[t] <= SessionOverall /\ SessionOverall <= ByTopic[u]
  BY TopicsBracket
<1>6. \A i \in ScoredOnes :
        \/ \E k \in DOMAIN Fixes : Answers[Fixes[k]].tip = Answers[i].tip
        \/ /\ Len(Fixes) = Highlights
           /\ \A k \in DOMAIN Fixes : Answers[Fixes[k]].overall <= Answers[i].overall
  BY FixesFollow
<1>7. QED
  BY <1>1, <1>2, <1>3, <1>4, <1>5, <1>6

(* The report adds up for any number of answers, topics and tips: its      *)
(* criteria, what was volunteered, its status and number, the topics'      *)
(* numbers around it, and the fixes.                                       *)
THEOREM ReportsAddUp == ScoringSpec => []ReportAddsUp
  BY ReportFollows, ScoringInvariance, PTL

=============================================================================
