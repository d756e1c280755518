----------------------------- MODULE SumTheorems -----------------------------
(***************************************************************************)
(* Sums of functions over finite sets (Functions!SumFunctionOnSet): what   *)
(* they are, and how they change when the function changes at a point.     *)
(* The library's induction theorems take operators as parameters; here     *)
(* induction is the choice of a smallest set for which a statement fails.  *)
(***************************************************************************)
EXTENDS FiniteSetTheorems, TLAPS

Sum(f, S) == SumFunctionOnSet(f, S)

(* A set of subsets of a finite set that is not empty has a member none of *)
(* whose strict subsets are in it.                                         *)
LEMMA SmallestSet ==
  ASSUME NEW S, IsFiniteSet(S), NEW F \in SUBSET SUBSET S, F # {}
  PROVE  \E T \in F : \A U \in F : U \subseteq T => U = T
<1>1. IsWellFoundedOn(StrictSubsetOrdering(S), SUBSET S)
  BY FS_StrictSubsetOrderingWellFounded, FS_FiniteSubsetsOfFinite
<1>2. PICK T \in F : \A U \in F : ~(<<U, T>> \in StrictSubsetOrdering(S))
  BY <1>1, WFMin
<1> QED BY <1>2 DEF StrictSubsetOrdering

(* The function that MapThenFoldSet defines by recursion.                  *)
AnyOf(s) == CHOOSE x \in s : TRUE
Adds(f, S, g) ==
  g = [s \in SUBSET S |-> IF s = {} THEN 0 ELSE f[AnyOf(s)] + g[s \ {AnyOf(s)}]]
Adder(f, S) == CHOOSE g : Adds(f, S, g)

LEMMA SumIsAdder == ASSUME NEW f, NEW S PROVE Sum(f, S) = Adder(f, S)[S]
<1> QED BY DEF Sum, SumFunctionOnSet, FoldFunctionOnSet, MapThenFoldSet, Adder, Adds, AnyOf

LEMMA AnyOfIn == ASSUME NEW s, s # {} PROVE AnyOf(s) \in s
<1> QED BY DEF AnyOf

(* Two such functions agree where both are defined.                        *)
LEMMA AddersAgree ==
  ASSUME NEW f, NEW S, NEW T, IsFiniteSet(S), T \subseteq S,
         NEW g, NEW h, Adds(f, S, g), Adds(f, T, h)
  PROVE  \A s \in SUBSET T : g[s] = h[s]
<1> DEFINE F == {s \in SUBSET T : g[s] # h[s]}
<1> SUFFICES ASSUME F # {} PROVE FALSE
  OBVIOUS
<1>1. IsFiniteSet(T) /\ F \in SUBSET SUBSET T
  BY FS_Subset
<1>2. PICK s \in F : \A U \in F : U \subseteq s => U = s
  <2> HIDE DEF F
  <2> QED BY <1>1, SmallestSet
<1>3. s \in SUBSET T /\ s \in SUBSET S
  OBVIOUS
<1>4. g[s] = IF s = {} THEN 0 ELSE f[AnyOf(s)] + g[s \ {AnyOf(s)}]
  BY <1>3 DEF Adds
<1>5. h[s] = IF s = {} THEN 0 ELSE f[AnyOf(s)] + h[s \ {AnyOf(s)}]
  BY <1>3 DEF Adds
<1>6. s # {} => g[s \ {AnyOf(s)}] = h[s \ {AnyOf(s)}]
  BY <1>2, <1>3, AnyOfIn
<1> QED BY <1>4, <1>5, <1>6

(* A smaller set's function is that of the larger one, restricted.         *)
LEMMA AdderBelow ==
  ASSUME NEW f, NEW S, NEW T, T \subseteq S, NEW g, Adds(f, S, g)
  PROVE  Adds(f, T, [s \in SUBSET T |-> g[s]])
<1> DEFINE h == [s \in SUBSET T |-> g[s]]
<1>1. ASSUME NEW s \in SUBSET T
      PROVE  h[s] = IF s = {} THEN 0 ELSE f[AnyOf(s)] + h[s \ {AnyOf(s)}]
  <2>1. g[s] = IF s = {} THEN 0 ELSE f[AnyOf(s)] + g[s \ {AnyOf(s)}]
    BY DEF Adds
  <2>2. h[s] = g[s] /\ h[s \ {AnyOf(s)}] = g[s \ {AnyOf(s)}]
    OBVIOUS
  <2> QED BY <2>1, <2>2
<1>2. h = [s \in SUBSET T |-> h[s]]
  OBVIOUS
<1> HIDE DEF h
<1>3. Adds(f, T, h)
  BY <1>1, <1>2 DEF Adds
<1> QED BY <1>3 DEF h

(* The function exists: the sums of the smaller sets make that of a set.   *)
LEMMA AdderExists ==
  ASSUME NEW f, NEW S, IsFiniteSet(S)
  PROVE  Adds(f, S, Adder(f, S))
<1> DEFINE F == {T \in SUBSET S : ~ \E g : Adds(f, T, g)}
<1> SUFFICES ASSUME F # {} PROVE FALSE
  <2>1. S \notin F => \E g : Adds(f, S, g)
    OBVIOUS
  <2> QED BY <2>1 DEF Adder
<1>1. F \in SUBSET SUBSET S
  OBVIOUS
<1>2. PICK T \in F : \A U \in F : U \subseteq T => U = T
  <2> HIDE DEF F
  <2> QED BY <1>1, SmallestSet
<1>3. T \in SUBSET S /\ IsFiniteSet(T) /\ ~ \E g : Adds(f, T, g)
  BY FS_Subset
<1>4. ASSUME NEW U \in SUBSET T, U # T PROVE Adds(f, U, Adder(f, U))
  <2>1. \E g : Adds(f, U, g)
    BY <1>2, <1>3, <1>4
  <2> QED BY <2>1 DEF Adder
<1> DEFINE v(U) == Adder(f, U)[U]
           p == AnyOf(T)
           g == [U \in SUBSET T |->
                   IF U # T THEN v(U)
                   ELSE IF T = {} THEN 0 ELSE f[p] + v(T \ {p})]
<1>5. ASSUME NEW U \in SUBSET T, U # T, U # {}
      PROVE  v(U) = f[AnyOf(U)] + v(U \ {AnyOf(U)})
  <2> DEFINE V == U \ {AnyOf(U)}
  <2>1. AnyOf(U) \in U /\ V \in SUBSET U /\ V # T /\ V \in SUBSET T /\ IsFiniteSet(U)
    BY <1>3, <1>5, AnyOfIn, FS_Subset
  <2>2. Adds(f, U, Adder(f, U)) /\ Adds(f, V, Adder(f, V))
    BY <1>4, <1>5, <2>1
  <2>3. Adder(f, U)[V] = Adder(f, V)[V]
    BY <2>1, <2>2, AddersAgree
  <2>4. Adder(f, U)[U] = f[AnyOf(U)] + Adder(f, U)[V]
    <3>1. U \in SUBSET U
      OBVIOUS
    <3> QED BY <1>5, <2>2, <3>1 DEF Adds
  <2> QED BY <2>3, <2>4
<1>6. T # {} => v({}) = 0
  <2> SUFFICES ASSUME T # {} PROVE Adder(f, {})[{}] = 0
    OBVIOUS
  <2>1. Adds(f, {}, Adder(f, {}))
    BY <1>4
  <2> QED BY <2>1 DEF Adds
<1>7. ASSUME NEW U \in SUBSET T
      PROVE  g[U] = IF U = {} THEN 0 ELSE f[AnyOf(U)] + g[U \ {AnyOf(U)}]
  <2> HIDE DEF v
  <2>1. CASE U = {}
    BY <2>1, <1>6
  <2>2. CASE U # {} /\ U = T
    <3>1. T \ {p} \in SUBSET T /\ T \ {p} # T
      BY <2>2, AnyOfIn
    <3>2. g[T] = f[p] + v(T \ {p}) /\ g[T \ {p}] = v(T \ {p})
      BY <2>2, <3>1
    <3> QED BY <2>2, <3>2
  <2>3. CASE U # {} /\ U # T
    <3>1. U \ {AnyOf(U)} \in SUBSET T /\ U \ {AnyOf(U)} # T
      BY <2>3, AnyOfIn
    <3>2. g[U] = v(U) /\ g[U \ {AnyOf(U)}] = v(U \ {AnyOf(U)})
      BY <2>3, <3>1
    <3> QED BY <2>3, <3>2, <1>5
  <2> QED BY <2>1, <2>2, <2>3
<1>8. g = [U \in SUBSET T |-> g[U]]
  OBVIOUS
<1>9. Adds(f, T, g)
  <2> HIDE DEF g
  <2> QED BY <1>7, <1>8 DEF Adds
<1> QED BY <1>3, <1>9

LEMMA SumEmpty == ASSUME NEW f PROVE Sum(f, {}) = 0
<1>1. Adds(f, {}, Adder(f, {}))
  BY AdderExists, FS_EmptySet
<1> QED BY <1>1, SumIsAdder DEF Adds

LEMMA SumPick ==
  ASSUME NEW f, NEW S, IsFiniteSet(S), S # {}
  PROVE  Sum(f, S) = f[AnyOf(S)] + Sum(f, S \ {AnyOf(S)})
<1> DEFINE R == S \ {AnyOf(S)}
<1>1. R \in SUBSET S /\ S \in SUBSET S /\ IsFiniteSet(R)
  BY FS_Subset
<1>2. Adds(f, S, Adder(f, S)) /\ Adds(f, R, Adder(f, R))
  BY <1>1, AdderExists
<1>3. Adder(f, S)[R] = Adder(f, R)[R]
  BY <1>1, <1>2, AddersAgree
<1>4. Adder(f, S)[S] = f[AnyOf(S)] + Adder(f, S)[R]
  BY <1>1, <1>2 DEF Adds
<1> QED BY <1>3, <1>4, SumIsAdder
-----------------------------------------------------------------------------
(* What the proofs of the models use: a sum is a whole number, and any     *)
(* element may be taken out of it.                                         *)
LEMMA SumType ==
  ASSUME NEW S, IsFiniteSet(S), NEW f, \A x \in S : f[x] \in Int
  PROVE  Sum(f, S) \in Int
<1> DEFINE F == {T \in SUBSET S : Sum(f, T) \notin Int}
<1> SUFFICES ASSUME F # {} PROVE FALSE
  OBVIOUS
<1>1. F \in SUBSET SUBSET S
  OBVIOUS
<1>2. PICK T \in F : \A U \in F : U \subseteq T => U = T
  <2> HIDE DEF F
  <2> QED BY <1>1, SmallestSet
<1>3. IsFiniteSet(T) /\ T # {}
  <2>1. Sum(f, {}) = 0
    BY SumEmpty
  <2>2. T \in SUBSET S /\ Sum(f, T) \notin Int
    OBVIOUS
  <2>3. T # {}
    BY <2>1, <2>2
  <2> QED BY <2>2, <2>3, FS_Subset
<1>4. AnyOf(T) \in T
  BY <1>3, AnyOfIn
<1>5. Sum(f, T \ {AnyOf(T)}) \in Int
  BY <1>2, <1>4
<1>6. f[AnyOf(T)] \in Int /\ Sum(f, T) = f[AnyOf(T)] + Sum(f, T \ {AnyOf(T)})
  BY <1>3, <1>4, SumPick
<1> QED BY <1>5, <1>6

LEMMA SumTake ==
  ASSUME NEW S, IsFiniteSet(S), NEW f, \A x \in S : f[x] \in Int, NEW e \in S
  PROVE  Sum(f, S) = f[e] + Sum(f, S \ {e})
<1> DEFINE F == {T \in SUBSET S : \E x \in T : Sum(f, T) # f[x] + Sum(f, T \ {x})}
<1> SUFFICES ASSUME F # {} PROVE FALSE
  OBVIOUS
<1>1. F \in SUBSET SUBSET S
  OBVIOUS
<1>2. PICK T \in F : \A U \in F : U \subseteq T => U = T
  <2> HIDE DEF F
  <2> QED BY <1>1, SmallestSet
<1>3. PICK x \in T : Sum(f, T) # f[x] + Sum(f, T \ {x})
  OBVIOUS
<1> DEFINE p == AnyOf(T)
           A == T \ {p}
           B == T \ {x}
           C == (T \ {p}) \ {x}
<1>4. IsFiniteSet(T) /\ IsFiniteSet(A) /\ IsFiniteSet(B) /\ IsFiniteSet(C) /\ p \in T
  BY FS_Subset, AnyOfIn
<1>5. Sum(f, T) = f[p] + Sum(f, A)
  BY <1>4, SumPick
<1>6. p # x
  BY <1>3, <1>5
<1>7. Sum(f, A) = f[x] + Sum(f, C)
  <2>1. A \in SUBSET T /\ A # T /\ x \in A /\ C = A \ {x}
    BY <1>4, <1>6
  <2> QED BY <1>2, <2>1
<1>8. Sum(f, B) = f[p] + Sum(f, C)
  <2>1. B \ {p} = C /\ p \in B /\ B # T /\ B \in SUBSET S
    BY <1>4, <1>6
  <2> QED BY <1>2, <2>1
<1>9. Sum(f, C) \in Int /\ f[p] \in Int /\ f[x] \in Int
  BY <1>4, SumType
<1> HIDE DEF p, A, B, C
<1>10. Sum(f, T) = f[x] + Sum(f, B)
  BY <1>5, <1>7, <1>8, <1>9
<1> QED BY <1>3, <1>10 DEF B

(* The sum is that of the values.                                          *)
LEMMA SumAgree ==
  ASSUME NEW S, IsFiniteSet(S), NEW f, NEW g, \A x \in S : f[x] = g[x]
  PROVE  Sum(f, S) = Sum(g, S)
<1> DEFINE F == {T \in SUBSET S : Sum(f, T) # Sum(g, T)}
<1> SUFFICES ASSUME F # {} PROVE FALSE
  OBVIOUS
<1>1. F \in SUBSET SUBSET S
  OBVIOUS
<1>2. PICK T \in F : \A U \in F : U \subseteq T => U = T
  <2> HIDE DEF F
  <2> QED BY <1>1, SmallestSet
<1>3. IsFiniteSet(T) /\ T # {}
  BY FS_Subset, SumEmpty
<1>4. AnyOf(T) \in T
  BY <1>3, AnyOfIn
<1>5. Sum(f, T \ {AnyOf(T)}) = Sum(g, T \ {AnyOf(T)})
  BY <1>2, <1>4
<1>6. Sum(f, T) = f[AnyOf(T)] + Sum(f, T \ {AnyOf(T)})
  BY <1>3, SumPick
<1>7. Sum(g, T) = g[AnyOf(T)] + Sum(g, T \ {AnyOf(T)})
  BY <1>3, SumPick
<1> QED BY <1>4, <1>5, <1>6, <1>7

(* A change at one point changes the sum by as much.                       *)
LEMMA SumChange ==
  ASSUME NEW S, IsFiniteSet(S), NEW e \in S, NEW f, NEW g,
         \A x \in S : f[x] \in Int /\ g[x] \in Int,
         \A x \in S \ {e} : g[x] = f[x]
  PROVE  Sum(g, S) = Sum(f, S) + g[e] - f[e]
<1>1. Sum(f, S) = f[e] + Sum(f, S \ {e}) /\ Sum(g, S) = g[e] + Sum(g, S \ {e})
  BY SumTake
<1>2. IsFiniteSet(S \ {e})
  BY FS_Subset
<1>3. Sum(f, S \ {e}) = Sum(g, S \ {e}) /\ Sum(f, S \ {e}) \in Int
  BY <1>2, SumAgree, SumType
<1>4. f[e] \in Int /\ g[e] \in Int
  OBVIOUS
<1> QED BY <1>1, <1>3, <1>4

(* Sums are monotone.                                                      *)
LEMMA SumOrder ==
  ASSUME NEW S, IsFiniteSet(S), NEW f, NEW g,
         \A x \in S : f[x] \in Int /\ g[x] \in Int /\ f[x] <= g[x]
  PROVE  Sum(f, S) <= Sum(g, S)
<1> DEFINE F == {T \in SUBSET S : ~(Sum(f, T) <= Sum(g, T))}
<1> SUFFICES ASSUME F # {} PROVE FALSE
  OBVIOUS
<1>1. F \in SUBSET SUBSET S
  OBVIOUS
<1>2. PICK T \in F : \A U \in F : U \subseteq T => U = T
  <2> HIDE DEF F
  <2> QED BY <1>1, SmallestSet
<1>3. IsFiniteSet(T) /\ T # {}
  <2>1. Sum(f, {}) = 0 /\ Sum(g, {}) = 0
    BY SumEmpty
  <2>2. T \in SUBSET S /\ ~(Sum(f, T) <= Sum(g, T))
    OBVIOUS
  <2>3. T # {}
    BY <2>1, <2>2
  <2> QED BY <2>2, <2>3, FS_Subset
<1> DEFINE p == AnyOf(T)
           A == T \ {p}
<1>4. p \in T /\ IsFiniteSet(A)
  BY <1>3, AnyOfIn, FS_Subset
<1>5. Sum(f, A) <= Sum(g, A)
  BY <1>2, <1>4
<1>6. Sum(f, T) = f[p] + Sum(f, A) /\ Sum(g, T) = g[p] + Sum(g, A)
  BY <1>3, SumPick
<1>7. Sum(f, A) \in Int /\ Sum(g, A) \in Int
  BY <1>4, SumType
<1>8. f[p] \in Int /\ g[p] \in Int /\ f[p] <= g[p]
  BY <1>4
<1> HIDE DEF p, A
<1>9. Sum(f, T) <= Sum(g, T)
  BY <1>5, <1>6, <1>7, <1>8
<1> QED BY <1>9

LEMMA SumZero ==
  ASSUME NEW S, IsFiniteSet(S), NEW f, \A x \in S : f[x] = 0
  PROVE  Sum(f, S) = 0
<1> DEFINE z == [x \in S |-> 0]
<1>1. ASSUME NEW T \in SUBSET S PROVE Sum(z, T) = 0
  <2> DEFINE F == {U \in SUBSET T : Sum(z, U) # 0}
  <2> SUFFICES ASSUME F # {} PROVE FALSE
    OBVIOUS
  <2>1. F \in SUBSET SUBSET T /\ IsFiniteSet(T)
    BY FS_Subset
  <2>2. PICK U \in F : \A V \in F : V \subseteq U => V = U
    <3> HIDE DEF F
    <3> QED BY <2>1, SmallestSet
  <2>3. IsFiniteSet(U) /\ U # {}
    BY <2>1, FS_Subset, SumEmpty
  <2>4. AnyOf(U) \in U
    BY <2>3, AnyOfIn
  <2>5. Sum(z, U \ {AnyOf(U)}) = 0 /\ z[AnyOf(U)] = 0
    BY <2>2, <2>4
  <2>6. Sum(z, U) = z[AnyOf(U)] + Sum(z, U \ {AnyOf(U)})
    BY <2>3, SumPick
  <2> QED BY <2>5, <2>6
<1>2. Sum(z, S) = 0 /\ \A x \in S : f[x] = z[x]
  BY <1>1
<1> QED BY <1>2, SumAgree

LEMMA SumNat ==
  ASSUME NEW S, IsFiniteSet(S), NEW f, \A x \in S : f[x] \in Nat
  PROVE  Sum(f, S) \in Nat /\ \A x \in S : f[x] <= Sum(f, S)
<1>1. ASSUME NEW T \in SUBSET S PROVE Sum(f, T) \in Nat
  <2> DEFINE z == [x \in T |-> 0]
  <2>1. IsFiniteSet(T)
    BY FS_Subset
  <2>2. Sum(z, T) = 0
    BY <2>1, SumZero
  <2>3. Sum(z, T) <= Sum(f, T)
    BY <2>1, SumOrder
  <2>4. Sum(f, T) \in Int
    BY <2>1, SumType
  <2> QED BY <2>2, <2>3, <2>4
<1>2. ASSUME NEW x \in S PROVE f[x] <= Sum(f, S)
  <2>1. Sum(f, S) = f[x] + Sum(f, S \ {x}) /\ Sum(f, S \ {x}) \in Nat
    BY <1>1, SumTake
  <2> QED BY <2>1
<1> QED BY <1>1, <1>2

(* The sum of a set is that of two disjoint parts of it.                   *)
LEMMA SumSplit ==
  ASSUME NEW S, IsFiniteSet(S), NEW A, NEW B, S = A \cup B, A \cap B = {},
         NEW f, \A x \in S : f[x] \in Int
  PROVE  Sum(f, S) = Sum(f, A) + Sum(f, B)
<1> DEFINE F == {T \in SUBSET A : Sum(f, T \cup B) # Sum(f, T) + Sum(f, B)}
<1> SUFFICES ASSUME F # {} PROVE FALSE
  OBVIOUS
<1>1. F \in SUBSET SUBSET A /\ IsFiniteSet(A) /\ IsFiniteSet(B)
  BY FS_Subset
<1>2. PICK T \in F : \A U \in F : U \subseteq T => U = T
  <2> HIDE DEF F
  <2> QED BY <1>1, SmallestSet
<1>3. IsFiniteSet(T) /\ IsFiniteSet(T \cup B) /\ Sum(f, B) \in Int
  BY <1>1, FS_Subset, SumType
<1>4. T # {}
  <2>1. {} \cup B = B
    OBVIOUS
  <2>2. Sum(f, {}) = 0
    BY SumEmpty
  <2> QED BY <1>3, <2>1, <2>2
<1> DEFINE p == AnyOf(T)
           R == T \ {p}
<1>5. p \in T /\ IsFiniteSet(R) /\ p \in T \cup B /\ (T \cup B) \ {p} = R \cup B
  BY <1>3, <1>4, AnyOfIn, FS_Subset
<1>6. Sum(f, R \cup B) = Sum(f, R) + Sum(f, B)
  BY <1>2, <1>5
<1>7. Sum(f, T) = f[p] + Sum(f, R)
  BY <1>3, <1>5, SumTake
<1>8. Sum(f, T \cup B) = f[p] + Sum(f, R \cup B)
  BY <1>3, <1>5, SumTake
<1>9. Sum(f, R) \in Int /\ f[p] \in Int
  BY <1>5, SumType
<1> HIDE DEF p, R
<1>10. Sum(f, T \cup B) = Sum(f, T) + Sum(f, B)
  BY <1>3, <1>6, <1>7, <1>8, <1>9
<1> QED BY <1>10

(* Two sums make the sum of the sums. *)
LEMMA SumAdd ==
  ASSUME NEW S, IsFiniteSet(S), NEW f, NEW g, NEW h,
         \A x \in S : f[x] \in Int /\ g[x] \in Int /\ h[x] = f[x] + g[x]
  PROVE  Sum(h, S) = Sum(f, S) + Sum(g, S)
<1> DEFINE F == {T \in SUBSET S : Sum(h, T) # Sum(f, T) + Sum(g, T)}
<1> SUFFICES ASSUME F # {} PROVE FALSE
  OBVIOUS
<1>1. F \in SUBSET SUBSET S
  OBVIOUS
<1>2. PICK T \in F : \A U \in F : U \subseteq T => U = T
  <2> HIDE DEF F
  <2> QED BY <1>1, SmallestSet
<1>3. IsFiniteSet(T) /\ T # {}
  <2>1. Sum(f, {}) = 0 /\ Sum(g, {}) = 0 /\ Sum(h, {}) = 0
    BY SumEmpty
  <2>2. T \in SUBSET S /\ Sum(h, T) # Sum(f, T) + Sum(g, T)
    OBVIOUS
  <2>3. T # {}
    BY <2>1, <2>2
  <2> QED BY <2>2, <2>3, FS_Subset
<1> DEFINE p == AnyOf(T)
           A == T \ {p}
<1>4. p \in T /\ IsFiniteSet(A) /\ p \in S
  BY <1>3, AnyOfIn, FS_Subset
<1>5. Sum(h, A) = Sum(f, A) + Sum(g, A)
  BY <1>2, <1>4
<1>6. /\ Sum(f, T) = f[p] + Sum(f, A) /\ Sum(g, T) = g[p] + Sum(g, A)
      /\ Sum(h, T) = h[p] + Sum(h, A)
  BY <1>3, SumPick
<1>7. Sum(f, A) \in Int /\ Sum(g, A) \in Int
  BY <1>4, SumType
<1>8. f[p] \in Int /\ g[p] \in Int /\ h[p] = f[p] + g[p]
  BY <1>4
<1> HIDE DEF p, A
<1>9. Sum(h, T) = Sum(f, T) + Sum(g, T)
  BY <1>5, <1>6, <1>7, <1>8
<1> QED BY <1>9

(* The rows of a table sum up to what its columns sum up to. *)
LEMMA SumExchange ==
  ASSUME NEW R, IsFiniteSet(R), NEW C, IsFiniteSet(C), NEW t,
         \A r \in R, c \in C : t[r][c] \in Int
  PROVE  Sum([r \in R |-> Sum(t[r], C)], R)
           = Sum([c \in C |-> Sum([r \in R |-> t[r][c]], R)], C)
<1> DEFINE row == [r \in R |-> Sum(t[r], C)]
           part(c) == [r \in R |-> t[r][c]]
           col(T) == [c \in C |-> Sum(part(c), T)]
           F == {T \in SUBSET R : Sum(row, T) # Sum(col(T), C)}
<1>0. ASSUME NEW T \in SUBSET R, T \notin F PROVE Sum(row, T) = Sum(col(T), C)
  BY <1>0
<1>1. F = {}
  <2> SUFFICES ASSUME F # {} PROVE FALSE
    OBVIOUS
  <2>1. F \in SUBSET SUBSET R
    OBVIOUS
  <2>2. PICK T \in F : \A U \in F : U \subseteq T => U = T
    <3> HIDE DEF F
    <3> QED BY <2>1, SmallestSet
  <2>3. T \in SUBSET R /\ Sum(row, T) # Sum(col(T), C) /\ IsFiniteSet(T)
    BY FS_Subset
  <2>4. T # {}
    <3> SUFFICES ASSUME T = {} PROVE FALSE
      OBVIOUS
    <3>1. Sum(row, {}) = 0
      BY SumEmpty
    <3>2. \A c \in C : col({})[c] = 0
      BY SumEmpty
    <3>3. Sum(col({}), C) = 0
      <4> HIDE DEF col
      <4> QED BY <3>2, SumZero
    <3> QED BY <2>3, <3>1, <3>3
  <2> DEFINE p == AnyOf(T)
             A == T \ {p}
  <2>5. p \in T /\ p \in R /\ IsFiniteSet(A) /\ A \in SUBSET R /\ A # T
    BY <2>3, <2>4, AnyOfIn, FS_Subset
  <2>6. Sum(row, A) = Sum(col(A), C)
    BY <2>2, <2>5, <1>0
  <2>7. Sum(row, T) = Sum(t[p], C) + Sum(row, A)
    <3>1. Sum(row, T) = row[p] + Sum(row, A)
      BY <2>3, <2>4, SumPick
    <3> QED BY <2>5, <3>1
  <2>8. \A c \in C : /\ t[p][c] \in Int /\ col(A)[c] \in Int
                     /\ col(T)[c] = t[p][c] + col(A)[c]
    <3> SUFFICES ASSUME NEW c \in C
                 PROVE  /\ t[p][c] \in Int /\ Sum(part(c), A) \in Int
                        /\ Sum(part(c), T) = t[p][c] + Sum(part(c), A)
      BY DEF col
    <3>1. \A r \in R : part(c)[r] = t[r][c]
      OBVIOUS
    <3> HIDE DEF part
    <3>2. Sum(part(c), T) = part(c)[p] + Sum(part(c), A)
      BY <2>3, <2>4, SumPick
    <3>3. \A r \in A : part(c)[r] \in Int
      BY <2>5, <3>1
    <3>4. Sum(part(c), A) \in Int
      BY <2>5, <3>3, SumType
    <3> QED BY <2>5, <3>1, <3>2, <3>4
  <2>9. Sum(col(T), C) = Sum(t[p], C) + Sum(col(A), C)
    <3> HIDE DEF col, p, A
    <3> QED BY <2>8, SumAdd
  <2> HIDE DEF p, A, row, col
  <2> QED BY <2>3, <2>6, <2>7, <2>9
<1>2. Sum(row, R) = Sum(col(R), C)
  BY <1>1
<1> QED BY <1>2

(* A function has a greatest value on a finite set. *)
LEMMA GreatestValue ==
  ASSUME NEW S, IsFiniteSet(S), S # {}, NEW f, \A x \in S : f[x] \in Int
  PROVE  \E e \in S : \A x \in S : f[x] <= f[e]
<1> DEFINE Bounded(T) == \E e \in T : \A x \in T : f[x] <= f[e]
           F == {T \in SUBSET S : T # {} /\ ~Bounded(T)}
<1> SUFFICES ASSUME F # {} PROVE FALSE
  OBVIOUS
<1>1. F \in SUBSET SUBSET S
  OBVIOUS
<1>2. PICK T \in F : \A U \in F : U \subseteq T => U = T
  <2> HIDE DEF F
  <2> QED BY <1>1, SmallestSet
<1>3. T \in SUBSET S /\ T # {} /\ ~Bounded(T)
  OBVIOUS
<1>4. PICK p \in T : TRUE
  BY <1>3
<1>5. CASE T = {p}
  BY <1>3, <1>5
<1>6. CASE T # {p}
  <2>1. T \ {p} # {} /\ T \ {p} \in SUBSET S /\ T \ {p} # T
    BY <1>3, <1>4, <1>6
  <2>2. Bounded(T \ {p})
    BY <1>2, <2>1
  <2>3. PICK e \in T \ {p} : \A x \in T \ {p} : f[x] <= f[e]
    BY <2>2
  <2>4. f[e] \in Int /\ f[p] \in Int /\ \A x \in T : f[x] \in Int
    BY <1>3, <1>4
  <2>5. CASE f[p] <= f[e]
    BY <1>3, <2>3, <2>5
  <2>6. CASE f[e] <= f[p]
    <3>1. \A x \in T : f[x] <= f[p]
      BY <2>3, <2>4, <2>6
    <3> QED BY <1>3, <1>4, <3>1
  <2> QED BY <2>4, <2>5, <2>6
<1> QED BY <1>5, <1>6
==============================================================================
