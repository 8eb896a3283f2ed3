----------------------------- MODULE SumsProofs -----------------------------
(***************************************************************************)
(* What SumOver computes, for every finite set of rows.  The proofs first   *)
(* show that a summing function exists on the subsets of a finite set, then *)
(* that the recursion of SumOver has no other solution; both are inductions *)
(* over the finite subsets, carried out as minimal counterexamples.         *)
(***************************************************************************)
EXTENDS Sums, FiniteSets, FiniteSetTheorems, WellFoundedInduction, TLAPS

\* g is the summing function of f on the subsets of S.
Sums(f, S, g) ==
  /\ g \in [SUBSET S -> Int]
  /\ g[{}] = 0
  /\ \A T \in SUBSET S : \A x \in T : g[T] = f[x] + g[T \ {x}]

\* A non-empty family of finite sets has a member none of whose proper subsets
\* is in the family: the induction every lemma below needs.
LEMMA MinimalMember ==
  ASSUME NEW S, IsFiniteSet(S), NEW F \in SUBSET SUBSET S, F # {}
  PROVE  \E T \in F : \A U \in F : ~(U \subseteq T /\ U # T)
<1>1. F \subseteq FiniteSubsetsOf(S)
  <2>1. ASSUME NEW T \in F PROVE IsFiniteSet(T)
    BY FS_Subset, T \in SUBSET S
  <2>2. QED BY <2>1 DEF FiniteSubsetsOf
<1>2. PICK T \in F : \A U \in F : ~(<<U, T>> \in StrictSubsetOrdering(S))
  BY <1>1, FS_StrictSubsetOrderingWellFounded, WFMin
<1>3. ASSUME NEW U \in F, U \subseteq T, U # T
      PROVE  <<U, T>> \in StrictSubsetOrdering(S)
  BY <1>3 DEF StrictSubsetOrdering
<1>4. \A U \in F : ~(U \subseteq T /\ U # T)
  BY <1>2, <1>3
<1>5. QED BY <1>4, Zenon

\* Every finite set has a summing function.
LEMMA SumsExists ==
  ASSUME NEW S, IsFiniteSet(S), NEW f, \A x \in S : f[x] \in Int
  PROVE  \E g : Sums(f, S, g)
<1> DEFINE F == { T \in SUBSET S : ~ \E g : Sums(f, T, g) }
<1>1. SUFFICES ASSUME S \in F PROVE FALSE
  BY DEF F
<1>2. PICK T \in F : \A U \in F : ~(U \subseteq T /\ U # T)
  <2>1. F \in SUBSET SUBSET S /\ F # {}
    BY <1>1
  <2> HIDE DEF F
  <2>2. QED BY <2>1, MinimalMember
<1>3. T # {}
  <2>1. Sums(f, {}, [U \in SUBSET {} |-> 0])
    BY DEF Sums
  <2>2. QED BY <2>1
<1>4. PICK x \in T : TRUE
  BY <1>3
<1>5. PICK g : Sums(f, T \ {x}, g)
  <2>1. T \ {x} \notin F
    BY <1>2, <1>4
  <2>2. QED BY <2>1
<1> DEFINE h == [U \in SUBSET T |-> IF x \in U THEN f[x] + g[U \ {x}] ELSE g[U]]
<1>6. h \in [SUBSET T -> Int]
  <2>1. ASSUME NEW U \in SUBSET T
        PROVE  (IF x \in U THEN f[x] + g[U \ {x}] ELSE g[U]) \in Int
    <3>1. U \ {x} \in SUBSET (T \ {x})
      OBVIOUS
    <3>2. x \notin U => U \in SUBSET (T \ {x})
      OBVIOUS
    <3>3. f[x] \in Int
      BY <1>4
    <3>4. QED BY <1>5, <3>1, <3>2, <3>3 DEF Sums
  <2>2. QED BY <2>1
<1>7. h[{}] = 0
  BY <1>5 DEF Sums
<1>8. ASSUME NEW U \in SUBSET T, NEW y \in U
      PROVE  h[U] = f[y] + h[U \ {y}]
  <2>0. U \ {y} \in SUBSET T /\ y \in S /\ f[y] \in Int /\ f[x] \in Int
    BY <1>4
  <2>1. CASE y = x
    BY <2>0, <2>1
  <2>2. CASE y # x /\ x \in U
    <3>1. U \ {x} \in SUBSET (T \ {x}) /\ y \in U \ {x}
      BY <2>2
    <3>2. g[U \ {x}] = f[y] + g[(U \ {x}) \ {y}]
      BY <1>5, <3>1 DEF Sums
    <3>3. (U \ {x}) \ {y} = (U \ {y}) \ {x} /\ (U \ {y}) \ {x} \in SUBSET (T \ {x})
      BY <3>1
    <3>4. g[(U \ {y}) \ {x}] \in Int
      BY <1>5, <3>3 DEF Sums
    <3>5. h[U] = f[x] + g[U \ {x}] /\ h[U \ {y}] = f[x] + g[(U \ {y}) \ {x}]
      BY <2>0, <2>2
    <3>6. h[U] = f[x] + (f[y] + g[(U \ {y}) \ {x}])
      BY <3>2, <3>3, <3>5
    <3> HIDE DEF h
    <3>7. QED BY <2>0, <3>4, <3>5, <3>6
  <2>3. CASE x \notin U
    <3>1. U \in SUBSET (T \ {x})
      BY <2>3
    <3>2. g[U] = f[y] + g[U \ {y}]
      BY <1>5, <3>1 DEF Sums
    <3>3. QED BY <2>0, <2>3, <3>2
  <2>4. QED BY <2>1, <2>2, <2>3
<1>9. Sums(f, T, h)
  <2> HIDE DEF h
  <2>1. QED BY <1>6, <1>7, <1>8 DEF Sums
<1>10. QED BY <1>9

\* The summing function is the only solution of SumOver's recursion.
LEMMA SumOverIs ==
  ASSUME NEW S, IsFiniteSet(S), NEW f, NEW g, Sums(f, S, g)
  PROVE  SumOver(f, S) = g[S]
<1> DEFINE Body(h, T) == IF T = {} THEN 0
                         ELSE LET x == CHOOSE y \in T : TRUE
                              IN  f[x] + h[T \ {x}]
           Solves(h) == h = [T \in SUBSET S |-> Body(h, T)]
           sum == CHOOSE h : Solves(h)
<1>1. SumOver(f, S) = sum[S]
  BY DEF SumOver
<1>2. Solves(g)
  <2>1. ASSUME NEW T \in SUBSET S PROVE g[T] = Body(g, T)
    <3>1. CASE T = {}
      BY <3>1 DEF Sums
    <3>2. CASE T # {}
      <4>1. (CHOOSE y \in T : TRUE) \in T
        BY <3>2
      <4>2. QED BY <3>2, <4>1 DEF Sums
    <3>3. QED BY <3>1, <3>2
  <2>2. g = [T \in SUBSET S |-> g[T]]
    BY DEF Sums
  <2> HIDE DEF Body
  <2>3. QED BY <2>1, <2>2
<1>3. Solves(sum)
  <2> HIDE DEF Solves
  <2>1. QED BY <1>2
<1>4. ASSUME NEW h, Solves(h) PROVE h[S] = g[S]
  <2> DEFINE F == { T \in SUBSET S : h[T] # g[T] }
  <2>1. SUFFICES ASSUME S \in F PROVE FALSE
    OBVIOUS
  <2>2. PICK T \in F : \A U \in F : ~(U \subseteq T /\ U # T)
    <3>1. F \in SUBSET SUBSET S /\ F # {}
      BY <2>1
    <3> HIDE DEF F
    <3>2. QED BY <3>1, MinimalMember
  <2>3. h[T] = Body(h, T) /\ g[T] = Body(g, T)
    <3>1. T \in SUBSET S
      OBVIOUS
    <3> HIDE DEF Body
    <3>2. QED BY <1>2, <1>4, <3>1
  <2>4. CASE T = {}
    BY <2>3, <2>4
  <2>5. CASE T # {}
    <3> DEFINE x == CHOOSE y \in T : TRUE
    <3>1. x \in T
      BY <2>5
    <3>2. T \ {x} \notin F
      <4> HIDE DEF x
      <4>1. QED BY <2>2, <3>1
    <3>3. h[T \ {x}] = g[T \ {x}]
      <4> HIDE DEF x
      <4>1. QED BY <3>1, <3>2
    <3>4. QED BY <2>3, <2>5, <3>3
  <2>6. QED BY <2>4, <2>5
<1>5. QED
  <2> HIDE DEF sum, Solves
  <2>1. QED BY <1>1, <1>3, <1>4

----------------------------------------------------------------------------
(* The facts the other modules cite.                                        *)

THEOREM SumOverEmpty ==
  ASSUME NEW f
  PROVE  SumOver(f, {}) = 0
<1>1. Sums(f, {}, [T \in SUBSET {} |-> 0])
  BY DEF Sums
<1>2. QED BY <1>1, SumOverIs, FS_EmptySet

THEOREM SumOverInt ==
  ASSUME NEW S, IsFiniteSet(S), NEW f, \A x \in S : f[x] \in Int
  PROVE  SumOver(f, S) \in Int
<1>1. PICK g : Sums(f, S, g)
  BY SumsExists
<1>2. SumOver(f, S) = g[S]
  BY <1>1, SumOverIs
<1>3. QED BY <1>1, <1>2 DEF Sums

\* A row leaves the sum with exactly its own value.
THEOREM SumOverRemove ==
  ASSUME NEW S, IsFiniteSet(S), NEW f, \A x \in S : f[x] \in Int, NEW x \in S
  PROVE  SumOver(f, S) = f[x] + SumOver(f, S \ {x})
<1>1. PICK g : Sums(f, S, g)
  BY SumsExists
<1> DEFINE h == [T \in SUBSET (S \ {x}) |-> g[T]]
<1>2. Sums(f, S \ {x}, h)
  BY <1>1 DEF Sums
<1>3. IsFiniteSet(S \ {x})
  BY FS_RemoveElement
<1>4. SumOver(f, S) = g[S]
  BY <1>1, SumOverIs
<1>5. SumOver(f, S \ {x}) = h[S \ {x}]
  <2> HIDE DEF h
  <2>1. QED BY <1>2, <1>3, SumOverIs
<1>6. QED BY <1>1, <1>4, <1>5 DEF Sums

\* A row that enters the sum adds exactly its own value.
THEOREM SumOverAdd ==
  ASSUME NEW S, IsFiniteSet(S), NEW f, \A x \in S : f[x] \in Int,
         NEW x, x \notin S, f[x] \in Int
  PROVE  SumOver(f, S \cup {x}) = SumOver(f, S) + f[x]
<1>1. IsFiniteSet(S \cup {x}) /\ (S \cup {x}) \ {x} = S
  BY FS_AddElement
<1>2. SumOver(f, S \cup {x}) = f[x] + SumOver(f, (S \cup {x}) \ {x})
  <2>1. \A y \in S \cup {x} : f[y] \in Int
    OBVIOUS
  <2>2. x \in S \cup {x}
    OBVIOUS
  <2> DEFINE U == S \cup {x}
  <2> HIDE DEF U
  <2>3. SumOver(f, U) = f[x] + SumOver(f, U \ {x})
    BY <1>1, <2>1, <2>2, SumOverRemove DEF U
  <2>4. QED BY <2>3 DEF U
<1>3. SumOver(f, S) \in Int
  BY SumOverInt
<1>4. SumOver(f, S \cup {x}) = f[x] + SumOver(f, S)
  BY <1>1, <1>2, Zenon
<1>5. QED BY <1>3, <1>4

\* Only the values of the rows that are summed matter.
THEOREM SumOverSame ==
  ASSUME NEW S, IsFiniteSet(S), NEW f, NEW g,
         \A x \in S : f[x] \in Int, \A x \in S : f[x] = g[x]
  PROVE  SumOver(f, S) = SumOver(g, S)
<1>1. PICK s : Sums(f, S, s)
  BY SumsExists
<1>2. Sums(g, S, s)
  BY <1>1 DEF Sums
<1>3. QED BY <1>1, <1>2, SumOverIs

\* When one row changes, the sum changes by as much.
THEOREM SumOverUpdate ==
  ASSUME NEW S, IsFiniteSet(S), NEW f, NEW g, NEW x \in S,
         \A y \in S : f[y] \in Int, \A y \in S : g[y] \in Int,
         \A y \in S \ {x} : f[y] = g[y]
  PROVE  SumOver(g, S) = SumOver(f, S) + (g[x] - f[x])
<1>1. SumOver(f, S) = f[x] + SumOver(f, S \ {x})
  BY SumOverRemove
<1>2. SumOver(g, S) = g[x] + SumOver(g, S \ {x})
  BY SumOverRemove
<1>3. IsFiniteSet(S \ {x}) /\ \A y \in S \ {x} : f[y] \in Int
  BY FS_RemoveElement
<1>4. SumOver(f, S \ {x}) = SumOver(g, S \ {x})
  BY <1>3, SumOverSame
<1>5. SumOver(f, S \ {x}) \in Int
  BY <1>3, SumOverInt
<1>6. QED BY <1>1, <1>2, <1>4, <1>5

THEOREM SumOverNat ==
  ASSUME NEW S, IsFiniteSet(S), NEW f, \A x \in S : f[x] \in Nat
  PROVE  SumOver(f, S) \in Nat
<1> DEFINE F == { T \in SUBSET S : SumOver(f, T) \notin Nat }
<1>1. SUFFICES ASSUME S \in F PROVE FALSE
  OBVIOUS
<1>2. PICK T \in F : \A U \in F : ~(U \subseteq T /\ U # T)
  <2>1. F \in SUBSET SUBSET S /\ F # {}
    BY <1>1
  <2> HIDE DEF F
  <2>2. QED BY <2>1, MinimalMember
<1>3. IsFiniteSet(T)
  BY FS_Subset
<1>4. PICK x \in T : TRUE
  BY <1>2, SumOverEmpty
<1>5. SumOver(f, T \ {x}) \in Nat
  BY <1>2, <1>4
<1>6. SumOver(f, T) = f[x] + SumOver(f, T \ {x})
  <2>1. \A y \in T : f[y] \in Int
    OBVIOUS
  <2> HIDE DEF F
  <2>2. QED BY <1>3, <1>4, <2>1, SumOverRemove
<1>7. QED BY <1>4, <1>5, <1>6

\* With no negative value, fewer rows cannot sum to more.
THEOREM SumOverSubset ==
  ASSUME NEW S, IsFiniteSet(S), NEW f, \A x \in S : f[x] \in Nat,
         NEW R \in SUBSET S
  PROVE  SumOver(f, R) <= SumOver(f, S)
<1> DEFINE F == { T \in SUBSET S : R \subseteq T /\ ~(SumOver(f, R) <= SumOver(f, T)) }
<1>1. SUFFICES ASSUME S \in F PROVE FALSE
  OBVIOUS
<1>2. PICK T \in F : \A U \in F : ~(U \subseteq T /\ U # T)
  <2>1. F \in SUBSET SUBSET S /\ F # {}
    BY <1>1
  <2> HIDE DEF F
  <2>2. QED BY <2>1, MinimalMember
<1>3. IsFiniteSet(T) /\ IsFiniteSet(R)
  BY FS_Subset
<1>4. SumOver(f, R) \in Nat /\ SumOver(f, T) \in Nat
  <2>1. (\A y \in T : f[y] \in Nat) /\ (\A y \in R : f[y] \in Nat)
    OBVIOUS
  <2> HIDE DEF F
  <2>2. QED BY <1>3, <2>1, SumOverNat
<1>5. PICK x \in T : x \notin R
  <2>1. T # R
    BY <1>2, <1>4
  <2>2. R \subseteq T
    BY <1>2
  <2>3. QED BY <2>1, <2>2
<1>6. SumOver(f, R) <= SumOver(f, T \ {x})
  BY <1>2, <1>5
<1>7. SumOver(f, T) = f[x] + SumOver(f, T \ {x}) /\ SumOver(f, T \ {x}) \in Nat
  <2>1. (\A y \in T : f[y] \in Int) /\ (\A y \in T \ {x} : f[y] \in Nat)
    OBVIOUS
  <2>2. IsFiniteSet(T \ {x})
    BY <1>3, FS_RemoveElement
  <2> HIDE DEF F
  <2>3. QED BY <1>3, <1>5, <2>1, <2>2, SumOverRemove, SumOverNat
<1>8. f[x] \in Nat
  BY <1>5
<1>9. QED BY <1>2, <1>4, <1>6, <1>7, <1>8

\* With no negative value, a row is at most the sum.
THEOREM SumOverAtLeast ==
  ASSUME NEW S, IsFiniteSet(S), NEW f, \A y \in S : f[y] \in Nat, NEW x \in S
  PROVE  f[x] <= SumOver(f, S)
<1>1. SumOver(f, S) = f[x] + SumOver(f, S \ {x})
  <2>1. \A y \in S : f[y] \in Int
    OBVIOUS
  <2>2. QED BY <2>1, SumOverRemove
<1>2. IsFiniteSet(S \ {x}) /\ \A y \in S \ {x} : f[y] \in Nat
  BY FS_RemoveElement
<1>3. SumOver(f, S \ {x}) \in Nat
  BY <1>2, SumOverNat
<1>4. QED BY <1>1, <1>3

\* Sets that have no row in common sum up apart.
THEOREM SumOverDisjoint ==
  ASSUME NEW S, IsFiniteSet(S), NEW R, IsFiniteSet(R), S \cap R = {}, NEW f,
         \A x \in S : f[x] \in Int, \A x \in R : f[x] \in Int
  PROVE  SumOver(f, S \cup R) = SumOver(f, S) + SumOver(f, R)
<1> DEFINE F == { T \in SUBSET R : SumOver(f, S \cup T) # SumOver(f, S) + SumOver(f, T) }
<1>1. SUFFICES ASSUME R \in F PROVE FALSE
  OBVIOUS
<1>2. PICK T \in F : \A U \in F : ~(U \subseteq T /\ U # T)
  <2>1. F \in SUBSET SUBSET R /\ F # {}
    BY <1>1
  <2> HIDE DEF F
  <2>2. QED BY <2>1, MinimalMember
<1>3. IsFiniteSet(T) /\ IsFiniteSet(S \cup T)
  BY FS_Subset, FS_Union
<1>4. SumOver(f, S) \in Int
  <2> HIDE DEF F
  <2>1. QED BY SumOverInt
<1>5. CASE T = {}
  <2>1. SumOver(f, S \cup T) = SumOver(f, S) /\ SumOver(f, T) = 0
    BY <1>5, SumOverEmpty
  <2>2. QED BY <1>2, <1>4, <2>1
<1>6. CASE T # {}
  <2>1. PICK x \in T : TRUE
    BY <1>6
  <2>2. x \notin S /\ (S \cup T) \ {x} = S \cup (T \ {x})
    BY <2>1
  <2>3. SumOver(f, S \cup (T \ {x})) = SumOver(f, S) + SumOver(f, T \ {x})
    BY <1>2, <2>1
  <2>4. (\A y \in T : f[y] \in Int) /\ (\A y \in S \cup T : f[y] \in Int)
    OBVIOUS
  <2>5. /\ SumOver(f, T) = f[x] + SumOver(f, T \ {x})
        /\ SumOver(f, S \cup T) = f[x] + SumOver(f, (S \cup T) \ {x})
    <3> HIDE DEF F
    <3>1. QED BY <1>3, <2>1, <2>4, SumOverRemove
  <2>6. SumOver(f, T \ {x}) \in Int /\ f[x] \in Int
    <3>1. IsFiniteSet(T \ {x}) /\ \A y \in T \ {x} : f[y] \in Int
      BY <1>3, <2>4, FS_RemoveElement
    <3> HIDE DEF F
    <3>2. QED BY <2>1, <2>4, <3>1, SumOverInt
  <2>7. QED BY <1>2, <1>4, <2>2, <2>3, <2>5, <2>6
<1>7. QED BY <1>5, <1>6

\* Two columns sum up as their sums.
THEOREM SumOverPlus ==
  ASSUME NEW S, IsFiniteSet(S), NEW f, NEW g, NEW h,
         \A x \in S : f[x] \in Int, \A x \in S : g[x] \in Int,
         \A x \in S : h[x] = f[x] + g[x]
  PROVE  SumOver(h, S) = SumOver(f, S) + SumOver(g, S)
<1>1. PICK a : Sums(f, S, a)
  BY SumsExists
<1>2. PICK b : Sums(g, S, b)
  BY SumsExists
<1> DEFINE c == [T \in SUBSET S |-> a[T] + b[T]]
<1>3. Sums(h, S, c)
  <2>1. c \in [SUBSET S -> Int] /\ c[{}] = 0
    BY <1>1, <1>2 DEF Sums
  <2>2. ASSUME NEW T \in SUBSET S, NEW x \in T
        PROVE  c[T] = h[x] + c[T \ {x}]
    <3>1. T \ {x} \in SUBSET S /\ x \in S
      OBVIOUS
    <3>2. a[T] = f[x] + a[T \ {x}] /\ b[T] = g[x] + b[T \ {x}]
      BY <1>1, <1>2 DEF Sums
    <3>3. a[T \ {x}] \in Int /\ b[T \ {x}] \in Int
      BY <1>1, <1>2, <3>1 DEF Sums
    <3>4. c[T] = a[T] + b[T] /\ c[T \ {x}] = a[T \ {x}] + b[T \ {x}]
      BY <3>1
    <3>5. f[x] \in Int /\ g[x] \in Int /\ h[x] = f[x] + g[x]
      BY <3>1
    <3> HIDE DEF c
    <3>6. QED BY <3>2, <3>3, <3>4, <3>5
  <2> HIDE DEF c
  <2>3. QED BY <2>1, <2>2 DEF Sums
<1>4. SumOver(f, S) = a[S] /\ SumOver(g, S) = b[S] /\ SumOver(h, S) = c[S]
  <2> HIDE DEF c
  <2>1. QED BY <1>1, <1>2, <1>3, SumOverIs
<1>5. QED BY <1>4

\* What is at most as large in every row is so in sum.
THEOREM SumOverAtMost ==
  ASSUME NEW S, IsFiniteSet(S), NEW f, NEW g,
         \A x \in S : f[x] \in Int, \A x \in S : g[x] \in Int, \A x \in S : f[x] <= g[x]
  PROVE  SumOver(f, S) <= SumOver(g, S)
<1>1. PICK d : d = [x \in S |-> g[x] - f[x]]
  OBVIOUS
<1>2. \A x \in S : d[x] \in Nat /\ d[x] \in Int /\ g[x] = f[x] + d[x]
  BY <1>1
<1>3. SumOver(g, S) = SumOver(f, S) + SumOver(d, S)
  BY <1>2, SumOverPlus
<1>4. SumOver(d, S) \in Nat /\ SumOver(f, S) \in Int
  BY <1>2, SumOverNat, SumOverInt
<1>5. QED BY <1>3, <1>4

\* Rows that add nothing may be left out, and the others be raised.
THEOREM SumOverWithin ==
  ASSUME NEW S, IsFiniteSet(S), NEW R \in SUBSET S, NEW f, NEW g,
         \A x \in S : f[x] \in Int, \A x \in R : g[x] \in Int,
         \A x \in R : f[x] <= g[x], \A x \in S \ R : f[x] <= 0
  PROVE  SumOver(f, S) <= SumOver(g, R)
<1>1. IsFiniteSet(R) /\ IsFiniteSet(S \ R) /\ R \cup (S \ R) = S /\ R \cap (S \ R) = {}
  BY FS_Subset
<1>2. (\A x \in R : f[x] \in Int) /\ (\A x \in S \ R : f[x] \in Int)
  OBVIOUS
<1>3. SumOver(f, S) = SumOver(f, R) + SumOver(f, S \ R)
  <2>1. SumOver(f, R \cup (S \ R)) = SumOver(f, R) + SumOver(f, S \ R)
    BY <1>1, <1>2, SumOverDisjoint
  <2>2. QED BY <1>1, <2>1
<1>4. SumOver(f, R) <= SumOver(g, R)
  BY <1>1, <1>2, SumOverAtMost
<1>5. SumOver(f, S \ R) <= 0
  <2>1. PICK z : z = [x \in S \ R |-> 0]
    OBVIOUS
  <2>2. \A x \in S \ R : z[x] \in Int /\ f[x] <= z[x] /\ z[x] = z[x] + z[x]
    BY <2>1
  <2>3. SumOver(z, S \ R) = SumOver(z, S \ R) + SumOver(z, S \ R)
    BY <1>1, <2>2, SumOverPlus
  <2>4. SumOver(z, S \ R) \in Int
    BY <1>1, <2>2, SumOverInt
  <2>5. SumOver(f, S \ R) <= SumOver(z, S \ R)
    BY <1>1, <1>2, <2>2, SumOverAtMost
  <2>6. SumOver(f, S \ R) \in Int
    BY <1>1, <1>2, SumOverInt
  <2>7. QED BY <2>3, <2>4, <2>5, <2>6
<1>6. SumOver(f, R) \in Int /\ SumOver(g, R) \in Int /\ SumOver(f, S \ R) \in Int
  BY <1>1, <1>2, SumOverInt
<1>7. QED BY <1>3, <1>4, <1>5, <1>6

\* A column times k sums up to k times its sum.
THEOREM SumOverTimes ==
  ASSUME NEW S, IsFiniteSet(S), NEW k \in Int, NEW f, NEW g,
         \A x \in S : f[x] \in Int, \A x \in S : g[x] = k * f[x]
  PROVE  SumOver(g, S) = k * SumOver(f, S)
<1>1. PICK a : Sums(f, S, a)
  BY SumsExists
<1> DEFINE c == [T \in SUBSET S |-> k * a[T]]
<1>2. Sums(g, S, c)
  <2>1. a \in [SUBSET S -> Int] /\ a[{}] = 0
    BY <1>1 DEF Sums
  <2>2. ASSUME NEW T \in SUBSET S
        PROVE  k * a[T] \in Int
    <3>1. PICK n \in Int : n = a[T]
      BY <2>1
    <3>2. k * n \in Int
      OBVIOUS
    <3>3. QED BY <3>1, <3>2
  <2>3. c \in [SUBSET S -> Int] /\ c[{}] = 0
    <3>1. {} \in SUBSET S /\ k * 0 = 0
      OBVIOUS
    <3>2. QED BY <2>1, <2>2, <3>1
  <2>4. ASSUME NEW T \in SUBSET S, NEW x \in T
        PROVE  c[T] = g[x] + c[T \ {x}]
    <3>1. T \ {x} \in SUBSET S /\ x \in S
      OBVIOUS
    <3>2. PICK m \in Int, n \in Int : m = a[T \ {x}] /\ n = f[x]
      BY <2>1, <3>1
    <3>3. a[T] = n + m
      BY <1>1, <3>2 DEF Sums
    <3>4. k * (n + m) = k * n + k * m
      BY SMT
    <3>5. c[T] = k * (n + m) /\ c[T \ {x}] = k * m /\ g[x] = k * n
      BY <3>1, <3>2, <3>3
    <3> HIDE DEF c
    <3>6. QED BY <3>4, <3>5
  <2> HIDE DEF c
  <2>5. QED BY <2>3, <2>4 DEF Sums
<1>3. SumOver(f, S) = a[S] /\ SumOver(g, S) = c[S]
  <2> HIDE DEF c
  <2>1. QED BY <1>1, <1>2, SumOverIs
<1>4. QED BY <1>3

\* Over rows that are marked 1 or 0, the sum counts the marked ones.
THEOREM SumOverMarks ==
  ASSUME NEW S, IsFiniteSet(S), NEW R \in SUBSET S, NEW f,
         \A x \in R : f[x] = 1, \A x \in S \ R : f[x] = 0
  PROVE  SumOver(f, S) = Cardinality(R)
<1> DEFINE F == { T \in SUBSET S : SumOver(f, T) # Cardinality(T \cap R) }
<1>1. SUFFICES ASSUME S \in F PROVE FALSE
  <2>1. S \cap R = R
    OBVIOUS
  <2>2. QED BY <2>1
<1>2. PICK T \in F : \A U \in F : ~(U \subseteq T /\ U # T)
  <2>1. F \in SUBSET SUBSET S /\ F # {}
    BY <1>1
  <2> HIDE DEF F
  <2>2. QED BY <2>1, MinimalMember
<1>3. T \in SUBSET S /\ SumOver(f, T) # Cardinality(T \cap R)
  BY <1>2
<1>4. \A U \in SUBSET T : U # T => SumOver(f, U) = Cardinality(U \cap R)
  BY <1>2
<1> HIDE DEF F
<1>5. IsFiniteSet(T)
  BY <1>3, FS_Subset
<1>6. PICK x \in T : TRUE
  <2>1. SUFFICES ASSUME T = {} PROVE FALSE
    OBVIOUS
  <2>2. QED BY <1>3, <2>1, SumOverEmpty, FS_EmptySet
<1>7. SumOver(f, T \ {x}) = Cardinality((T \ {x}) \cap R)
  BY <1>4, <1>6
<1>8. \A y \in T : f[y] \in Int
  BY <1>3
<1>9. SumOver(f, T) = f[x] + SumOver(f, T \ {x})
  BY <1>5, <1>6, <1>8, SumOverRemove
<1>10. IsFiniteSet(T \cap R) /\ Cardinality(T \cap R) \in Int
  BY <1>5, FS_Subset, FS_CardinalityType
<1>11. CASE x \in R
  <2>1. (T \ {x}) \cap R = (T \cap R) \ {x} /\ x \in T \cap R
    BY <1>6, <1>11
  <2>2. Cardinality((T \cap R) \ {x}) = Cardinality(T \cap R) - 1
    BY <1>10, <2>1, FS_RemoveElement
  <2>3. f[x] = 1
    BY <1>11
  <2>4. SumOver(f, T \ {x}) = Cardinality(T \cap R) - 1
    BY <1>7, <2>1, <2>2
  <2>5. QED BY <1>3, <1>9, <1>10, <2>3, <2>4
<1>12. CASE x \notin R
  <2>1. (T \ {x}) \cap R = T \cap R
    BY <1>12
  <2>2. f[x] = 0
    BY <1>3, <1>6, <1>12
  <2>3. SumOver(f, T \ {x}) = Cardinality(T \cap R)
    BY <1>7, <2>1
  <2>4. QED BY <1>3, <1>9, <1>10, <2>2, <2>3
<1>13. QED BY <1>11, <1>12

\* A table sums up by rows as it does by columns.
THEOREM SumOverSwap ==
  ASSUME NEW S, IsFiniteSet(S), NEW R, IsFiniteSet(R), NEW f,
         \A x \in S : \A y \in R : f[x][y] \in Int, NEW g,
         \A y \in R : \A x \in S : g[y][x] = f[x][y],
         NEW rows, \A x \in S : rows[x] = SumOver(f[x], R),
         NEW columns, \A y \in R : columns[y] = SumOver(g[y], S)
  PROVE  SumOver(rows, S) = SumOver(columns, R)
<1> DEFINE a == [x \in S |-> SumOver(f[x], R)]
           b(T) == [y \in R |-> SumOver(g[y], T)]
           F == { T \in SUBSET S : SumOver(a, T) # SumOver(b(T), R) }
<1>1. ASSUME NEW x \in S PROVE SumOver(f[x], R) \in Int
  <2>1. PICK h : h = f[x]
    OBVIOUS
  <2>2. \A y \in R : h[y] \in Int
    BY <2>1
  <2>3. QED BY <2>1, <2>2, SumOverInt
<1>2. ASSUME NEW y \in R PROVE SumOver(g[y], S) \in Int
  <2>1. PICK h : h = g[y]
    OBVIOUS
  <2>2. \A x \in S : h[x] \in Int
    BY <2>1
  <2>3. QED BY <2>1, <2>2, SumOverInt
<1>3. SumOver(rows, S) = SumOver(a, S)
  <2>1. \A x \in S : rows[x] \in Int /\ rows[x] = a[x]
    BY <1>1
  <2> HIDE DEF a
  <2>2. QED BY <2>1, SumOverSame
<1>4. SumOver(columns, R) = SumOver(b(S), R)
  <2>1. PICK c : c = b(S)
    OBVIOUS
  <2>2. \A y \in R : columns[y] \in Int /\ columns[y] = c[y]
    BY <1>2, <2>1
  <2>3. SumOver(columns, R) = SumOver(c, R)
    BY <2>2, SumOverSame
  <2>4. QED BY <2>1, <2>3
<1>5. SUFFICES ASSUME S \in F PROVE FALSE
  <2> HIDE DEF a, b
  <2>1. QED BY <1>3, <1>4
<1>6. PICK T \in F : \A U \in F : ~(U \subseteq T /\ U # T)
  <2>1. F \in SUBSET SUBSET S /\ F # {}
    BY <1>5
  <2> HIDE DEF F
  <2>2. QED BY <2>1, MinimalMember
<1>7. T \in SUBSET S /\ SumOver(a, T) # SumOver(b(T), R)
  BY <1>6
<1>8. \A U \in SUBSET T : U # T => SumOver(a, U) = SumOver(b(U), R)
  BY <1>6
<1> HIDE DEF F
<1>9. ASSUME NEW U \in SUBSET S
      PROVE  IsFiniteSet(U) /\ \A y \in R : (\A x \in U : g[y][x] \in Int) /\ SumOver(g[y], U) \in Int
  <2>1. IsFiniteSet(U)
    BY FS_Subset
  <2>2. ASSUME NEW y \in R
        PROVE  (\A x \in U : g[y][x] \in Int) /\ SumOver(g[y], U) \in Int
    <3>1. PICK h : h = g[y]
      OBVIOUS
    <3>2. \A x \in U : h[x] \in Int
      BY <3>1
    <3>3. SumOver(h, U) \in Int
      BY <2>1, <3>2, SumOverInt
    <3>4. QED BY <3>1, <3>2, <3>3
  <2>3. QED BY <2>1, <2>2
<1>10. CASE T = {}
  <2>1. PICK z : z = b({})
    OBVIOUS
  <2>2. \A y \in R : z[y] = 0
    BY <2>1, SumOverEmpty
  <2>3. SumOver(z, R) = SumOver(z, R) + SumOver(z, R)
    <3>1. \A y \in R : z[y] \in Int /\ z[y] = z[y] + z[y]
      BY <2>2
    <3>2. QED BY <3>1, SumOverPlus
  <2>4. SumOver(z, R) \in Int
    <3>1. \A y \in R : z[y] \in Int
      BY <2>2
    <3>2. QED BY <3>1, SumOverInt
  <2>5. SumOver(a, T) = 0
    <3> HIDE DEF a
    <3>1. QED BY <1>10, SumOverEmpty
  <2>6. QED BY <1>7, <1>10, <2>1, <2>3, <2>4, <2>5
<1>11. CASE T # {}
  <2>1. PICK x \in T : TRUE
    BY <1>11
  <2>2. PICK U : U = T \ {x}
    OBVIOUS
  <2>3. U \in SUBSET S /\ U \in SUBSET T /\ U # T /\ x \in S /\ x \notin U
    BY <1>7, <2>1, <2>2
  <2>4. SumOver(a, U) = SumOver(b(U), R)
    BY <1>8, <2>3
  <2>5. \A w \in S : a[w] \in Int
    BY <1>1
  <2>6. SumOver(a, T) = a[x] + SumOver(a, U)
    <3>1. IsFiniteSet(T) /\ \A w \in T : a[w] \in Int
      BY <1>7, <1>9, <2>5
    <3> HIDE DEF a
    <3>2. QED BY <2>2, <3>1, SumOverRemove
  <2>7. PICK u, v, w : u = b(U) /\ v = b(T) /\ w = f[x]
    OBVIOUS
  <2>8. ASSUME NEW y \in R
        PROVE  u[y] \in Int /\ w[y] \in Int /\ v[y] = w[y] + u[y]
    <3>1. PICK h : h = g[y]
      OBVIOUS
    <3>2. IsFiniteSet(T) /\ \A z \in T : h[z] \in Int
      BY <1>7, <1>9, <3>1
    <3>3. SumOver(h, T) = h[x] + SumOver(h, U)
      BY <2>2, <3>2, SumOverRemove
    <3>4. u[y] = SumOver(h, U) /\ v[y] = SumOver(h, T) /\ w[y] = h[x]
      BY <2>3, <2>7, <3>1
    <3>5. SumOver(h, U) \in Int
      BY <1>9, <2>3, <3>1
    <3>6. h[x] \in Int
      BY <3>2
    <3>7. QED BY <3>3, <3>4, <3>5, <3>6
  <2>9. SumOver(v, R) = SumOver(w, R) + SumOver(u, R)
    BY <2>8, SumOverPlus
  <2>10. a[x] = SumOver(w, R)
    BY <2>3, <2>7
  <2>11. QED
    <3> HIDE DEF a, b
    <3>1. QED BY <1>7, <2>4, <2>6, <2>7, <2>9, <2>10
<1>12. QED BY <1>10, <1>11
=============================================================================
