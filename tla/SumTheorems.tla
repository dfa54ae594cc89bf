----------------------------- MODULE SumTheorems -----------------------------
(***************************************************************************)
(* Facts about SumFunctionOnSet and SumFunction, the sums by which the     *)
(* other modules count bytes.  The fold is a recursive function over the   *)
(* subsets of the set; each proof takes a smallest set that would refute   *)
(* the statement, which exists because strict inclusion of finite sets is  *)
(* well founded, and compares it with the set without one element.         *)
(***************************************************************************)
EXTENDS FiniteSetTheorems, TLAPS

Some(s) == CHOOSE x \in s : TRUE

\* g is a solution of the fold's recursion over the subsets of S.
Adds(g, f, S) ==
  g = [s \in SUBSET S |-> IF s = {} THEN 0 ELSE f[Some(s)] + g[s \ {Some(s)}]]

\* A set of finite sets that is not empty has a member none of whose strict
\* subsets is in it.
LEMMA SmallestSet ==
  ASSUME NEW S, IsFiniteSet(S), NEW Bad \in SUBSET SUBSET S, Bad # {}
  PROVE  \E s \in Bad : \A t \in Bad : ~(t \subseteq s /\ t # s)
<1>1. IsWellFoundedOn(StrictSubsetOrdering(S), SUBSET S)
  BY FS_StrictSubsetOrderingWellFounded, FS_FiniteSubsetsOfFinite
<1>2. PICK s \in Bad : \A t \in Bad : ~(<<t, s>> \in StrictSubsetOrdering(S))
  BY <1>1, WFMin
<1>3. ASSUME NEW t \in Bad PROVE ~(t \subseteq s /\ t # s)
  <2>1. s \in SUBSET S /\ t \in SUBSET S
    OBVIOUS
  <2> QED  BY <1>2, <2>1 DEF StrictSubsetOrdering
<1> QED  BY <1>3

LEMMA SomeIsMember == \A s : s # {} => Some(s) \in s
BY DEF Some

\* A sum is the value of some solution, if the recursion has one.
LEMMA SumIsSolution ==
  ASSUME NEW f, NEW S, \E g : Adds(g, f, S)
  PROVE  \E g : Adds(g, f, S) /\ SumFunctionOnSet(f, S) = g[S]
<1>1. SumFunctionOnSet(f, S) = (CHOOSE g : Adds(g, f, S))[S]
  BY DEF SumFunctionOnSet, FoldFunctionOnSet, MapThenFoldSet, Adds, Some
<1>2. Adds(CHOOSE g : Adds(g, f, S), f, S)
  BY Zenon
<1> QED  BY <1>1, <1>2, Zenon

\* Solutions over two sets agree on their common subsets.
LEMMA SolutionsAgree ==
  ASSUME NEW f, NEW S, NEW T \in SUBSET S, IsFiniteSet(S),
         NEW g, Adds(g, f, S), NEW h, Adds(h, f, T)
  PROVE  g[T] = h[T]
<1> DEFINE Bad == {s \in SUBSET T : g[s] # h[s]}
<1>1. ASSUME Bad # {} PROVE FALSE
  <2>1. IsFiniteSet(T)
    BY FS_Subset
  <2>2. PICK s \in Bad : \A t \in Bad : ~(t \subseteq s /\ t # s)
    <3>1. Bad \in SUBSET SUBSET T
      OBVIOUS
    <3> HIDE DEF Bad
    <3> QED  BY <1>1, <2>1, <3>1, SmallestSet
  <2>3. g[s] = IF s = {} THEN 0 ELSE f[Some(s)] + g[s \ {Some(s)}]
    BY <2>2 DEF Adds
  <2>4. h[s] = IF s = {} THEN 0 ELSE f[Some(s)] + h[s \ {Some(s)}]
    BY <2>2 DEF Adds
  <2>5. s # {} => g[s \ {Some(s)}] = h[s \ {Some(s)}]
    BY <2>2, SomeIsMember
  <2> QED  BY <2>2, <2>3, <2>4, <2>5
<1> QED  BY <1>1

\* The recursion has a solution over every finite set.
LEMMA SolutionExists ==
  ASSUME NEW f, NEW S, IsFiniteSet(S)
  PROVE  \E g : Adds(g, f, S)
<1> DEFINE Bad == {T \in SUBSET S : ~ \E g : Adds(g, f, T)}
<1>1. ASSUME Bad # {} PROVE FALSE
  <2>1. PICK T \in Bad : \A t \in Bad : ~(t \subseteq T /\ t # T)
    <3>1. Bad \in SUBSET SUBSET S
      OBVIOUS
    <3> HIDE DEF Bad
    <3> QED  BY <1>1, <3>1, SmallestSet
  <2>2. ASSUME NEW U \in SUBSET T, U # T
        PROVE  \E g : Adds(g, f, U) /\ SumFunctionOnSet(f, U) = g[U]
    BY <2>1, <2>2, SumIsSolution
  <2>3. ASSUME NEW U \in SUBSET T, U # T
        PROVE  SumFunctionOnSet(f, U) =
                 IF U = {} THEN 0 ELSE f[Some(U)] + SumFunctionOnSet(f, U \ {Some(U)})
    <3>1. PICK g : Adds(g, f, U) /\ SumFunctionOnSet(f, U) = g[U]
      BY <2>2, <2>3
    <3>2. g[U] = IF U = {} THEN 0 ELSE f[Some(U)] + g[U \ {Some(U)}]
      BY <3>1 DEF Adds
    <3>3. ASSUME U # {} PROVE g[U \ {Some(U)}] = SumFunctionOnSet(f, U \ {Some(U)})
      <4>1. PICK h : Adds(h, f, U \ {Some(U)})
                     /\ SumFunctionOnSet(f, U \ {Some(U)}) = h[U \ {Some(U)}]
        BY <2>2, <2>3, <3>3, SomeIsMember
      <4>2. IsFiniteSet(U)
        BY FS_Subset
      <4> QED  BY <3>1, <4>1, <4>2, SolutionsAgree
    <3> QED  BY <3>1, <3>2, <3>3
  <2> DEFINE G == [s \in SUBSET T |->
                     IF s = {} THEN 0 ELSE f[Some(s)] + SumFunctionOnSet(f, s \ {Some(s)})]
  <2>4. ASSUME NEW s \in SUBSET T, s # {}
        PROVE  G[s \ {Some(s)}] = SumFunctionOnSet(f, s \ {Some(s)})
    BY <2>3, <2>4, SomeIsMember
  <2>5. G = [s \in SUBSET T |-> IF s = {} THEN 0 ELSE f[Some(s)] + G[s \ {Some(s)}]]
    <3> HIDE DEF G
    <3>1. G = [s \in SUBSET T |->
                 IF s = {} THEN 0 ELSE f[Some(s)] + SumFunctionOnSet(f, s \ {Some(s)})]
      BY DEF G
    <3> QED  BY <3>1, <2>4
  <2>6. Adds(G, f, T)
    BY <2>5 DEF Adds
  <2> QED  BY <2>1, <2>6
<1> QED  BY <1>1

\* The recursion of the sum itself.
LEMMA SumUnfolds ==
  ASSUME NEW f, NEW S, IsFiniteSet(S)
  PROVE  SumFunctionOnSet(f, S) =
           IF S = {} THEN 0 ELSE f[Some(S)] + SumFunctionOnSet(f, S \ {Some(S)})
<1>1. PICK g : Adds(g, f, S) /\ SumFunctionOnSet(f, S) = g[S]
  BY SolutionExists, SumIsSolution
<1>2. g[S] = IF S = {} THEN 0 ELSE f[Some(S)] + g[S \ {Some(S)}]
  BY <1>1 DEF Adds
<1>3. IsFiniteSet(S \ {Some(S)})
  BY FS_Subset
<1>4. PICK h : Adds(h, f, S \ {Some(S)})
               /\ SumFunctionOnSet(f, S \ {Some(S)}) = h[S \ {Some(S)}]
  BY <1>3, SolutionExists, SumIsSolution
<1>5. g[S \ {Some(S)}] = h[S \ {Some(S)}]
  BY <1>1, <1>4, SolutionsAgree
<1> QED  BY <1>1, <1>2, <1>4, <1>5

LEMMA SumOfNone == \A f : SumFunctionOnSet(f, {}) = 0
BY SumUnfolds, FS_EmptySet

\* A sum depends on what is summed only.
LEMMA SameSum ==
  ASSUME NEW S, IsFiniteSet(S), NEW f, NEW g, \A x \in S : f[x] = g[x]
  PROVE  SumFunctionOnSet(f, S) = SumFunctionOnSet(g, S)
<1> DEFINE Bad == {T \in SUBSET S : SumFunctionOnSet(f, T) # SumFunctionOnSet(g, T)}
<1>1. ASSUME Bad # {} PROVE FALSE
  <2>1. PICK T \in Bad : \A t \in Bad : ~(t \subseteq T /\ t # T)
    <3>1. Bad \in SUBSET SUBSET S
      OBVIOUS
    <3> HIDE DEF Bad
    <3> QED  BY <1>1, <3>1, SmallestSet
  <2>2. IsFiniteSet(T)
    BY FS_Subset
  <2>3. CASE T = {}
    BY <2>1, <2>3, SumOfNone
  <2>4. CASE T # {}
    <3>1. Some(T) \in T
      BY <2>4, SomeIsMember
    <3>2. SumFunctionOnSet(f, T \ {Some(T)}) = SumFunctionOnSet(g, T \ {Some(T)})
      BY <2>1, <3>1
    <3> QED  BY <2>1, <2>2, <2>4, <3>1, <3>2, SumUnfolds
  <2> QED  BY <2>3, <2>4
<1> QED  BY <1>1

LEMMA SumIsNat ==
  ASSUME NEW S, IsFiniteSet(S), NEW f, \A x \in S : f[x] \in Nat
  PROVE  SumFunctionOnSet(f, S) \in Nat
<1> DEFINE Bad == {T \in SUBSET S : SumFunctionOnSet(f, T) \notin Nat}
<1>1. ASSUME Bad # {} PROVE FALSE
  <2>1. PICK T \in Bad : \A t \in Bad : ~(t \subseteq T /\ t # T)
    <3>1. Bad \in SUBSET SUBSET S
      OBVIOUS
    <3> HIDE DEF Bad
    <3> QED  BY <1>1, <3>1, SmallestSet
  <2>2. IsFiniteSet(T)
    BY FS_Subset
  <2>3. CASE T = {}
    BY <2>1, <2>3, SumOfNone
  <2>4. CASE T # {}
    <3>1. Some(T) \in T
      BY <2>4, SomeIsMember
    <3>2. SumFunctionOnSet(f, T \ {Some(T)}) \in Nat
      BY <2>1, <3>1
    <3>3. SumFunctionOnSet(f, T) = f[Some(T)] + SumFunctionOnSet(f, T \ {Some(T)})
      BY <2>2, <2>4, SumUnfolds
    <3> QED  BY <2>1, <3>1, <3>2, <3>3
  <2> QED  BY <2>3, <2>4
<1> QED  BY <1>1

\* The element taken first does not matter.
LEMMA SumWithout ==
  ASSUME NEW S, IsFiniteSet(S), NEW f, \A y \in S : f[y] \in Nat, NEW x \in S
  PROVE  SumFunctionOnSet(f, S) = f[x] + SumFunctionOnSet(f, S \ {x})
<1> DEFINE Bad == {T \in SUBSET S : \E y \in T :
                     SumFunctionOnSet(f, T) # f[y] + SumFunctionOnSet(f, T \ {y})}
<1>1. ASSUME Bad # {} PROVE FALSE
  <2>1. PICK T \in Bad : \A t \in Bad : ~(t \subseteq T /\ t # T)
    <3>1. Bad \in SUBSET SUBSET S
      OBVIOUS
    <3> HIDE DEF Bad
    <3> QED  BY <1>1, <3>1, SmallestSet
  <2>2. PICK y \in T : SumFunctionOnSet(f, T) # f[y] + SumFunctionOnSet(f, T \ {y})
    BY <2>1
  <2> DEFINE z == Some(T)
  <2>3. z \in T /\ T \subseteq S
    BY <2>1, <2>2, SomeIsMember
  <2> HIDE DEF z
  <2>4. IsFiniteSet(T) /\ IsFiniteSet(T \ {y}) /\ IsFiniteSet(T \ {z}) /\ IsFiniteSet(T \ {y, z})
    BY <2>3, FS_Subset
  <2>5. SumFunctionOnSet(f, T) = f[z] + SumFunctionOnSet(f, T \ {z})
    BY <2>2, <2>4, SumUnfolds DEF z
  <2>6. y # z
    BY <2>2, <2>5
  <2>7. /\ (T \ {y}) \ {z} = T \ {y, z}
        /\ (T \ {z}) \ {y} = T \ {y, z}
    OBVIOUS
  <2>8. SumFunctionOnSet(f, T \ {y}) = f[z] + SumFunctionOnSet(f, T \ {y, z})
    <3>1. T \ {y} \notin Bad
      BY <2>1, <2>2
    <3>2. z \in T \ {y}
      BY <2>3, <2>6
    <3> QED  BY <2>3, <2>7, <3>1, <3>2
  <2>9. SumFunctionOnSet(f, T \ {z}) = f[y] + SumFunctionOnSet(f, T \ {y, z})
    <3>1. T \ {z} \notin Bad
      BY <2>1, <2>3
    <3>2. y \in T \ {z}
      BY <2>2, <2>6
    <3> QED  BY <2>3, <2>7, <3>1, <3>2
  <2>10. f[y] \in Nat /\ f[z] \in Nat /\ SumFunctionOnSet(f, T \ {y, z}) \in Nat
    BY <2>2, <2>3, <2>4, SumIsNat
  <2> QED  BY <2>2, <2>5, <2>8, <2>9, <2>10
<1> QED  BY <1>1

\* A part of a set, with no more for each element, sums to no more.
LEMMA SumOfPart ==
  ASSUME NEW S, IsFiniteSet(S), NEW T \in SUBSET S, NEW f, NEW g,
         \A x \in S : f[x] \in Nat,
         \A x \in T : g[x] \in Nat /\ g[x] <= f[x]
  PROVE  SumFunctionOnSet(g, T) <= SumFunctionOnSet(f, S)
<1> DEFINE Bad == {U \in SUBSET S : ~(SumFunctionOnSet(g, U \cap T) <= SumFunctionOnSet(f, U))}
<1>1. ASSUME Bad # {} PROVE FALSE
  <2>1. PICK U \in Bad : \A t \in Bad : ~(t \subseteq U /\ t # U)
    <3>1. Bad \in SUBSET SUBSET S
      OBVIOUS
    <3> HIDE DEF Bad
    <3> QED  BY <1>1, <3>1, SmallestSet
  <2>2. U \subseteq S /\ IsFiniteSet(U) /\ IsFiniteSet(U \cap T)
    BY FS_Subset
  <2>3. U # {}
    <3>1. SUFFICES ASSUME U = {} PROVE FALSE
      OBVIOUS
    <3>2. U \cap T = {}
      BY <3>1
    <3> QED  BY <2>1, <3>1, <3>2, SumOfNone
  <2>4. PICK x \in U : TRUE
    BY <2>3
  <2>5. SumFunctionOnSet(f, U) = f[x] + SumFunctionOnSet(f, U \ {x})
    BY <2>2, <2>4, SumWithout
  <2>6. SumFunctionOnSet(g, (U \ {x}) \cap T) <= SumFunctionOnSet(f, U \ {x})
    <3>1. U \ {x} \notin Bad
      BY <2>1, <2>4
    <3> QED  BY <2>2, <3>1
  <2>7. IsFiniteSet(U \ {x}) /\ IsFiniteSet((U \ {x}) \cap T)
    BY <2>2, FS_Subset
  <2>8. /\ f[x] \in Nat /\ SumFunctionOnSet(f, U \ {x}) \in Nat
        /\ SumFunctionOnSet(g, (U \ {x}) \cap T) \in Nat
    BY <2>2, <2>4, <2>7, SumIsNat
  <2>9. CASE x \in T
    <3>1. (U \cap T) \ {x} = (U \ {x}) \cap T
      OBVIOUS
    <3>2. SumFunctionOnSet(g, U \cap T) = g[x] + SumFunctionOnSet(g, (U \ {x}) \cap T)
      BY <2>2, <2>4, <2>9, <3>1, SumWithout
    <3>3. g[x] \in Nat /\ g[x] <= f[x]
      BY <2>9
    <3> QED  BY <2>1, <2>5, <2>6, <2>8, <3>2, <3>3
  <2>10. CASE x \notin T
    <3>1. U \cap T = (U \ {x}) \cap T
      BY <2>10
    <3>2. SumFunctionOnSet(g, U \cap T) <= SumFunctionOnSet(f, U \ {x})
      BY <2>6, <3>1
    <3>3. SumFunctionOnSet(g, U \cap T) \in Nat
      BY <2>8, <3>1
    <3>4. SumFunctionOnSet(g, U \cap T) <= SumFunctionOnSet(f, U)
      BY <2>5, <2>8, <3>2, <3>3
    <3> QED  BY <2>1, <3>4
  <2> QED  BY <2>9, <2>10
<1>2. S \notin Bad /\ S \cap T = T
  BY <1>1
<1> QED  BY <1>2

-----------------------------------------------------------------------------
\* The same of the sum of a whole function, in the forms the modules use: its
\* type, one element more, and a part of it.
LEMMA TotalIsNat ==
  ASSUME NEW S, IsFiniteSet(S), NEW f \in [S -> Nat]
  PROVE  SumFunction(f) \in Nat
<1>1. DOMAIN f = S /\ \A x \in S : f[x] \in Nat
  OBVIOUS
<1> QED  BY <1>1, SumIsNat DEF SumFunction

LEMMA TotalOfOneMore ==
  ASSUME NEW S, IsFiniteSet(S), NEW f \in [S -> Nat], NEW x, x \notin S,
         NEW g \in [S \cup {x} -> Nat], \A y \in S : g[y] = f[y]
  PROVE  SumFunction(g) = SumFunction(f) + g[x]
<1>1. IsFiniteSet(S \cup {x})
  BY FS_AddElement
<1>2. \A y \in S \cup {x} : g[y] \in Nat
  OBVIOUS
<1>3. (S \cup {x}) \ {x} = S
  OBVIOUS
<1>4. SumFunctionOnSet(g, S \cup {x}) = g[x] + SumFunctionOnSet(g, S)
  BY <1>1, <1>2, <1>3, SumWithout
<1>5. SumFunctionOnSet(g, S) = SumFunctionOnSet(f, S)
  BY SameSum
<1>6. SumFunctionOnSet(f, S) \in Nat /\ g[x] \in Nat
  BY SumIsNat
<1>7. DOMAIN f = S /\ DOMAIN g = S \cup {x}
  OBVIOUS
<1> QED  BY <1>4, <1>5, <1>6, <1>7 DEF SumFunction

LEMMA TotalOfPart ==
  ASSUME NEW S, IsFiniteSet(S), NEW f \in [S -> Nat],
         NEW T \in SUBSET S, NEW g \in [T -> Nat], \A x \in T : g[x] <= f[x]
  PROVE  SumFunction(g) <= SumFunction(f)
<1>1. DOMAIN f = S /\ DOMAIN g = T
  OBVIOUS
<1>2. \A x \in S : f[x] \in Nat
  OBVIOUS
<1>3. \A x \in T : g[x] \in Nat /\ g[x] <= f[x]
  OBVIOUS
<1> QED  BY <1>1, <1>2, <1>3, SumOfPart DEF SumFunction

LEMMA TotalOfNone == \A f : DOMAIN f = {} => SumFunction(f) = 0
BY SumOfNone DEF SumFunction
=============================================================================
