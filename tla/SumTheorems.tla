---------------------------- MODULE SumTheorems ----------------------------
(***************************************************************************)
(* Facts about the sums of integer functions over finite sets of indices,  *)
(* proved from the definition of SumFunctionOnSet.  Induction is by a      *)
(* minimal counterexample: a set is given to the library's WFMin, where    *)
(* its induction theorems would need an operator.                          *)
(***************************************************************************)
EXTENDS Integers, FiniteSets, Functions, FiniteSetTheorems, WellFoundedInduction, TLAPS

Choice(U) == CHOOSE x \in U : TRUE

(* g is the running sum of f on the subsets of S.                          *)
SumsUp(g, f, S) ==
    g = [U \in SUBSET S |-> IF U = {} THEN 0 ELSE f[Choice(U)] + g[U \ {Choice(U)}]]

(* Among the subsets of a finite set with some property, one is minimal.   *)
LEMMA MinimalSubset ==
    ASSUME NEW S, IsFiniteSet(S), NEW T \in SUBSET (SUBSET S), T # {}
    PROVE  \E U \in T : \A V \in T : ~(V \subseteq U /\ V # U)
<1>1. IsWellFoundedOn(StrictSubsetOrdering(S), SUBSET S)
  BY FS_StrictSubsetOrderingWellFounded, FS_FiniteSubsetsOfFinite
<1>2. PICK U \in T : \A V \in T : ~(<<V, U>> \in StrictSubsetOrdering(S))
  BY <1>1, WFMin
<1> QED BY <1>2 DEF StrictSubsetOrdering

LEMMA ChoiceIn == ASSUME NEW U, U # {} PROVE Choice(U) \in U
BY DEF Choice

(* Two running sums of one function agree where both are defined.          *)
LEMMA SumsUpUnique ==
    ASSUME NEW S, IsFiniteSet(S), NEW A \in SUBSET S, NEW B \in SUBSET S, NEW f,
           NEW g, SumsUp(g, f, A), NEW h, SumsUp(h, f, B),
           NEW U, U \subseteq A, U \subseteq B
    PROVE  g[U] = h[U]
<1> DEFINE T == {V \in SUBSET S : V \subseteq A /\ V \subseteq B /\ g[V] # h[V]}
<1> SUFFICES ASSUME T # {} PROVE FALSE
  OBVIOUS
<1>1. PICK V \in T : \A W \in T : ~(W \subseteq V /\ W # V)
  <2>1. T \in SUBSET (SUBSET S)
    OBVIOUS
  <2> HIDE DEF T
  <2> QED BY <2>1, MinimalSubset
<1> DEFINE x == Choice(V)
<1>2. V # {}
  <2> SUFFICES ASSUME V = {} PROVE FALSE
    OBVIOUS
  <2>1. V \in SUBSET A /\ V \in SUBSET B /\ g[V] # h[V]
    BY <1>1
  <2>2. g[V] = 0 /\ h[V] = 0
    BY <2>1 DEF SumsUp
  <2> QED BY <2>1, <2>2
<1>3. x \in V
  BY <1>2, ChoiceIn
<1>4. g[V] = f[x] + g[V \ {x}] /\ h[V] = f[x] + h[V \ {x}]
  <2>1. V \in SUBSET A /\ V \in SUBSET B
    BY <1>1
  <2> QED BY <1>2, <2>1 DEF SumsUp
<1>5. g[V \ {x}] = h[V \ {x}]
  BY <1>1, <1>3
<1> QED BY <1>1, <1>4, <1>5

(* Every function has a running sum on the subsets of a finite set.        *)
LEMMA SumsUpExists ==
    ASSUME NEW S, IsFiniteSet(S), NEW f
    PROVE  \E g : SumsUp(g, f, S)
<1> DEFINE T == {U \in SUBSET S : ~\E g : SumsUp(g, f, U)}
<1> SUFFICES ASSUME T # {} PROVE FALSE
  OBVIOUS
<1>1. PICK U \in T : \A W \in T : ~(W \subseteq U /\ W # U)
  <2>1. T \in SUBSET (SUBSET S)
    OBVIOUS
  <2> HIDE DEF T
  <2> QED BY <2>1, MinimalSubset
<1> DEFINE G(V) == CHOOSE g : SumsUp(g, f, V)
<1>2. \A V : V \subseteq U /\ V # U => SumsUp(G(V), f, V)
  BY <1>1
<1> DEFINE x == Choice(U)
           h == [V \in SUBSET U |-> IF V = {} THEN 0
                                    ELSE f[Choice(V)] + G(V \ {Choice(V)})[V \ {Choice(V)}]]
<1>3. \A V \in SUBSET U : V # U => h[V] = G(V)[V]
  <2> SUFFICES ASSUME NEW V \in SUBSET U, V # U PROVE h[V] = G(V)[V]
    OBVIOUS
  <2>1. SumsUp(G(V), f, V)
    BY <1>2
  <2>2. CASE V = {}
    <3>1. G(V)[V] = 0
      BY <2>1, <2>2 DEF SumsUp
    <3> QED BY <2>2, <3>1
  <2>3. CASE V # {}
    <3> DEFINE y == Choice(V)
               W == V \ {y}
    <3>1. y \in V
      BY <2>3, ChoiceIn
    <3>2. G(V)[V] = f[y] + G(V)[W]
      BY <2>1, <2>3 DEF SumsUp
    <3>3. SumsUp(G(W), f, W)
      BY <1>2, <3>1
    <3>4. G(V)[W] = G(W)[W]
      <4> HIDE DEF G, y
      <4>1. W \in SUBSET S /\ V \in SUBSET S /\ W \subseteq V
        BY <1>1
      <4> HIDE DEF W
      <4> QED BY <2>1, <3>3, <4>1, SumsUpUnique
    <3>5. h[V] = f[y] + G(W)[W]
      BY <2>3
    <3> QED BY <3>2, <3>4, <3>5
  <2> QED BY <2>2, <2>3
<1>4. SumsUp(h, f, U)
  <2>1. \A V \in SUBSET U : V # {} => h[V] = f[Choice(V)] + h[V \ {Choice(V)}]
    <3> SUFFICES ASSUME NEW V \in SUBSET U, V # {}
                 PROVE  h[V] = f[Choice(V)] + h[V \ {Choice(V)}]
      OBVIOUS
    <3>1. Choice(V) \in V
      BY ChoiceIn
    <3>2. V \ {Choice(V)} \in SUBSET U /\ V \ {Choice(V)} # U
      BY <3>1
    <3>3. h[V \ {Choice(V)}] = G(V \ {Choice(V)})[V \ {Choice(V)}]
      BY <1>3, <3>2
    <3>4. h[V] = f[Choice(V)] + G(V \ {Choice(V)})[V \ {Choice(V)}]
      OBVIOUS
    <3> QED BY <3>3, <3>4
  <2>2. h[{}] = 0
    OBVIOUS
  <2>3. h = [V \in SUBSET U |-> h[V]]
    OBVIOUS
  <2> HIDE DEF h
  <2> QED BY <2>1, <2>2, <2>3 DEF SumsUp
<1> QED BY <1>1, <1>4

(* The library's sum is the running sum at its whole set of indices.       *)
LEMMA SumIsSumsUp ==
    ASSUME NEW S, IsFiniteSet(S), NEW f
    PROVE  \E g : SumsUp(g, f, S) /\ SumFunctionOnSet(f, S) = g[S]
<1> DEFINE g == CHOOSE g : SumsUp(g, f, S)
<1>1. SumsUp(g, f, S)
  BY SumsUpExists
<1>2. SumFunctionOnSet(f, S) = g[S]
  BY DEF SumFunctionOnSet, FoldFunctionOnSet, MapThenFoldSet, SumsUp, Choice
<1> QED BY <1>1, <1>2

-----------------------------------------------------------------------------
LEMMA SumEmpty == ASSUME NEW f PROVE SumFunctionOnSet(f, {}) = 0
<1>1. PICK g : SumsUp(g, f, {}) /\ SumFunctionOnSet(f, {}) = g[{}]
  BY SumIsSumsUp, FS_EmptySet
<1>2. g[{}] = 0
  BY <1>1 DEF SumsUp
<1> QED BY <1>1, <1>2

LEMMA SumChoice ==
    ASSUME NEW S, IsFiniteSet(S), S # {}, NEW f
    PROVE  SumFunctionOnSet(f, S)
             = f[Choice(S)] + SumFunctionOnSet(f, S \ {Choice(S)})
<1> DEFINE R == S \ {Choice(S)}
<1>1. IsFiniteSet(R) /\ R \subseteq S
  BY FS_RemoveElement
<1>2. PICK g : SumsUp(g, f, S) /\ SumFunctionOnSet(f, S) = g[S]
  BY SumIsSumsUp
<1>3. PICK h : SumsUp(h, f, R) /\ SumFunctionOnSet(f, R) = h[R]
  BY <1>1, SumIsSumsUp
<1>4. g[S] = f[Choice(S)] + g[R]
  BY <1>2 DEF SumsUp
<1>5. g[R] = h[R]
  <2> HIDE DEF R
  <2> QED BY <1>1, <1>2, <1>3, SumsUpUnique
<1> QED BY <1>2, <1>3, <1>4, <1>5

LEMMA SumInt ==
    ASSUME NEW S, IsFiniteSet(S), NEW f, \A x \in S : f[x] \in Int
    PROVE  SumFunctionOnSet(f, S) \in Int
<1> DEFINE T == {U \in SUBSET S : ~(SumFunctionOnSet(f, U) \in Int)}
<1> SUFFICES ASSUME T # {} PROVE FALSE
  OBVIOUS
<1>1. PICK U \in T : \A W \in T : ~(W \subseteq U /\ W # U)
  <2>1. T \in SUBSET (SUBSET S)
    OBVIOUS
  <2> HIDE DEF T
  <2> QED BY <2>1, MinimalSubset
<1>2. U # {}
  <2> SUFFICES ASSUME U = {} PROVE FALSE
    OBVIOUS
  <2>1. SumFunctionOnSet(f, U) = 0
    BY SumEmpty
  <2>2. ~(SumFunctionOnSet(f, U) \in Int)
    BY <1>1
  <2> QED BY <2>1, <2>2
<1>3. IsFiniteSet(U) /\ Choice(U) \in U
  BY <1>1, <1>2, FS_Subset, ChoiceIn
<1>4. SumFunctionOnSet(f, U) = f[Choice(U)] + SumFunctionOnSet(f, U \ {Choice(U)})
  BY <1>2, <1>3, SumChoice
<1>5. SumFunctionOnSet(f, U \ {Choice(U)}) \in Int
  BY <1>1, <1>3
<1>6. f[Choice(U)] \in Int
  BY <1>1, <1>3
<1> QED BY <1>1, <1>4, <1>5, <1>6

(* Any element can be taken out of a sum.                                  *)
LEMMA SumRemove ==
    ASSUME NEW S, IsFiniteSet(S), NEW f, \A x \in S : f[x] \in Int, NEW z \in S
    PROVE  SumFunctionOnSet(f, S) = f[z] + SumFunctionOnSet(f, S \ {z})
<1> DEFINE Sum(U) == SumFunctionOnSet(f, U)
           T == {U \in SUBSET S : \E y \in U : Sum(U) # f[y] + Sum(U \ {y})}
<1> SUFFICES ASSUME T # {} PROVE FALSE
  OBVIOUS
<1>1. PICK U \in T : \A W \in T : ~(W \subseteq U /\ W # U)
  <2>1. T \in SUBSET (SUBSET S)
    OBVIOUS
  <2> HIDE DEF T
  <2> QED BY <2>1, MinimalSubset
<1>2. U \in SUBSET S /\ IsFiniteSet(U)
  BY <1>1, FS_Subset
<1>3. PICK y \in U : Sum(U) # f[y] + Sum(U \ {y})
  BY <1>1
<1> DEFINE x == Choice(U)
<1>4. x \in U
  BY <1>3, ChoiceIn
<1>5. Sum(U) = f[x] + Sum(U \ {x})
  BY <1>2, <1>3, SumChoice
<1>6. x # y
  BY <1>3, <1>5
<1> HIDE DEF x
<1>7. Sum(U \ {x}) = f[y] + Sum((U \ {x}) \ {y})
  <2>1. U \ {x} \in SUBSET S /\ U \ {x} \subseteq U /\ U \ {x} # U
    BY <1>2, <1>4
  <2>2. U \ {x} \notin T
    BY <2>1, <1>1
  <2>3. y \in U \ {x}
    BY <1>6
  <2> QED BY <2>1, <2>2, <2>3
<1>8. Sum(U \ {y}) = f[x] + Sum((U \ {y}) \ {x})
  <2>1. U \ {y} \in SUBSET S /\ U \ {y} \subseteq U /\ U \ {y} # U
    BY <1>2
  <2>2. U \ {y} \notin T
    BY <2>1, <1>1
  <2>3. x \in U \ {y}
    BY <1>4, <1>6
  <2> QED BY <2>1, <2>2, <2>3
<1>9. (U \ {y}) \ {x} = (U \ {x}) \ {y}
  OBVIOUS
<1>10. f[x] \in Int /\ f[y] \in Int /\ Sum((U \ {x}) \ {y}) \in Int
  <2>1. (U \ {x}) \ {y} \in SUBSET S
    BY <1>2
  <2>2. IsFiniteSet((U \ {x}) \ {y})
    BY <2>1, FS_Subset
  <2>3. SumFunctionOnSet(f, (U \ {x}) \ {y}) \in Int
    BY <2>1, <2>2, SumInt
  <2> QED BY <2>3, <1>2, <1>4
<1>11. Sum((U \ {y}) \ {x}) = Sum((U \ {x}) \ {y})
  BY <1>9
<1> DEFINE rest == Sum((U \ {x}) \ {y})
<1>12. Sum(U) = f[x] + (f[y] + rest) /\ Sum(U \ {y}) = f[x] + rest /\ rest \in Int
  BY <1>5, <1>7, <1>8, <1>10, <1>11
<1> HIDE DEF Sum, T, rest
<1> QED BY <1>3, <1>10, <1>12

LEMMA SumAdd ==
    ASSUME NEW S, IsFiniteSet(S), NEW f, NEW z, z \notin S,
           f[z] \in Int, \A x \in S : f[x] \in Int
    PROVE  SumFunctionOnSet(f, S \cup {z}) = f[z] + SumFunctionOnSet(f, S)
<1>1. IsFiniteSet(S \cup {z}) /\ (S \cup {z}) \ {z} = S /\ z \in S \cup {z}
  BY FS_AddElement
<1>2. \A x \in S \cup {z} : f[x] \in Int
  OBVIOUS
<1> DEFINE R == S \cup {z}
<1> HIDE DEF R
<1>3. SumFunctionOnSet(f, R) = f[z] + SumFunctionOnSet(f, R \ {z})
  BY <1>1, <1>2, SumRemove DEF R
<1> QED BY <1>1, <1>3 DEF R

(* Larger values have a larger sum; equal values have the same.            *)
LEMMA SumLeq ==
    ASSUME NEW S, IsFiniteSet(S), NEW f, NEW g,
           \A x \in S : f[x] \in Int /\ g[x] \in Int /\ f[x] <= g[x]
    PROVE  SumFunctionOnSet(f, S) <= SumFunctionOnSet(g, S)
<1> DEFINE F(U) == SumFunctionOnSet(f, U)
           G(U) == SumFunctionOnSet(g, U)
           T == {U \in SUBSET S : ~(F(U) <= G(U))}
<1> SUFFICES ASSUME T # {} PROVE FALSE
  OBVIOUS
<1>1. PICK U \in T : \A W \in T : ~(W \subseteq U /\ W # U)
  <2>1. T \in SUBSET (SUBSET S)
    OBVIOUS
  <2> HIDE DEF T
  <2> QED BY <2>1, MinimalSubset
<1>2. U \in SUBSET S /\ IsFiniteSet(U) /\ ~(F(U) <= G(U))
  BY <1>1, FS_Subset
<1>3. U # {}
  BY <1>2, SumEmpty
<1> DEFINE x == Choice(U)
<1>4. x \in U
  BY <1>3, ChoiceIn
<1>5. F(U) = f[x] + F(U \ {x}) /\ G(U) = g[x] + G(U \ {x})
  BY <1>2, <1>3, SumChoice
<1> HIDE DEF x
<1>6. U \ {x} \in SUBSET S /\ IsFiniteSet(U \ {x}) /\ U \ {x} \subseteq U /\ U \ {x} # U
  BY <1>2, <1>4, FS_Subset
<1>7. F(U \ {x}) <= G(U \ {x})
  BY <1>1, <1>6
<1>8. F(U \ {x}) \in Int /\ G(U \ {x}) \in Int
  <2>1. \A y \in U \ {x} : f[y] \in Int /\ g[y] \in Int
    BY <1>6
  <2> QED BY <2>1, <1>6, SumInt
<1>9. f[x] \in Int /\ g[x] \in Int /\ f[x] <= g[x]
  BY <1>2, <1>4
<1> HIDE DEF F, G, T
<1> QED BY <1>2, <1>5, <1>7, <1>8, <1>9

LEMMA SumEqual ==
    ASSUME NEW S, IsFiniteSet(S), NEW f, NEW g, \A x \in S : f[x] \in Int /\ f[x] = g[x]
    PROVE  SumFunctionOnSet(f, S) = SumFunctionOnSet(g, S)
<1>1. SumFunctionOnSet(f, S) <= SumFunctionOnSet(g, S)
  BY SumLeq
<1>2. SumFunctionOnSet(g, S) <= SumFunctionOnSet(f, S)
  BY SumLeq
<1>3. SumFunctionOnSet(f, S) \in Int /\ SumFunctionOnSet(g, S) \in Int
  BY SumInt
<1> QED BY <1>1, <1>2, <1>3

(* A sum changes by as much as the one value that changes.                 *)
LEMMA SumChange ==
    ASSUME NEW S, IsFiniteSet(S), NEW f, NEW g, NEW z \in S,
           \A x \in S : f[x] \in Int /\ g[x] \in Int,
           \A x \in S \ {z} : f[x] = g[x]
    PROVE  SumFunctionOnSet(g, S) = SumFunctionOnSet(f, S) - f[z] + g[z]
<1>1. IsFiniteSet(S \ {z})
  BY FS_RemoveElement
<1>2. SumFunctionOnSet(f, S) = f[z] + SumFunctionOnSet(f, S \ {z})
  BY SumRemove
<1>3. SumFunctionOnSet(g, S) = g[z] + SumFunctionOnSet(g, S \ {z})
  BY SumRemove
<1>4. SumFunctionOnSet(f, S \ {z}) = SumFunctionOnSet(g, S \ {z})
  BY <1>1, SumEqual
<1>5. SumFunctionOnSet(f, S \ {z}) \in Int
  BY <1>1, SumInt
<1> QED BY <1>2, <1>3, <1>4, <1>5

(* The sum of a pointwise sum.                                             *)
LEMMA SumPlus ==
    ASSUME NEW S, IsFiniteSet(S), NEW f, NEW g, NEW h,
           \A x \in S : f[x] \in Int /\ g[x] \in Int /\ h[x] = f[x] + g[x]
    PROVE  SumFunctionOnSet(h, S) = SumFunctionOnSet(f, S) + SumFunctionOnSet(g, S)
<1> DEFINE F(U) == SumFunctionOnSet(f, U)
           G(U) == SumFunctionOnSet(g, U)
           H(U) == SumFunctionOnSet(h, U)
           T == {U \in SUBSET S : H(U) # F(U) + G(U)}
<1> SUFFICES ASSUME T # {} PROVE FALSE
  OBVIOUS
<1>1. PICK U \in T : \A W \in T : ~(W \subseteq U /\ W # U)
  <2>1. T \in SUBSET (SUBSET S)
    OBVIOUS
  <2> HIDE DEF T
  <2> QED BY <2>1, MinimalSubset
<1>2. U \in SUBSET S /\ IsFiniteSet(U) /\ H(U) # F(U) + G(U)
  BY <1>1, FS_Subset
<1>3. U # {}
  <2> SUFFICES ASSUME U = {} PROVE FALSE
    OBVIOUS
  <2>1. F(U) = 0 /\ G(U) = 0 /\ H(U) = 0
    BY SumEmpty
  <2> HIDE DEF F, G, H, T
  <2> QED BY <1>2, <2>1
<1> DEFINE x == Choice(U)
<1>4. x \in U
  BY <1>3, ChoiceIn
<1>5. /\ F(U) = f[x] + F(U \ {x}) /\ G(U) = g[x] + G(U \ {x})
      /\ H(U) = h[x] + H(U \ {x})
  BY <1>2, <1>3, SumChoice
<1> HIDE DEF x
<1>6. U \ {x} \in SUBSET S /\ IsFiniteSet(U \ {x}) /\ U \ {x} \subseteq U /\ U \ {x} # U
  BY <1>2, <1>4, FS_Subset
<1>7. H(U \ {x}) = F(U \ {x}) + G(U \ {x})
  BY <1>1, <1>6
<1>8. F(U \ {x}) \in Int /\ G(U \ {x}) \in Int
  <2>1. \A y \in U \ {x} : f[y] \in Int /\ g[y] \in Int
    BY <1>6
  <2> QED BY <2>1, <1>6, SumInt
<1>9. f[x] \in Int /\ g[x] \in Int /\ h[x] = f[x] + g[x]
  BY <1>2, <1>4
<1> HIDE DEF F, G, H, T
<1> QED BY <1>2, <1>5, <1>7, <1>8, <1>9

-----------------------------------------------------------------------------
LEMMA SumNat ==
    ASSUME NEW S, IsFiniteSet(S), NEW f, \A x \in S : f[x] \in Nat
    PROVE  SumFunctionOnSet(f, S) \in Nat
<1> DEFINE T == {U \in SUBSET S : ~(SumFunctionOnSet(f, U) \in Nat)}
<1> SUFFICES ASSUME T # {} PROVE FALSE
  OBVIOUS
<1>1. PICK U \in T : \A W \in T : ~(W \subseteq U /\ W # U)
  <2>1. T \in SUBSET (SUBSET S)
    OBVIOUS
  <2> HIDE DEF T
  <2> QED BY <2>1, MinimalSubset
<1>2. U # {}
  <2> SUFFICES ASSUME U = {} PROVE FALSE
    OBVIOUS
  <2>1. SumFunctionOnSet(f, U) = 0
    BY SumEmpty
  <2>2. ~(SumFunctionOnSet(f, U) \in Nat)
    BY <1>1
  <2> QED BY <2>1, <2>2
<1>3. IsFiniteSet(U) /\ Choice(U) \in U
  BY <1>1, <1>2, FS_Subset, ChoiceIn
<1>4. SumFunctionOnSet(f, U) = f[Choice(U)] + SumFunctionOnSet(f, U \ {Choice(U)})
  BY <1>2, <1>3, SumChoice
<1>5. SumFunctionOnSet(f, U \ {Choice(U)}) \in Nat
  BY <1>1, <1>3
<1>6. f[Choice(U)] \in Nat
  BY <1>1, <1>3
<1> QED BY <1>1, <1>4, <1>5, <1>6

(* Indices whose value is zero may be left out.                            *)
LEMMA SumSupport ==
    ASSUME NEW S, IsFiniteSet(S), NEW R \in SUBSET S, NEW f,
           \A x \in S : f[x] \in Int, \A x \in S \ R : f[x] = 0
    PROVE  SumFunctionOnSet(f, S) = SumFunctionOnSet(f, R)
<1> DEFINE Sum(U) == SumFunctionOnSet(f, U)
           T == {U \in SUBSET S : R \subseteq U /\ Sum(U) # Sum(R)}
<1> SUFFICES ASSUME T # {} PROVE FALSE
  OBVIOUS
<1>1. PICK U \in T : \A W \in T : ~(W \subseteq U /\ W # U)
  <2>1. T \in SUBSET (SUBSET S)
    OBVIOUS
  <2> HIDE DEF T
  <2> QED BY <2>1, MinimalSubset
<1>2. U \in SUBSET S /\ IsFiniteSet(U) /\ R \subseteq U /\ Sum(U) # Sum(R)
  BY <1>1, FS_Subset
<1>3. PICK y \in U : y \notin R
  BY <1>2
<1>4. U \ {y} \in SUBSET S /\ U \ {y} \subseteq U /\ U \ {y} # U /\ R \subseteq U \ {y}
  BY <1>2, <1>3
<1>5. Sum(U \ {y}) = Sum(R)
  BY <1>1, <1>4
<1>6. Sum(U) = f[y] + Sum(U \ {y})
  <2>1. \A x \in U : f[x] \in Int
    BY <1>2
  <2> QED BY <2>1, <1>2, SumRemove
<1>7. f[y] = 0 /\ Sum(U \ {y}) \in Int
  <2>1. IsFiniteSet(U \ {y}) /\ \A x \in U \ {y} : f[x] \in Int
    BY <1>4, FS_Subset
  <2> QED BY <2>1, <1>2, <1>3, SumInt
<1> HIDE DEF Sum, T
<1> QED BY <1>2, <1>5, <1>6, <1>7

(* The sum of a whole function when a last index is added.                 *)
LEMMA SumExtended ==
    ASSUME NEW n \in Nat, NEW f, NEW g, DOMAIN f = 1..n, DOMAIN g = 1..(n + 1),
           \A i \in 1..n : f[i] \in Int /\ g[i] = f[i], g[n + 1] \in Int
    PROVE  SumFunction(g) = SumFunction(f) + g[n + 1]
<1>1. IsFiniteSet(1..n) /\ n + 1 \notin 1..n /\ 1..(n + 1) = (1..n) \cup {n + 1}
  <2>1. IsFiniteSet(1..n)
    BY FS_Interval
  <2>2. n + 1 \notin 1..n
    OBVIOUS
  <2>3. 1..(n + 1) = (1..n) \cup {n + 1}
    OBVIOUS
  <2> QED BY <2>1, <2>2, <2>3
<1> DEFINE I == 1..n
           last == n + 1
<1>2. /\ IsFiniteSet(I) /\ last \notin I /\ g[last] \in Int
      /\ \A i \in I : g[i] \in Int /\ f[i] \in Int /\ g[i] = f[i]
  BY <1>1
<1>3. SumFunction(g) = SumFunctionOnSet(g, I \cup {last}) /\ SumFunction(f) = SumFunctionOnSet(f, I)
  BY <1>1 DEF SumFunction
<1> HIDE DEF I, last
<1>4. SumFunctionOnSet(g, I \cup {last}) = g[last] + SumFunctionOnSet(g, I)
  BY <1>2, SumAdd
<1>5. SumFunctionOnSet(g, I) = SumFunctionOnSet(f, I)
  BY <1>2, SumEqual
<1>6. SumFunctionOnSet(f, I) \in Int
  BY <1>2, SumInt
<1>7. SumFunction(g) = SumFunction(f) + g[last]
  BY <1>2, <1>3, <1>4, <1>5, <1>6
<1> QED BY <1>7 DEF last

(* The sum of a whole function when one value changes.                     *)
LEMMA SumUpdated ==
    ASSUME NEW f, NEW g, IsFiniteSet(DOMAIN f), DOMAIN g = DOMAIN f, NEW z \in DOMAIN f,
           \A x \in DOMAIN f : f[x] \in Int /\ g[x] \in Int,
           \A x \in DOMAIN f \ {z} : f[x] = g[x]
    PROVE  SumFunction(g) = SumFunction(f) - f[z] + g[z]
<1> DEFINE D == DOMAIN f
<1>1. SumFunction(f) = SumFunctionOnSet(f, D) /\ SumFunction(g) = SumFunctionOnSet(g, D)
  BY DEF SumFunction
<1>2. /\ IsFiniteSet(D) /\ z \in D
      /\ \A x \in D : f[x] \in Int /\ g[x] \in Int
      /\ \A x \in D \ {z} : f[x] = g[x]
  OBVIOUS
<1> HIDE DEF D
<1> QED BY <1>1, <1>2, SumChange

(* A finite set of ranked elements has a last one.                         *)
LEMMA HasLast ==
    ASSUME NEW S, IsFiniteSet(S), S # {}, NEW rank, \A x \in S : rank[x] \in Int
    PROVE  \E x \in S : \A y \in S : rank[y] <= rank[x]
<1> DEFINE T == {U \in SUBSET S : U # {} /\ ~\E x \in U : \A y \in U : rank[y] <= rank[x]}
<1> SUFFICES ASSUME T # {} PROVE FALSE
  OBVIOUS
<1>1. PICK U \in T : \A W \in T : ~(W \subseteq U /\ W # U)
  <2>1. T \in SUBSET (SUBSET S)
    OBVIOUS
  <2> HIDE DEF T
  <2> QED BY <2>1, MinimalSubset
<1> DEFINE x == Choice(U)
<1>2. x \in U /\ U \in SUBSET S
  BY <1>1, ChoiceIn
<1> HIDE DEF x
<1>3. U \ {x} # {}
  BY <1>1, <1>2
<1>4. U \ {x} \in SUBSET S /\ U \ {x} \subseteq U /\ U \ {x} # U
  BY <1>2
<1>5. PICK m \in U \ {x} : \A y \in U \ {x} : rank[y] <= rank[m]
  BY <1>1, <1>3, <1>4
<1>6. CASE rank[x] <= rank[m]
  BY <1>1, <1>5, <1>6
<1>7. CASE ~(rank[x] <= rank[m])
  <2>1. rank[x] \in Int /\ rank[m] \in Int /\ \A y \in U : rank[y] \in Int
    BY <1>2, <1>5
  <2>2. \A y \in U : rank[y] <= rank[x]
    BY <1>5, <1>7, <2>1
  <2> QED BY <1>1, <1>2, <2>2
<1> QED BY <1>6, <1>7
=============================================================================
