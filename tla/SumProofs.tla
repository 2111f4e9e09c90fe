----------------------------- MODULE SumProofs -----------------------------
(***************************************************************************)
(* Facts about the sum of a function's values over a finite set, the        *)
(* SumFunctionOnSet of the community modules. It is a recursive function    *)
(* over the subsets of the set. What it adds up to is proved without the    *)
(* induction theorems of the library, which take an operator: a smallest    *)
(* subset of which a claim fails would leave it true of the rest of that    *)
(* subset, and so of the subset.                                            *)
(***************************************************************************)
EXTENDS Integers, FiniteSetsExt, FiniteSetTheorems, WellFoundedInduction, TLAPS

Pick(s) == CHOOSE x \in s : TRUE

\* g holds the sum of f over each subset of S.
SumsUp(f, S, g) ==
    g = [s \in SUBSET S |->
            IF s = {} THEN 0 ELSE f[Pick(s)] + g[s \ {Pick(s)}]]

\* The sum is what the community module says.
LEMMA SumChosen ==
    ASSUME NEW f, NEW S
    PROVE  SumFunctionOnSet(f, S) = (CHOOSE g : SumsUp(f, S, g))[S]
BY DEF SumFunctionOnSet, FoldFunctionOnSet, MapThenFoldSet, Pick, SumsUp

\* The element the recursion takes out first is one of the set.
LEMMA PickIn ==
    ASSUME NEW s, s # {}
    PROVE  Pick(s) \in s
BY DEF Pick

\* Of some subsets of a finite set one contains no other.
LEMMA LeastSubset ==
    ASSUME NEW S, IsFiniteSet(S), NEW B, B \subseteq SUBSET S, B # {}
    PROVE  \E m \in B : \A t \in B : t \subseteq m => t = m
<1>1. IsWellFoundedOn(StrictSubsetOrdering(S), SUBSET S)
  BY FS_StrictSubsetOrderingWellFounded, FS_FiniteSubsetsOfFinite
<1>2. \E m \in B : \A t \in B : <<t, m>> \notin StrictSubsetOrdering(S)
  BY <1>1, WFMin
<1>3. PICK m \in B : \A t \in B : <<t, m>> \notin StrictSubsetOrdering(S)
  BY <1>2
<1>4. ASSUME NEW t \in B, t \subseteq m, t # m
      PROVE  FALSE
  <2>1. <<t, m>> \in StrictSubsetOrdering(S)
    BY <1>4 DEF StrictSubsetOrdering
  <2> QED  BY <1>3, <2>1
<1> QED  BY <1>4

\* A sum over a subset, by its chosen element and the rest.
LEMMA SumsUpAt ==
    ASSUME NEW f, NEW S, NEW g, SumsUp(f, S, g), NEW s, s \subseteq S
    PROVE  g[s] = IF s = {} THEN 0 ELSE f[Pick(s)] + g[s \ {Pick(s)}]
<1>1. s \in SUBSET S
  OBVIOUS
<1>2. [t \in SUBSET S |->
         IF t = {} THEN 0 ELSE f[Pick(t)] + g[t \ {Pick(t)}]][s]
      = IF s = {} THEN 0 ELSE f[Pick(s)] + g[s \ {Pick(s)}]
  BY <1>1
<1> QED  BY <1>2 DEF SumsUp

\* Two such functions agree where both are defined.
LEMMA SumsAgree ==
    ASSUME NEW f, NEW S, IsFiniteSet(S), NEW T, S \subseteq T,
           NEW g, SumsUp(f, S, g), NEW h, SumsUp(f, T, h)
    PROVE  g[S] = h[S]
<1> DEFINE B == {s \in SUBSET S : g[s] # h[s]}
<1> SUFFICES ASSUME B # {} PROVE FALSE
    OBVIOUS
<1>1. PICK m \in B : \A t \in B : t \subseteq m => t = m
  <2>1. B \subseteq SUBSET S
    OBVIOUS
  <2> HIDE DEF B
  <2> QED  BY <2>1, LeastSubset
<1>2. m \subseteq S /\ m \subseteq T /\ g[m] # h[m]
  OBVIOUS
<1>3. m # {}
  BY <1>2, SumsUpAt
<1>4. g[m \ {Pick(m)}] = h[m \ {Pick(m)}]
  <2>1. m \ {Pick(m)} # m
    BY <1>3, PickIn
  <2> QED  BY <1>1, <1>2, <2>1
<1>5. g[m] = f[Pick(m)] + g[m \ {Pick(m)}]
  BY <1>2, <1>3, SumsUpAt
<1>6. h[m] = f[Pick(m)] + h[m \ {Pick(m)}]
  BY <1>2, <1>3, SumsUpAt
<1> QED  BY <1>2, <1>4, <1>5, <1>6

\* One exists over every finite set.
LEMMA SumsExist ==
    ASSUME NEW f, NEW S, IsFiniteSet(S)
    PROVE  \E g : SumsUp(f, S, g)
<1> DEFINE B == {s \in SUBSET S : ~ \E g : SumsUp(f, s, g)}
<1> SUFFICES ASSUME B # {} PROVE FALSE
    OBVIOUS
<1>1. PICK m \in B : \A t \in B : t \subseteq m => t = m
  <2>1. B \subseteq SUBSET S
    OBVIOUS
  <2> HIDE DEF B
  <2> QED  BY <2>1, LeastSubset
<1>2. m \subseteq S /\ ~ \E g : SumsUp(f, m, g)
  OBVIOUS
<1> DEFINE Of(t) == CHOOSE g : SumsUp(f, t, g)
           Val(t) == Of(t)[t]
           G == [s \in SUBSET m |->
                   IF s = {} THEN 0 ELSE f[Pick(s)] + Val(s \ {Pick(s)})]
<1>3. ASSUME NEW t, t \subseteq m, t # m
      PROVE  SumsUp(f, t, Of(t)) /\ IsFiniteSet(t)
  <2>1. t \subseteq S /\ t \notin B
    BY <1>1, <1>2, <1>3
  <2>2. \E g : SumsUp(f, t, g)
    BY <2>1
  <2>3. IsFiniteSet(t)
    BY <2>1, FS_Subset
  <2> QED  BY <2>2, <2>3
<1> HIDE DEF B, Of
<1>4. ASSUME NEW s, s \subseteq m, s # m
      PROVE  G[s] = Val(s)
  <2>1. G[s] = IF s = {} THEN 0 ELSE f[Pick(s)] + Val(s \ {Pick(s)})
    BY <1>4
  <2>2. SumsUp(f, s, Of(s))
    BY <1>3, <1>4
  <2>3. Of(s)[s] = IF s = {} THEN 0 ELSE f[Pick(s)] + Of(s)[s \ {Pick(s)}]
    BY <2>2, SumsUpAt
  <2>4. CASE s = {}
    BY <2>1, <2>3, <2>4
  <2>5. CASE s # {}
    <3> DEFINE t == s \ {Pick(s)}
    <3>1. t \subseteq s /\ t \subseteq m /\ t # m
      BY <1>4
    <3>2. SumsUp(f, t, Of(t)) /\ IsFiniteSet(t)
      BY <1>3, <3>1
    <3>3. Of(t)[t] = Of(s)[t]
      <4> HIDE DEF t
      <4> QED  BY <2>2, <3>1, <3>2, SumsAgree
    <3> QED  BY <2>1, <2>3, <2>5, <3>3
  <2> QED  BY <2>4, <2>5
<1>5. ASSUME NEW s, s \subseteq m, s # {}
      PROVE  G[s \ {Pick(s)}] = Val(s \ {Pick(s)})
  <2>1. s \ {Pick(s)} # m /\ s \ {Pick(s)} \subseteq m
    BY <1>5, PickIn
  <2> HIDE DEF G, Val
  <2> QED  BY <2>1, <1>4
<1>6. SumsUp(f, m, G)
  <2>1. \A s \in SUBSET m :
          (IF s = {} THEN 0 ELSE f[Pick(s)] + Val(s \ {Pick(s)}))
          = IF s = {} THEN 0 ELSE f[Pick(s)] + G[s \ {Pick(s)}]
    <3> HIDE DEF G, Val
    <3> QED  BY <1>5
  <2>2. G = [s \in SUBSET m |->
               IF s = {} THEN 0 ELSE f[Pick(s)] + G[s \ {Pick(s)}]]
    <3> DEFINE H == [s \in SUBSET m |->
                       IF s = {} THEN 0 ELSE f[Pick(s)] + G[s \ {Pick(s)}]]
    <3>1. \A s \in SUBSET m : G[s] = H[s]
      <4> TAKE s \in SUBSET m
      <4>1. G[s] = IF s = {} THEN 0 ELSE f[Pick(s)] + Val(s \ {Pick(s)})
        OBVIOUS
      <4>2. H[s] = IF s = {} THEN 0 ELSE f[Pick(s)] + G[s \ {Pick(s)}]
        <5> HIDE DEF G
        <5> QED  OBVIOUS
      <4> HIDE DEF G, H, Val
      <4> QED  BY <2>1, <4>1, <4>2
    <3>2. G = [s \in SUBSET m |-> G[s]]
      OBVIOUS
    <3>3. H = [s \in SUBSET m |-> H[s]]
      <4> HIDE DEF G
      <4> QED  OBVIOUS
    <3>4. G = H
      <4> HIDE DEF G, H
      <4> QED  BY <3>1, <3>2, <3>3
    <3> HIDE DEF G
    <3> QED  BY <3>4
  <2> HIDE DEF G
  <2> QED  BY <2>2 DEF SumsUp
<1> HIDE DEF G
<1> QED  BY <1>2, <1>6
-----------------------------------------------------------------------------
\* The sum over any subset of a finite set, as the recursion has it.
LEMMA SumRec ==
    ASSUME NEW f, NEW S, IsFiniteSet(S)
    PROVE  SumFunctionOnSet(f, S) =
             IF S = {} THEN 0
             ELSE f[Pick(S)] + SumFunctionOnSet(f, S \ {Pick(S)})
<1> DEFINE g == CHOOSE h : SumsUp(f, S, h)
           T == S \ {Pick(S)}
           k == CHOOSE h : SumsUp(f, T, h)
<1>1. SumsUp(f, S, g)
  BY SumsExist
<1>2. IsFiniteSet(T)
  BY FS_Subset
<1>3. SumsUp(f, T, k)
  <2> HIDE DEF T
  <2> QED  BY <1>2, SumsExist
<1> HIDE DEF g, k
<1>4. k[T] = g[T]
  <2>1. T \subseteq S
    OBVIOUS
  <2> HIDE DEF T
  <2> QED  BY <1>1, <1>2, <1>3, <2>1, SumsAgree
<1>5. g[S] = IF S = {} THEN 0 ELSE f[Pick(S)] + g[T]
  BY <1>1, SumsUpAt
<1>6. SumFunctionOnSet(f, S) = g[S] /\ SumFunctionOnSet(f, T) = k[T]
  BY SumChosen DEF g, k
<1> QED  BY <1>4, <1>5, <1>6

\* Nothing adds up to zero.
LEMMA SumEmpty == \A f : SumFunctionOnSet(f, {}) = 0
BY SumRec, FS_EmptySet

\* A function that SumsUp describes has the sum at the whole set.
LEMMA SumIs ==
    ASSUME NEW f, NEW S, IsFiniteSet(S), NEW g, SumsUp(f, S, g)
    PROVE  SumFunctionOnSet(f, S) = g[S]
<1> DEFINE h == CHOOSE k : SumsUp(f, S, k)
<1>1. SumsUp(f, S, h)
  BY SumsExist
<1> HIDE DEF h
<1>2. h[S] = g[S]
  BY <1>1, SumsAgree
<1> QED  BY <1>2, SumChosen DEF h

\* Sums of natural numbers are natural numbers.
LEMMA SumNat ==
    ASSUME NEW f, NEW S, IsFiniteSet(S), \A x \in S : f[x] \in Nat
    PROVE  SumFunctionOnSet(f, S) \in Nat
<1> DEFINE B == {s \in SUBSET S : SumFunctionOnSet(f, s) \notin Nat}
<1> SUFFICES ASSUME B # {} PROVE FALSE
    OBVIOUS
<1>1. PICK m \in B : \A t \in B : t \subseteq m => t = m
  <2>1. B \subseteq SUBSET S
    OBVIOUS
  <2> HIDE DEF B
  <2> QED  BY <2>1, LeastSubset
<1>2. m \subseteq S /\ SumFunctionOnSet(f, m) \notin Nat /\ IsFiniteSet(m)
  BY FS_Subset
<1>3. m # {}
  BY <1>2, SumEmpty
<1> DEFINE t == m \ {Pick(m)}
<1>4. Pick(m) \in S /\ t \subseteq S /\ t \subseteq m /\ t # m
  BY <1>2, <1>3, PickIn
<1>5. SumFunctionOnSet(f, t) \in Nat
  <2> HIDE DEF t
  <2> QED  BY <1>1, <1>4
<1>6. SumFunctionOnSet(f, m) = f[Pick(m)] + SumFunctionOnSet(f, t)
  BY <1>2, <1>3, SumRec
<1>7. f[Pick(m)] \in Nat
  BY <1>4
<1> HIDE DEF t, B
<1> QED  BY <1>2, <1>5, <1>6, <1>7

\* Only the values on the set count.
LEMMA SumSame ==
    ASSUME NEW f, NEW g, NEW S, IsFiniteSet(S), \A x \in S : f[x] = g[x]
    PROVE  SumFunctionOnSet(f, S) = SumFunctionOnSet(g, S)
<1>1. PICK h : SumsUp(f, S, h)
  BY SumsExist
<1>2. \A s \in SUBSET S : s # {} => f[Pick(s)] = g[Pick(s)]
  BY PickIn
<1>3. SumsUp(g, S, h)
  BY <1>1, <1>2 DEF SumsUp
<1> QED  BY <1>1, <1>3, SumIs

\* Which element is taken out first does not matter.
LEMMA SumRemove ==
    ASSUME NEW f, NEW S, IsFiniteSet(S), \A x \in S : f[x] \in Nat,
           NEW y \in S
    PROVE  SumFunctionOnSet(f, S) = f[y] + SumFunctionOnSet(f, S \ {y})
<1> DEFINE Sum(s) == SumFunctionOnSet(f, s)
           B == {s \in SUBSET S : \E z \in s : Sum(s) # f[z] + Sum(s \ {z})}
<1> SUFFICES ASSUME B # {} PROVE FALSE
    OBVIOUS
<1>1. PICK m \in B : \A t \in B : t \subseteq m => t = m
  <2>1. B \subseteq SUBSET S
    OBVIOUS
  <2> HIDE DEF B
  <2> QED  BY <2>1, LeastSubset
<1>2. m \subseteq S /\ \E z \in m : Sum(m) # f[z] + Sum(m \ {z})
  OBVIOUS
<1>3. PICK z \in m : Sum(m) # f[z] + Sum(m \ {z})
  BY <1>2
<1>4. ASSUME NEW t, t \subseteq m, t # m, NEW u \in t
      PROVE  Sum(t) = f[u] + Sum(t \ {u})
  <2>1. t \subseteq S /\ t \notin B
    <3> HIDE DEF B
    <3> QED  BY <1>1, <1>2, <1>4
  <2> HIDE DEF Sum
  <2> QED  BY <2>1 DEF B
<1>5. \A t : t \subseteq m => IsFiniteSet(t) /\ Sum(t) \in Nat
  <2> SUFFICES ASSUME NEW t, t \subseteq m
               PROVE  IsFiniteSet(t) /\ Sum(t) \in Nat
      OBVIOUS
  <2>1. t \subseteq S /\ IsFiniteSet(t)
    BY <1>2, FS_Subset
  <2> QED  BY <2>1, SumNat
<1> DEFINE x == Pick(m)
           mx == m \ {x}
           mz == m \ {z}
           mxz == m \ {x, z}
<1>6. x \in m
  BY PickIn
<1>7. Sum(m) = f[x] + Sum(mx)
  BY <1>5, SumRec
<1>8. x # z
  BY <1>3, <1>7
<1>9. Sum(mx) = f[z] + Sum(mxz)
  <2>1. mx \subseteq m /\ mx # m /\ z \in mx /\ mx \ {z} = mxz
    BY <1>6, <1>8
  <2> HIDE DEF mx, mxz, Sum, B
  <2> QED  BY <1>4, <2>1
<1>10. Sum(mz) = f[x] + Sum(mxz)
  <2>1. mz \subseteq m /\ mz # m /\ x \in mz /\ mz \ {x} = mxz
    BY <1>6, <1>8
  <2> HIDE DEF mz, mxz, Sum, B, x
  <2> QED  BY <1>4, <2>1
<1>11. f[x] \in Nat /\ f[z] \in Nat /\ Sum(mxz) \in Nat
  BY <1>2, <1>5, <1>6
<1> HIDE DEF x, mx, mxz, Sum, B
<1>12. Sum(m) = f[z] + Sum(mz)
  <2> HIDE DEF mz
  <2> QED  BY <1>7, <1>9, <1>10, <1>11
<1> QED  BY <1>3, <1>12

\* One more element adds its value.
LEMMA SumAdd ==
    ASSUME NEW f, NEW S, IsFiniteSet(S), NEW y, y \notin S,
           \A x \in S \cup {y} : f[x] \in Nat
    PROVE  SumFunctionOnSet(f, S \cup {y}) = f[y] + SumFunctionOnSet(f, S)
<1> DEFINE T == S \cup {y}
<1>1. IsFiniteSet(T) /\ y \in T /\ T \ {y} = S
  BY FS_AddElement
<1> HIDE DEF T
<1>2. \A x \in T : f[x] \in Nat
  BY DEF T
<1> QED  BY <1>1, <1>2, SumRemove DEF T

\* A set mapped into another, one to one and never to something smaller, sums
\* up to no more.
THEOREM SumInjected ==
    ASSUME NEW S, NEW T, IsFiniteSet(S), IsFiniteSet(T),
           NEW f, NEW g, \A x \in S : f[x] \in Nat, \A y \in T : g[y] \in Nat,
           NEW h, \A x \in S : h[x] \in T /\ f[x] <= g[h[x]],
           \A x, y \in S : h[x] = h[y] => x = y
    PROVE  SumFunctionOnSet(f, S) <= SumFunctionOnSet(g, T)
<1> DEFINE F(s) == SumFunctionOnSet(f, s)
           H(t) == SumFunctionOnSet(g, t)
           Into(s, t) == \A x \in s : h[x] \in t
           B == {s \in SUBSET S : \E t \in SUBSET T : Into(s, t) /\ ~(F(s) <= H(t))}
<1> SUFFICES ASSUME B # {} PROVE FALSE
  <2>1. Into(S, T)
    OBVIOUS
  <2> QED  BY <2>1
<1>1. PICK m \in B : \A t \in B : t \subseteq m => t = m
  <2>1. B \subseteq SUBSET S
    OBVIOUS
  <2> HIDE DEF B
  <2> QED  BY <2>1, LeastSubset
<1>2. m \subseteq S /\ \E t \in SUBSET T : Into(m, t) /\ ~(F(m) <= H(t))
  OBVIOUS
<1>3. PICK n \in SUBSET T : Into(m, n) /\ ~(F(m) <= H(n))
  BY <1>2
<1>4. ASSUME NEW s, s \subseteq m, s # m, NEW t, t \subseteq T, Into(s, t)
      PROVE  F(s) <= H(t)
  <2>1. s \subseteq S /\ s \notin B
    <3> HIDE DEF B
    <3> QED  BY <1>1, <1>2, <1>4
  <2> HIDE DEF F, H, Into
  <2> QED  BY <1>4, <2>1 DEF B
<1>5. ASSUME NEW s, s \subseteq S
      PROVE  IsFiniteSet(s) /\ F(s) \in Nat
  <2>1. IsFiniteSet(s)
    BY <1>5, FS_Subset
  <2> QED  BY <1>5, <2>1, SumNat
<1>6. ASSUME NEW t, t \subseteq T
      PROVE  IsFiniteSet(t) /\ H(t) \in Nat
  <2>1. IsFiniteSet(t)
    BY <1>6, FS_Subset
  <2> QED  BY <1>6, <2>1, SumNat
<1>7. m # {}
  <2>1. m = {} => F(m) = 0
    BY SumEmpty
  <2>2. H(n) \in Nat
    BY <1>6
  <2> HIDE DEF F, H, Into, B
  <2> QED  BY <1>3, <2>1, <2>2
<1> DEFINE x == Pick(m)
           s == m \ {x}
           t == n \ {h[x]}
<1>8. x \in m /\ x \in S
  BY <1>2, <1>7, PickIn
<1>9. h[x] \in n /\ h[x] \in T
  BY <1>3, <1>8
<1>10. F(m) = f[x] + F(s)
  <2>1. IsFiniteSet(m)
    BY <1>2, <1>5
  <2> QED  BY <1>7, <2>1, SumRec
<1>11. H(n) = g[h[x]] + H(t)
  <2>1. IsFiniteSet(n) /\ \A y \in n : g[y] \in Nat
    BY <1>6
  <2> HIDE DEF x
  <2> QED  BY <1>9, <2>1, SumRemove
<1>12. Into(s, t)
  <2> HIDE DEF x
  <2> QED  BY <1>2, <1>3, <1>8
<1>13. F(s) <= H(t)
  <2>1. s \subseteq m /\ s # m /\ t \subseteq T
    BY <1>8
  <2> HIDE DEF s, t, F, H, Into, B
  <2> QED  BY <1>4, <1>12, <2>1
<1>14. f[x] \in Nat /\ g[h[x]] \in Nat /\ f[x] <= g[h[x]]
  BY <1>8, <1>9
<1>15. F(s) \in Nat /\ H(t) \in Nat
  <2>1. s \subseteq S /\ t \subseteq T
    BY <1>2
  <2> HIDE DEF s, t, F, H
  <2> QED  BY <1>5, <1>6, <2>1
<1> DEFINE a == f[x] 
           b == g[h[x]]
           c == F(s)
           d == H(t)
<1>16. F(m) = a + c /\ H(n) = b + d /\ c <= d /\ a <= b
       /\ a \in Nat /\ b \in Nat /\ c \in Nat /\ d \in Nat
  BY <1>10, <1>11, <1>13, <1>14, <1>15
<1> HIDE DEF a, b, c, d, F, H, B, Into, x, s, t
<1> QED  BY <1>3, <1>16

\* Part of a set adds up to no more than the whole.
LEMMA SumSubset ==
    ASSUME NEW T, IsFiniteSet(T), NEW S, S \subseteq T,
           NEW f, \A x \in T : f[x] \in Nat
    PROVE  SumFunctionOnSet(f, S) <= SumFunctionOnSet(f, T)
<1> DEFINE h == [x \in S |-> x]
<1>1. IsFiniteSet(S)
  BY FS_Subset
<1>2. \A x \in S : h[x] \in T /\ f[x] <= f[h[x]]
  OBVIOUS
<1>3. \A x, y \in S : h[x] = h[y] => x = y
  OBVIOUS
<1>4. \A x \in S : f[x] \in Nat
  OBVIOUS
<1> HIDE DEF h
<1> QED  BY <1>1, <1>2, <1>3, <1>4, SumInjected
=============================================================================
