---------------------------- MODULE DemosaicProofs ----------------------------
(***************************************************************************)
(* The demosaicing kernels of Demosaic, for images of every size: what     *)
(* they read, that every pixel is computed once, that the direct loop      *)
(* agrees with the clamped one, that a plain colour keeps its colour and   *)
(* that no kernel moves the picture.  The last two are about sums of       *)
(* weights, whose theory comes first.                                      *)
(***************************************************************************)
EXTENDS Demosaic, FiniteSetTheorems, TLAPS

-----------------------------------------------------------------------------
(* Rows and columns as positions.                                          *)

LEMMA PositionInRange ==
  ASSUME NEW W \in Nat, NEW H \in Nat, NEW r \in 0 .. H - 1, NEW c \in 0 .. W - 1
  PROVE  At(r, c, W) \in 0 .. W * H - 1
<1>1. PICK k \in Nat : H = r + 1 + k
  <2>1. H - r - 1 \in Nat /\ H = r + 1 + (H - r - 1)
    OBVIOUS
  <2> QED
    BY <2>1
<1>2. W * H = r * W + W + W * k /\ r * W \in Nat /\ W * k \in Nat
  BY <1>1
<1> QED
  BY <1>2 DEF At

LEMMA PositionsDiffer ==
  ASSUME NEW W \in Nat, NEW r \in Nat, NEW s \in Nat,
         NEW c \in 0 .. W - 1, NEW d \in 0 .. W - 1, At(r, c, W) = At(s, d, W)
  PROVE  r = s /\ c = d
<1>1. ASSUME NEW x \in Nat, NEW y \in Nat, NEW a \in 0 .. W - 1, NEW b \in 0 .. W - 1, x < y
      PROVE  At(x, a, W) # At(y, b, W)
  <2>1. PICK k \in Nat : y = x + 1 + k
    <3>1. y - x - 1 \in Nat /\ y = x + 1 + (y - x - 1)
      BY <1>1
    <3> QED
      BY <3>1
  <2>2. y * W = x * W + W + k * W /\ x * W \in Nat /\ k * W \in Nat
    BY <2>1
  <2> QED
    BY <2>2 DEF At
<1>2. r = s
  BY <1>1
<1>3. r * W \in Nat
  OBVIOUS
<1> QED
  BY <1>2, <1>3 DEF At

LEMMA PositionHasAPlace ==
  ASSUME NEW W \in Nat, NEW H \in Nat, NEW p \in 0 .. W * H - 1
  PROVE  \E r \in 0 .. H - 1, c \in 0 .. W - 1 : p = At(r, c, W)
<1>1. W > 0
  OBVIOUS
<1>2. p = (p \div W) * W + (p % W) /\ p % W \in 0 .. W - 1 /\ p \div W \in Nat
  BY <1>1
<1>3. p \div W \in 0 .. H - 1
  BY <1>2
<1>4. p = At(p \div W, p % W, W)
  BY <1>2 DEF At
<1> QED
  BY <1>2, <1>3, <1>4

-----------------------------------------------------------------------------
(* Sums over finite sets.  The sum of the library is an iteration over the *)
(* subsets of a set that takes elements in an order it does not tell; what *)
(* follows shows that the iteration exists and that the order is without   *)
(* effect.                                                                 *)

\* Of some subsets of a finite set, one has no other of them below it.
LEMMA LeastSubset ==
  ASSUME NEW S, IsFiniteSet(S), NEW T \in SUBSET SUBSET S, T # {}
  PROVE  \E s \in T : \A t \in T : t \subseteq s => t = s
<1> DEFINE O == StrictSubsetOrdering(S)
<1>1. IsWellFoundedOn(O, SUBSET S)
  BY FS_StrictSubsetOrderingWellFounded, FS_FiniteSubsetsOfFinite
<1>2. PICK s \in T : \A t \in T : ~(<<t, s>> \in O)
  <2> HIDE DEF O
  <2> QED
    BY <1>1, WFMin
<1>3. ASSUME NEW t \in T, t \subseteq s, t # s
      PROVE  FALSE
  <2>1. <<t, s>> \in O
    BY <1>3 DEF StrictSubsetOrdering
  <2> QED
    BY <1>2, <2>1
<1> QED
  BY <1>3

\* Induction over the subsets of a finite set, with the property as the set of
\* the subsets that have it.
LEMMA SubsetInduction ==
  ASSUME NEW S, IsFiniteSet(S), NEW Good, {} \in Good,
         \A s \in SUBSET S : \A x \in S \ s : s \in Good => s \cup {x} \in Good
  PROVE  S \in Good
<1> SUFFICES ASSUME S \notin Good
             PROVE  FALSE
  OBVIOUS
<1> DEFINE T == {s \in SUBSET S : s \notin Good}
<1>1. T \in SUBSET SUBSET S /\ T # {}
  BY SMT
<1>2. PICK s \in T : \A t \in T : t \subseteq s => t = s
  <2> HIDE DEF T
  <2> QED
    BY <1>1, LeastSubset
<1>3. PICK x \in s : TRUE
  BY <1>2
<1>4. s \ {x} \notin T
  BY <1>2, <1>3
<1>5. s \ {x} \in Good /\ s = (s \ {x}) \cup {x} /\ x \in S \ (s \ {x}) /\ s \ {x} \in SUBSET S
  BY <1>2, <1>3, <1>4
<1> QED
  BY <1>2, <1>5

Picked(s) == CHOOSE x \in s : TRUE

\* The iteration by which a sum is defined, on the subsets of S.
Adds(g, f, S) ==
  g = [s \in SUBSET S |-> IF s = {} THEN 0 ELSE f[Picked(s)] + g[s \ {Picked(s)}]]

LEMMA SumDefined ==
  ASSUME NEW f, NEW S
  PROVE  SumFunctionOnSet(f, S) = (CHOOSE g : Adds(g, f, S))[S]
  BY DEF SumFunctionOnSet, FoldFunctionOnSet, MapThenFoldSet, Adds, Picked

LEMMA PickedIsIn ==
  ASSUME NEW s, s # {}
  PROVE  Picked(s) \in s
  BY DEF Picked

\* Two iterations agree where both are defined.
LEMMA AddsAgree ==
  ASSUME NEW f, NEW S, IsFiniteSet(S), NEW T \in SUBSET S, NEW g, NEW k,
         Adds(g, f, S), Adds(k, f, T)
  PROVE  g[T] = k[T]
<1> DEFINE Bad == {s \in SUBSET T : g[s] # k[s]}
<1>0. IsFiniteSet(T)
  BY FS_Subset
<1>1. SUFFICES ASSUME Bad # {}
               PROVE  FALSE
  OBVIOUS
<1>2. PICK s \in Bad : \A t \in Bad : t \subseteq s => t = s
  <2>1. Bad \in SUBSET SUBSET T
    OBVIOUS
  <2> HIDE DEF Bad
  <2> QED
    BY <1>0, <1>1, <2>1, LeastSubset
<1>3. s \in SUBSET T /\ s \in SUBSET S /\ g[s] # k[s]
  BY <1>2
<1>4. g[s] = (IF s = {} THEN 0 ELSE f[Picked(s)] + g[s \ {Picked(s)}])
  BY <1>3 DEF Adds
<1>5. k[s] = (IF s = {} THEN 0 ELSE f[Picked(s)] + k[s \ {Picked(s)}])
  BY <1>3 DEF Adds
<1>6. s # {}
  BY <1>3, <1>4, <1>5
<1>7. s \ {Picked(s)} \notin Bad
  BY <1>2, <1>6, PickedIsIn
<1>8. g[s \ {Picked(s)}] = k[s \ {Picked(s)}]
  BY <1>3, <1>7
<1> QED
  BY <1>3, <1>4, <1>5, <1>8

LEMMA AddsExists ==
  ASSUME NEW f, NEW S, IsFiniteSet(S)
  PROVE  Adds(CHOOSE g : Adds(g, f, S), f, S)
<1> DEFINE Bad == {s \in SUBSET S : ~ \E g : Adds(g, f, s)}
<1>1. SUFFICES ASSUME Bad # {}
               PROVE  FALSE
  <2>1. \E g : Adds(g, f, S)
    BY <1>1
  <2> QED
    BY <2>1
<1>2. PICK s \in Bad : \A t \in Bad : t \subseteq s => t = s
  <2>1. Bad \in SUBSET SUBSET S
    OBVIOUS
  <2> HIDE DEF Bad
  <2> QED
    BY <1>1, <2>1, LeastSubset
<1>3. s \in SUBSET S /\ IsFiniteSet(s) /\ ~ \E g : Adds(g, f, s)
  BY <1>2, FS_Subset
<1> DEFINE it(t) == CHOOSE g : Adds(g, f, t)
           rest(t) == t \ {Picked(t)}
           new == [t \in SUBSET s |-> IF t = {} THEN 0 ELSE f[Picked(t)] + it(rest(t))[rest(t)]]
<1>4. ASSUME NEW t \in SUBSET s, t # s
      PROVE  Adds(it(t), f, t)
  <2>1. t \notin Bad
    BY <1>2, <1>4
  <2>2. \E g : Adds(g, f, t)
    BY <1>3, <2>1
  <2> QED
    BY <2>2
<1>5. ASSUME NEW t \in SUBSET s, t # s
      PROVE  it(t)[t] = new[t]
  <2>1. it(t) = [u \in SUBSET t |-> IF u = {} THEN 0 ELSE f[Picked(u)] + it(t)[u \ {Picked(u)}]]
    BY <1>4, <1>5 DEF Adds
  <2> HIDE DEF it
  <2>2. it(t)[t] = (IF t = {} THEN 0 ELSE f[Picked(t)] + it(t)[rest(t)])
    BY <2>1
  <2>3. CASE t = {}
    BY <2>2, <2>3
  <2>4. CASE t # {}
    <3>1. rest(t) \in SUBSET t /\ rest(t) \in SUBSET s /\ rest(t) # s
      BY <1>5, <2>4, PickedIsIn
    <3>2. it(t)[rest(t)] = it(rest(t))[rest(t)]
      <4>1. Adds(it(t), f, t) /\ Adds(it(rest(t)), f, rest(t)) /\ IsFiniteSet(t)
        BY <1>3, <1>4, <1>5, <3>1, FS_Subset
      <4> HIDE DEF rest
      <4> QED
        BY <3>1, <4>1, AddsAgree
    <3> QED
      BY <2>2, <2>4, <3>2
  <2> QED
    BY <2>3, <2>4
<1>6. new = [t \in SUBSET s |-> IF t = {} THEN 0 ELSE f[Picked(t)] + new[rest(t)]]
  <2>1. ASSUME NEW t \in SUBSET s, t # {}
        PROVE  it(rest(t))[rest(t)] = new[rest(t)]
    <3>1. rest(t) \in SUBSET s /\ rest(t) # s
      BY <2>1, PickedIsIn
    <3> QED
      BY <1>5, <3>1
  <2> HIDE DEF it, rest
  <2> QED
    BY <2>1
<1>7. Adds(new, f, s)
  BY <1>6 DEF Adds
<1> HIDE DEF new
<1> QED
  BY <1>3, <1>7

LEMMA SumIs ==
  ASSUME NEW f, NEW S, IsFiniteSet(S)
  PROVE  SumFunctionOnSet(f, S) =
           IF S = {} THEN 0 ELSE f[Picked(S)] + SumFunctionOnSet(f, S \ {Picked(S)})
<1> DEFINE it(t) == CHOOSE g : Adds(g, f, t)
           rest == S \ {Picked(S)}
<1>1. Adds(it(S), f, S) /\ IsFiniteSet(rest) /\ Adds(it(rest), f, rest)
  BY AddsExists, FS_RemoveElement
<1>2. SumFunctionOnSet(f, S) = it(S)[S] /\ SumFunctionOnSet(f, rest) = it(rest)[rest]
  BY SumDefined
<1>3. it(S)[rest] = it(rest)[rest]
  <2> HIDE DEF it
  <2> QED
    BY <1>1, AddsAgree
<1>4. it(S)[S] = IF S = {} THEN 0 ELSE f[Picked(S)] + it(S)[rest]
  <2> HIDE DEF it
  <2>1. it(S) = [u \in SUBSET S |-> IF u = {} THEN 0 ELSE f[Picked(u)] + it(S)[u \ {Picked(u)}]]
    BY <1>1 DEF Adds
  <2> QED
    BY <2>1
<1> HIDE DEF it
<1> QED
  BY <1>2, <1>3, <1>4

LEMMA SumOfNone ==
  ASSUME NEW f
  PROVE  SumFunctionOnSet(f, {}) = 0
  BY SumIs, FS_EmptySet

\* A sum may be taken apart at any of its elements.
LEMMA SumTakes ==
  ASSUME NEW f, NEW S, IsFiniteSet(S), \A x \in S : f[x] \in Int
  PROVE  /\ SumFunctionOnSet(f, S) \in Int
         /\ \A x \in S : SumFunctionOnSet(f, S) = f[x] + SumFunctionOnSet(f, S \ {x})
<1> DEFINE Sum(s) == SumFunctionOnSet(f, s)
           Bad == {s \in SUBSET S : ~(Sum(s) \in Int /\ \A x \in s : Sum(s) = f[x] + Sum(s \ {x}))}
<1>1. SUFFICES ASSUME Bad # {}
               PROVE  FALSE
  OBVIOUS
<1>2. PICK s \in Bad : \A t \in Bad : t \subseteq s => t = s
  <2>1. Bad \in SUBSET SUBSET S
    OBVIOUS
  <2> HIDE DEF Bad
  <2> QED
    BY <1>1, <2>1, LeastSubset
<1>3. s \in SUBSET S /\ \A t \in SUBSET s : IsFiniteSet(t)
  BY <1>2, FS_Subset
<1>4. ASSUME NEW t \in SUBSET s, t # s
      PROVE  Sum(t) \in Int /\ \A x \in t : Sum(t) = f[x] + Sum(t \ {x})
  BY <1>2, <1>4
<1>5. Sum(s) = IF s = {} THEN 0 ELSE f[Picked(s)] + Sum(s \ {Picked(s)})
  BY <1>3, SumIs
<1>6. s # {} => Picked(s) \in s /\ Sum(s \ {Picked(s)}) \in Int
  BY <1>4, PickedIsIn
<1>7. Sum(s) \in Int
  <2> HIDE DEF Sum
  <2> QED
    BY <1>3, <1>5, <1>6
<1>8. ASSUME NEW x \in s
      PROVE  Sum(s) = f[x] + Sum(s \ {x})
  <2> DEFINE p == Picked(s)
  <2>1. p \in s /\ Sum(s) = f[p] + Sum(s \ {p})
    BY <1>5, <1>6, <1>8
  <2>2. CASE p = x
    <3> HIDE DEF p, Sum
    <3> QED
      BY <2>1, <2>2
  <2>3. CASE p # x
    <3> HIDE DEF p
    <3>1. Sum(s \ {p}) = f[x] + Sum((s \ {p}) \ {x})
      BY <1>4, <2>1, <2>3
    <3>2. Sum(s \ {x}) = f[p] + Sum((s \ {x}) \ {p})
      BY <1>4, <2>1, <2>3
    <3>3. (s \ {x}) \ {p} = (s \ {p}) \ {x}
      OBVIOUS
    <3>4. Sum((s \ {p}) \ {x}) \in Int
      <4>1. (s \ {p}) \ {x} \in SUBSET s /\ (s \ {p}) \ {x} # s
        BY <2>1
      <4> QED
        BY <1>4, <4>1
    <3>5. f[x] \in Int /\ f[p] \in Int
      BY <1>3, <2>1
    <3>6. Sum(s) = f[p] + (f[x] + Sum((s \ {p}) \ {x})) /\ Sum(s \ {x}) = f[p] + Sum((s \ {p}) \ {x})
      BY <2>1, <3>1, <3>2, <3>3
    <3>7. \A a, b, c \in Int : a + (b + c) = b + (a + c)
      OBVIOUS
    <3> HIDE DEF Sum
    <3> QED
      BY <3>4, <3>5, <3>6, <3>7
  <2> QED
    BY <2>2, <2>3
<1> QED
  BY <1>2, <1>7, <1>8

LEMMA SumOfOne ==
  ASSUME NEW f, NEW x, f[x] \in Int
  PROVE  SumFunctionOnSet(f, {x}) = f[x]
<1>1. SumFunctionOnSet(f, {x}) = f[x] + SumFunctionOnSet(f, {x} \ {x})
  BY SumTakes, FS_Singleton
<1>2. {x} \ {x} = {}
  OBVIOUS
<1> QED
  BY <1>1, <1>2, SumOfNone

\* One more element.
LEMMA SumAdds ==
  ASSUME NEW f, NEW S, IsFiniteSet(S), NEW x, x \notin S, \A y \in S \cup {x} : f[y] \in Int
  PROVE  /\ SumFunctionOnSet(f, S \cup {x}) = f[x] + SumFunctionOnSet(f, S)
         /\ SumFunctionOnSet(f, S) \in Int
<1>1. (S \cup {x}) \ {x} = S /\ IsFiniteSet(S \cup {x})
  BY FS_AddElement
<1>2. SumFunctionOnSet(f, S \cup {x}) = f[x] + SumFunctionOnSet(f, (S \cup {x}) \ {x})
  BY <1>1, SumTakes
<1> QED
  BY <1>1, <1>2, SumTakes

\* A sum that is another's multiple term by term is its multiple.
LEMMA SumScales ==
  ASSUME NEW f, NEW g, NEW k \in Int, NEW S, IsFiniteSet(S),
         \A x \in S : f[x] \in Int /\ g[x] = f[x] * k
  PROVE  SumFunctionOnSet(g, S) = SumFunctionOnSet(f, S) * k
<1> DEFINE F(s) == SumFunctionOnSet(f, s)
           H(s) == SumFunctionOnSet(g, s)
           Good == {s \in SUBSET S : H(s) = F(s) * k}
<1>1. {} \in Good
  BY SumOfNone
<1>2. ASSUME NEW s \in SUBSET S, NEW x \in S \ s, s \in Good
      PROVE  s \cup {x} \in Good
  <2>1. IsFiniteSet(s) /\ \A y \in s \cup {x} : f[y] \in Int /\ g[y] \in Int
    BY FS_Subset
  <2>2. F(s \cup {x}) = f[x] + F(s) /\ F(s) \in Int
    BY <2>1, SumAdds
  <2>3. H(s \cup {x}) = g[x] + H(s)
    BY <2>1, SumAdds
  <2>4. f[x] \in Int /\ g[x] = f[x] * k /\ H(s) = F(s) * k
    BY <1>2
  <2>5. H(s \cup {x}) = F(s \cup {x}) * k
    <3> HIDE DEF F, H
    <3>1. (f[x] + F(s)) * k = f[x] * k + F(s) * k
      BY <2>2, <2>4
    <3> QED
      BY <2>2, <2>3, <2>4, <3>1
  <2> QED
    BY <2>5
<1>3. S \in Good
  <2> HIDE DEF Good
  <2> QED
    BY <1>1, <1>2, SubsetInduction
<1> QED
  BY <1>3

LEMMA SumOfConstant ==
  ASSUME NEW f, NEW k \in Int, NEW S, IsFiniteSet(S), \A x \in S : f[x] = k
  PROVE  SumFunctionOnSet(f, S) = k * Cardinality(S)
<1> DEFINE F(s) == SumFunctionOnSet(f, s)
           Good == {s \in SUBSET S : F(s) = k * Cardinality(s)}
<1>1. {} \in Good
  BY SumOfNone, FS_EmptySet
<1>2. ASSUME NEW s \in SUBSET S, NEW x \in S \ s, s \in Good
      PROVE  s \cup {x} \in Good
  <2>1. IsFiniteSet(s) /\ \A y \in s \cup {x} : f[y] \in Int
    BY FS_Subset
  <2>2. F(s \cup {x}) = k + F(s) /\ F(s) = k * Cardinality(s)
    BY <1>2, <2>1, SumAdds
  <2>3. Cardinality(s \cup {x}) = Cardinality(s) + 1 /\ Cardinality(s) \in Nat
    BY <2>1, FS_AddElement, FS_CardinalityType
  <2>4. F(s \cup {x}) = k * Cardinality(s \cup {x})
    <3> HIDE DEF F
    <3>1. k * (Cardinality(s) + 1) = k * Cardinality(s) + k
      BY <2>3
    <3> QED
      BY <2>2, <2>3, <3>1
  <2> QED
    BY <2>4
<1>3. S \in Good
  <2> HIDE DEF Good
  <2> QED
    BY <1>1, <1>2, SubsetInduction
<1> QED
  BY <1>3

\* Two sets that share nothing.
LEMMA SumOfUnion ==
  ASSUME NEW f, NEW S, IsFiniteSet(S), NEW T, IsFiniteSet(T), S \cap T = {},
         \A x \in S \cup T : f[x] \in Int
  PROVE  /\ SumFunctionOnSet(f, S \cup T) = SumFunctionOnSet(f, S) + SumFunctionOnSet(f, T)
         /\ IsFiniteSet(S \cup T)
<1> DEFINE F(s) == SumFunctionOnSet(f, s)
           Good == {s \in SUBSET T : F(S \cup s) = F(S) + F(s)}
<1>0. F(S) \in Int
  BY SumTakes
<1>1. {} \in Good
  <2>1. S \cup {} = S /\ F({}) = 0
    BY SumOfNone
  <2> QED
    BY <1>0, <2>1
<1>2. ASSUME NEW s \in SUBSET T, NEW x \in T \ s, s \in Good
      PROVE  s \cup {x} \in Good
  <2>1. /\ IsFiniteSet(s) /\ IsFiniteSet(S \cup s) /\ x \notin S \cup s
        /\ \A y \in (S \cup s) \cup {x} : f[y] \in Int
        /\ \A y \in s \cup {x} : f[y] \in Int
    BY FS_Subset, FS_Union
  <2>2. F((S \cup s) \cup {x}) = f[x] + F(S \cup s) /\ F(s \cup {x}) = f[x] + F(s) /\ F(s) \in Int
    BY <2>1, SumAdds
  <2>3. (S \cup s) \cup {x} = S \cup (s \cup {x}) /\ F(S \cup s) = F(S) + F(s) /\ f[x] \in Int
    BY <1>2
  <2>4. F(S \cup (s \cup {x})) = F(S) + F(s \cup {x})
    <3>1. F(S \cup (s \cup {x})) = f[x] + F(S \cup s)
      BY <2>2, <2>3
    <3> HIDE DEF F
    <3> QED
      BY <1>0, <2>2, <2>3, <3>1
  <2> QED
    BY <2>4
<1>3. T \in Good
  <2> HIDE DEF Good
  <2> QED
    BY <1>1, <1>2, SubsetInduction
<1> QED
  BY <1>3, FS_Union

\* Terms f of K gathered under the places of D they are mapped to: P tells
\* which go where, I which go somewhere.  A place weighs its terms by m, and u
\* is the terms so weighted.
Gathers(K, f, to, D, m, P, I, g, u) ==
  /\ IsFiniteSet(K) /\ IsFiniteSet(D) /\ I \subseteq K
  /\ \A o \in K : f[o] \in Int
  /\ \A j \in D : m[j] \in Int /\ P[j] = {o \in K : to[o] = j} /\ g[j] = SumFunctionOnSet(f, P[j]) * m[j]
  /\ \A o \in K : o \in I <=> to[o] \in D
  /\ \A o \in I : u[o] = f[o] * m[to[o]]

\* The sum over the places is the sum over the terms.
LEMMA SumGathered ==
  ASSUME NEW K, NEW f, NEW to, NEW D, NEW m, NEW P, NEW I, NEW g, NEW u,
         Gathers(K, f, to, D, m, P, I, g, u)
  PROVE  SumFunctionOnSet(g, D) = SumFunctionOnSet(u, I)
<1> USE DEF Gathers
<1> DEFINE Into(s) == {o \in K : to[o] \in s}
           Good == {s \in SUBSET D : SumFunctionOnSet(g, s) = SumFunctionOnSet(u, Into(s))}
<1>1. {} \in Good
  <2>1. Into({}) = {}
    OBVIOUS
  <2> QED
    BY <2>1, SumOfNone
<1>2. ASSUME NEW s \in SUBSET D, NEW x \in D \ s, s \in Good
      PROVE  s \cup {x} \in Good
  <2> DEFINE here == {o \in K : to[o] = x}
  <2>1. IsFiniteSet(s) /\ IsFiniteSet(here) /\ IsFiniteSet(Into(s)) /\ here \in SUBSET K
    BY FS_Subset
  <2>2. /\ \A y \in D : g[y] \in Int
        /\ \A o \in Into(s \cup {x}) : u[o] \in Int
    <3>1. ASSUME NEW y \in D
          PROVE  g[y] \in Int
      <4>1. IsFiniteSet(P[y]) /\ P[y] \in SUBSET K
        BY FS_Subset
      <4>2. SumFunctionOnSet(f, P[y]) \in Int
        BY <4>1, SumTakes
      <4> QED
        BY <4>2
    <3>2. ASSUME NEW o \in Into(s \cup {x})
          PROVE  u[o] \in Int
      <4>1. o \in K /\ to[o] \in D /\ f[o] \in Int /\ m[to[o]] \in Int /\ u[o] = f[o] * m[to[o]]
        BY <1>2
      <4> QED
        BY <4>1
    <3> QED
      BY <3>1, <3>2
  <2>3. SumFunctionOnSet(g, s \cup {x}) = g[x] + SumFunctionOnSet(g, s)
    BY <1>2, <2>1, <2>2, SumAdds
  <2>4. SumFunctionOnSet(u, here) = g[x]
    <3>1. m[x] \in Int /\ \A o \in here : f[o] \in Int /\ u[o] = f[o] * m[x]
      OBVIOUS
    <3>2. SumFunctionOnSet(u, here) = SumFunctionOnSet(f, here) * m[x]
      <4> HIDE DEF here
      <4> QED
        BY <2>1, <3>1, SumScales
    <3>3. P[x] = here /\ g[x] = SumFunctionOnSet(f, P[x]) * m[x]
      BY <1>2
    <3> HIDE DEF here
    <3> QED
      BY <3>2, <3>3
  <2>5. /\ Into(s \cup {x}) = here \cup Into(s) /\ here \cap Into(s) = {}
    BY <1>2
  <2>6. SumFunctionOnSet(u, Into(s \cup {x})) = SumFunctionOnSet(u, here) + SumFunctionOnSet(u, Into(s))
    <3>1. \A o \in here \cup Into(s) : u[o] \in Int
      BY <2>2, <2>5
    <3> HIDE DEF here, Into
    <3>2. SumFunctionOnSet(u, here \cup Into(s)) = SumFunctionOnSet(u, here) + SumFunctionOnSet(u, Into(s))
      BY <2>1, <2>5, <3>1, SumOfUnion
    <3> QED
      BY <2>5, <3>2
  <2>7. SumFunctionOnSet(g, s) = SumFunctionOnSet(u, Into(s))
    BY <1>2
  <2>8. SumFunctionOnSet(g, s \cup {x}) = SumFunctionOnSet(u, Into(s \cup {x}))
    <3> HIDE DEF here, Into
    <3> QED
      BY <2>3, <2>4, <2>6, <2>7
  <2> QED
    BY <2>8
<1>3. D \in Good
  <2> HIDE DEF Good
  <2> QED
    BY <1>1, <1>2, SubsetInduction
<1>4. Into(D) = I
  OBVIOUS
<1> QED
  BY <1>3, <1>4

\* What is the opposite on the other side adds up to nothing.
LEMMA SumOfOpposites ==
  ASSUME NEW K, IsFiniteSet(K), NEW u, NEW turn \in [K -> K],
         \A o \in K : u[o] \in Int /\ turn[turn[o]] = o /\ u[turn[o]] = -u[o]
  PROVE  SumFunctionOnSet(u, K) = 0
<1> DEFINE g == [j \in K |-> u[j] * (-1)]
           one == [j \in K |-> 1]
           from == [j \in K |-> {o \in K : turn[o] = j}]
<1>1. ASSUME NEW j \in K
      PROVE  one[j] \in Int /\ g[j] = SumFunctionOnSet(u, from[j]) * one[j]
  <2>1. from[j] = {turn[j]}
    OBVIOUS
  <2>2. turn[j] \in K /\ u[turn[j]] \in Int /\ u[turn[j]] = -u[j] /\ u[j] \in Int
    OBVIOUS
  <2>3. SumFunctionOnSet(u, {turn[j]}) = u[turn[j]]
    BY <2>2, SumOfOne
  <2>4. one[j] = 1 /\ g[j] = u[j] * (-1) /\ u[j] * (-1) = -u[j]
    BY <2>2
  <2> HIDE DEF one, g, from
  <2>5. one[j] \in Int /\ g[j] = u[turn[j]] * one[j]
    <3>1. u[turn[j]] * one[j] = u[turn[j]]
      BY <2>2, <2>4
    <3> QED
      BY <2>2, <2>4, <3>1
  <2> QED
    BY <2>1, <2>3, <2>5
<1>4. \A j \in K : u[j] \in Int /\ g[j] = u[j] * (-1)
  OBVIOUS
<1>2. \A o \in K : turn[o] \in K /\ u[o] = u[o] * one[turn[o]]
  OBVIOUS
<1>3. \A j \in K : from[j] = {o \in K : turn[o] = j}
  OBVIOUS
<1> HIDE DEF g, one, from
<1>5. SumFunctionOnSet(g, K) = SumFunctionOnSet(u, K)
  <2>1. Gathers(K, u, turn, K, one, from, K, g, u)
    BY <1>1, <1>2, <1>3, <1>4 DEF Gathers
  <2> QED
    BY <2>1, SumGathered
<1>6. SumFunctionOnSet(g, K) = SumFunctionOnSet(u, K) * (-1)
  BY <1>4, SumScales
<1>7. SumFunctionOnSet(u, K) \in Int
  BY SumTakes
<1>8. SumFunctionOnSet(u, K) = SumFunctionOnSet(u, K) * (-1)
  BY <1>5, <1>6
<1>9. ASSUME NEW x \in Int, x = x * (-1)
      PROVE  x = 0
  BY <1>9
<1> QED
  BY <1>7, <1>8, <1>9

-----------------------------------------------------------------------------
\* What depends on the call alone.
LEMMA CallIsFixed ==
  ASSUME UNCHANGED call
  PROVE  /\ UNCHANGED <<w, h, Stages, Rows, Cols, Positions, Malvar>>
         /\ \A s, r, c : Pixel(s, r, c)' = Pixel(s, r, c)
<1>1. UNCHANGED <<w, h, Malvar, Small, Bayer>>
  BY DEF w, h, Malvar, Small, Bayer, TileDims, Described
<1>2. UNCHANGED <<Stages, Rows, Cols, Positions>>
  BY <1>1 DEF Stages, Rows, Cols, Positions
<1>3. ASSUME NEW r, NEW c
      PROVE  ColorAt(r, c)' = ColorAt(r, c) /\ Beside(r, c)' = Beside(r, c)
  BY DEF ColorAt, Beside, Described
<1>4. ASSUME NEW r, NEW c
      PROVE  Clamped(r, c)' = Clamped(r, c) /\ Direct(r, c)' = Direct(r, c)
  BY <1>1 DEF Clamped, Direct
<1>5. ASSUME NEW r, NEW c, NEW a, NEW b, NEW x, NEW y
      PROVE  Site(r, c, a, b, x, y)' = Site(r, c, a, b, x, y)
  BY <1>1, <1>3 DEF Site
<1>6. ASSUME NEW r, NEW c
      PROVE  BilinearSite(r, c)' = BilinearSite(r, c)
  BY <1>1, <1>2, <1>3 DEF BilinearSite, Site, Mean, Neighbours, Average
<1>7. ASSUME NEW r, NEW c, NEW f
      PROVE  MalvarSite(r, c, f)' = MalvarSite(r, c, f)
  BY <1>1, <1>3 DEF MalvarSite, Site
<1>8. ASSUME NEW r, NEW c
      PROVE  GenericSite(r, c)' = GenericSite(r, c)
  <2>1. Neighbours(r, c, Window)' = Neighbours(r, c, Window)
    BY <1>2 DEF Neighbours
  <2>2. ASSUME NEW k
        PROVE  Around(r, c, k)' = Around(r, c, k)
    BY <1>3, <2>1 DEF Around
  <2> QED
    BY <1>1, <1>3, <2>2 DEF GenericSite, Average
<1> QED
  BY <1>1, <1>2, <1>4, <1>6, <1>7, <1>8 DEF Pixel

LEMMA SizesAreNumbers ==
  ASSUME call \in Calls
  PROVE  w \in Nat /\ h \in Nat
  BY DemosaicAssumption DEF CallSpace, w, h

\* The loops of Malvar's method on an image with an interior, and the single
\* loop of everything else.
Cut == Malvar /\ ~Small

LEMMA StagesOf ==
  ASSUME call \in Calls
  PROVE  /\ Cut => /\ Len(Stages) = 4 /\ w > 4 /\ h > 4
                   /\ Stages[1] = "top" /\ Stages[2] = "bottom"
                   /\ Stages[3] = "sides" /\ Stages[4] = "interior"
         /\ ~Cut => Len(Stages) = 1 /\ Stages[1] = "all"
         /\ Len(Stages) \in Nat /\ DOMAIN Stages = 1 .. Len(Stages)
<1>1. CASE Cut
  <2>1. Stages = <<"top", "bottom", "sides", "interior">>
    BY <1>1 DEF Stages, Cut
  <2>2. w > 4 /\ h > 4
    BY <1>1, SizesAreNumbers DEF Cut, Small, Border
  <2> QED
    BY <1>1, <2>1, <2>2
<1>2. CASE ~Cut
  <2>1. Stages = <<"all">>
    BY <1>2 DEF Stages, Cut
  <2> QED
    BY <1>2, <2>1
<1> QED
  BY <1>1, <1>2

-----------------------------------------------------------------------------
(* What the kernels read.                                                  *)

LEMMA OffsetsAreSmall ==
  ASSUME NEW o \in Offsets
  PROVE  o[1] \in -2 .. 2 /\ o[2] \in -2 .. 2
  BY DEF Offsets, Cross, Diagonal, FarNS, FarEW, North, South, East, West, NE, NW, SE, SW

LEMMA KernelsUseOffsets ==
  /\ DOMAIN GreenKernel \subseteq Offsets /\ DOMAIN OppositeKernel \subseteq Offsets
  /\ DOMAIN HorizontalKernel \subseteq Offsets /\ DOMAIN VerticalKernel \subseteq Offsets
  BY DEF GreenKernel, OppositeKernel, HorizontalKernel, VerticalKernel, Kernel, Offsets,
         Cross, Diagonal, FarNS, FarEW

\* A clamped kernel reads inside the data, wherever its centre is.
LEMMA ClampedIsInside ==
  ASSUME call \in Calls, NEW r \in Rows, NEW c \in Cols
  PROVE  Clamped(r, c) \in [Offsets -> Positions]
<1>1. ASSUME NEW o \in Offsets
      PROVE  Clamp(r + o[1], h) \in 0 .. h - 1 /\ Clamp(c + o[2], w) \in 0 .. w - 1
  BY OffsetsAreSmall, SizesAreNumbers DEF Clamp, Rows, Cols
<1>2. ASSUME NEW o \in Offsets
      PROVE  At(Clamp(r + o[1], h), Clamp(c + o[2], w), w) \in Positions
  BY <1>1, PositionInRange, SizesAreNumbers DEF Positions
<1> QED
  BY <1>2 DEF Clamped

\* Two rows and columns off the edge, the position computed without looking is
\* the one a clamped kernel finds.
THEOREM DirectIsClamped ==
  ASSUME call \in Calls, NEW r \in 2 .. h - 3, NEW c \in 2 .. w - 3
  PROVE  Direct(r, c) = Clamped(r, c)
<1>1. w \in Nat /\ h \in Nat
  BY SizesAreNumbers
<1>2. ASSUME NEW o \in Offsets
      PROVE  At(r, c, w) + o[1] * w + o[2] = At(Clamp(r + o[1], h), Clamp(c + o[2], w), w)
  <2>1. o[1] \in -2 .. 2 /\ o[2] \in -2 .. 2
    BY OffsetsAreSmall
  <2>2. Clamp(r + o[1], h) = r + o[1] /\ Clamp(c + o[2], w) = c + o[2]
    BY <1>1, <2>1 DEF Clamp
  <2>3. (r + o[1]) * w = r * w + o[1] * w /\ r * w \in Int /\ o[1] * w \in Int
    BY <1>1, <2>1
  <2> QED
    BY <1>1, <2>1, <2>2, <2>3 DEF At
<1> QED
  BY <1>2 DEF Direct, Clamped

\* A pixel whose channels read only inside the data.
Reads(p) == \A k \in 1 .. 3 : DOMAIN p[k].taps \subseteq Positions

LEMMA SampleReads ==
  ASSUME call \in Calls, NEW r \in Rows, NEW c \in Cols
  PROVE  DOMAIN Sample(At(r, c, w)).taps \subseteq Positions
  BY PositionInRange, SizesAreNumbers DEF Sample, Positions, Rows, Cols

LEMMA AverageReads ==
  ASSUME call \in Calls, NEW places \in SUBSET (Rows \X Cols)
  PROVE  DOMAIN Average(places).taps \subseteq Positions
<1>1. \A p \in places : At(p[1], p[2], w) \in Positions
  BY PositionInRange, SizesAreNumbers DEF Positions, Rows, Cols
<1> QED
  BY <1>1 DEF Average, Nothing

LEMMA WeightedReads ==
  ASSUME NEW kernel, NEW fetch \in [Offsets -> Positions], DOMAIN kernel \subseteq Offsets
  PROVE  DOMAIN Weighted(kernel, fetch).taps \subseteq Positions
  BY DEF Weighted

LEMMA SiteReads ==
  ASSUME call \in Calls, NEW r \in Rows, NEW c \in Cols, NEW a, NEW b, NEW x, NEW y,
         \A v \in {a, b, x, y} : DOMAIN v.taps \subseteq Positions
  PROVE  Reads(Site(r, c, a, b, x, y))
<1>1. DOMAIN Sample(At(r, c, w)).taps \subseteq Positions /\ DOMAIN Nothing.taps \subseteq Positions
  BY SampleReads DEF Nothing
<1> DEFINE s == Sample(At(r, c, w))
<1>2. Site(r, c, a, b, x, y) \in {<<s, a, b>>, <<b, a, s>>, <<x, s, y>>, <<y, s, x>>, <<Nothing, s, Nothing>>}
  BY DEF Site
<1> HIDE DEF s
<1> QED
  BY <1>1, <1>2 DEF Reads, s

LEMMA PixelReads ==
  ASSUME call \in Calls, NEW s, NEW r \in Rows, NEW c \in Cols,
         s = "interior" => r \in 2 .. h - 3 /\ c \in 2 .. w - 3
  PROVE  Reads(Pixel(s, r, c))
<1>1. ASSUME NEW f \in [Offsets -> Positions]
      PROVE  Reads(MalvarSite(r, c, f))
  BY SiteReads, KernelsUseOffsets, WeightedReads DEF MalvarSite
<1>2. ASSUME NEW S
      PROVE  DOMAIN Mean(r, c, S).taps \subseteq Positions
  BY AverageReads DEF Mean, Neighbours
<1>3. Reads(BilinearSite(r, c))
  BY <1>2, SiteReads DEF BilinearSite
<1>4. ASSUME NEW k
      PROVE  DOMAIN Average(Around(r, c, k)).taps \subseteq Positions
  BY AverageReads DEF Around, Neighbours
<1>5. Reads(GenericSite(r, c))
  BY <1>4, SampleReads DEF GenericSite, Reads
<1>6. Reads(MalvarSite(r, c, Clamped(r, c)))
  BY <1>1, ClampedIsInside
<1>7. s = "interior" => Reads(MalvarSite(r, c, Direct(r, c)))
  BY <1>6, DirectIsClamped
<1> QED
  BY <1>3, <1>5, <1>6, <1>7 DEF Pixel

-----------------------------------------------------------------------------
(* The loops compute the image pixel by pixel.                             *)

\* The loop that computes the pixel at row r and column c.
Turn(r, c) ==
  IF ~Cut THEN 1 ELSE IF r < 2 THEN 1 ELSE IF r >= h - 2 THEN 2
  ELSE IF c < 2 \/ c >= w - 2 THEN 3 ELSE 4

\* Whether it has been computed when the loops are at row n of loop s.
Done(r, c, s, n) == Turn(r, c) < s \/ (Turn(r, c) = s /\ r < n)

\* The image so far.
ImageInv ==
  \A r \in Rows, c \in Cols :
    /\ visits[At(r, c, w)] = IF Done(r, c, stage, row) THEN 1 ELSE 0
    /\ Done(r, c, stage, row) => rgb[At(r, c, w)] = Pixel(Stages[Turn(r, c)], r, c)

\* Where the loops are.
PlaceInv ==
  /\ stage \in 1 .. Len(Stages)
  /\ row \in Nat /\ FirstRow(Loop) <= row /\ row <= EndRow(Loop)
  /\ pc = "finish" => row = EndRow(Loop)
  /\ pc = "check" \/ result = "ok" => row = EndRow(Loop) /\ stage = Len(Stages)
  /\ pc # "done" => result # "ok"
  /\ result = "ok" /\ ~call.plain => ~stop

IInv == TypeOK /\ PlaceInv /\ ImageInv

\* Each loop has its rows and columns.
LEMMA LoopShapes ==
  ASSUME call \in Calls, stage \in 1 .. Len(Stages)
  PROVE  /\ ~Cut => /\ Len(Stages) = 1 /\ stage = 1 /\ Loop = "all"
                    /\ FirstRow(Loop) = 0 /\ EndRow(Loop) = h /\ Columns(Loop) = Cols
         /\ Cut => Len(Stages) = 4 /\ stage \in 1 .. 4 /\ w > 4 /\ h > 4
         /\ Cut /\ stage = 1 => /\ Loop = "top" /\ Columns(Loop) = Cols
                               /\ FirstRow(Loop) = 0 /\ EndRow(Loop) = 2
         /\ Cut /\ stage = 2 => /\ Loop = "bottom" /\ Columns(Loop) = Cols
                               /\ FirstRow(Loop) = h - 2 /\ EndRow(Loop) = h
         /\ Cut /\ stage = 3 => /\ Loop = "sides" /\ Columns(Loop) = {c \in Cols : c < 2 \/ c >= w - 2}
                               /\ FirstRow(Loop) = 2 /\ EndRow(Loop) = h - 2
         /\ Cut /\ stage = 4 => /\ Loop = "interior" /\ Columns(Loop) = 2 .. w - 3
                               /\ FirstRow(Loop) = 2 /\ EndRow(Loop) = h - 2
<1>1. CASE ~Cut
  <2>1. Len(Stages) = 1 /\ stage = 1 /\ Loop = "all"
    BY <1>1, StagesOf DEF Loop
  <2> QED
    BY <1>1, <2>1 DEF FirstRow, EndRow, Columns
<1>2. CASE Cut
  <2>1. Len(Stages) = 4 /\ stage \in 1 .. 4 /\ w > 4 /\ h > 4
    BY <1>2, StagesOf
  <2>2. Loop = IF stage = 1 THEN "top" ELSE IF stage = 2 THEN "bottom" ELSE IF stage = 3 THEN "sides" ELSE "interior"
    BY <1>2, <2>1, StagesOf DEF Loop
  <2>3. w \in Nat /\ h \in Nat /\ w - 2 - 1 = w - 3
    BY SizesAreNumbers
  <2>4. CASE stage \in 1 .. 2
    BY <1>2, <2>1, <2>2, <2>3, <2>4 DEF FirstRow, EndRow, Columns, Border
  <2>5. CASE stage \in 3 .. 4
    BY <1>2, <2>1, <2>2, <2>3, <2>5 DEF FirstRow, EndRow, Columns, Border
  <2> QED
    BY <2>1, <2>4, <2>5
<1> QED
  BY <1>1, <1>2

LEMMA LoopBounds ==
  ASSUME call \in Calls, stage \in 1 .. Len(Stages)
  PROVE  /\ FirstRow(Loop) \in 0 .. h /\ EndRow(Loop) \in 0 .. h
         /\ FirstRow(Loop) <= EndRow(Loop)
         /\ Columns(Loop) \subseteq Cols
         /\ Loop = "interior" =>
              /\ FirstRow(Loop) = 2 /\ EndRow(Loop) = h - 2 /\ Columns(Loop) = 2 .. w - 3
<1>1. CASE ~Cut
  BY <1>1, LoopShapes, SizesAreNumbers
<1>2. CASE Cut /\ stage \in 1 .. 2
  BY <1>2, LoopShapes, SizesAreNumbers
<1>3. CASE Cut /\ stage \in 3 .. 4
  BY <1>3, LoopShapes, SizesAreNumbers DEF Cols
<1> QED
  BY <1>1, <1>2, <1>3, LoopShapes

\* The loops share the pixels out: those of a row of a loop are those whose
\* turn it is.
LEMMA RowIsItsTurn ==
  ASSUME call \in Calls, stage \in 1 .. Len(Stages), NEW n \in Nat,
         FirstRow(Loop) <= n, n < EndRow(Loop), NEW r \in Rows, NEW c \in Cols
  PROVE  c \in Columns(Loop) /\ r = n <=> Turn(r, c) = stage /\ r = n
<1>1. CASE ~Cut
  BY <1>1, LoopShapes DEF Turn
<1>2. CASE Cut /\ stage \in 1 .. 2
  BY <1>2, LoopShapes, SizesAreNumbers DEF Turn, Rows
<1>3. CASE Cut /\ stage \in 3 .. 4
  BY <1>3, LoopShapes, SizesAreNumbers DEF Turn, Rows, Cols
<1> QED
  BY <1>1, <1>2, <1>3, LoopShapes

\* A row has been computed.
LEMMA RowStep ==
  ASSUME IInv, row < EndRow(Loop),
         NEW v, NEW b,
         v = [i \in Positions |-> IF i \in Computed(Loop, row) THEN visits[i] + 1 ELSE visits[i]],
         b = AfterRow(Loop, row),
         NEW r \in Rows, NEW c \in Cols
  PROVE  /\ v[At(r, c, w)] = IF Done(r, c, stage, row + 1) THEN 1 ELSE 0
         /\ Done(r, c, stage, row + 1) => b[At(r, c, w)] = Pixel(Stages[Turn(r, c)], r, c)
<1> DEFINE i == At(r, c, w)
<1>0. call \in Calls /\ w \in Nat /\ h \in Nat /\ r \in 0 .. h - 1 /\ c \in 0 .. w - 1
      /\ row \in 0 .. h - 1 /\ stage \in 1 .. Len(Stages) /\ Columns(Loop) \subseteq 0 .. w - 1
  BY SizesAreNumbers, LoopBounds DEF IInv, TypeOK, PlaceInv, Rows, Cols
<1>1. i \in Positions
  BY <1>0, PositionInRange DEF Positions
<1>2. i \in Computed(Loop, row) <=> r = row /\ c \in Columns(Loop)
  <2>1. ASSUME NEW d \in Columns(Loop), i = At(row, d, w)
        PROVE  r = row /\ c = d
    BY <1>0, <2>1, PositionsDiffer
  <2> QED
    BY <1>0, <2>1 DEF Computed
<1>3. r = row /\ c \in Columns(Loop) <=> r = row /\ Turn(r, c) = stage
  BY <1>0, RowIsItsTurn DEF IInv, PlaceInv
<1>4. visits[i] = (IF Done(r, c, stage, row) THEN 1 ELSE 0)
      /\ (Done(r, c, stage, row) => rgb[i] = Pixel(Stages[Turn(r, c)], r, c))
  BY DEF IInv, ImageInv
<1>5. Turn(r, c) \in Nat /\ stage \in Nat
  BY <1>0 DEF Turn
<1>6. CASE r = row /\ Turn(r, c) = stage
  <2>1. ~Done(r, c, stage, row) /\ Done(r, c, stage, row + 1)
    BY <1>0, <1>5, <1>6 DEF Done
  <2>2. i - row * w = c
    <3>1. row * w \in Int
      BY <1>0
    <3> QED
      BY <1>0, <1>6, <3>1 DEF At
  <2>3. v[i] = visits[i] + 1 /\ b[i] = Pixel(Loop, row, i - row * w)
    BY <1>1, <1>2, <1>3, <1>6 DEF AfterRow
  <2> QED
    BY <1>4, <1>6, <2>1, <2>2, <2>3 DEF Loop
<1>7. CASE ~(r = row /\ Turn(r, c) = stage)
  <2>1. Done(r, c, stage, row) <=> Done(r, c, stage, row + 1)
    BY <1>0, <1>5, <1>7 DEF Done
  <2>2. v[i] = visits[i] /\ i \notin Computed(Loop, row)
    BY <1>1, <1>2, <1>3, <1>7
  <2>3. CASE i = At(row + 1, 0, w) /\ Strays(row, w - 1)
    <3>1. r = row + 1
      BY <1>0, <2>3, PositionsDiffer
    <3>2. ~Cut
      BY <2>3 DEF Strays, Cut, Malvar
    <3>3. Turn(r, c) = 1 /\ stage = 1
      BY <1>0, <3>2, LoopShapes DEF Turn
    <3> QED
      BY <1>0, <1>4, <2>2, <3>1, <3>3 DEF Done
  <2>4. CASE ~(i = At(row + 1, 0, w) /\ Strays(row, w - 1))
    <3>1. b[i] = rgb[i]
      BY <1>1, <2>2, <2>4 DEF AfterRow
    <3> QED
      BY <1>4, <2>1, <2>2, <3>1
  <2> QED
    BY <2>3, <2>4
<1> QED
  BY <1>6, <1>7

\* A loop is left for the next, or for good.
LEMMA NextLoop ==
  ASSUME call \in Calls, stage \in 1 .. Len(Stages), NEW r \in Rows, NEW c \in Cols
  PROVE  /\ stage < Len(Stages) =>
              (Done(r, c, stage, EndRow(Loop)) <=> Done(r, c, stage + 1, FirstRow(Stages[stage + 1])))
         /\ stage = Len(Stages) => Done(r, c, stage, EndRow(Loop))
<1>1. w \in Nat /\ h \in Nat /\ r \in 0 .. h - 1 /\ c \in 0 .. w - 1
  BY SizesAreNumbers DEF Rows, Cols
<1>2. CASE ~Cut
  BY <1>1, <1>2, StagesOf DEF Loop, EndRow, Turn, Done
<1>3. CASE Cut
  <2>1. /\ Len(Stages) = 4 /\ w > 4 /\ h > 4 /\ stage \in 1 .. 4
        /\ Stages[1] = "top" /\ Stages[2] = "bottom" /\ Stages[3] = "sides" /\ Stages[4] = "interior"
    BY <1>3, StagesOf
  <2>2. CASE stage = 1
    BY <1>1, <1>3, <2>1, <2>2 DEF Loop, EndRow, FirstRow, Border, Turn, Done
  <2>3. CASE stage = 2
    BY <1>1, <1>3, <2>1, <2>3 DEF Loop, EndRow, FirstRow, Border, Turn, Done
  <2>4. CASE stage = 3
    BY <1>1, <1>3, <2>1, <2>4 DEF Loop, EndRow, FirstRow, Border, Turn, Done
  <2>5. CASE stage = 4
    BY <1>1, <1>3, <2>1, <2>5 DEF Loop, EndRow, FirstRow, Border, Turn, Done
  <2> QED
    BY <2>1, <2>2, <2>3, <2>4, <2>5
<1> QED
  BY <1>2, <1>3

-----------------------------------------------------------------------------
LEMMA InitEstablishes == Init => IInv
<1> SUFFICES ASSUME Init
             PROVE  IInv
  OBVIOUS
<1>0. /\ call \in Calls /\ pc = "begin" /\ stage = 1 /\ row = 0 /\ pending = 0
      /\ stop = FALSE /\ result = "none"
      /\ visits = [i \in Positions |-> 0]
      /\ rgb = [i \in Positions |-> <<Nothing, Nothing, Nothing>>]
  BY DEF Init
<1>1. w \in Nat /\ h \in Nat
  BY <1>0, SizesAreNumbers
<1>2. stage \in 1 .. Len(Stages) /\ FirstRow(Loop) = 0 /\ Loop \in {"all", "top"}
  BY <1>0, StagesOf DEF Loop, FirstRow
<1>3. TypeOK
  <2>1. stage \in DOMAIN Stages /\ row \in 0 .. h
    BY <1>0, <1>1, <1>2, StagesOf
  <2>2. ASSUME NEW i \in Positions, NEW k \in 1 .. 3
        PROVE  DOMAIN rgb[i][k].taps \subseteq Positions
    <3>1. rgb[i] = <<Nothing, Nothing, Nothing>>
      BY <1>0
    <3>2. rgb[i][k] = Nothing
      BY <3>1
    <3> QED
      BY <3>2 DEF Nothing
  <2> QED
    BY <1>0, <2>1, <2>2 DEF TypeOK
<1>4. PlaceInv
  BY <1>0, <1>2, LoopBounds DEF PlaceInv
<1>5. ASSUME NEW r \in Rows, NEW c \in Cols
      PROVE  ~Done(r, c, stage, row) /\ At(r, c, w) \in Positions
  <2>1. Turn(r, c) \in Nat /\ Turn(r, c) >= 1
    BY DEF Turn
  <2>2. r \in 0 .. h - 1 /\ c \in 0 .. w - 1
    BY DEF Rows, Cols
  <2>3. At(r, c, w) \in Positions
    BY <1>1, <2>2, PositionInRange DEF Positions
  <2> QED
    BY <1>0, <1>1, <2>1, <2>2, <2>3 DEF Done
<1>6. ImageInv
  BY <1>0, <1>5 DEF ImageInv
<1> QED
  BY <1>3, <1>4, <1>6 DEF IInv

\* The invariant of a step that leaves the call and the image alone.
LEMMA ImageKept ==
  ASSUME IInv, UNCHANGED <<call, place, image>>
  PROVE  ImageInv'
<1>1. /\ UNCHANGED <<w, h, Stages, Rows, Cols, Malvar, stage, row, rgb, visits>>
      /\ \A s, r, c : Pixel(s, r, c)' = Pixel(s, r, c)
  BY CallIsFixed DEF place, image
<1>2. UNCHANGED Cut
  BY <1>1 DEF Cut, Small
<1> QED
  BY <1>1, <1>2 DEF IInv, ImageInv, Done, Turn

LEMMA StepPreserves == IInv /\ [Next]_vars => IInv'
<1> SUFFICES ASSUME IInv, [Next]_vars
             PROVE  IInv'
  OBVIOUS
<1>0. call \in Calls /\ call.plain \in BOOLEAN /\ stage \in 1 .. Len(Stages) /\ w \in Nat /\ h \in Nat
      /\ Len(Stages) \in Nat /\ DOMAIN Stages = 1 .. Len(Stages) /\ stage \in Nat /\ stage <= Len(Stages)
  <2>1. call \in Calls /\ stage \in 1 .. Len(Stages)
    BY DEF IInv, TypeOK, PlaceInv
  <2>2. call.plain \in BOOLEAN
    BY <2>1, DemosaicAssumption DEF CallSpace
  <2> QED
    BY <2>1, <2>2, SizesAreNumbers, StagesOf
<1>a. /\ FirstRow(Loop) \in 0 .. h /\ EndRow(Loop) \in 0 .. h /\ Columns(Loop) \subseteq Cols
      /\ row \in Nat /\ FirstRow(Loop) <= row /\ row <= EndRow(Loop)
      /\ Loop = "interior" => FirstRow(Loop) = 2 /\ EndRow(Loop) = h - 2 /\ Columns(Loop) = 2 .. w - 3
  BY <1>0, LoopBounds DEF IInv, PlaceInv
\* Steps that stay where they are and leave the image alone.
<1>1. ASSUME UNCHANGED <<call, place, image>>, pending' \in Nat, stop' \in BOOLEAN,
             pc' \in {"begin", "row", "paced", "finish", "check", "done"},
             result' \in {"none", "ok", "Stopped", "OutOfMemory", "UnsupportedFeature", "panicked"},
             pc' = "finish" => row = EndRow(Loop),
             pc' = "check" \/ result' = "ok" => row = EndRow(Loop) /\ stage = Len(Stages),
             pc' # "done" => result' # "ok",
             result' = "ok" /\ ~call.plain => ~stop'
      PROVE  IInv'
  <2>1. /\ UNCHANGED <<w, h, Stages, Loop, Positions, stage, row, rgb, visits>>
        /\ FirstRow(Loop)' = FirstRow(Loop) /\ EndRow(Loop)' = EndRow(Loop)
    BY <1>1, CallIsFixed DEF place, image, Loop, FirstRow, EndRow
  <2>2. TypeOK'
    BY <1>1, <2>1 DEF IInv, TypeOK
  <2>3. PlaceInv'
    BY <1>1, <2>1 DEF IInv, PlaceInv
  <2>4. ImageInv'
    BY <1>1, ImageKept
  <2> QED
    BY <2>2, <2>3, <2>4 DEF IInv
<1>2. CASE Begin
  BY <1>0, <1>1, <1>2 DEF Begin, Return, IInv, TypeOK, PlaceInv
<1>3. CASE Paced
  BY <1>0, <1>1, <1>3 DEF Paced, Poll, Return, Heard, IInv, TypeOK, PlaceInv
<1>4. CASE Check
  BY <1>0, <1>1, <1>4 DEF Check, Return, Heard, IInv, TypeOK, PlaceInv
<1>5. CASE Raise
  BY <1>0, <1>1, <1>5 DEF Raise, IInv, TypeOK, PlaceInv
<1>6. CASE UNCHANGED vars
  BY <1>0, <1>1, <1>6 DEF vars, IInv, TypeOK, PlaceInv
<1>7. CASE Returned
  BY <1>6, <1>7 DEF Returned
\* Steps that leave a loop for the next.
<1>8. ASSUME UNCHANGED <<call, image>>, row = EndRow(Loop), stage < Len(Stages),
             stage' = stage + 1, row' = FirstRow(Stages[stage + 1]),
             pc' = "row", result' # "ok", pending' \in Nat, stop' \in BOOLEAN,
             result' \in {"none", "Stopped", "OutOfMemory", "UnsupportedFeature", "panicked"}
      PROVE  IInv'
  <2>1. /\ UNCHANGED <<w, h, Stages, Rows, Cols, Positions, Malvar, rgb, visits>>
        /\ \A s, r, c : Pixel(s, r, c)' = Pixel(s, r, c)
    BY <1>8, CallIsFixed DEF image
  <2>2. UNCHANGED Cut
    BY <2>1 DEF Cut, Small
  <2>3. stage' \in 1 .. Len(Stages)' /\ call' \in Calls
    BY <1>0, <1>8, <2>1
  <2>4. /\ FirstRow(Loop)' = row' /\ row' \in 0 .. h /\ row' <= EndRow(Loop)'
    <3>1. FirstRow(Stages[stage + 1]) \in 0 .. h /\ FirstRow(Stages[stage + 1]) <= EndRow(Stages[stage + 1])
      BY <1>0, <1>8, StagesOf DEF FirstRow, EndRow, Border
    <3>2. FirstRow(Loop)' = FirstRow(Stages[stage + 1]) /\ EndRow(Loop)' = EndRow(Stages[stage + 1])
      BY <1>8, <2>1 DEF Loop, FirstRow, EndRow
    <3> QED
      BY <1>8, <3>1, <3>2
  <2>5. TypeOK'
    BY <1>0, <1>8, <2>1, <2>3, <2>4 DEF IInv, TypeOK
  <2>6. PlaceInv'
    BY <1>0, <1>8, <2>3, <2>4 DEF PlaceInv
  <2>7. ASSUME NEW r \in Rows, NEW c \in Cols
        PROVE  Done(r, c, stage, row) <=> Done(r, c, stage + 1, row')
    BY <1>0, <1>8, <2>7, NextLoop
  <2>8. \A r \in Rows, c \in Cols : Turn(r, c)' = Turn(r, c)
    BY <2>1, <2>2 DEF Turn
  <2>9. \A r \in Rows, c \in Cols : Done(r, c, stage, row)' <=> Done(r, c, stage, row)
    BY <1>8, <2>7, <2>8 DEF Done
  <2>10. ImageInv'
    BY <2>1, <2>8, <2>9 DEF IInv, ImageInv
  <2> QED
    BY <2>5, <2>6, <2>10 DEF IInv
<1>9. CASE EndOfLoop
  <2>1. row = EndRow(Loop) /\ result # "ok"
    <3>1. row >= EndRow(Loop) /\ pc = "row"
      BY <1>9 DEF EndOfLoop
    <3> QED
      BY <1>a, <3>1 DEF IInv, PlaceInv
  <2>2. CASE Loop \in {"top", "bottom"}
    <3>1. stage < Len(Stages)
      BY <1>0, <2>2, StagesOf DEF Loop
    <3> QED
      BY <1>8, <1>9, <2>1, <2>2, <3>1 DEF EndOfLoop, IInv, TypeOK
  <2>3. CASE Loop \notin {"top", "bottom"}
    BY <1>1, <1>9, <2>1, <2>3 DEF EndOfLoop, IInv, TypeOK
  <2> QED
    BY <2>2, <2>3
<1>10. CASE Finish
  <2>1. row = EndRow(Loop) /\ result # "ok"
    BY <1>10 DEF Finish, IInv, PlaceInv
  <2>2. CASE stage < Len(Stages) /\ ~Heard
    BY <1>8, <1>10, <2>1, <2>2 DEF Finish, Poll, IInv, TypeOK
  <2>3. CASE Heard
    BY <1>1, <1>10, <2>1, <2>3 DEF Finish, Poll, Return, IInv, TypeOK
  <2>4. CASE ~(stage < Len(Stages)) /\ ~Heard
    <3>1. stage = Len(Stages)
      <4>1. ASSUME NEW n \in Nat, stage <= n, ~(stage < n)
            PROVE  stage = n
        BY <1>0, <4>1
      <4> QED
        BY <1>0, <2>4, <4>1
    <3>2. UNCHANGED place /\ pc' = "check" /\ UNCHANGED <<call, image, pending, stop, result>>
      BY <1>0, <1>10, <2>4, <3>1 DEF Finish, Poll
    <3> QED
      BY <1>1, <2>1, <3>1, <3>2 DEF IInv, TypeOK
  <2> QED
    BY <1>0, <2>2, <2>3, <2>4
<1>11. CASE Row
  <2>1. CASE Loop = "sides" /\ row % Pace = 0 /\ Heard
    <3>1. pc' = "done" /\ result' = "Stopped" /\ UNCHANGED <<call, row, image, pending, stage, stop>>
      BY <1>11, <2>1 DEF Row, Return
    <3>2. UNCHANGED place /\ pending \in Nat /\ stop \in BOOLEAN
      BY <3>1 DEF place, IInv, TypeOK
    <3> QED
      BY <1>1, <3>1, <3>2
  <2>3. CASE ~(Loop = "sides" /\ row % Pace = 0 /\ Heard) /\ Overruns(row)
    <3>1. pc' = "done" /\ result' = "panicked" /\ UNCHANGED <<call, row, image, pending, stage, stop>>
      BY <1>11, <2>3 DEF Row, Return
    <3>2. UNCHANGED place /\ pending \in Nat /\ stop \in BOOLEAN
      BY <3>1 DEF place, IInv, TypeOK
    <3> QED
      BY <1>1, <3>1, <3>2
  <2>2. CASE ~(Loop = "sides" /\ row % Pace = 0 /\ Heard) /\ ~Overruns(row)
    <3>1. /\ UNCHANGED <<call, stage, stop, result>> /\ row < EndRow(Loop) /\ row' = row + 1
          /\ pc' \in {"row", "paced"} /\ pc = "row"
          /\ rgb' = AfterRow(Loop, row)
          /\ visits' = [i \in Positions |-> IF i \in Computed(Loop, row) THEN visits[i] + 1 ELSE visits[i]]
      BY <1>11, <2>2 DEF Row
    <3>2. /\ UNCHANGED <<w, h, Stages, Rows, Cols, Positions, Malvar, Loop>>
          /\ \A s, r, c : Pixel(s, r, c)' = Pixel(s, r, c)
      BY <3>1, CallIsFixed DEF Loop
    <3>3. UNCHANGED Cut /\ UNCHANGED <<FirstRow(Loop), EndRow(Loop)>>
      BY <3>2 DEF Cut, Small, FirstRow, EndRow
    <3>4. pending' \in Nat
      <4>1. RowUnits(Loop) \in Nat
        BY <1>0, StagesOf DEF RowUnits, Loop
      <4> QED
        BY <1>11, <2>2, <4>1 DEF Row, IInv, TypeOK
    <3>5. row + 1 \in 0 .. h /\ FirstRow(Loop) <= row + 1 /\ row + 1 <= EndRow(Loop) /\ row \in 0 .. h - 1
      BY <1>0, <1>a, <3>1
    <3>6. ASSUME NEW i \in Positions
          PROVE  \A k \in 1 .. 3 : DOMAIN rgb'[i][k].taps \subseteq Positions
      <4>1. CASE i \in Computed(Loop, row)
        <5>1. PICK c \in Columns(Loop) : i = At(row, c, w)
          BY <4>1 DEF Computed
        <5>2. c \in Cols /\ row \in Rows /\ (Loop = "interior" => row \in 2 .. h - 3 /\ c \in 2 .. w - 3)
          BY <1>0, <1>a, <3>1, <3>5 DEF Rows
        <5>3. i - row * w = c
          <6>1. row * w \in Int /\ c \in Int
            BY <1>0, <3>5, <5>2 DEF Cols
          <6> QED
            BY <5>1, <6>1 DEF At
        <5>4. rgb'[i] = Pixel(Loop, row, c)
          BY <3>1, <4>1, <5>3 DEF AfterRow
        <5> QED
          BY <1>0, <5>2, <5>4, PixelReads DEF Reads
      <4>2. CASE i \notin Computed(Loop, row)
        <5>1. \A k \in 1 .. 3 : DOMAIN rgb[i][k].taps \subseteq Positions
          BY DEF IInv, TypeOK
        <5>2. CASE i = At(row + 1, 0, w) /\ Strays(row, w - 1)
          <6>1. At(row, w - 1, w) \in Positions
            <7>1. w - 1 \in 0 .. w - 1
              BY <1>0, <5>2 DEF Strays, Cols
            <7> QED
              BY <1>0, <3>5, <7>1, PositionInRange DEF Positions
          <6>2. rgb'[i] = <<Sample(At(row, w - 1, w)), rgb[i][2], rgb[i][3]>>
            BY <3>1, <4>2, <5>2 DEF AfterRow
          <6>3. DOMAIN Sample(At(row, w - 1, w)).taps \subseteq Positions
            BY <6>1 DEF Sample
          <6> QED
            BY <5>1, <6>2, <6>3
        <5>3. CASE ~(i = At(row + 1, 0, w) /\ Strays(row, w - 1))
          BY <3>1, <4>2, <5>1, <5>3 DEF AfterRow
        <5> QED
          BY <5>2, <5>3
      <4> QED
        BY <4>1, <4>2
    <3>7. TypeOK'
      <4>1. DOMAIN rgb' = Positions' /\ DOMAIN visits' = Positions'
        BY <3>1, <3>2 DEF AfterRow
      <4> QED
        BY <3>1, <3>2, <3>4, <3>5, <3>6, <4>1 DEF IInv, TypeOK
    <3>8. PlaceInv'
      <4>1. stage' \in 1 .. Len(Stages)' /\ row' \in Nat /\ pc' # "finish" /\ pc' # "check" /\ pc' # "done"
        BY <1>0, <3>1, <3>2, <3>5
      <4>2. FirstRow(Loop)' <= row' /\ row' <= EndRow(Loop)'
        BY <3>1, <3>3, <3>5
      <4>3. result' # "ok"
        BY <3>1 DEF IInv, PlaceInv
      <4> QED
        BY <4>1, <4>2, <4>3 DEF PlaceInv
    <3>9. ASSUME NEW r \in Rows, NEW c \in Cols
          PROVE  /\ visits'[At(r, c, w)] = IF Done(r, c, stage, row + 1) THEN 1 ELSE 0
                 /\ Done(r, c, stage, row + 1) => rgb'[At(r, c, w)] = Pixel(Stages[Turn(r, c)], r, c)
      BY <3>1, RowStep
    <3>10. \A r \in Rows, c \in Cols : Turn(r, c)' = Turn(r, c)
      BY <3>2, <3>3 DEF Turn
    <3>11. \A r \in Rows, c \in Cols : Done(r, c, stage, row)' <=> Done(r, c, stage, row + 1)
      BY <3>1, <3>10 DEF Done
    <3>12. ImageInv'
      BY <3>2, <3>9, <3>10, <3>11 DEF ImageInv
    <3> QED
      BY <3>7, <3>8, <3>12 DEF IInv
  <2> QED
    BY <2>1, <2>2, <2>3
<1> QED
  BY <1>2, <1>3, <1>4, <1>5, <1>6, <1>7, <1>9, <1>10, <1>11 DEF Next

THEOREM Invariant == Spec => []IInv
<1> QED
  BY InitEstablishes, StepPreserves, PTL DEF Spec

\* No kernel reads outside the data, for images of every size.
THEOREM TypeCorrect == Spec => []TypeOK
<1>1. IInv => TypeOK
  BY DEF IInv
<1> QED
  BY <1>1, Invariant, PTL

\* For images of every size, no pixel is computed twice or left out.
THEOREM ComputesEachPixelOnce == Spec => []EveryPixelOnce
<1>1. ASSUME IInv
      PROVE  EveryPixelOnce
  <2> SUFFICES ASSUME NEW i \in Positions
               PROVE  visits[i] <= 1 /\ (result = "ok" => visits[i] = 1)
    BY DEF EveryPixelOnce
  <2>1. call \in Calls /\ stage \in 1 .. Len(Stages) /\ w \in Nat /\ h \in Nat
    BY <1>1, SizesAreNumbers DEF IInv, TypeOK, PlaceInv
  <2>2. PICK r \in Rows, c \in Cols : i = At(r, c, w)
    BY <2>1, PositionHasAPlace DEF Positions, Rows, Cols
  <2>3. visits[i] = IF Done(r, c, stage, row) THEN 1 ELSE 0
    BY <1>1, <2>2 DEF IInv, ImageInv
  <2>4. result = "ok" => Done(r, c, stage, row)
    BY <1>1, <2>1, NextLoop DEF IInv, PlaceInv
  <2> QED
    BY <2>3, <2>4
<1> QED
  BY <1>1, Invariant, PTL

\* The pixels of an image that is returned, by the method that made them.
LEMMA ReturnedPixels ==
  ASSUME IInv, result = "ok", NEW r \in Rows, NEW c \in Cols
  PROVE  LET p == rgb[At(r, c, w)] IN
           /\ ~Bayer => p = GenericSite(r, c)
           /\ Bayer /\ ~Malvar => p = BilinearSite(r, c)
           /\ Malvar => p = MalvarSite(r, c, Clamped(r, c))
<1>1. call \in Calls /\ stage \in 1 .. Len(Stages) /\ w \in Nat /\ h \in Nat
  BY SizesAreNumbers DEF IInv, TypeOK, PlaceInv
<1>2. Done(r, c, stage, row)
  BY <1>1, NextLoop DEF IInv, PlaceInv
<1>3. rgb[At(r, c, w)] = Pixel(Stages[Turn(r, c)], r, c)
  BY <1>2 DEF IInv, ImageInv
<1>4. /\ Malvar => Bayer /\ call.method # "Bilinear"
      /\ Bayer /\ ~Malvar => call.method = "Bilinear"
  BY <1>1, DemosaicAssumption DEF Malvar, CallSpace, Methods
<1>5. Stages[Turn(r, c)] = "interior" => r \in 2 .. h - 3 /\ c \in 2 .. w - 3
  BY <1>1, StagesOf DEF Turn, Rows, Cols
<1> QED
  BY <1>1, <1>3, <1>4, <1>5, DirectIsClamped DEF Pixel

\* For images of every size, the border and the interior agree.
THEOREM LoopsAgree == Spec => []PathsAgree
<1>1. IInv => PathsAgree
  BY ReturnedPixels DEF PathsAgree
<1> QED
  BY <1>1, Invariant, PTL

\* An observed call never returns an image over a stop request.
THEOREM HearsStops == Spec => []StopIsHeard
<1>1. IInv => StopIsHeard
  BY DEF IInv, PlaceInv, StopIsHeard
<1> QED
  BY <1>1, Invariant, PTL

-----------------------------------------------------------------------------
(* What a channel takes of each colour.                                    *)

AllColours == {R, G, B, E}

LEMMA PositionDivides ==
  ASSUME NEW W \in Nat, NEW r \in Nat, NEW c \in 0 .. W - 1
  PROVE  At(r, c, W) \div W = r /\ At(r, c, W) % W = c
<1> DEFINE p == At(r, c, W)
<1>1. p \in Nat /\ W > 0
  <2>1. r * W \in Nat
    OBVIOUS
  <2> QED
    BY <2>1 DEF At
<1> HIDE DEF p
<1>2. p = (p \div W) * W + (p % W) /\ p % W \in 0 .. W - 1 /\ p \div W \in Nat
  BY <1>1
<1>3. At(p \div W, p % W, W) = p
  BY <1>2 DEF At
<1> QED
  BY <1>2, <1>3, PositionsDiffer DEF p

LEMMA ColourOfPosition ==
  ASSUME call \in Calls, NEW r \in Rows, NEW c \in Cols
  PROVE  LET i == At(r, c, w) IN
           i \in Positions /\ i \div w = r /\ i % w = c /\ ColorAt(i \div w, i % w) = ColorAt(r, c)
<1>0. w \in Nat /\ h \in Nat /\ r \in Nat /\ r \in 0 .. h - 1 /\ c \in 0 .. w - 1
  BY SizesAreNumbers DEF Rows, Cols
<1>1. At(r, c, w) \in Positions /\ At(r, c, w) \div w = r /\ At(r, c, w) % w = c
  <2>1. At(r, c, w) \in Positions
    BY <1>0, PositionInRange DEF Positions
  <2>2. At(r, c, w) \div w = r /\ At(r, c, w) % w = c
    BY <1>0, PositionDivides
  <2> QED
    BY <2>1, <2>2
<1> QED
  BY <1>1

LEMMA ColoursAreKnown ==
  ASSUME call \in Calls, NEW r \in Nat, NEW c \in Nat
  PROVE  ColorAt(r, c) \in AllColours
<1>1. CASE Described
  <2> DEFINE t == call.tile
             n == Len(t)
             k == Len(t[1])
  <2>1. t \in Seq(Seq({R, G, B, E})) /\ t # <<>> /\ \A i \in DOMAIN t : Len(t[i]) = Len(t[1]) /\ Len(t[i]) > 0
    BY <1>1, DemosaicAssumption DEF CallSpace, Described
  <2> HIDE DEF t
  <2>2. n \in Nat \ {0} /\ DOMAIN t = 1 .. n /\ k \in Nat \ {0}
    BY <2>1
  <2>3. r % n \in 0 .. n - 1 /\ c % k \in 0 .. k - 1
    <3> HIDE DEF n, k
    <3> QED
      BY <2>2
  <2>4. 1 + (r % n) \in DOMAIN t
    <3> HIDE DEF n, k
    <3> QED
      BY <2>2, <2>3
  <2>5. t[1 + (r % n)] \in Seq({R, G, B, E}) /\ Len(t[1 + (r % n)]) = k
    BY <2>1, <2>4
  <2>6. t[1 + (r % n)][1 + (c % k)] \in {R, G, B, E}
    <3> DEFINE line == t[1 + (r % n)]
    <3>1. line \in Seq({R, G, B, E}) /\ Len(line) = k /\ 1 + (c % k) \in 1 .. k
      <4> HIDE DEF n, k
      <4> QED
        BY <2>2, <2>3, <2>5
    <3> HIDE DEF line, n, k
    <3>2. line[1 + (c % k)] \in {R, G, B, E}
      BY <3>1
    <3> QED
      BY <3>2 DEF line
  <2> QED
    BY <1>1, <2>6 DEF ColorAt, AllColours, t
<1>2. CASE ~Described
  BY <1>2 DEF ColorAt, AllColours
<1> QED
  BY <1>1, <1>2

LEMMA PositionsAreFinite ==
  ASSUME call \in Calls
  PROVE  IsFiniteSet(Positions)
<1>1. PICK n \in Int : n = w * h - 1
  BY SizesAreNumbers
<1>2. IsFiniteSet(0 .. n)
  BY FS_Interval
<1> QED
  BY <1>1, <1>2 DEF Positions

LEMMA PixelColoursAreKnown ==
  ASSUME call \in Calls, NEW i \in Positions
  PROVE  ColorAt(i \div w, i % w) \in AllColours
<1>1. PICK r \in Rows, c \in Cols : i = At(r, c, w)
  BY PositionHasAPlace, SizesAreNumbers DEF Positions, Rows, Cols
<1> QED
  BY <1>1, ColourOfPosition, ColoursAreKnown, SizesAreNumbers DEF Rows, Cols

LEMMA SampleWeighs ==
  ASSUME call \in Calls, NEW r \in Rows, NEW c \in Cols, NEW colors, ColorAt(r, c) \in colors
  PROVE  WeightOf(Sample(At(r, c, w)), colors) = 1
<1> DEFINE i == At(r, c, w)
           f == [j \in {i} |-> 1]
<1>1. Sample(i).taps = f /\ DOMAIN f = {i} /\ f[i] = 1
  BY DEF Sample
<1>2. {j \in {i} : ColorAt(j \div w, j % w) \in colors} = {i}
  BY ColourOfPosition
<1>3. SumFunctionOnSet(f, {i}) = 1
  BY <1>1, SumOfOne
<1> QED
  BY <1>1, <1>2, <1>3 DEF WeightOf

\* Places of the image are as many as their positions.
LEMMA PlacesCount ==
  ASSUME call \in Calls, NEW places \in SUBSET (Rows \X Cols)
  PROVE  LET at == {At(p[1], p[2], w) : p \in places} IN
           IsFiniteSet(at) /\ Cardinality(at) = Cardinality(places) /\ IsFiniteSet(places)
<1> DEFINE at == {At(p[1], p[2], w) : p \in places}
           f == [p \in places |-> At(p[1], p[2], w)]
<1>1. IsFiniteSet(places)
  <2>1. IsFiniteSet(Rows) /\ IsFiniteSet(Cols)
    BY FS_Interval, SizesAreNumbers DEF Rows, Cols
  <2> QED
    BY <2>1, FS_Product, FS_Subset
<1>2. ASSUME NEW p \in places, NEW q \in places, At(p[1], p[2], w) = At(q[1], q[2], w)
      PROVE  p = q
  <2>1. p \in Rows \X Cols /\ q \in Rows \X Cols
    OBVIOUS
  <2>2. p[1] = q[1] /\ p[2] = q[2]
    BY <1>2, <2>1, PositionsDiffer, SizesAreNumbers DEF Rows, Cols
  <2> QED
    BY <2>1, <2>2
<1>3. f \in Bijection(places, at)
  BY <1>2 DEF Bijection, Injection, Surjection, IsInjective
<1>4. ExistsBijection(places, at)
  BY <1>3 DEF ExistsBijection
<1> QED
  BY <1>1, <1>4, FS_Bijection

LEMMA AverageWeighs ==
  ASSUME call \in Calls, NEW places \in SUBSET (Rows \X Cols), places # {}, NEW colors,
         \A p \in places : ColorAt(p[1], p[2]) \in colors
  PROVE  /\ WeightOf(Average(places), colors) = Average(places).of
         /\ Average(places) # Nothing
<1> DEFINE at == {At(p[1], p[2], w) : p \in places}
           f == [i \in at |-> 1]
<1>1. Average(places) = [of |-> Cardinality(places), taps |-> f]
  BY DEF Average
<1>2. IsFiniteSet(at) /\ Cardinality(at) = Cardinality(places) /\ Cardinality(places) \in Nat
  BY PlacesCount, FS_CardinalityType
<1>3. {i \in at : ColorAt(i \div w, i % w) \in colors} = at
  BY ColourOfPosition
<1>4. SumFunctionOnSet(f, at) = Cardinality(at)
  <2>1. \A i \in at : f[i] = 1
    OBVIOUS
  <2> HIDE DEF f, at
  <2>2. SumFunctionOnSet(f, at) = 1 * Cardinality(at)
    BY <1>2, <2>1, SumOfConstant
  <2> QED
    BY <1>2, <2>2
<1>5. WeightOf(Average(places), colors) = Average(places).of
  <2>1. Average(places).taps = f /\ Average(places).of = Cardinality(places) /\ DOMAIN f = at
    BY <1>1
  <2> HIDE DEF f, at
  <2> QED
    BY <1>2, <1>3, <1>4, <2>1 DEF WeightOf
<1>6. DOMAIN Average(places).taps # {} /\ DOMAIN Nothing.taps = {}
  BY <1>1 DEF Nothing
<1> QED
  BY <1>5, <1>6

\* What a kernel takes of some colours is the sum of its weights for the
\* samples of those colours, however many of them are the same sample.
LEMMA WeightedWeighs ==
  ASSUME call \in Calls, NEW kernel, IsFiniteSet(DOMAIN kernel), DOMAIN kernel \subseteq Offsets,
         kernel \in [DOMAIN kernel -> Int],
         NEW fetch \in [Offsets -> Positions], NEW colors
  PROVE  WeightOf(Weighted(kernel, fetch), colors) =
           SumFunctionOnSet(kernel, {o \in DOMAIN kernel :
                                       ColorAt(fetch[o] \div w, fetch[o] % w) \in colors})
<1> DEFINE K == DOMAIN kernel
           taps == Weighted(kernel, fetch).taps
           D == {i \in DOMAIN taps : ColorAt(i \div w, i % w) \in colors}
<1>1. /\ DOMAIN taps = {fetch[o] : o \in K}
      /\ \A i \in DOMAIN taps : taps[i] = SumFunctionOnSet(kernel, {o \in K : fetch[o] = i})
  BY DEF Weighted
<1> HIDE DEF taps
<1>2. IsFiniteSet(D)
  <2>1. IsFiniteSet(Positions)
    BY PositionsAreFinite
  <2>2. D \in SUBSET Positions
    BY <1>1
  <2> QED
    BY <2>1, <2>2, FS_Subset
<1> DEFINE m == [i \in D |-> 1]
           at == [i \in D |-> {o \in K : fetch[o] = i}]
           to == [o \in K |-> fetch[o]]
           I == {o \in K : ColorAt(fetch[o] \div w, fetch[o] % w) \in colors}
<1>3. ASSUME NEW i \in D
      PROVE  m[i] \in Int /\ taps[i] = SumFunctionOnSet(kernel, at[i]) * m[i]
  <2>1. SumFunctionOnSet(kernel, at[i]) \in Int
    <3>1. at[i] \in SUBSET K
      OBVIOUS
    <3>2. IsFiniteSet(at[i]) /\ \A o \in at[i] : kernel[o] \in Int
      BY <3>1, FS_Subset
    <3> HIDE DEF at
    <3> QED
      BY <3>2, SumTakes
  <2>2. m[i] = 1 /\ taps[i] = SumFunctionOnSet(kernel, at[i])
    BY <1>1
  <2> HIDE DEF m, at
  <2> QED
    BY <2>1, <2>2
<1>4. \A o \in K : to[o] \in D => kernel[o] = kernel[o] * m[to[o]]
  OBVIOUS
<1>5. /\ \A i \in D : at[i] = {o \in K : to[o] = i}
      /\ \A o \in K : o \in I <=> to[o] \in D
      /\ I \subseteq K /\ IsFiniteSet(K)
  BY <1>1
<1>6. SumFunctionOnSet(taps, D) = SumFunctionOnSet(kernel, I)
  <2>1. Gathers(K, kernel, to, D, m, at, I, taps, kernel)
    <3> HIDE DEF D, I, m, at, to
    <3> QED
      BY <1>2, <1>3, <1>4, <1>5 DEF Gathers
  <2> QED
    BY <2>1, SumGathered
<1> QED
  BY <1>6 DEF WeightOf, taps

-----------------------------------------------------------------------------
(* The kernels: their weights, and the colours they lie on.                *)

LEMMA OffsetsAreFinite == IsFiniteSet(Offsets)
<1>1. IsFiniteSet((-2 .. 2) \X (-2 .. 2))
  <2>1. IsFiniteSet(-2 .. 2)
    <3>1. PICK n \in Int : n = -2
      OBVIOUS
    <3>2. IsFiniteSet(n .. 2)
      BY FS_Interval
    <3> QED
      BY <3>1, <3>2
  <2> QED
    BY <2>1, FS_Product
<1>2. Offsets \in SUBSET ((-2 .. 2) \X (-2 .. 2))
  BY DEF Offsets, Cross, Diagonal, FarNS, FarEW, North, South, East, West, NE, NW, SE, SW
<1> QED
  BY <1>1, <1>2, FS_Subset

LEMMA TwoElements ==
  ASSUME NEW a, NEW b, a # b
  PROVE  Cardinality({a, b}) = 2 /\ IsFiniteSet({a, b})
<1>1. {a, b} = {a} \cup {b} /\ b \notin {a}
  OBVIOUS
<1>2. IsFiniteSet({a}) /\ Cardinality({a}) = 1
  BY FS_Singleton
<1>3. Cardinality({a} \cup {b}) = 2 /\ IsFiniteSet({a} \cup {b})
  BY <1>1, <1>2, FS_AddElement
<1> QED
  BY <1>1, <1>3

LEMMA FourElements ==
  ASSUME NEW a, NEW b, NEW c, NEW d, a # b, c # d, {a, b} \cap {c, d} = {}
  PROVE  Cardinality({a, b, c, d}) = 4 /\ IsFiniteSet({a, b, c, d})
<1>1. {a, b, c, d} = ({a, b} \cup {c}) \cup {d} /\ c \notin {a, b} /\ d \notin {a, b} \cup {c}
  OBVIOUS
<1>2. Cardinality({a, b}) = 2 /\ IsFiniteSet({a, b})
  BY TwoElements
<1>3. Cardinality({a, b} \cup {c}) = 3 /\ IsFiniteSet({a, b} \cup {c})
  BY <1>1, <1>2, FS_AddElement
<1>4. Cardinality(({a, b} \cup {c}) \cup {d}) = 4 /\ IsFiniteSet(({a, b} \cup {c}) \cup {d})
  BY <1>1, <1>3, FS_AddElement
<1> QED
  BY <1>1, <1>4

LEMMA OffsetsCount ==
  /\ Cardinality(Cross) = 4 /\ Cardinality(Diagonal) = 4 /\ Cardinality(FarNS \cup FarEW) = 4
  /\ Cardinality(FarNS) = 2 /\ Cardinality(FarEW) = 2
  /\ Cardinality({East, West}) = 2 /\ Cardinality({North, South}) = 2
<1>1. /\ North # South /\ East # West /\ {North, South} \cap {East, West} = {}
      /\ NE # NW /\ SE # SW /\ {NE, NW} \cap {SE, SW} = {}
  BY DEF North, South, East, West, NE, NW, SE, SW
<1>2. Cardinality(Cross) = 4 /\ Cardinality(Diagonal) = 4
  BY <1>1, FourElements DEF Cross, Diagonal
<1>3. Cardinality({East, West}) = 2 /\ Cardinality({North, South}) = 2
  BY <1>1, TwoElements
<1> DEFINE a == <<-2, 0>>
           b == <<2, 0>>
           c == <<0, 2>>
           d == <<0, -2>>
<1>4. a # b /\ c # d /\ {a, b} \cap {c, d} = {}
  OBVIOUS
<1>5. FarNS = {a, b} /\ FarEW = {c, d} /\ FarNS \cup FarEW = {a, b, c, d}
  BY DEF FarNS, FarEW
<1> HIDE DEF a, b, c, d
<1>6. Cardinality({a, b}) = 2 /\ Cardinality({c, d}) = 2
  BY <1>4, TwoElements
<1>7. Cardinality({a, b, c, d}) = 4
  BY <1>4, FourElements
<1> QED
  BY <1>2, <1>3, <1>5, <1>6, <1>7

\* Parts that share nothing.
Parts(near, diagonal, far, others) ==
  /\ IsFiniteSet(near) /\ IsFiniteSet(diagonal) /\ IsFiniteSet(far) /\ IsFiniteSet(others)
  /\ <<0, 0>> \notin near \cup diagonal \cup far \cup others
  /\ near \cap diagonal = {} /\ (near \cup diagonal) \cap far = {}
  /\ (near \cup diagonal \cup far) \cap others = {}

\* What a kernel of such parts adds up to.
AddsUp(center, near, n, diagonal, d, far, f, others, g) ==
  LET kernel == Kernel(center, near, n, diagonal, d, far, f, others, g) IN
    /\ SumFunctionOnSet(kernel, DOMAIN kernel) =
         center + n * Cardinality(near) + d * Cardinality(diagonal)
                + f * Cardinality(far) + g * Cardinality(others)
    /\ SumFunctionOnSet(kernel, near) = n * Cardinality(near)
    /\ SumFunctionOnSet(kernel, diagonal) = d * Cardinality(diagonal)
    /\ IsFiniteSet(DOMAIN kernel) /\ kernel \in [DOMAIN kernel -> Int]
    /\ DOMAIN kernel = {<<0, 0>>} \cup near \cup diagonal \cup far \cup others

LEMMA KernelAdds ==
  ASSUME NEW center \in Int, NEW near, NEW n \in Int, NEW diagonal, NEW d \in Int,
         NEW far, NEW f \in Int, NEW others, NEW g \in Int,
         Parts(near, diagonal, far, others)
  PROVE  AddsUp(center, near, n, diagonal, d, far, f, others, g)
<1> DEFINE kernel == Kernel(center, near, n, diagonal, d, far, f, others, g)
           Sum(S) == SumFunctionOnSet(kernel, S)
<1> USE DEF Parts
<1>1. /\ DOMAIN kernel = {<<0, 0>>} \cup near \cup diagonal \cup far \cup others
      /\ kernel[<<0, 0>>] = center
      /\ \A o \in near : kernel[o] = n
      /\ \A o \in diagonal : kernel[o] = d
      /\ \A o \in far : kernel[o] = f
      /\ \A o \in others : kernel[o] = g
  BY DEF Kernel
<1>2. kernel \in [DOMAIN kernel -> Int]
  BY DEF Kernel
<1> HIDE DEF kernel
<1>3. /\ Sum({<<0, 0>>}) = center /\ Sum(near) = n * Cardinality(near)
      /\ Sum(diagonal) = d * Cardinality(diagonal)
      /\ Sum(far) = f * Cardinality(far) /\ Sum(others) = g * Cardinality(others)
  <2>1. Sum({<<0, 0>>}) = center
    BY <1>1, SumOfOne
  <2>2. Sum(near) = n * Cardinality(near)
    BY <1>1, SumOfConstant
  <2>3. Sum(diagonal) = d * Cardinality(diagonal)
    BY <1>1, SumOfConstant
  <2>4. Sum(far) = f * Cardinality(far)
    BY <1>1, SumOfConstant
  <2>5. Sum(others) = g * Cardinality(others)
    BY <1>1, SumOfConstant
  <2> QED
    BY <2>1, <2>2, <2>3, <2>4, <2>5
<1> DEFINE one == {<<0, 0>>}
           two == one \cup near
           three == two \cup diagonal
           four == three \cup far
           five == four \cup others
<1>4. /\ one \cap near = {} /\ two \cap diagonal = {} /\ three \cap far = {} /\ four \cap others = {}
      /\ five = DOMAIN kernel
  BY <1>1
<1>5. \A o \in five : kernel[o] \in Int
  BY <1>2, <1>4
<1>6. IsFiniteSet(one) /\ one \subseteq five /\ two \subseteq five /\ three \subseteq five /\ four \subseteq five
  BY FS_Singleton
<1>7. Sum(two) = Sum(one) + Sum(near) /\ IsFiniteSet(two)
  <2> HIDE DEF one, five
  <2> QED
    BY <1>4, <1>5, <1>6, SumOfUnion
<1>8. Sum(three) = Sum(two) + Sum(diagonal) /\ IsFiniteSet(three)
  <2> HIDE DEF two, five
  <2> QED
    BY <1>4, <1>5, <1>6, <1>7, SumOfUnion
<1>9. Sum(four) = Sum(three) + Sum(far) /\ IsFiniteSet(four)
  <2> HIDE DEF three, five
  <2> QED
    BY <1>4, <1>5, <1>6, <1>8, SumOfUnion
<1>10. Sum(five) = Sum(four) + Sum(others) /\ IsFiniteSet(five)
  <2>1. \A o \in four \cup others : kernel[o] \in Int
    BY <1>5
  <2> HIDE DEF four
  <2> QED
    BY <1>4, <1>9, <2>1, SumOfUnion
<1>11. Sum(DOMAIN kernel) = Sum(one) + Sum(near) + Sum(diagonal) + Sum(far) + Sum(others)
  <2> HIDE DEF Sum, one, two, three, four, five
  <2> QED
    BY <1>4, <1>7, <1>8, <1>9, <1>10
<1> HIDE DEF Sum
<1>12. Sum(DOMAIN kernel) = center + n * Cardinality(near) + d * Cardinality(diagonal)
                              + f * Cardinality(far) + g * Cardinality(others)
  BY <1>3, <1>11
<1> QED
  BY <1>1, <1>2, <1>3, <1>4, <1>10, <1>12 DEF Sum, kernel, AddsUp

\* Each of Malvar's kernels weighs sixteen sixteenths, and so do the samples
\* it takes of the colour it is for.
LEMMA KernelsWeighOne ==
  /\ /\ SumFunctionOnSet(GreenKernel, DOMAIN GreenKernel) = 16
     /\ SumFunctionOnSet(GreenKernel, Cross) = 16
     /\ DOMAIN GreenKernel = {<<0, 0>>} \cup Cross \cup FarNS \cup FarEW
     /\ IsFiniteSet(DOMAIN GreenKernel) /\ GreenKernel \in [DOMAIN GreenKernel -> Int]
  /\ /\ SumFunctionOnSet(OppositeKernel, DOMAIN OppositeKernel) = 16
     /\ SumFunctionOnSet(OppositeKernel, Diagonal) = 16
     /\ DOMAIN OppositeKernel = {<<0, 0>>} \cup Diagonal \cup FarNS \cup FarEW
     /\ IsFiniteSet(DOMAIN OppositeKernel) /\ OppositeKernel \in [DOMAIN OppositeKernel -> Int]
  /\ /\ SumFunctionOnSet(HorizontalKernel, DOMAIN HorizontalKernel) = 16
     /\ SumFunctionOnSet(HorizontalKernel, {East, West}) = 16
     /\ DOMAIN HorizontalKernel = {<<0, 0>>} \cup {East, West} \cup Diagonal \cup FarNS \cup FarEW
     /\ IsFiniteSet(DOMAIN HorizontalKernel) /\ HorizontalKernel \in [DOMAIN HorizontalKernel -> Int]
  /\ /\ SumFunctionOnSet(VerticalKernel, DOMAIN VerticalKernel) = 16
     /\ SumFunctionOnSet(VerticalKernel, {North, South}) = 16
     /\ DOMAIN VerticalKernel = {<<0, 0>>} \cup {North, South} \cup Diagonal \cup FarNS \cup FarEW
     /\ IsFiniteSet(DOMAIN VerticalKernel) /\ VerticalKernel \in [DOMAIN VerticalKernel -> Int]
<1>1. /\ IsFiniteSet(Cross) /\ IsFiniteSet(Diagonal) /\ IsFiniteSet(FarNS) /\ IsFiniteSet(FarEW)
      /\ IsFiniteSet(FarNS \cup FarEW) /\ IsFiniteSet({East, West}) /\ IsFiniteSet({North, South})
      /\ IsFiniteSet({}) /\ Cardinality({}) = 0
  <2>1. /\ Cross \in SUBSET Offsets /\ Diagonal \in SUBSET Offsets /\ FarNS \in SUBSET Offsets
        /\ FarEW \in SUBSET Offsets /\ FarNS \cup FarEW \in SUBSET Offsets
        /\ {East, West} \in SUBSET Offsets /\ {North, South} \in SUBSET Offsets
    BY DEF Offsets, Cross
  <2>2. \A S \in SUBSET Offsets : IsFiniteSet(S)
    BY OffsetsAreFinite, FS_Subset
  <2> QED
    BY <2>1, <2>2, FS_EmptySet
<1>2. /\ <<0, 0>> \notin Cross \cup Diagonal \cup FarNS \cup FarEW
      /\ Cross \cap Diagonal = {} /\ (Cross \cup Diagonal) \cap (FarNS \cup FarEW) = {}
      /\ FarNS \cap FarEW = {} /\ {East, West} \subseteq Cross /\ {North, South} \subseteq Cross
  BY DEF Cross, Diagonal, FarNS, FarEW, North, South, East, West, NE, NW, SE, SW
<1> HIDE DEF Cross, Diagonal, FarNS, FarEW, North, South, East, West
<1> DEFINE far == FarNS \cup FarEW
           ew == {East, West}
           ns == {North, South}
<1>3. /\ Parts(Cross, {}, far, {}) /\ Parts({}, Diagonal, far, {})
      /\ Parts(ew, Diagonal, FarEW, FarNS) /\ Parts(ns, Diagonal, FarNS, FarEW)
      /\ Cardinality(far) = 4 /\ Cardinality(ew) = 2 /\ Cardinality(ns) = 2
      /\ Cardinality(Cross) = 4 /\ Cardinality(Diagonal) = 4 /\ Cardinality(FarNS) = 2 /\ Cardinality(FarEW) = 2
  BY <1>1, <1>2, OffsetsCount DEF Parts
<1>4. PICK minus2 \in Int, minus3 \in Int : minus2 = -2 /\ minus3 = -3
  OBVIOUS
<1>5. /\ GreenKernel = Kernel(8, Cross, 4, {}, 0, far, minus2, {}, 0)
      /\ OppositeKernel = Kernel(12, {}, 0, Diagonal, 4, far, minus3, {}, 0)
      /\ HorizontalKernel = Kernel(10, ew, 8, Diagonal, minus2, FarEW, minus2, FarNS, 1)
      /\ VerticalKernel = Kernel(10, ns, 8, Diagonal, minus2, FarNS, minus2, FarEW, 1)
  BY <1>4 DEF GreenKernel, OppositeKernel, HorizontalKernel, VerticalKernel
<1>6. /\ AddsUp(8, Cross, 4, {}, 0, far, minus2, {}, 0)
      /\ AddsUp(12, {}, 0, Diagonal, 4, far, minus3, {}, 0)
      /\ AddsUp(10, ew, 8, Diagonal, minus2, FarEW, minus2, FarNS, 1)
      /\ AddsUp(10, ns, 8, Diagonal, minus2, FarNS, minus2, FarEW, 1)
  BY <1>3, KernelAdds
<1>7. /\ SumFunctionOnSet(GreenKernel, DOMAIN GreenKernel) = 16
      /\ SumFunctionOnSet(GreenKernel, Cross) = 16
      /\ DOMAIN GreenKernel = {<<0, 0>>} \cup Cross \cup far
      /\ IsFiniteSet(DOMAIN GreenKernel) /\ GreenKernel \in [DOMAIN GreenKernel -> Int]
  <2>1. AddsUp(8, Cross, 4, {}, 0, far, minus2, {}, 0)
    BY <1>6
  <2>2. GreenKernel = Kernel(8, Cross, 4, {}, 0, far, minus2, {}, 0)
    BY <1>5
  <2> USE <2>1, <2>2 DEF AddsUp
  <2>3. SumFunctionOnSet(GreenKernel, DOMAIN GreenKernel) = 16
    BY <1>1, <1>3, <1>4
  <2>4. SumFunctionOnSet(GreenKernel, Cross) = 16
    BY <1>1, <1>3, <1>4
  <2>5. DOMAIN GreenKernel = {<<0, 0>>} \cup Cross \cup far
    OBVIOUS
  <2> QED
    BY <2>3, <2>4, <2>5
<1>8. /\ SumFunctionOnSet(OppositeKernel, DOMAIN OppositeKernel) = 16
      /\ SumFunctionOnSet(OppositeKernel, Diagonal) = 16
      /\ DOMAIN OppositeKernel = {<<0, 0>>} \cup Diagonal \cup far
      /\ IsFiniteSet(DOMAIN OppositeKernel) /\ OppositeKernel \in [DOMAIN OppositeKernel -> Int]
  <2>1. AddsUp(12, {}, 0, Diagonal, 4, far, minus3, {}, 0)
    BY <1>6
  <2>2. OppositeKernel = Kernel(12, {}, 0, Diagonal, 4, far, minus3, {}, 0)
    BY <1>5
  <2> USE <2>1, <2>2 DEF AddsUp
  <2>3. SumFunctionOnSet(OppositeKernel, DOMAIN OppositeKernel) = 16
    BY <1>1, <1>3, <1>4
  <2>4. SumFunctionOnSet(OppositeKernel, Diagonal) = 16
    BY <1>1, <1>3, <1>4
  <2>5. DOMAIN OppositeKernel = {<<0, 0>>} \cup Diagonal \cup far
    OBVIOUS
  <2> QED
    BY <2>3, <2>4, <2>5
<1>9. /\ SumFunctionOnSet(HorizontalKernel, DOMAIN HorizontalKernel) = 16
      /\ SumFunctionOnSet(HorizontalKernel, ew) = 16
      /\ DOMAIN HorizontalKernel = {<<0, 0>>} \cup ew \cup Diagonal \cup FarEW \cup FarNS
      /\ IsFiniteSet(DOMAIN HorizontalKernel) /\ HorizontalKernel \in [DOMAIN HorizontalKernel -> Int]
  <2>1. AddsUp(10, ew, 8, Diagonal, minus2, FarEW, minus2, FarNS, 1)
    BY <1>6
  <2>2. HorizontalKernel = Kernel(10, ew, 8, Diagonal, minus2, FarEW, minus2, FarNS, 1)
    BY <1>5
  <2> USE <2>1, <2>2 DEF AddsUp
  <2>3. SumFunctionOnSet(HorizontalKernel, DOMAIN HorizontalKernel) = 16
    BY <1>1, <1>3, <1>4
  <2>4. SumFunctionOnSet(HorizontalKernel, ew) = 16
    BY <1>1, <1>3, <1>4
  <2>5. DOMAIN HorizontalKernel = {<<0, 0>>} \cup ew \cup Diagonal \cup FarEW \cup FarNS
    OBVIOUS
  <2> QED
    BY <2>3, <2>4, <2>5
<1>10. /\ SumFunctionOnSet(VerticalKernel, DOMAIN VerticalKernel) = 16
      /\ SumFunctionOnSet(VerticalKernel, ns) = 16
      /\ DOMAIN VerticalKernel = {<<0, 0>>} \cup ns \cup Diagonal \cup FarNS \cup FarEW
      /\ IsFiniteSet(DOMAIN VerticalKernel) /\ VerticalKernel \in [DOMAIN VerticalKernel -> Int]
  <2>1. AddsUp(10, ns, 8, Diagonal, minus2, FarNS, minus2, FarEW, 1)
    BY <1>6
  <2>2. VerticalKernel = Kernel(10, ns, 8, Diagonal, minus2, FarNS, minus2, FarEW, 1)
    BY <1>5
  <2> USE <2>1, <2>2 DEF AddsUp
  <2>3. SumFunctionOnSet(VerticalKernel, DOMAIN VerticalKernel) = 16
    BY <1>1, <1>3, <1>4
  <2>4. SumFunctionOnSet(VerticalKernel, ns) = 16
    BY <1>1, <1>3, <1>4
  <2>5. DOMAIN VerticalKernel = {<<0, 0>>} \cup ns \cup Diagonal \cup FarNS \cup FarEW
    OBVIOUS
  <2> QED
    BY <2>3, <2>4, <2>5
<1> QED
  BY <1>7, <1>8, <1>9, <1>10 DEF far, ew, ns

-----------------------------------------------------------------------------
(* The colours around a site of a mosaic.                                  *)

Cell(i, j) == call.tile[1 + i][1 + j]
Other(k)   == IF k = R THEN B ELSE R

LEMMA Parity ==
  ASSUME NEW n \in Nat, NEW d \in -2 .. 2, n + d \in Nat
  PROVE  n % 2 \in 0 .. 1 /\ (n + d) % 2 = IF d \in {-1, 1} THEN 1 - (n % 2) ELSE n % 2
<1>1. CASE d \in {-1, 1}
  BY <1>1
<1>2. CASE d \in {-2, 0, 2}
  BY <1>2
<1> QED
  BY <1>1, <1>2

LEMMA ColourIsCell ==
  ASSUME Bayer, NEW r \in Nat, NEW c \in Nat
  PROVE  ColorAt(r, c) = Cell(r % 2, c % 2)
<1>1. Described
  <2>1. ~Described => TileDims = <<0, 0>> /\ <<0, 0>> # <<2, 2>>
    BY DEF TileDims
  <2> QED
    BY <2>1 DEF Bayer
<1>2. Len(call.tile) = 2 /\ Len(call.tile[1]) = 2
  <2>1. <<Len(call.tile[1]), Len(call.tile)>> = <<2, 2>>
    BY <1>1 DEF Bayer, TileDims
  <2> QED
    BY <2>1
<1> QED
  BY <1>1, <1>2 DEF ColorAt, Cell

LEMMA CellsAround ==
  ASSUME Mosaic(call.tile), NEW i \in 0 .. 1, NEW j \in 0 .. 1
  PROVE  /\ Cell(i, j) \in {R, B} => /\ Cell(1 - i, 1 - j) = Other(Cell(i, j))
                                     /\ Cell(1 - i, j) \in {G, E} /\ Cell(i, 1 - j) \in {G, E}
         /\ Cell(i, j) \in {G, E} => /\ Cell(1 - i, 1 - j) \in {G, E}
                                     /\ Cell(i, 1 - j) \in {R, B} /\ Cell(1 - i, j) = Other(Cell(i, 1 - j))
<1> DEFINE p == call.tile[1][1]
           q == call.tile[1][2]
           s == call.tile[2][1]
           t == call.tile[2][2]
<1>1. Cell(0, 0) = p /\ Cell(0, 1) = q /\ Cell(1, 0) = s /\ Cell(1, 1) = t
  BY DEF Cell
<1>2. \/ p = R /\ t = B /\ q \in {G, E} /\ s \in {G, E}
      \/ p = B /\ t = R /\ q \in {G, E} /\ s \in {G, E}
      \/ q = R /\ s = B /\ p \in {G, E} /\ t \in {G, E}
      \/ q = B /\ s = R /\ p \in {G, E} /\ t \in {G, E}
  BY DEF Mosaic
<1>3. R # B /\ R \notin {G, E} /\ B \notin {G, E}
  BY DEF R, G, B, E
<1> HIDE DEF p, q, s, t, Cell, R, G, B, E
<1>4. CASE i = 0 /\ j = 0
  BY <1>1, <1>2, <1>3, <1>4 DEF Other
<1>5. CASE i = 0 /\ j = 1
  BY <1>1, <1>2, <1>3, <1>5 DEF Other
<1>6. CASE i = 1 /\ j = 0
  BY <1>1, <1>2, <1>3, <1>6 DEF Other
<1>7. CASE i = 1 /\ j = 1
  BY <1>1, <1>2, <1>3, <1>7 DEF Other
<1> QED
  BY <1>4, <1>5, <1>6, <1>7

\* The colour two sites away is the same, on the diagonal that of the other
\* kind or green, and beside a site of a kind green and the reverse.
LEMMA ColoursAround ==
  ASSUME Bayer, Mosaic(call.tile), NEW r \in Nat, NEW c \in Nat,
         NEW o \in Offsets, r + o[1] \in Nat, c + o[2] \in Nat
  PROVE  LET here  == ColorAt(r, c)
             there == ColorAt(r + o[1], c + o[2])
         IN  /\ o \in {<<0, 0>>} \cup FarNS \cup FarEW => there = here
             /\ o \in Diagonal /\ here \in {R, B} => there = Other(here)
             /\ o \in Diagonal /\ here \in {G, E} => there \in {G, E}
             /\ o \in Cross /\ here \in {R, B} => there \in {G, E}
             /\ o \in {East, West} /\ here \in {G, E} => there \in {R, B} /\ there = Cell(r % 2, 1 - (c % 2))
             /\ o \in {North, South} /\ here \in {G, E} => there = Other(Cell(r % 2, 1 - (c % 2)))
<1> DEFINE i == r % 2
           j == c % 2
           d == o[1]
           e == o[2]
<1>1. d \in -2 .. 2 /\ e \in -2 .. 2
  BY OffsetsAreSmall
<1>2. /\ i \in 0 .. 1 /\ (r + d) % 2 = IF d \in {-1, 1} THEN 1 - i ELSE i
      /\ j \in 0 .. 1 /\ (c + e) % 2 = IF e \in {-1, 1} THEN 1 - j ELSE j
  BY <1>1, Parity
<1>3. ColorAt(r, c) = Cell(i, j) /\ ColorAt(r + d, c + e) = Cell((r + d) % 2, (c + e) % 2)
  BY ColourIsCell
<1>4. /\ o \in {<<0, 0>>} \cup FarNS \cup FarEW => d \notin {-1, 1} /\ e \notin {-1, 1}
      /\ o \in Diagonal => d \in {-1, 1} /\ e \in {-1, 1}
      /\ o \in {East, West} => d \notin {-1, 1} /\ e \in {-1, 1}
      /\ o \in {North, South} => d \in {-1, 1} /\ e \notin {-1, 1}
      /\ o \in Cross <=> o \in {East, West} \cup {North, South}
  BY DEF FarNS, FarEW, Diagonal, Cross, North, South, East, West, NE, NW, SE, SW
<1> HIDE DEF i, j, d, e
<1>5. /\ o \in {<<0, 0>>} \cup FarNS \cup FarEW => ColorAt(r + d, c + e) = Cell(i, j)
      /\ o \in Diagonal => ColorAt(r + d, c + e) = Cell(1 - i, 1 - j)
      /\ o \in {East, West} => ColorAt(r + d, c + e) = Cell(i, 1 - j)
      /\ o \in {North, South} => ColorAt(r + d, c + e) = Cell(1 - i, j)
  BY <1>2, <1>3, <1>4
<1>6. /\ Cell(i, j) \in {R, B} => /\ Cell(1 - i, 1 - j) = Other(Cell(i, j))
                                  /\ Cell(1 - i, j) \in {G, E} /\ Cell(i, 1 - j) \in {G, E}
      /\ Cell(i, j) \in {G, E} => /\ Cell(1 - i, 1 - j) \in {G, E}
                                  /\ Cell(i, 1 - j) \in {R, B} /\ Cell(1 - i, j) = Other(Cell(i, 1 - j))
  BY <1>2, CellsAround
<1> HIDE DEF R, G, B, E
<1>7. LET here  == ColorAt(r, c)
          there == ColorAt(r + d, c + e)
      IN  /\ o \in {<<0, 0>>} \cup FarNS \cup FarEW => there = here
          /\ o \in Diagonal /\ here \in {R, B} => there = Other(here)
          /\ o \in Diagonal /\ here \in {G, E} => there \in {G, E}
          /\ o \in Cross /\ here \in {R, B} => there \in {G, E}
          /\ o \in {East, West} /\ here \in {G, E} => there \in {R, B} /\ there = Cell(i, 1 - j)
          /\ o \in {North, South} /\ here \in {G, E} => there = Other(Cell(i, 1 - j))
  BY <1>3, <1>4, <1>5, <1>6
<1> QED
  BY <1>7 DEF d, e, i, j

\* The colour the code finds beside a green site is that of the sites east and
\* west of it.
LEMMA BesideIs ==
  ASSUME Bayer, Mosaic(call.tile), NEW r \in Nat, NEW c \in Nat, ColorAt(r, c) \in {G, E}
  PROVE  Beside(r, c) = Cell(r % 2, 1 - (c % 2)) /\ Beside(r, c) \in {R, B}
<1>1. ASSUME NEW o \in {East, West}, r + o[1] \in Nat, c + o[2] \in Nat
      PROVE  ColorAt(r + o[1], c + o[2]) \in {R, B} /\ ColorAt(r + o[1], c + o[2]) = Cell(r % 2, 1 - (c % 2))
  <2>1. o \in Offsets
    BY DEF Offsets, Cross
  <2> QED
    BY <1>1, <2>1, ColoursAround
<1>2. CASE c > 0
  <2>1. r + West[1] = r /\ c + West[2] = c - 1 /\ c - 1 \in Nat
    BY <1>2 DEF West
  <2>2. ColorAt(r, c - 1) \in {R, B} /\ ColorAt(r, c - 1) = Cell(r % 2, 1 - (c % 2))
    BY <1>1, <2>1
  <2> QED
    BY <1>2, <2>2 DEF Beside
<1>3. CASE ~(c > 0)
  <2>1. r + East[1] = r /\ c + East[2] = c + 1 /\ c + 1 \in Nat
    BY DEF East
  <2>2. ColorAt(r, c + 1) \in {R, B} /\ ColorAt(r, c + 1) = Cell(r % 2, 1 - (c % 2))
    BY <1>1, <2>1
  <2> QED
    BY <1>3, <2>2 DEF Beside
<1> QED
  BY <1>2, <1>3

-----------------------------------------------------------------------------
(* A plain colour stays what it is.                                        *)

Like(k) == IF k = G THEN {G, E} ELSE {k}

\* What ColoursKept asks of channel k of a pixel.
Keeps(v, r, c, k) ==
  /\ InReach(r, c, k) => v # Nothing
  /\ v # Nothing => WeightOf(v, AllColours) = v.of
  /\ v # Nothing /\ (~Malvar \/ OffTheEdge(r, c)) => WeightOf(v, Like(k)) = v.of

LEMMA LikeIsKnown ==
  ASSUME NEW k \in {R, G, B}
  PROVE  Like(k) \subseteq AllColours /\ k \in Like(k)
  BY DEF Like, AllColours

LEMMA SampleKeeps ==
  ASSUME call \in Calls, NEW r \in Rows, NEW c \in Cols, NEW k \in {R, G, B}, ColorAt(r, c) \in Like(k)
  PROVE  Keeps(Sample(At(r, c, w)), r, c, k)
<1> DEFINE v == Sample(At(r, c, w))
<1>1. v # Nothing /\ v.of = 1
  <2>1. DOMAIN v.taps # {} /\ DOMAIN Nothing.taps = {}
    BY DEF Sample, Nothing
  <2> QED
    BY <2>1 DEF Sample
<1>2. WeightOf(v, AllColours) = 1 /\ WeightOf(v, Like(k)) = 1
  BY SampleWeighs, LikeIsKnown
<1> HIDE DEF v
<1> QED
  BY <1>1, <1>2 DEF Keeps, v

LEMMA AverageKeeps ==
  ASSUME call \in Calls, NEW r \in Rows, NEW c \in Cols, NEW k \in {R, G, B},
         NEW places \in SUBSET (Rows \X Cols), \A p \in places : ColorAt(p[1], p[2]) \in Like(k),
         InReach(r, c, k) => places # {}
  PROVE  Keeps(Average(places), r, c, k)
<1>1. CASE places = {}
  BY <1>1 DEF Average, Keeps
<1>2. CASE places # {}
  <2>1. \A p \in places : ColorAt(p[1], p[2]) \in AllColours
    BY LikeIsKnown
  <2>2. WeightOf(Average(places), AllColours) = Average(places).of /\ Average(places) # Nothing
    BY <1>2, <2>1, AverageWeighs
  <2>3. WeightOf(Average(places), Like(k)) = Average(places).of
    BY <1>2, AverageWeighs
  <2> QED
    BY <2>2, <2>3 DEF Keeps
<1> QED
  BY <1>1, <1>2

LEMMA GenericKeeps ==
  ASSUME call \in Calls, ~Bayer, NEW r \in Rows, NEW c \in Cols, NEW k \in {R, G, B}
  PROVE  Keeps(GenericSite(r, c)[k + 1], r, c, k)
<1>1. k + 1 \in 1 .. 3 /\ (k + 1) - 1 = k
  BY DEF R, G, B
<1>2. GenericSite(r, c)[k + 1] = IF ColorAt(r, c) = k THEN Sample(At(r, c, w)) ELSE Average(Around(r, c, k))
  BY <1>1 DEF GenericSite
<1>3. CASE ColorAt(r, c) = k
  BY <1>2, <1>3, SampleKeeps, LikeIsKnown
<1>4. CASE ColorAt(r, c) # k
  <2>1. /\ Around(r, c, k) \in SUBSET (Rows \X Cols)
        /\ \A p \in Around(r, c, k) : ColorAt(p[1], p[2]) = k
    BY DEF Around, Neighbours
  <2>2. InReach(r, c, k) => Around(r, c, k) # {}
    BY DEF InReach, Around
  <2>3. Keeps(Average(Around(r, c, k)), r, c, k)
    BY <2>1, <2>2, AverageKeeps, LikeIsKnown
  <2> QED
    BY <1>2, <1>4, <2>3
<1> QED
  BY <1>3, <1>4

\* The place at an offset.
Beyond(r, c, o) == <<r + o[1], c + o[2]>>

LEMMA MeanKeeps ==
  ASSUME call \in Calls, Bayer, NEW r \in Rows, NEW c \in Cols, NEW k \in {R, G, B},
         NEW offsets \in SUBSET Offsets,
         \A o \in offsets : Beyond(r, c, o) \in Rows \X Cols => ColorAt(r + o[1], c + o[2]) \in Like(k),
         \A o \in (Cross \cup Diagonal) \ offsets :
           Beyond(r, c, o) \in Rows \X Cols => ColorAt(r + o[1], c + o[2]) # k
  PROVE  Keeps(Mean(r, c, offsets), r, c, k)
<1> DEFINE places == Neighbours(r, c, offsets)
<1>1. places \in SUBSET (Rows \X Cols)
  BY DEF Neighbours
<1>2. \A p \in places : ColorAt(p[1], p[2]) \in Like(k)
  <2> SUFFICES ASSUME NEW p \in places
               PROVE  ColorAt(p[1], p[2]) \in Like(k)
    OBVIOUS
  <2>1. PICK o \in offsets : p = Beyond(r, c, o) /\ p \in Rows \X Cols
    BY DEF Neighbours, Beyond
  <2>2. p[1] = r + o[1] /\ p[2] = c + o[2]
    BY <2>1 DEF Beyond
  <2> QED
    BY <2>1, <2>2
<1>3. InReach(r, c, k) => places # {}
  <2> SUFFICES ASSUME InReach(r, c, k)
               PROVE  places # {}
    OBVIOUS
  <2>1. PICK p \in Neighbours(r, c, Cross \cup Diagonal) : ColorAt(p[1], p[2]) = k
    BY DEF InReach
  <2>2. PICK o \in Cross \cup Diagonal : p = Beyond(r, c, o) /\ p \in Rows \X Cols
    BY <2>1 DEF Neighbours, Beyond
  <2>3. p[1] = r + o[1] /\ p[2] = c + o[2]
    BY <2>2 DEF Beyond
  <2>4. o \in offsets
    BY <2>1, <2>2, <2>3
  <2> QED
    BY <2>2, <2>4 DEF Neighbours, Beyond
<1> HIDE DEF places
<1>4. Keeps(Average(places), r, c, k)
  BY <1>1, <1>2, <1>3, AverageKeeps
<1> QED
  BY <1>4 DEF Mean, places

\* Off the edge a clamped kernel finds the sample at each offset.
LEMMA ClampedOffTheEdge ==
  ASSUME call \in Calls, NEW r \in Rows, NEW c \in Cols, OffTheEdge(r, c), NEW o \in Offsets
  PROVE  /\ Clamped(r, c)[o] = At(r + o[1], c + o[2], w)
         /\ r + o[1] \in Rows /\ c + o[2] \in Cols
<1>1. /\ w \in Nat /\ h \in Nat /\ r \in 2 .. h - 3 /\ c \in 2 .. w - 3
      /\ o[1] \in -2 .. 2 /\ o[2] \in -2 .. 2
  BY SizesAreNumbers, OffsetsAreSmall DEF OffTheEdge
<1>2. Clamp(r + o[1], h) = r + o[1] /\ Clamp(c + o[2], w) = c + o[2]
  BY <1>1 DEF Clamp
<1>3. r + o[1] \in Rows /\ c + o[2] \in Cols
  BY <1>1 DEF Rows, Cols
<1> QED
  BY <1>2, <1>3 DEF Clamped

LEMMA WeightedKeeps ==
  ASSUME call \in Calls, Malvar, NEW r \in Rows, NEW c \in Cols, NEW k \in {R, G, B},
         NEW kernel, IsFiniteSet(DOMAIN kernel), DOMAIN kernel \subseteq Offsets,
         kernel \in [DOMAIN kernel -> Int], SumFunctionOnSet(kernel, DOMAIN kernel) = 16,
         NEW part \in SUBSET DOMAIN kernel, SumFunctionOnSet(kernel, part) = 16,
         \A o \in DOMAIN kernel : r + o[1] \in Nat /\ c + o[2] \in Nat =>
           (ColorAt(r + o[1], c + o[2]) \in Like(k) <=> o \in part)
  PROVE  Keeps(Weighted(kernel, Clamped(r, c)), r, c, k)
<1> DEFINE v == Weighted(kernel, Clamped(r, c))
           to == Clamped(r, c)
           Of(colors) == {o \in DOMAIN kernel : ColorAt(to[o] \div w, to[o] % w) \in colors}
<1>1. v.of = 16 /\ v # Nothing
  BY DEF Weighted, Nothing
<1>2. to \in [Offsets -> Positions]
  BY ClampedIsInside
<1> HIDE DEF to
<1>3. \A colors : WeightOf(v, colors) = SumFunctionOnSet(kernel, Of(colors))
  BY <1>2, WeightedWeighs DEF to
<1>4. Of(AllColours) = DOMAIN kernel
  BY <1>2, PixelColoursAreKnown
<1>5. ASSUME OffTheEdge(r, c)
      PROVE  Of(Like(k)) = part
  <2>1. ASSUME NEW o \in DOMAIN kernel
        PROVE  ColorAt(to[o] \div w, to[o] % w) \in Like(k) <=> o \in part
    <3>1. to[o] = At(r + o[1], c + o[2], w) /\ r + o[1] \in Rows /\ c + o[2] \in Cols
      BY <1>5, ClampedOffTheEdge DEF to
    <3>2. ColorAt(to[o] \div w, to[o] % w) = ColorAt(r + o[1], c + o[2])
      BY <3>1, ColourOfPosition
    <3>3. r + o[1] \in Nat /\ c + o[2] \in Nat
      BY <3>1, SizesAreNumbers DEF Rows, Cols
    <3> QED
      BY <3>2, <3>3
  <2> QED
    BY <2>1
<1> HIDE DEF v, Of
<1> QED
  BY <1>1, <1>3, <1>4, <1>5 DEF Keeps, v

LEMMA SiteKeeps ==
  ASSUME call \in Calls, Bayer, Mosaic(call.tile), NEW r \in Rows, NEW c \in Cols,
         ColorAt(r, c) # E, NEW k \in {R, G, B}, NEW a, NEW b, NEW x, NEW y,
         ColorAt(r, c) \in {R, B} => Keeps(a, r, c, G) /\ Keeps(b, r, c, Other(ColorAt(r, c))),
         ColorAt(r, c) = G => Keeps(x, r, c, Beside(r, c)) /\ Keeps(y, r, c, Other(Beside(r, c)))
  PROVE  Keeps(Site(r, c, a, b, x, y)[k + 1], r, c, k)
<1> DEFINE v == Sample(At(r, c, w))
           q == ColorAt(r, c)
<1>1. r \in Nat /\ c \in Nat
  BY SizesAreNumbers DEF Rows, Cols
<1>2. q \in {R, G, B}
  BY <1>1, ColoursAreKnown DEF AllColours
<1>3. Keeps(v, r, c, q)
  BY <1>2, SampleKeeps, LikeIsKnown
<1>4. R # B /\ R # G /\ G # B /\ R + 1 = 1 /\ G + 1 = 2 /\ B + 1 = 3
  BY DEF R, G, B
<1>5. CASE q = R
  <2>1. Site(r, c, a, b, x, y) = <<v, a, b>>
    BY <1>4, <1>5 DEF Site
  <2>2. Keeps(a, r, c, G) /\ Keeps(b, r, c, B)
    BY <1>4, <1>5 DEF Other
  <2> HIDE DEF v
  <2> QED
    BY <1>3, <1>4, <1>5, <2>1, <2>2
<1>6. CASE q = B
  <2>1. Site(r, c, a, b, x, y) = <<b, a, v>>
    BY <1>4, <1>6 DEF Site
  <2>2. Keeps(a, r, c, G) /\ Keeps(b, r, c, R)
    BY <1>4, <1>6 DEF Other
  <2> HIDE DEF v
  <2> QED
    BY <1>3, <1>4, <1>6, <2>1, <2>2
<1>7. CASE q = G
  <2>1. Beside(r, c) \in {R, B}
    BY <1>1, <1>7, BesideIs
  <2>2. Keeps(x, r, c, Beside(r, c)) /\ Keeps(y, r, c, Other(Beside(r, c)))
    BY <1>7
  <2>3. CASE Beside(r, c) = R
    <3>1. Site(r, c, a, b, x, y) = <<x, v, y>>
      BY <1>4, <1>7, <2>3 DEF Site
    <3>2. Keeps(x, r, c, R) /\ Keeps(y, r, c, B)
      BY <1>4, <2>2, <2>3 DEF Other
    <3> HIDE DEF v
    <3> QED
      BY <1>3, <1>4, <1>7, <3>1, <3>2
  <2>4. CASE Beside(r, c) = B
    <3>1. Site(r, c, a, b, x, y) = <<y, v, x>>
      BY <1>4, <1>7, <2>4 DEF Site
    <3>2. Keeps(x, r, c, B) /\ Keeps(y, r, c, R)
      BY <1>4, <2>2, <2>4 DEF Other
    <3> HIDE DEF v
    <3> QED
      BY <1>3, <1>4, <1>7, <3>1, <3>2
  <2> QED
    BY <2>1, <2>3, <2>4
<1> QED
  BY <1>2, <1>5, <1>6, <1>7

\* What lies around a site, by the colour of the site.
LEMMA ColoursSeen ==
  ASSUME call \in Calls, Bayer, Mosaic(call.tile), NEW r \in Rows, NEW c \in Cols, NEW o \in Offsets,
         r + o[1] \in Nat, c + o[2] \in Nat
  PROVE  LET here  == ColorAt(r, c)
             there == ColorAt(r + o[1], c + o[2])
         IN  /\ here \in {R, B} =>
                  /\ o \in Cross => there \in {G, E}
                  /\ o \in Diagonal => there = Other(here)
                  /\ o \in {<<0, 0>>} \cup FarNS \cup FarEW => there = here
             /\ here = G =>
                  /\ Beside(r, c) \in {R, B}
                  /\ o \in {East, West} => there = Beside(r, c)
                  /\ o \in {North, South} => there = Other(Beside(r, c))
                  /\ o \in Diagonal \cup {<<0, 0>>} \cup FarNS \cup FarEW => there \in {G, E}
<1>1. r \in Nat /\ c \in Nat
  BY SizesAreNumbers DEF Rows, Cols
<1> DEFINE here  == ColorAt(r, c)
           there == ColorAt(r + o[1], c + o[2])
           side  == Cell(r % 2, 1 - (c % 2))
<1>2. /\ o \in {<<0, 0>>} \cup FarNS \cup FarEW => there = here
      /\ o \in Diagonal /\ here \in {R, B} => there = Other(here)
      /\ o \in Diagonal /\ here \in {G, E} => there \in {G, E}
      /\ o \in Cross /\ here \in {R, B} => there \in {G, E}
      /\ o \in {East, West} /\ here \in {G, E} => there \in {R, B} /\ there = side
      /\ o \in {North, South} /\ here \in {G, E} => there = Other(side)
  BY <1>1, ColoursAround
<1>3. here \in {G, E} => Beside(r, c) = side /\ Beside(r, c) \in {R, B}
  BY <1>1, BesideIs
<1> HIDE DEF here, there, side, R, G, B, E
<1>4. /\ here \in {R, B} =>
           /\ o \in Cross => there \in {G, E}
           /\ o \in Diagonal => there = Other(here)
           /\ o \in {<<0, 0>>} \cup FarNS \cup FarEW => there = here
      /\ here = G =>
           /\ Beside(r, c) \in {R, B}
           /\ o \in {East, West} => there = Beside(r, c)
           /\ o \in {North, South} => there = Other(Beside(r, c))
           /\ o \in Diagonal \cup {<<0, 0>>} \cup FarNS \cup FarEW => there \in {G, E}
  BY <1>2, <1>3
<1> QED
  BY <1>4 DEF here, there

LEMMA OffsetKinds ==
  /\ Cross \subseteq Offsets /\ Diagonal \subseteq Offsets
  /\ Cross = {East, West} \cup {North, South}
  /\ Cross \cap Diagonal = {} /\ {East, West} \cap {North, South} = {}
  /\ (Cross \cup Diagonal) \cap ({<<0, 0>>} \cup FarNS \cup FarEW) = {}
  BY DEF Offsets, Cross, Diagonal, FarNS, FarEW, North, South, East, West, NE, NW, SE, SW

LEMMA ColoursDiffer ==
  /\ R # B /\ R # G /\ G # B /\ E \notin {R, G, B}
  /\ \A k \in {R, B} : Other(k) \in {R, B} /\ Other(k) # k /\ Like(k) = {k} /\ k \notin {G, E}
  /\ Like(G) = {G, E}
  BY DEF R, G, B, E, Other, Like

LEMMA BilinearKeeps ==
  ASSUME call \in Calls, Bayer, Mosaic(call.tile), NEW r \in Rows, NEW c \in Cols,
         ColorAt(r, c) # E, NEW k \in {R, G, B}
  PROVE  Keeps(BilinearSite(r, c)[k + 1], r, c, k)
<1> DEFINE q == ColorAt(r, c)
           side == Beside(r, c)
           InImage(o) == Beyond(r, c, o) \in Rows \X Cols
           there(o) == ColorAt(r + o[1], c + o[2])
<1>1. ASSUME NEW o \in Offsets, InImage(o)
      PROVE  /\ q \in {R, B} => /\ o \in Cross => there(o) \in {G, E}
                                /\ o \in Diagonal => there(o) = Other(q)
             /\ q = G => /\ side \in {R, B}
                         /\ o \in {East, West} => there(o) = side
                         /\ o \in {North, South} => there(o) = Other(side)
                         /\ o \in Diagonal => there(o) \in {G, E}
  <2>1. r + o[1] \in Nat /\ c + o[2] \in Nat
    BY <1>1, SizesAreNumbers DEF Beyond, Rows, Cols
  <2> QED
    BY <2>1, ColoursSeen
<1>2. q = G => side \in {R, B}
  BY BesideIs, SizesAreNumbers DEF Rows, Cols
<1> HIDE DEF q, side, InImage, there, R, G, B, E
<1> USE OffsetKinds, ColoursDiffer
<1>3. ASSUME q \in {R, B}
      PROVE  Keeps(Mean(r, c, Cross), r, c, G) /\ Keeps(Mean(r, c, Diagonal), r, c, Other(q))
  <2>1. /\ \A o \in Cross : InImage(o) => there(o) \in Like(G)
        /\ \A o \in (Cross \cup Diagonal) \ Cross : InImage(o) => there(o) # G
    BY <1>1, <1>3
  <2>2. /\ \A o \in Diagonal : InImage(o) => there(o) \in Like(Other(q))
        /\ \A o \in (Cross \cup Diagonal) \ Diagonal : InImage(o) => there(o) # Other(q)
    BY <1>1, <1>3
  <2>3. Keeps(Mean(r, c, Cross), r, c, G)
    BY <2>1, MeanKeeps DEF InImage, there
  <2>4. Keeps(Mean(r, c, Diagonal), r, c, Other(q))
    BY <1>3, <2>2, MeanKeeps DEF InImage, there
  <2> QED
    BY <2>3, <2>4
<1>4. ASSUME q = G
      PROVE  /\ Keeps(Mean(r, c, {East, West}), r, c, side)
             /\ Keeps(Mean(r, c, {North, South}), r, c, Other(side))
  <2>1. /\ \A o \in {East, West} : InImage(o) => there(o) \in Like(side)
        /\ \A o \in (Cross \cup Diagonal) \ {East, West} : InImage(o) => there(o) # side
    BY <1>1, <1>2, <1>4
  <2>2. /\ \A o \in {North, South} : InImage(o) => there(o) \in Like(Other(side))
        /\ \A o \in (Cross \cup Diagonal) \ {North, South} : InImage(o) => there(o) # Other(side)
    BY <1>1, <1>2, <1>4
  <2>3. {East, West} \in SUBSET Offsets /\ {North, South} \in SUBSET Offsets
    OBVIOUS
  <2>4. Keeps(Mean(r, c, {East, West}), r, c, side)
    BY <1>2, <1>4, <2>1, <2>3, MeanKeeps DEF InImage, there
  <2>5. Keeps(Mean(r, c, {North, South}), r, c, Other(side))
    BY <1>2, <1>4, <2>2, <2>3, MeanKeeps DEF InImage, there
  <2> QED
    BY <2>4, <2>5
<1> QED
  BY <1>3, <1>4, SiteKeeps DEF BilinearSite, q, side

LEMMA MalvarKeeps ==
  ASSUME call \in Calls, Malvar, Mosaic(call.tile), NEW r \in Rows, NEW c \in Cols,
         ColorAt(r, c) # E, NEW k \in {R, G, B}
  PROVE  Keeps(MalvarSite(r, c, Clamped(r, c))[k + 1], r, c, k)
<1> DEFINE q == ColorAt(r, c)
           side == Beside(r, c)
           InReal(o) == r + o[1] \in Nat /\ c + o[2] \in Nat
           there(o) == ColorAt(r + o[1], c + o[2])
           centre == {<<0, 0>>} \cup FarNS \cup FarEW
           ew == {East, West}
           ns == {North, South}
<1>0. Bayer
  BY DEF Malvar
<1>1. ASSUME NEW o \in Offsets, InReal(o)
      PROVE  /\ q \in {R, B} => /\ o \in Cross => there(o) \in {G, E}
                                /\ o \in Diagonal => there(o) = Other(q)
                                /\ o \in centre => there(o) = q
             /\ q = G => /\ o \in ew => there(o) = side
                         /\ o \in ns => there(o) = Other(side)
                         /\ o \in Diagonal \cup centre => there(o) \in {G, E}
  BY <1>0, <1>1, ColoursSeen
<1>2. q = G => side \in {R, B}
  BY <1>0, BesideIs, SizesAreNumbers DEF Rows, Cols
<1>3. /\ DOMAIN GreenKernel = Cross \cup centre
      /\ DOMAIN OppositeKernel = Diagonal \cup centre
      /\ DOMAIN HorizontalKernel = ew \cup Diagonal \cup centre
      /\ DOMAIN VerticalKernel = ns \cup Diagonal \cup centre
  BY KernelsWeighOne
<1>4. /\ Cross \cap centre = {} /\ Diagonal \cap centre = {} /\ Cross \cap Diagonal = {}
      /\ Cross = ew \cup ns
  BY OffsetKinds
<1> HIDE DEF q, side, InReal, there, centre, ew, ns, R, G, B, E
<1>5. ASSUME q \in {R, B}
      PROVE  /\ Keeps(Weighted(GreenKernel, Clamped(r, c)), r, c, G)
             /\ Keeps(Weighted(OppositeKernel, Clamped(r, c)), r, c, Other(q))
  <2>1. \A o \in DOMAIN GreenKernel : InReal(o) => (there(o) \in Like(G) <=> o \in Cross)
    BY <1>1, <1>3, <1>4, <1>5, KernelsUseOffsets, ColoursDiffer
  <2>2. \A o \in DOMAIN OppositeKernel : InReal(o) => (there(o) \in Like(Other(q)) <=> o \in Diagonal)
    BY <1>1, <1>3, <1>4, <1>5, KernelsUseOffsets, ColoursDiffer
  <2>3. Cross \in SUBSET DOMAIN GreenKernel /\ Diagonal \in SUBSET DOMAIN OppositeKernel
    BY <1>3
  <2>4. Keeps(Weighted(GreenKernel, Clamped(r, c)), r, c, G)
    BY <2>1, <2>3, WeightedKeeps, KernelsWeighOne, KernelsUseOffsets DEF InReal, there
  <2>5. Other(q) \in {R, G, B}
    BY <1>5, ColoursDiffer
  <2>6. Keeps(Weighted(OppositeKernel, Clamped(r, c)), r, c, Other(q))
    BY <2>2, <2>3, <2>5, WeightedKeeps, KernelsWeighOne, KernelsUseOffsets DEF InReal, there
  <2> QED
    BY <2>4, <2>6
<1>6. ASSUME q = G
      PROVE  /\ Keeps(Weighted(HorizontalKernel, Clamped(r, c)), r, c, side)
             /\ Keeps(Weighted(VerticalKernel, Clamped(r, c)), r, c, Other(side))
  <2>0. side \in {R, B} /\ Other(side) \in {R, B} /\ side \in {R, G, B} /\ Other(side) \in {R, G, B}
    BY <1>2, <1>6, ColoursDiffer
  <2>1. \A o \in DOMAIN HorizontalKernel : InReal(o) => (there(o) \in Like(side) <=> o \in ew)
    <3>1. ASSUME NEW o \in DOMAIN HorizontalKernel, InReal(o)
          PROVE  there(o) \in Like(side) <=> o \in ew
      <4>1. o \in Offsets /\ o \in ew \cup Diagonal \cup centre
        BY <1>3, KernelsUseOffsets
      <4>2. CASE o \in ew
        BY <1>1, <1>6, <2>0, <3>1, <4>1, <4>2, ColoursDiffer
      <4>3. CASE o \in Diagonal \cup centre
        <5>1. there(o) \in {G, E} /\ o \notin ew
          BY <1>1, <1>4, <1>6, <3>1, <4>1, <4>3
        <5> QED
          BY <2>0, <5>1, ColoursDiffer
      <4> QED
        BY <4>1, <4>2, <4>3
    <3> QED
      BY <3>1
  <2>2. \A o \in DOMAIN VerticalKernel : InReal(o) => (there(o) \in Like(Other(side)) <=> o \in ns)
    <3>1. ASSUME NEW o \in DOMAIN VerticalKernel, InReal(o)
          PROVE  there(o) \in Like(Other(side)) <=> o \in ns
      <4>1. o \in Offsets /\ o \in ns \cup Diagonal \cup centre
        BY <1>3, KernelsUseOffsets
      <4>2. CASE o \in ns
        BY <1>1, <1>6, <2>0, <3>1, <4>1, <4>2, ColoursDiffer
      <4>3. CASE o \in Diagonal \cup centre
        <5>1. there(o) \in {G, E} /\ o \notin ns
          BY <1>1, <1>4, <1>6, <3>1, <4>1, <4>3
        <5> QED
          BY <2>0, <5>1, ColoursDiffer
      <4> QED
        BY <4>1, <4>2, <4>3
    <3> QED
      BY <3>1
  <2>3. ew \in SUBSET DOMAIN HorizontalKernel /\ ns \in SUBSET DOMAIN VerticalKernel
    BY <1>3
  <2>4. Keeps(Weighted(HorizontalKernel, Clamped(r, c)), r, c, side)
    BY <2>0, <2>1, <2>3, WeightedKeeps, KernelsWeighOne, KernelsUseOffsets DEF InReal, there, ew
  <2>5. Keeps(Weighted(VerticalKernel, Clamped(r, c)), r, c, Other(side))
    BY <2>0, <2>2, <2>3, WeightedKeeps, KernelsWeighOne, KernelsUseOffsets DEF InReal, there, ns
  <2> QED
    BY <2>4, <2>5
<1> QED
  BY <1>0, <1>5, <1>6, SiteKeeps DEF MalvarSite, q, side

\* The two by two tiles the calls have are mosaics: the four patterns of the
\* Bayer cameras, and those with a fourth colour in place of a green.
Mosaics == \A k \in Calls : TwoByTwo(k.tile) => Mosaic(k.tile)

LEMMA BayerIsMosaic ==
  ASSUME Mosaics, call \in Calls, Bayer
  PROVE  Mosaic(call.tile)
<1>1. Described
  <2>1. ~Described => TileDims = <<0, 0>> /\ <<0, 0>> # <<2, 2>>
    BY DEF TileDims
  <2> QED
    BY <2>1 DEF Bayer
<1>2. <<Len(call.tile[1]), Len(call.tile)>> = <<2, 2>>
  BY <1>1 DEF Bayer, TileDims
<1>3. TwoByTwo(call.tile)
  BY <1>2 DEF TwoByTwo
<1> QED
  BY <1>3 DEF Mosaics

\* For images of every size and mosaics of every kind, a plain colour comes out
\* as that colour, by every method, and no channel that could be computed is
\* left at 0.0.
THEOREM KeepsColours ==
  ASSUME Mosaics
  PROVE  Spec => []ColoursKept
<1>1. ASSUME IInv
      PROVE  ColoursKept
  <2> SUFFICES ASSUME result = "ok", NEW r \in Rows, NEW c \in Cols, NEW k \in {R, G, B},
                      Bayer => ColorAt(r, c) # E
               PROVE  Keeps(rgb[At(r, c, w)][k + 1], r, c, k)
    BY DEF ColoursKept, Keeps, Like, AllColours
  <2>1. call \in Calls
    BY <1>1 DEF IInv, TypeOK
  <2>2. CASE ~Bayer
    BY <1>1, <2>1, <2>2, ReturnedPixels, GenericKeeps
  <2>3. CASE Bayer /\ ~Malvar
    BY <1>1, <2>1, <2>3, ReturnedPixels, BayerIsMosaic, BilinearKeeps
  <2>4. CASE Malvar
    <3>1. Bayer
      BY <2>4 DEF Malvar
    <3> QED
      BY <1>1, <2>1, <2>4, <3>1, ReturnedPixels, BayerIsMosaic, MalvarKeeps
  <2> QED
    BY <2>2, <2>3, <2>4
<1> QED
  BY <1>1, Invariant, PTL

-----------------------------------------------------------------------------
(* The picture is not moved.                                               *)

\* What Centred asks of a value at a pixel.
Balanced(v, r, c) ==
  /\ SumFunction([j \in DOMAIN v.taps |-> v.taps[j] * ((j \div w) - r)]) = 0
  /\ SumFunction([j \in DOMAIN v.taps |-> v.taps[j] * ((j % w) - c)]) = 0

\* The offset on the other side of the pixel.
Across(o) == <<-o[1], -o[2]>>

\* A kernel that weighs both sides alike.
Even(kernel) == \A o \in DOMAIN kernel : Across(o) \in DOMAIN kernel /\ kernel[Across(o)] = kernel[o]

LEMMA AcrossIs ==
  ASSUME NEW a \in Int, NEW b \in Int, NEW c \in Int, NEW d \in Int, a + c = 0, b + d = 0
  PROVE  Across(<<a, b>>) = <<c, d>>
<1>1. -a = c /\ -b = d
  OBVIOUS
<1> QED
  BY <1>1 DEF Across

LEMMA AcrossKeepsKinds ==
  /\ \A S \in {{<<0, 0>>}, Cross, Diagonal, FarNS, FarEW, FarNS \cup FarEW, {East, West}, {North, South}, {}} :
       \A o \in S : Across(o) \in S
  /\ \A o \in Offsets : Across(Across(o)) = o /\ Across(o) \in Offsets
<1>0. /\ 1 + (-1) = 0 /\ (-1) + 1 = 0 /\ 2 + (-2) = 0 /\ (-2) + 2 = 0 /\ 0 + 0 = 0
      /\ 0 \in Int /\ 1 \in Int /\ -1 \in Int /\ 2 \in Int /\ -2 \in Int
  OBVIOUS
<1>1. /\ Across(<<0, 0>>) = <<0, 0>>
      /\ Across(North) = South /\ Across(South) = North /\ Across(East) = West /\ Across(West) = East
  BY <1>0, AcrossIs DEF North, South, East, West
<1>2. Across(NE) = SW /\ Across(SW) = NE /\ Across(NW) = SE /\ Across(SE) = NW
  BY <1>0, AcrossIs DEF NE, NW, SE, SW
<1>3. /\ Across(<<-2, 0>>) = <<2, 0>> /\ Across(<<2, 0>>) = <<-2, 0>>
      /\ Across(<<0, -2>>) = <<0, 2>> /\ Across(<<0, 2>>) = <<0, -2>>
  BY <1>0, AcrossIs
<1> HIDE DEF Across, North, South, East, West, NE, NW, SE, SW
<1>4. /\ \A o \in Cross : Across(o) \in Cross /\ Across(Across(o)) = o
      /\ \A o \in {East, West} : Across(o) \in {East, West}
      /\ \A o \in {North, South} : Across(o) \in {North, South}
  BY <1>1 DEF Cross
<1>5. \A o \in Diagonal : Across(o) \in Diagonal /\ Across(Across(o)) = o
  BY <1>2 DEF Diagonal
<1>6. /\ \A o \in FarNS : Across(o) \in FarNS /\ Across(Across(o)) = o
      /\ \A o \in FarEW : Across(o) \in FarEW /\ Across(Across(o)) = o
  <2> DEFINE a == <<-2, 0>>
             b == <<2, 0>>
             c == <<0, 2>>
             d == <<0, -2>>
  <2>1. Across(a) = b /\ Across(b) = a /\ Across(c) = d /\ Across(d) = c
    BY <1>3
  <2>2. FarNS = {a, b} /\ FarEW = {c, d}
    BY DEF FarNS, FarEW
  <2> HIDE DEF a, b, c, d
  <2> QED
    BY <2>1, <2>2
<1>7. \A o \in {<<0, 0>>} : Across(o) \in {<<0, 0>>} /\ Across(Across(o)) = o
  BY <1>1
<1>8. \A o \in Offsets : Across(Across(o)) = o /\ Across(o) \in Offsets
  BY <1>4, <1>5, <1>6, <1>7 DEF Offsets
<1> QED
  BY <1>4, <1>5, <1>6, <1>7, <1>8

LEMMA KernelsAreEven ==
  Even(GreenKernel) /\ Even(OppositeKernel) /\ Even(HorizontalKernel) /\ Even(VerticalKernel)
<1> DEFINE Parted == {{<<0, 0>>}, Cross, Diagonal, FarNS, FarEW, FarNS \cup FarEW, {East, West}, {North, South}, {}}
<1>1. ASSUME NEW center, NEW near \in Parted, NEW n, NEW diagonal \in Parted, NEW d,
             NEW far \in Parted, NEW f, NEW others \in Parted, NEW g,
             near \cup diagonal \cup far \cup others \subseteq Offsets
      PROVE  Even(Kernel(center, near, n, diagonal, d, far, f, others, g))
  <2> DEFINE kernel == Kernel(center, near, n, diagonal, d, far, f, others, g)
  <2> SUFFICES ASSUME NEW o \in DOMAIN kernel
               PROVE  Across(o) \in DOMAIN kernel /\ kernel[Across(o)] = kernel[o]
    BY DEF Even
  <2>1. o \in {<<0, 0>>} \cup near \cup diagonal \cup far \cup others /\ o \in Offsets
    <3>1. <<0, 0>> \in Offsets
      BY DEF Offsets
    <3>2. DOMAIN kernel = {<<0, 0>>} \cup near \cup diagonal \cup far \cup others
      BY DEF Kernel
    <3> HIDE DEF Parted, kernel
    <3> QED
      BY <1>1, <3>1, <3>2
  <2>2. \A S \in Parted : Across(o) \in S <=> o \in S
    <3>1. \A S \in Parted : \A x \in S : Across(x) \in S
      BY AcrossKeepsKinds
    <3>2. Across(Across(o)) = o
      BY <2>1, AcrossKeepsKinds
    <3> HIDE DEF Parted
    <3> QED
      BY <3>1, <3>2
  <2>3. {<<0, 0>>} \in Parted
    OBVIOUS
  <2> HIDE DEF Parted
  <2>4. /\ Across(o) = <<0, 0>> <=> o = <<0, 0>>
        /\ Across(o) \in near <=> o \in near
        /\ Across(o) \in diagonal <=> o \in diagonal
        /\ Across(o) \in far <=> o \in far
        /\ Across(o) \in others <=> o \in others
    <3>1. Across(o) \in {<<0, 0>>} <=> o \in {<<0, 0>>}
      BY <2>2, <2>3
    <3> QED
      BY <1>1, <2>2, <3>1
  <2> QED
    BY <2>1, <2>4 DEF Kernel
<1>2. /\ Cross \in Parted /\ Diagonal \in Parted /\ FarNS \in Parted /\ FarEW \in Parted
      /\ FarNS \cup FarEW \in Parted /\ {East, West} \in Parted /\ {North, South} \in Parted /\ {} \in Parted
  OBVIOUS
<1>3. Cross \cup Diagonal \cup FarNS \cup FarEW \subseteq Offsets /\ {East, West} \cup {North, South} \subseteq Offsets
  BY OffsetKinds DEF Offsets
<1> HIDE DEF Parted, Kernel
<1>4. Even(GreenKernel)
  BY <1>1, <1>2, <1>3 DEF GreenKernel
<1>5. Even(OppositeKernel)
  BY <1>1, <1>2, <1>3 DEF OppositeKernel
<1>6. Even(HorizontalKernel)
  BY <1>1, <1>2, <1>3 DEF HorizontalKernel
<1>7. Even(VerticalKernel)
  BY <1>1, <1>2, <1>3 DEF VerticalKernel
<1> QED
  BY <1>4, <1>5, <1>6, <1>7

\* What is weighed alike on both sides has its centre at the pixel.  The
\* weights of a sample are those of the offsets it is found at.
LEMMA EvenBalances ==
  ASSUME call \in Calls, NEW kernel, IsFiniteSet(DOMAIN kernel), DOMAIN kernel \subseteq Offsets,
         kernel \in [DOMAIN kernel -> Int], Even(kernel), NEW fetch \in [Offsets -> Positions],
         NEW m \in [Positions -> Int], NEW along \in {1, 2},
         \A o \in DOMAIN kernel : m[fetch[o]] = o[along]
  PROVE  LET taps == Weighted(kernel, fetch).taps IN
           SumFunction([j \in DOMAIN taps |-> taps[j] * m[j]]) = 0
<1> DEFINE K == DOMAIN kernel
           taps == Weighted(kernel, fetch).taps
           D == DOMAIN taps
           P == [j \in D |-> {o \in K : fetch[o] = j}]
           g == [j \in D |-> taps[j] * m[j]]
           u == [o \in K |-> kernel[o] * o[along]]
           turn == [o \in K |-> Across(o)]
<1>1. /\ D = {fetch[o] : o \in K}
      /\ \A i \in D : taps[i] = SumFunctionOnSet(kernel, P[i])
  BY DEF Weighted
<1> HIDE DEF taps
<1>2. IsFiniteSet(D) /\ D \in SUBSET Positions
  <2>1. IsFiniteSet(Positions)
    BY PositionsAreFinite
  <2>2. D \in SUBSET Positions
    BY <1>1
  <2> QED
    BY <2>1, <2>2, FS_Subset
<1>3. Gathers(K, kernel, fetch, D, m, P, K, g, u)
  <2>1. IsFiniteSet(K) /\ \A o \in K : kernel[o] \in Int
    OBVIOUS
  <2>2. \A j \in D : m[j] \in Int /\ P[j] = {o \in K : fetch[o] = j}
    BY <1>2
  <2>3. \A j \in D : g[j] = SumFunctionOnSet(kernel, P[j]) * m[j]
    <3> HIDE DEF D, P
    <3> QED
      BY <1>1
  <2>4. \A o \in K : fetch[o] \in D
    BY <1>1
  <2>5. \A o \in K : u[o] = kernel[o] * m[fetch[o]]
    OBVIOUS
  <2> HIDE DEF K, D, P, g, u
  <2> QED
    BY <1>2, <2>1, <2>2, <2>3, <2>4, <2>5 DEF Gathers
<1>4. SumFunctionOnSet(g, D) = SumFunctionOnSet(u, K)
  BY <1>3, SumGathered
<1>5. turn \in [K -> K] /\ \A o \in K : u[o] \in Int /\ turn[turn[o]] = o /\ u[turn[o]] = -u[o]
  <2>1. turn \in [K -> K]
    BY DEF Even
  <2>2. ASSUME NEW o \in K
        PROVE  u[o] \in Int /\ turn[turn[o]] = o /\ u[turn[o]] = -u[o]
    <3>1. o \in Offsets /\ o[along] \in Int /\ kernel[o] \in Int
      BY OffsetsAreSmall
    <3>2. turn[o] = Across(o) /\ turn[o] \in K /\ kernel[turn[o]] = kernel[o]
      BY DEF Even
    <3>3. turn[turn[o]] = o
      BY <3>1, <3>2, AcrossKeepsKinds
    <3>4. turn[o][along] = -(o[along])
      BY <3>1, <3>2 DEF Across
    <3>5. u[o] = kernel[o] * o[along] /\ u[turn[o]] = kernel[o] * (-(o[along]))
      BY <3>2, <3>4
    <3>6. \A x, y \in Int : x * y \in Int /\ x * (-y) = -(x * y)
      OBVIOUS
    <3> HIDE DEF u, turn
    <3> QED
      BY <3>1, <3>3, <3>5, <3>6
  <2> QED
    BY <2>1, <2>2
<1>6. SumFunctionOnSet(u, K) = 0
  <2>1. IsFiniteSet(K)
    OBVIOUS
  <2> HIDE DEF K, u, turn
  <2> QED
    BY <1>5, <2>1, SumOfOpposites
<1>7. DOMAIN g = D
  OBVIOUS
<1>8. SumFunction(g) = 0
  <2> HIDE DEF g, D, u, K
  <2> QED
    BY <1>4, <1>6, <1>7 DEF SumFunction
<1> QED
  BY <1>8 DEF taps

LEMMA WeightedBalances ==
  ASSUME call \in Calls, NEW r \in Rows, NEW c \in Cols, OffTheEdge(r, c),
         NEW kernel, IsFiniteSet(DOMAIN kernel), DOMAIN kernel \subseteq Offsets,
         kernel \in [DOMAIN kernel -> Int], Even(kernel)
  PROVE  Balanced(Weighted(kernel, Clamped(r, c)), r, c)
<1> DEFINE fetch == Clamped(r, c)
           taps == Weighted(kernel, fetch).taps
           D == DOMAIN taps
           down == [j \in Positions |-> (j \div w) - r]
           right == [j \in Positions |-> (j % w) - c]
<1>1. fetch \in [Offsets -> Positions] /\ D \subseteq Positions
  BY ClampedIsInside, WeightedReads
<1>2. ASSUME NEW j \in Positions
      PROVE  (j \div w) - r \in Int /\ (j % w) - c \in Int
  <2>1. PICK a \in Rows, b \in Cols : j = At(a, b, w)
    BY PositionHasAPlace, SizesAreNumbers DEF Positions, Rows, Cols
  <2>2. j \div w = a /\ j % w = b
    BY <2>1, ColourOfPosition
  <2> QED
    BY <2>2 DEF Rows, Cols
<1>3. down \in [Positions -> Int] /\ right \in [Positions -> Int]
  BY <1>2
<1>4. ASSUME NEW o \in DOMAIN kernel
      PROVE  down[fetch[o]] = o[1] /\ right[fetch[o]] = o[2]
  <2>1. fetch[o] = At(r + o[1], c + o[2], w) /\ r + o[1] \in Rows /\ c + o[2] \in Cols
    BY ClampedOffTheEdge
  <2>2. fetch[o] \in Positions /\ fetch[o] \div w = r + o[1] /\ fetch[o] % w = c + o[2]
    BY <2>1, ColourOfPosition
  <2>3. o[1] \in Int /\ o[2] \in Int /\ r \in Int /\ c \in Int
    BY OffsetsAreSmall, SizesAreNumbers DEF Rows, Cols
  <2> HIDE DEF fetch
  <2> QED
    BY <2>2, <2>3
<1> HIDE DEF fetch, down, right
<1>5. SumFunction([j \in D |-> taps[j] * down[j]]) = 0
  BY <1>1, <1>3, <1>4, EvenBalances
<1>6. SumFunction([j \in D |-> taps[j] * right[j]]) = 0
  BY <1>1, <1>3, <1>4, EvenBalances
<1>7. [j \in D |-> taps[j] * down[j]] = [j \in D |-> taps[j] * ((j \div w) - r)]
  BY <1>1 DEF down
<1>8. [j \in D |-> taps[j] * right[j]] = [j \in D |-> taps[j] * ((j % w) - c)]
  BY <1>1 DEF right
<1> QED
  BY <1>5, <1>6, <1>7, <1>8 DEF Balanced, fetch

\* Off the edge a mean is a kernel whose weights are ones.
LEMMA MeanBalances ==
  ASSUME call \in Calls, NEW r \in Rows, NEW c \in Cols, OffTheEdge(r, c),
         NEW offsets \in SUBSET Offsets, offsets # {}, \A o \in offsets : Across(o) \in offsets
  PROVE  Balanced(Mean(r, c, offsets), r, c)
<1> DEFINE ones == [o \in offsets |-> 1]
           fetch == Clamped(r, c)
           places == Neighbours(r, c, offsets)
           taps == Weighted(ones, fetch).taps
<1>1. ASSUME NEW o \in offsets
      PROVE  /\ fetch[o] = At(r + o[1], c + o[2], w)
             /\ r + o[1] \in Rows /\ c + o[2] \in Cols
  BY ClampedOffTheEdge
<1> HIDE DEF fetch
<1>2. places = {<<r + o[1], c + o[2]>> : o \in offsets}
  BY <1>1 DEF Neighbours
<1>3. {At(p[1], p[2], w) : p \in places} = {fetch[o] : o \in offsets}
  <2>1. ASSUME NEW p \in places
        PROVE  \E o \in offsets : At(p[1], p[2], w) = fetch[o]
    <3>1. PICK o \in offsets : p = <<r + o[1], c + o[2]>>
      BY <1>2
    <3>2. p[1] = r + o[1] /\ p[2] = c + o[2]
      BY <3>1
    <3> QED
      BY <1>1, <3>2
  <2>2. ASSUME NEW o \in offsets
        PROVE  \E p \in places : At(p[1], p[2], w) = fetch[o]
    <3> DEFINE p == <<r + o[1], c + o[2]>>
    <3>1. p \in places /\ p[1] = r + o[1] /\ p[2] = c + o[2]
      BY <1>2
    <3> HIDE DEF p
    <3> QED
      BY <1>1, <3>1
  <2> HIDE DEF places
  <2> QED
    BY <2>1, <2>2
<1>4. places # {}
  BY <1>2
<1> HIDE DEF places
<1>5. Average(places).taps = [i \in {fetch[o] : o \in offsets} |-> 1]
  BY <1>3, <1>4 DEF Average
<1>6. ASSUME NEW o \in offsets, NEW p \in offsets, fetch[o] = fetch[p]
      PROVE  o = p
  <2>1. fetch[o] \div w = r + o[1] /\ fetch[o] % w = c + o[2]
    BY <1>1, ColourOfPosition
  <2>2. fetch[p] \div w = r + p[1] /\ fetch[p] % w = c + p[2]
    BY <1>1, ColourOfPosition
  <2>3. o[1] \in Int /\ o[2] \in Int /\ p[1] \in Int /\ p[2] \in Int /\ r \in Int /\ c \in Int
    BY OffsetsAreSmall, SizesAreNumbers DEF Rows, Cols
  <2>4. r + o[1] = r + p[1] /\ c + o[2] = c + p[2]
    BY <1>6, <2>1, <2>2
  <2>5. Across(o) = Across(p)
    BY <2>3, <2>4 DEF Across
  <2> QED
    BY <2>5, AcrossKeepsKinds
<1>7. DOMAIN taps = {fetch[o] : o \in offsets} /\ \A i \in DOMAIN taps : taps[i] = 1
  <2>1. /\ DOMAIN taps = {fetch[o] : o \in offsets}
        /\ \A i \in DOMAIN taps : taps[i] = SumFunctionOnSet(ones, {o \in offsets : fetch[o] = i})
    BY DEF Weighted
  <2> HIDE DEF taps
  <2> SUFFICES ASSUME NEW i \in DOMAIN taps
               PROVE  taps[i] = 1
    BY <2>1
  <2>2. PICK o \in offsets : i = fetch[o]
    BY <2>1
  <2>3. {p \in offsets : fetch[p] = i} = {o}
    BY <1>6, <2>2
  <2>4. SumFunctionOnSet(ones, {o}) = 1
    <3>1. ones[o] = 1 /\ ones[o] \in Int
      BY <2>2
    <3> HIDE DEF ones
    <3> QED
      BY <3>1, SumOfOne
  <2> QED
    BY <2>1, <2>3, <2>4
<1>8. taps = [i \in {fetch[o] : o \in offsets} |-> 1]
  <2>1. taps = [i \in DOMAIN taps |-> taps[i]]
    BY DEF Weighted
  <2> HIDE DEF taps
  <2> QED
    BY <1>7, <2>1
<1>9. Balanced(Weighted(ones, fetch), r, c)
  <2>1. DOMAIN ones = offsets /\ ones \in [DOMAIN ones -> Int] /\ IsFiniteSet(offsets)
    BY OffsetsAreFinite, FS_Subset
  <2>2. Even(ones)
    BY DEF Even
  <2> HIDE DEF ones
  <2> QED
    BY <2>1, <2>2, WeightedBalances DEF fetch
<1>10. Average(places).taps = taps
  BY <1>5, <1>8
<1> HIDE DEF taps
<1>11. Balanced(Average(places), r, c)
  BY <1>9, <1>10 DEF Balanced, taps
<1> QED
  BY <1>11 DEF Mean, places

LEMMA SampleBalances ==
  ASSUME call \in Calls, NEW r \in Rows, NEW c \in Cols
  PROVE  Balanced(Sample(At(r, c, w)), r, c) /\ Balanced(Nothing, r, c)
<1> DEFINE i == At(r, c, w)
           v == Sample(i)
           down == [j \in DOMAIN v.taps |-> v.taps[j] * ((j \div w) - r)]
           right == [j \in DOMAIN v.taps |-> v.taps[j] * ((j % w) - c)]
<1>1. i \div w = r /\ i % w = c /\ r \in Int /\ c \in Int
  BY ColourOfPosition, SizesAreNumbers DEF Rows, Cols
<1>2. DOMAIN v.taps = {i} /\ v.taps[i] = 1
  BY DEF Sample
<1>3. DOMAIN down = {i} /\ down[i] = 0 /\ DOMAIN right = {i} /\ right[i] = 0
  <2>1. r - r = 0 /\ c - c = 0
    BY <1>1
  <2>2. DOMAIN down = {i} /\ DOMAIN right = {i}
    BY <1>2
  <2>3. down[i] = 1 * (r - r) /\ right[i] = 1 * (c - c)
    <3> HIDE DEF i, v
    <3> QED
      BY <1>1, <1>2
  <2> HIDE DEF down, right
  <2> QED
    BY <2>1, <2>2, <2>3
<1> HIDE DEF down, right
<1>4. SumFunction(down) = 0 /\ SumFunction(right) = 0
  BY <1>3, SumOfOne DEF SumFunction
<1>5. Balanced(v, r, c)
  BY <1>4 DEF Balanced, down, right
<1>6. Balanced(Nothing, r, c)
  <2>1. DOMAIN Nothing.taps = {}
    BY DEF Nothing
  <2>2. /\ DOMAIN [j \in DOMAIN Nothing.taps |-> Nothing.taps[j] * ((j \div w) - r)] = {}
        /\ DOMAIN [j \in DOMAIN Nothing.taps |-> Nothing.taps[j] * ((j % w) - c)] = {}
    BY <2>1
  <2> QED
    BY <2>2, SumOfNone DEF Balanced, SumFunction
<1> QED
  BY <1>5, <1>6

LEMMA SiteBalances ==
  ASSUME call \in Calls, NEW r \in Rows, NEW c \in Cols, NEW a, NEW b, NEW x, NEW y,
         Balanced(a, r, c), Balanced(b, r, c), Balanced(x, r, c), Balanced(y, r, c), NEW k \in 1 .. 3
  PROVE  Balanced(Site(r, c, a, b, x, y)[k], r, c)
<1> DEFINE s == Sample(At(r, c, w))
<1>1. Site(r, c, a, b, x, y) \in {<<s, a, b>>, <<b, a, s>>, <<x, s, y>>, <<y, s, x>>, <<Nothing, s, Nothing>>}
  BY DEF Site
<1>2. Balanced(s, r, c) /\ Balanced(Nothing, r, c)
  BY SampleBalances
<1> HIDE DEF s
<1>3. Site(r, c, a, b, x, y)[k] \in {s, a, b, x, y, Nothing}
  BY <1>1
<1> QED
  BY <1>2, <1>3

\* For images of every size and tiles of every kind, no Bayer kernel moves the
\* picture.
THEOREM KeepsCentre == Spec => []Centred
<1>1. ASSUME IInv
      PROVE  Centred
  <2> SUFFICES ASSUME result = "ok", Bayer, NEW r \in Rows, NEW c \in Cols, NEW k \in 1 .. 3, OffTheEdge(r, c)
               PROVE  Balanced(rgb[At(r, c, w)][k], r, c)
    BY DEF Centred, Balanced
  <2>1. call \in Calls
    BY <1>1 DEF IInv, TypeOK
  <2>2. CASE ~Malvar
    <3>1. /\ Cross \in SUBSET Offsets /\ Diagonal \in SUBSET Offsets
          /\ {East, West} \in SUBSET Offsets /\ {North, South} \in SUBSET Offsets
          /\ Cross # {} /\ Diagonal # {}
      BY OffsetKinds DEF Diagonal
    <3>2. \A S \in {Cross, Diagonal, {East, West}, {North, South}} : \A o \in S : Across(o) \in S
      BY AcrossKeepsKinds
    <3>3. /\ Balanced(Mean(r, c, Cross), r, c) /\ Balanced(Mean(r, c, Diagonal), r, c)
          /\ Balanced(Mean(r, c, {East, West}), r, c) /\ Balanced(Mean(r, c, {North, South}), r, c)
      BY <2>1, <3>1, <3>2, MeanBalances
    <3>4. Balanced(BilinearSite(r, c)[k], r, c)
      BY <2>1, <3>3, SiteBalances DEF BilinearSite
    <3> QED
      BY <1>1, <2>2, <3>4, ReturnedPixels
  <2>3. CASE Malvar
    <3>1. /\ Balanced(Weighted(GreenKernel, Clamped(r, c)), r, c)
          /\ Balanced(Weighted(OppositeKernel, Clamped(r, c)), r, c)
          /\ Balanced(Weighted(HorizontalKernel, Clamped(r, c)), r, c)
          /\ Balanced(Weighted(VerticalKernel, Clamped(r, c)), r, c)
      BY <2>1, WeightedBalances, KernelsAreEven, KernelsUseOffsets, KernelsWeighOne
    <3>2. Balanced(MalvarSite(r, c, Clamped(r, c))[k], r, c)
      BY <2>1, <3>1, SiteBalances DEF MalvarSite
    <3> QED
      BY <1>1, <2>3, <3>2, ReturnedPixels
  <2> QED
    BY <2>2, <2>3
<1> QED
  BY <1>1, Invariant, PTL
=============================================================================
