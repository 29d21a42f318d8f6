---------------------------- MODULE Pages_proofs ----------------------------
(* Sums over finite sets, which the numbers of the frontend are made of, and   *)
(* what its pages are built from: the views of PatternPages, for any runs,     *)
(* failures, texts, windows and environments, and any order in which facts are *)
(* stored, restated and found; a load of the facts, which is whole for any     *)
(* number of writes meanwhile; trends and overview, which are honest for any   *)
(* days, metrics, releases and windows.                                        *)
EXTENDS PatternPages, FactsLoad, WeeklyReport, FiniteSetTheorems, WellFoundedInduction, TLAPS

-----------------------------------------------------------------------------
(* Finite sets and sums.                                                       *)

(* Induction over the subsets of a finite set: whatever set G has every set of *)
(* which it has all sets of one element less, has all of them.                 *)
Shrinks(S, G) ==
  /\ {} \in G
  /\ \A T \in SUBSET S : T # {} /\ (\A x \in T : T \ {x} \in G) => T \in G

Grows(S, G) ==
  /\ {} \in G
  /\ \A T \in G : \A x \in S \ T : T \subseteq S => T \cup {x} \in G

LEMMA ShrinkingSets ==
  ASSUME NEW S, IsFiniteSet(S), NEW G, Shrinks(S, G)
  PROVE  S \in G
<1> DEFINE R == StrictSubsetOrdering(S)
           bad == (SUBSET S) \ G
<1>1. IsWellFoundedOn(R, SUBSET S)
  BY FS_StrictSubsetOrderingWellFounded, FS_FiniteSubsetsOfFinite
<1>2. SUFFICES ASSUME bad # {} PROVE FALSE
  OBVIOUS
<1> HIDE DEF R, bad
<1>3. PICK T \in bad : \A U \in bad : ~(<<U, T>> \in R)
  BY <1>1, <1>2, WFMin, Zenon DEF bad
<1>4. T \subseteq S /\ T # {}
  BY DEF bad, Shrinks
<1>5. \A x \in T : <<T \ {x}, T>> \in R
  BY <1>4 DEF R, StrictSubsetOrdering
<1>6. \A x \in T : T \ {x} \in G
  BY <1>3, <1>4, <1>5 DEF bad
<1> QED
  BY <1>4, <1>6 DEF bad, Shrinks

LEMMA GrowingSets ==
  ASSUME NEW S, IsFiniteSet(S), NEW G, Grows(S, G)
  PROVE  S \in G
<1>1. ASSUME NEW T \in SUBSET S, T # {}, \A x \in T : T \ {x} \in G
      PROVE  T \in G
  <2>1. PICK x \in T : T \ {x} \in G
    BY <1>1
  <2>2. x \in S \ (T \ {x}) /\ T \ {x} \subseteq S /\ T = (T \ {x}) \cup {x}
    OBVIOUS
  <2> QED
    BY <2>1, <2>2 DEF Grows
<1>2. {} \in G
  BY DEF Grows
<1>3. Shrinks(S, G)
  BY <1>1, <1>2 DEF Shrinks
<1> QED
  BY <1>3, ShrinkingSets

Picked(s) == CHOOSE x \in s : TRUE
Body(f, g, s) == IF s = {} THEN 0 ELSE f[Picked(s)] + g[s \ {Picked(s)}]
IsSum(f, S, g) == g = [s \in SUBSET S |-> Body(f, g, s)]

LEMMA SumUnfold ==
  ASSUME NEW f, NEW S
  PROVE  SumFunctionOnSet(f, S) = (CHOOSE g : IsSum(f, S, g))[S]
BY DEF SumFunctionOnSet, FoldFunctionOnSet, MapThenFoldSet, IsSum, Body, Picked

LEMMA PickedIn == \A s : s # {} => Picked(s) \in s
BY DEF Picked

LEMMA SumUnique ==
  ASSUME NEW f, NEW S, NEW T, NEW g, NEW h, IsSum(f, S, g), IsSum(f, T, h),
         NEW U, U \subseteq S, U \subseteq T, IsFiniteSet(U)
  PROVE  g[U] = h[U]
<1> DEFINE G == {s \in SUBSET U : g[s] = h[s]}
<1>1. \A s \in SUBSET U : g[s] = Body(f, g, s) /\ h[s] = Body(f, h, s)
  BY DEF IsSum
<1>2. {} \in G
  BY <1>1 DEF Body
<1>3. ASSUME NEW s \in SUBSET U, s # {}, \A x \in s : s \ {x} \in G
      PROVE  s \in G
  BY <1>1, <1>3, PickedIn DEF Body
<1> HIDE DEF G
<1>4. U \in G
  <2>1. Shrinks(U, G)
    BY <1>2, <1>3 DEF Shrinks
  <2> QED
    BY <2>1, ShrinkingSets
<1> QED
  BY <1>4 DEF G

LEMMA SumRestrict ==
  ASSUME NEW f, NEW S, NEW g, IsSum(f, S, g), NEW T, T \subseteq S
  PROVE  IsSum(f, T, [s \in SUBSET T |-> g[s]])
<1> DEFINE h == [s \in SUBSET T |-> g[s]]
<1>1. \A s \in SUBSET T : g[s] = Body(f, g, s)
  BY DEF IsSum
<1>2. \A s \in SUBSET T : s \ {Picked(s)} \in SUBSET T
  OBVIOUS
<1>3. \A s \in SUBSET T : Body(f, h, s) = Body(f, g, s)
  BY <1>2 DEF Body
<1> QED
  BY <1>1, <1>3 DEF IsSum

LEMMA SumExists ==
  ASSUME NEW f, NEW S, IsFiniteSet(S)
  PROVE  \E g : IsSum(f, S, g)
<1> DEFINE G == {T \in SUBSET S : \E g : IsSum(f, T, g)}
<1>1. {} \in G
  <2> DEFINE g == [s \in SUBSET {} |-> 0]
  <2>1. IsSum(f, {}, g)
    BY DEF IsSum, Body
  <2> QED
    BY <2>1
<1>2. ASSUME NEW T \in SUBSET S, T # {}, \A x \in T : T \ {x} \in G
      PROVE  T \in G
  <2> DEFINE V(s) == IF s = T THEN f[Picked(T)] + SumFunctionOnSet(f, T \ {Picked(T)}) ELSE SumFunctionOnSet(f, s)
             g == [s \in SUBSET T |-> V(s)]
  <2>1. ASSUME NEW s \in SUBSET T, s # T
        PROVE  V(s) = Body(f, g, s)
    <3>1. PICK x \in T : s \subseteq T \ {x}
      BY <2>1
    <3>2. PICK h : IsSum(f, T \ {x}, h)
      BY <1>2
    <3>3. \A r \in SUBSET s : SumFunctionOnSet(f, r) = h[r]
      <4> SUFFICES ASSUME NEW r \in SUBSET s PROVE SumFunctionOnSet(f, r) = h[r]
        OBVIOUS
      <4>1. \E k : IsSum(f, r, k)
        BY <3>1, <3>2, SumRestrict
      <4>2. IsSum(f, r, CHOOSE k : IsSum(f, r, k))
        BY <4>1
      <4>3. IsFiniteSet(r)
        BY FS_Subset
      <4> QED
        BY <3>1, <3>2, <4>2, <4>3, SumUnfold, SumUnique
    <3>4. h[s] = Body(f, h, s)
      BY <3>1, <3>2 DEF IsSum
    <3>5. s \ {Picked(s)} \in SUBSET s /\ s \ {Picked(s)} \in SUBSET T /\ s \ {Picked(s)} # T
      BY <2>1
    <3>6. V(s) = h[s] /\ (s # {} => g[s \ {Picked(s)}] = h[s \ {Picked(s)}])
      BY <2>1, <3>3, <3>5
    <3> HIDE DEF g, V
    <3> QED
      BY <3>4, <3>6 DEF Body
  <2>2. V(T) = Body(f, g, T)
    <3>1. T \ {Picked(T)} \in SUBSET T /\ T \ {Picked(T)} # T
      BY <1>2, PickedIn
    <3> QED
      BY <1>2, <3>1 DEF Body
  <2>3. \A s \in SUBSET T : V(s) = Body(f, g, s)
    BY <2>1, <2>2
  <2>4. IsSum(f, T, g)
    BY <2>3 DEF IsSum
  <2> QED
    BY <2>4
<1> HIDE DEF G
<1>3. S \in G
  <2>1. Shrinks(S, G)
    BY <1>1, <1>2 DEF Shrinks
  <2> QED
    BY <2>1, ShrinkingSets
<1> QED
  BY <1>3 DEF G

LEMMA SumDef ==
  ASSUME NEW f, NEW S, IsFiniteSet(S)
  PROVE  SumFunctionOnSet(f, S) = IF S = {} THEN 0 ELSE f[Picked(S)] + SumFunctionOnSet(f, S \ {Picked(S)})
<1> DEFINE g == CHOOSE g : IsSum(f, S, g)
           T == S \ {Picked(S)}
           h == CHOOSE h : IsSum(f, T, h)
<1>1. IsFiniteSet(T) /\ T \subseteq S
  BY FS_Subset
<1>2. IsSum(f, S, g) /\ IsSum(f, T, h)
  BY <1>1, SumExists
<1>3. g[T] = h[T]
  BY <1>1, <1>2, SumUnique
<1>4. g[S] = Body(f, g, S)
  BY <1>2 DEF IsSum
<1> QED
  BY <1>3, <1>4, SumUnfold, SMTT(30) DEF Body

LEMMA SumEmpty == \A f : SumFunctionOnSet(f, {}) = 0
BY SumDef, FS_EmptySet

LEMMA SumInt ==
  ASSUME NEW f, NEW S, IsFiniteSet(S), \A x \in S : f[x] \in Int
  PROVE  SumFunctionOnSet(f, S) \in Int
<1> DEFINE G == {T \in SUBSET S : SumFunctionOnSet(f, T) \in Int}
<1>1. {} \in G
  BY SumEmpty
<1>2. ASSUME NEW T \in SUBSET S, T # {}, \A x \in T : T \ {x} \in G
      PROVE  T \in G
  <2>1. Picked(T) \in T /\ IsFiniteSet(T)
    BY <1>2, PickedIn, FS_Subset
  <2>2. SumFunctionOnSet(f, T) = f[Picked(T)] + SumFunctionOnSet(f, T \ {Picked(T)})
    BY <1>2, <2>1, SumDef
  <2> QED
    BY <1>2, <2>1, <2>2
<1> HIDE DEF G
<1>3. \A T \in SUBSET S : T # {} /\ (\A y \in T : T \ {y} \in G) => T \in G
  BY <1>2
<1>4. S \in G
  <2>1. Shrinks(S, G)
    BY <1>1, <1>3 DEF Shrinks
  <2> QED
    BY <2>1, ShrinkingSets
<1> QED
  BY <1>4 DEF G

(* The order in which elements are added does not matter.                      *)
LEMMA SumRemove ==
  ASSUME NEW f, NEW S, IsFiniteSet(S), \A x \in S : f[x] \in Int, NEW x \in S
  PROVE  SumFunctionOnSet(f, S) = SumFunctionOnSet(f, S \ {x}) + f[x]
<1> DEFINE G == {T \in SUBSET S : \A y \in T : SumFunctionOnSet(f, T) = SumFunctionOnSet(f, T \ {y}) + f[y]}
<1>0. \A T \in SUBSET S : SumFunctionOnSet(f, T) \in Int /\ IsFiniteSet(T)
  BY SumInt, FS_Subset
<1>1. {} \in G
  OBVIOUS
<1>2. ASSUME NEW T \in SUBSET S, T # {}, \A y \in T : T \ {y} \in G
      PROVE  T \in G
  <2> SUFFICES ASSUME NEW y \in T PROVE SumFunctionOnSet(f, T) = SumFunctionOnSet(f, T \ {y}) + f[y]
    OBVIOUS
  <2> DEFINE c == Picked(T)
  <2>1. c \in T /\ SumFunctionOnSet(f, T) = f[c] + SumFunctionOnSet(f, T \ {c})
    BY <1>0, <1>2, PickedIn, SumDef
  <2> HIDE DEF c
  <2>2. CASE c = y
    BY <1>0, <2>1, <2>2
  <2>3. CASE c # y
    <3>1. SumFunctionOnSet(f, T \ {c}) = SumFunctionOnSet(f, (T \ {c}) \ {y}) + f[y]
      BY <1>2, <2>1, <2>3
    <3>2. SumFunctionOnSet(f, T \ {y}) = SumFunctionOnSet(f, (T \ {y}) \ {c}) + f[c]
      BY <1>2, <2>1, <2>3
    <3>3. (T \ {c}) \ {y} = (T \ {y}) \ {c}
      OBVIOUS
    <3>4. SumFunctionOnSet(f, (T \ {y}) \ {c}) = SumFunctionOnSet(f, (T \ {c}) \ {y})
      BY <3>3
    <3>5. SumFunctionOnSet(f, (T \ {c}) \ {y}) \in Int /\ f[c] \in Int /\ f[y] \in Int
      BY <1>0, <2>1
    <3> HIDE DEF G
    <3> QED
      BY <2>1, <3>1, <3>2, <3>4, <3>5
  <2> QED
    BY <2>2, <2>3
<1> HIDE DEF G
<1>3. \A T \in SUBSET S : T # {} /\ (\A y \in T : T \ {y} \in G) => T \in G
  BY <1>2
<1>4. S \in G
  <2>1. Shrinks(S, G)
    BY <1>1, <1>3 DEF Shrinks
  <2> QED
    BY <2>1, ShrinkingSets
<1> QED
  BY <1>4 DEF G

LEMMA SumGrow ==
  ASSUME NEW f, NEW S, IsFiniteSet(S), NEW x, x \notin S, \A y \in S \cup {x} : f[y] \in Int
  PROVE  SumFunctionOnSet(f, S \cup {x}) = SumFunctionOnSet(f, S) + f[x]
<1>1. IsFiniteSet(S \cup {x}) /\ (S \cup {x}) \ {x} = S
  BY FS_AddElement
<1>2. SumFunctionOnSet(f, S \cup {x}) = SumFunctionOnSet(f, (S \cup {x}) \ {x}) + f[x]
  BY <1>1, SumRemove
<1> QED
  BY <1>1, <1>2

LEMMA SumNat ==
  ASSUME NEW f, NEW S, IsFiniteSet(S), \A x \in S : f[x] \in Nat
  PROVE  SumFunctionOnSet(f, S) \in Nat
<1> DEFINE G == {T \in SUBSET S : SumFunctionOnSet(f, T) \in Nat}
<1>1. {} \in G
  BY SumEmpty
<1>2. \A T \in G : \A x \in S \ T : T \subseteq S => T \cup {x} \in G
  BY SumGrow, FS_Subset
<1> HIDE DEF G
<1>3. S \in G
  <2>1. Grows(S, G)
    BY <1>1, <1>2 DEF Grows
  <2> QED
    BY <2>1, GrowingSets
<1> QED
  BY <1>3 DEF G

(* Sums are compared, added and multiplied value by value.                     *)
LEMMA SumAtMost ==
  ASSUME NEW f, NEW g, NEW S, IsFiniteSet(S),
         \A x \in S : f[x] \in Int /\ g[x] \in Int /\ f[x] <= g[x]
  PROVE  SumFunctionOnSet(f, S) <= SumFunctionOnSet(g, S)
<1> DEFINE G == {T \in SUBSET S : SumFunctionOnSet(f, T) <= SumFunctionOnSet(g, T)}
<1>1. {} \in G
  BY SumEmpty
<1>2. \A T \in G : \A x \in S \ T : T \subseteq S => T \cup {x} \in G
  <2> SUFFICES ASSUME NEW T \in G, NEW x \in S \ T PROVE T \cup {x} \in G
    OBVIOUS
  <2>1. IsFiniteSet(T) /\ \A y \in T \cup {x} : f[y] \in Int /\ g[y] \in Int /\ f[y] <= g[y]
    BY FS_Subset
  <2>2. /\ SumFunctionOnSet(f, T \cup {x}) = SumFunctionOnSet(f, T) + f[x]
        /\ SumFunctionOnSet(g, T \cup {x}) = SumFunctionOnSet(g, T) + g[x]
    BY <2>1, SumGrow
  <2>3. SumFunctionOnSet(f, T) \in Int /\ SumFunctionOnSet(g, T) \in Int
    BY <2>1, SumInt
  <2> QED
    BY <2>1, <2>2, <2>3
<1> HIDE DEF G
<1>3. S \in G
  <2>1. Grows(S, G)
    BY <1>1, <1>2 DEF Grows
  <2> QED
    BY <2>1, GrowingSets
<1> QED
  BY <1>3 DEF G

LEMMA SumAlike ==
  ASSUME NEW f, NEW g, NEW S, IsFiniteSet(S), \A x \in S : f[x] \in Int /\ g[x] = f[x]
  PROVE  SumFunctionOnSet(f, S) = SumFunctionOnSet(g, S)
BY SumAtMost, SumInt

LEMMA SumOfTwo ==
  ASSUME NEW f, NEW g, NEW h, NEW S, IsFiniteSet(S),
         \A x \in S : f[x] \in Int /\ g[x] \in Int /\ h[x] = f[x] + g[x]
  PROVE  SumFunctionOnSet(h, S) = SumFunctionOnSet(f, S) + SumFunctionOnSet(g, S)
<1> DEFINE G == {T \in SUBSET S : SumFunctionOnSet(h, T) = SumFunctionOnSet(f, T) + SumFunctionOnSet(g, T)}
<1>1. {} \in G
  BY SumEmpty
<1>2. \A T \in G : \A x \in S \ T : T \subseteq S => T \cup {x} \in G
  <2> SUFFICES ASSUME NEW T \in G, NEW x \in S \ T PROVE T \cup {x} \in G
    OBVIOUS
  <2>1. IsFiniteSet(T) /\ \A y \in T \cup {x} : f[y] \in Int /\ g[y] \in Int /\ h[y] = f[y] + g[y]
    BY FS_Subset
  <2>2. /\ SumFunctionOnSet(f, T \cup {x}) = SumFunctionOnSet(f, T) + f[x]
        /\ SumFunctionOnSet(g, T \cup {x}) = SumFunctionOnSet(g, T) + g[x]
        /\ SumFunctionOnSet(h, T \cup {x}) = SumFunctionOnSet(h, T) + h[x]
    BY <2>1, SumGrow
  <2>3. SumFunctionOnSet(f, T) \in Int /\ SumFunctionOnSet(g, T) \in Int
    BY <2>1, SumInt
  <2> QED
    BY <2>1, <2>2, <2>3
<1> HIDE DEF G
<1>3. S \in G
  <2>1. Grows(S, G)
    BY <1>1, <1>2 DEF Grows
  <2> QED
    BY <2>1, GrowingSets
<1> QED
  BY <1>3 DEF G

LEMMA SumZero ==
  ASSUME NEW f, NEW S, IsFiniteSet(S), \A x \in S : f[x] = 0
  PROVE  SumFunctionOnSet(f, S) = 0
<1> DEFINE G == {T \in SUBSET S : SumFunctionOnSet(f, T) = 0}
<1>1. {} \in G
  BY SumEmpty
<1>2. \A T \in G : \A x \in S \ T : T \subseteq S => T \cup {x} \in G
  BY SumGrow, FS_Subset
<1> HIDE DEF G
<1>3. S \in G
  <2>1. Grows(S, G)
    BY <1>1, <1>2 DEF Grows
  <2> QED
    BY <2>1, GrowingSets
<1> QED
  BY <1>3 DEF G

(* A sum over disjoint sets is the sum of the sums.                            *)
LEMMA SumDisjoint ==
  ASSUME NEW f, NEW S, NEW U, IsFiniteSet(S), IsFiniteSet(U), S \cap U = {},
         \A x \in S \cup U : f[x] \in Int
  PROVE  SumFunctionOnSet(f, S \cup U) = SumFunctionOnSet(f, S) + SumFunctionOnSet(f, U)
<1> DEFINE G == {T \in SUBSET U : SumFunctionOnSet(f, S \cup T) = SumFunctionOnSet(f, S) + SumFunctionOnSet(f, T)}
<1>1. {} \in G
  <2>1. S \cup {} = S /\ SumFunctionOnSet(f, S) \in Int
    BY SumInt
  <2> QED
    BY <2>1, SumEmpty
<1>2. \A T \in G : \A x \in U \ T : T \subseteq U => T \cup {x} \in G
  <2> SUFFICES ASSUME NEW T \in G, NEW x \in U \ T PROVE T \cup {x} \in G
    OBVIOUS
  <2>1. IsFiniteSet(T) /\ IsFiniteSet(S \cup T) /\ x \notin S \cup T /\ T \subseteq U /\ x \in U
    BY FS_Subset, FS_Union
  <2>2. SumFunctionOnSet(f, (S \cup T) \cup {x}) = SumFunctionOnSet(f, S \cup T) + f[x]
    BY <2>1, SumGrow
  <2>3. SumFunctionOnSet(f, T \cup {x}) = SumFunctionOnSet(f, T) + f[x]
    BY <2>1, SumGrow
  <2>4. SumFunctionOnSet(f, T) \in Int /\ SumFunctionOnSet(f, S) \in Int /\ f[x] \in Int
    BY <2>1, SumInt
  <2>5. (S \cup T) \cup {x} = S \cup (T \cup {x})
    OBVIOUS
  <2>6. SumFunctionOnSet(f, S \cup T) = SumFunctionOnSet(f, S) + SumFunctionOnSet(f, T)
    OBVIOUS
  <2>7. SumFunctionOnSet(f, S \cup (T \cup {x})) = SumFunctionOnSet(f, S \cup T) + f[x]
    BY <2>2, <2>5
  <2> HIDE DEF G
  <2>8. SumFunctionOnSet(f, S \cup (T \cup {x})) = SumFunctionOnSet(f, S) + SumFunctionOnSet(f, T \cup {x})
    BY <2>3, <2>4, <2>6, <2>7
  <2> USE DEF G
  <2> QED
    BY <2>1, <2>8
<1> HIDE DEF G
<1>3. U \in G
  <2>1. Grows(U, G)
    BY <1>1, <1>2 DEF Grows
  <2> QED
    BY <2>1, GrowingSets
<1> QED
  BY <1>3 DEF G

(* What is zero does not count.                                                *)
LEMMA SumIgnoresZero ==
  ASSUME NEW f, NEW S, IsFiniteSet(S), NEW T \in SUBSET S,
         \A x \in T : f[x] \in Int, \A x \in S \ T : f[x] = 0
  PROVE  SumFunctionOnSet(f, S) = SumFunctionOnSet(f, T)
<1>1. IsFiniteSet(T) /\ IsFiniteSet(S \ T) /\ T \cup (S \ T) = S /\ T \cap (S \ T) = {}
  BY FS_Subset
<1>2. SumFunctionOnSet(f, S \ T) = 0 /\ SumFunctionOnSet(f, T) \in Int
  BY <1>1, SumZero, SumInt
<1>3. SumFunctionOnSet(f, T \cup (S \ T)) = SumFunctionOnSet(f, T) + SumFunctionOnSet(f, S \ T)
  BY <1>1, SumDisjoint
<1>4. SumFunctionOnSet(f, T \cup (S \ T)) = SumFunctionOnSet(f, S)
  BY <1>1
<1> QED
  BY <1>2, <1>3, <1>4

(* The values of a function.                                                   *)
Values(f, S) == {f[x] : x \in S}

(* A sum of sums over disjoint parts, and of their numbers of elements.        *)
LEMMA SumOfParts ==
  ASSUME NEW f, NEW S, IsFiniteSet(S), NEW parts, NEW h,
         \A x \in S : IsFiniteSet(parts[x]) /\ h[x] = SumFunctionOnSet(f, parts[x]),
         NEW whole, whole = UNION Values(parts, S), \A e \in whole : f[e] \in Int,
         \A x, y \in S : x # y => parts[x] \cap parts[y] = {}
  PROVE  IsFiniteSet(whole) /\ SumFunctionOnSet(h, S) = SumFunctionOnSet(f, whole)
<1> DEFINE All(T) == UNION Values(parts, T)
           G == {T \in SUBSET S : IsFiniteSet(All(T)) /\ SumFunctionOnSet(h, T) = SumFunctionOnSet(f, All(T))}
<1>a. \A x \in S : \A e \in parts[x] : f[e] \in Int
  BY DEF Values
<1>0. \A x \in S : h[x] \in Int
  BY <1>a, SumInt
<1>1. {} \in G
  <2>1. All({}) = {}
    BY DEF Values
  <2> QED
    BY <2>1, SumEmpty, FS_EmptySet
<1>2. \A T \in G : \A x \in S \ T : T \subseteq S => T \cup {x} \in G
  <2> SUFFICES ASSUME NEW T \in G, NEW x \in S \ T PROVE T \cup {x} \in G
    OBVIOUS
  <2>1. IsFiniteSet(T) /\ T \subseteq S /\ x \in S /\ IsFiniteSet(All(T))
    BY FS_Subset
  <2>2. All(T \cup {x}) = All(T) \cup parts[x] /\ All(T) \cap parts[x] = {}
    BY <2>1 DEF Values
  <2>3. SumFunctionOnSet(h, T \cup {x}) = SumFunctionOnSet(h, T) + h[x]
    BY <1>0, <2>1, SumGrow
  <2>4. \A e \in All(T) \cup parts[x] : f[e] \in Int
    BY <1>a, <2>1 DEF Values
  <2>5. SumFunctionOnSet(f, All(T) \cup parts[x]) = SumFunctionOnSet(f, All(T)) + SumFunctionOnSet(f, parts[x])
    BY <2>1, <2>2, <2>4, SumDisjoint
  <2>6. IsFiniteSet(All(T) \cup parts[x])
    BY <2>1, FS_Union
  <2> QED
    BY <2>1, <2>2, <2>3, <2>5, <2>6
<1> HIDE DEF G
<1>3. S \in G
  <2>1. Grows(S, G)
    BY <1>1, <1>2 DEF Grows
  <2> QED
    BY <2>1, GrowingSets
<1> QED
  BY <1>3 DEF G

LEMMA CardinalityOfTwo ==
  ASSUME NEW S, NEW T, IsFiniteSet(S), IsFiniteSet(T), S \cap T = {}
  PROVE  /\ IsFiniteSet(S \cup T)
         /\ Cardinality(S \cup T) = Cardinality(S) + Cardinality(T)
<1>1. Cardinality(S \cap T) = 0 /\ Cardinality(S) \in Nat /\ Cardinality(T) \in Nat
  BY FS_EmptySet, FS_CardinalityType
<1>2. IsFiniteSet(S \cup T) /\ Cardinality(S \cup T) = Cardinality(S) + Cardinality(T) - Cardinality(S \cap T)
  BY FS_Union
<1> QED
  BY <1>1, <1>2

LEMMA SumOfCardinalities ==
  ASSUME NEW S, IsFiniteSet(S), NEW parts, NEW h,
         \A x \in S : IsFiniteSet(parts[x]) /\ h[x] = Cardinality(parts[x]),
         \A x, y \in S : x # y => parts[x] \cap parts[y] = {}
  PROVE  /\ IsFiniteSet(UNION Values(parts, S))
         /\ SumFunctionOnSet(h, S) = Cardinality(UNION Values(parts, S))
<1> DEFINE All(T) == UNION Values(parts, T)
           G == {T \in SUBSET S : IsFiniteSet(All(T)) /\ SumFunctionOnSet(h, T) = Cardinality(All(T))}
<1>0. \A x \in S : h[x] \in Int
  BY FS_CardinalityType
<1>1. {} \in G
  <2>1. All({}) = {}
    BY DEF Values
  <2> QED
    BY <2>1, SumEmpty, FS_EmptySet
<1>2. \A T \in G : \A x \in S \ T : T \subseteq S => T \cup {x} \in G
  <2> SUFFICES ASSUME NEW T \in G, NEW x \in S \ T PROVE T \cup {x} \in G
    OBVIOUS
  <2>1. IsFiniteSet(T) /\ T \subseteq S /\ x \in S /\ IsFiniteSet(All(T))
    BY FS_Subset
  <2>2. All(T \cup {x}) = All(T) \cup parts[x] /\ All(T) \cap parts[x] = {}
    BY <2>1 DEF Values
  <2>3. SumFunctionOnSet(h, T \cup {x}) = SumFunctionOnSet(h, T) + h[x]
    BY <1>0, <2>1, SumGrow
  <2>4. /\ IsFiniteSet(All(T) \cup parts[x])
        /\ Cardinality(All(T) \cup parts[x]) = Cardinality(All(T)) + Cardinality(parts[x])
    BY <2>1, <2>2, CardinalityOfTwo
  <2> QED
    BY <2>1, <2>2, <2>3, <2>4
<1> HIDE DEF G
<1>3. S \in G
  <2>1. Grows(S, G)
    BY <1>1, <1>2 DEF Grows
  <2> QED
    BY <2>1, GrowingSets
<1> QED
  BY <1>3 DEF G

(* A set of finitely many integers has a least and a greatest element.         *)
LEMMA MinIn ==
  ASSUME NEW S \in SUBSET Int, IsFiniteSet(S), S # {}
  PROVE  \E m \in S : \A x \in S : m <= x
<1> DEFINE G == {T \in SUBSET S : T # {} => \E m \in T : \A x \in T : m <= x}
<1>1. {} \in G
  OBVIOUS
<1>2. \A T \in G : \A x \in S \ T : T \subseteq S => T \cup {x} \in G
  <2> SUFFICES ASSUME NEW T \in G, NEW x \in S \ T PROVE T \cup {x} \in G
    OBVIOUS
  <2>1. CASE T = {}
    BY <2>1
  <2>2. CASE T # {}
    <3>1. PICK m \in T : \A y \in T : m <= y
      BY <2>2
    <3>2. \A y \in T \cup {x} : (IF m <= x THEN m ELSE x) <= y
      BY <3>1
    <3> QED
      BY <3>1, <3>2
  <2> QED
    BY <2>1, <2>2
<1> HIDE DEF G
<1>3. S \in G
  <2>1. Grows(S, G)
    BY <1>1, <1>2 DEF Grows
  <2> QED
    BY <2>1, GrowingSets
<1> QED
  BY <1>3 DEF G

LEMMA MaxIn ==
  ASSUME NEW S \in SUBSET Int, IsFiniteSet(S), S # {}
  PROVE  \E m \in S : \A x \in S : x <= m
<1> DEFINE G == {T \in SUBSET S : T # {} => \E m \in T : \A x \in T : x <= m}
<1>1. {} \in G
  OBVIOUS
<1>2. \A T \in G : \A x \in S \ T : T \subseteq S => T \cup {x} \in G
  <2> SUFFICES ASSUME NEW T \in G, NEW x \in S \ T PROVE T \cup {x} \in G
    OBVIOUS
  <2>1. CASE T = {}
    BY <2>1
  <2>2. CASE T # {}
    <3>1. PICK m \in T : \A y \in T : y <= m
      BY <2>2
    <3>2. \A y \in T \cup {x} : y <= (IF m <= x THEN x ELSE m)
      BY <3>1
    <3> QED
      BY <3>1, <3>2
  <2> QED
    BY <2>1, <2>2
<1> HIDE DEF G
<1>3. S \in G
  <2>1. Grows(S, G)
    BY <1>1, <1>2 DEF Grows
  <2> QED
    BY <2>1, GrowingSets
<1> QED
  BY <1>3 DEF G
LEMMA MinIs ==
  ASSUME NEW S \in SUBSET Int, IsFiniteSet(S), S # {}
  PROVE  Min(S) \in S /\ \A x \in S : Min(S) <= x
<1>1. \E m \in S : \A x \in S : m <= x
  BY MinIn
<1> QED
  BY <1>1 DEF Min

LEMMA MaxIs ==
  ASSUME NEW S \in SUBSET Int, IsFiniteSet(S), S # {}
  PROVE  Max(S) \in S /\ \A x \in S : x <= Max(S)
<1>1. \E m \in S : \A x \in S : m >= x
  BY MaxIn
<1>2. Max(S) \in S /\ \A x \in S : Max(S) >= x
  BY <1>1 DEF Max
<1> QED
  BY <1>2

LEMMA ValuesGrow ==
  \A f, S, x : Values(f, {}) = {} /\ Values(f, S \cup {x}) = Values(f, S) \cup {f[x]}
BY DEF Values

LEMMA ValuesFinite ==
  ASSUME NEW f, NEW S, IsFiniteSet(S)
  PROVE  IsFiniteSet(Values(f, S))
<1> DEFINE G == {T \in SUBSET S : IsFiniteSet(Values(f, T))}
<1>1. {} \in G
  BY ValuesGrow, FS_EmptySet
<1>2. \A T \in G : \A x \in S \ T : T \subseteq S => T \cup {x} \in G
  <2> SUFFICES ASSUME NEW T \in G, NEW x \in S \ T PROVE T \cup {x} \in G
    OBVIOUS
  <2>1. Values(f, T \cup {x}) = Values(f, T) \cup {f[x]}
    BY ValuesGrow
  <2>2. IsFiniteSet(Values(f, T) \cup {f[x]})
    BY FS_AddElement
  <2> QED
    BY <2>1, <2>2
<1> HIDE DEF G
<1>3. S \in G
  <2>1. Grows(S, G)
    BY <1>1, <1>2 DEF Grows
  <2> QED
    BY <2>1, GrowingSets
<1> QED
  BY <1>3 DEF G

LEMMA ValuesCount ==
  ASSUME NEW f, NEW S, IsFiniteSet(S), \A x, y \in S : f[x] = f[y] => x = y
  PROVE  Cardinality(Values(f, S)) = Cardinality(S)
<1> DEFINE G == {T \in SUBSET S : Cardinality(Values(f, T)) = Cardinality(T)}
<1>1. {} \in G
  BY ValuesGrow, FS_EmptySet
<1>2. \A T \in G : \A x \in S \ T : T \subseteq S => T \cup {x} \in G
  <2> SUFFICES ASSUME NEW T \in G, NEW x \in S \ T PROVE T \cup {x} \in G
    OBVIOUS
  <2>1. Values(f, T \cup {x}) = Values(f, T) \cup {f[x]} /\ f[x] \notin Values(f, T)
    BY ValuesGrow DEF Values
  <2>2. IsFiniteSet(T) /\ IsFiniteSet(Values(f, T))
    BY FS_Subset, ValuesFinite
  <2>3. Cardinality(T \cup {x}) = Cardinality(T) + 1
    BY <2>2, FS_AddElement
  <2>4. Cardinality(Values(f, T) \cup {f[x]}) = Cardinality(Values(f, T)) + 1
    BY <2>1, <2>2, FS_AddElement
  <2> QED
    BY <2>1, <2>3, <2>4
<1> HIDE DEF G
<1>3. S \in G
  <2>1. Grows(S, G)
    BY <1>1, <1>2 DEF Grows
  <2> QED
    BY <2>1, GrowingSets
<1> QED
  BY <1>3 DEF G

-----------------------------------------------------------------------------
(* The facts: what a run and a failure of the store are.                       *)

RunType(u) ==
  [url : {u}, env : {RunEnv[u]}, time : RunTimes[u], failed : {TRUE}, good : BOOLEAN, pr : RunPRs[u]]
RowRight(row) ==
  \E f \in Failures, t \in Int : \E shape \in Shapes[f] :
    t \in RunTimes[FailureRun[f]] /\ row = RowOf(f, shape, t)

FactsInv ==
  /\ facts = [runs |-> facts.runs, rows |-> facts.rows]
  /\ IsFiniteSet(facts.runs) /\ IsFiniteSet(facts.rows)
  /\ \A r \in facts.runs : r.url \in Runs /\ r \in RunType(r.url)
  /\ \A r, s \in facts.runs : r.url = s.url => r = s
  /\ \A row \in facts.rows : row.id \in Failures /\ row.url = FailureRun[row.id] /\ Known(row.url)
  /\ \A row, other \in facts.rows : row.id = other.id => row = other
  /\ \A row \in facts.rows : RowRight(row)
  /\ restates \in 0..MaxRestates

LEMMA InitFacts == FactsInit => FactsInv
BY PagesAssumption, FS_EmptySet DEF FactsInit, FactsInv

LEMMA RunOfKnown ==
  ASSUME FactsInv, NEW u, Known(u)
  PROVE  /\ RunOf(u) \in facts.runs /\ RunOf(u).url = u /\ u \in Runs /\ RunOf(u) \in RunType(u)
         /\ \A r \in facts.runs : r.url = u => r = RunOf(u)
BY DEF FactsInv, Known, RunOf

LEMMA RunTypeKept ==
  ASSUME NEW u, NEW r \in RunType(u)
  PROVE  /\ r.time \in RunTimes[u]
         /\ [r EXCEPT !.good = TRUE] \in RunType(u)
         /\ \A t \in RunTimes[u] : [r EXCEPT !.time = t] \in RunType(u)
BY DEF RunType

(* One run is replaced by another of its URL.                                  *)
LEMMA ReplaceStep ==
  ASSUME FactsInv, NEW u, Known(u), NEW new \in RunType(u),
         facts' = Replaced(RunOf(u), new), restates' \in 0..MaxRestates
  PROVE  FactsInv'
<1>1. RunOf(u) \in facts.runs /\ RunOf(u).url = u /\ u \in Runs /\ \A r \in facts.runs : r.url = u => r = RunOf(u)
  BY RunOfKnown
<1> DEFINE runs == (facts.runs \ {RunOf(u)}) \cup {new}
<1>2. facts' = [runs |-> runs, rows |-> facts.rows]
  BY DEF Replaced, FactsInv
<1>3. new.url = u
  BY DEF RunType
<1>4. \A r \in runs : r.url \in Runs /\ r \in RunType(r.url)
  BY <1>1, <1>3 DEF FactsInv
<1>5. \A r, s \in runs : r.url = s.url => r = s
  BY <1>1, <1>3 DEF FactsInv
<1>6. \A v : Known(v) => \E r \in runs : r.url = v
  BY <1>1, <1>3 DEF Known
<1>7. IsFiniteSet(runs)
  BY FS_RemoveElement, FS_AddElement DEF FactsInv
<1> HIDE DEF runs
<1> QED
  BY <1>2, <1>4, <1>5, <1>6, <1>7 DEF FactsInv, Known, RowRight, RowOf

LEMMA FactsStep == FactsInv /\ [FactsNext]_fvars => FactsInv'
<1> SUFFICES ASSUME FactsInv, [FactsNext]_fvars
             PROVE  FactsInv'
  OBVIOUS
<1> USE PagesAssumption
<1>1. ASSUME NEW u \in Runs, StoreRun(u)
      PROVE  FactsInv'
  <2>1. PICK t \in RunTimes[u], pr \in RunPRs[u] :
          facts' = [facts EXCEPT !.runs = @ \cup {[url |-> u, env |-> RunEnv[u], time |-> t,
                                                    failed |-> TRUE, good |-> FALSE, pr |-> pr]}]
    BY <1>1 DEF StoreRun
  <2> DEFINE new == [url |-> u, env |-> RunEnv[u], time |-> t, failed |-> TRUE, good |-> FALSE, pr |-> pr]
             runs == facts.runs \cup {new}
  <2>2. facts' = [runs |-> runs, rows |-> facts.rows] /\ restates' = restates
    BY <1>1, <2>1 DEF StoreRun, FactsInv
  <2>3. new \in RunType(u) /\ new.url = u
    BY DEF RunType
  <2> HIDE DEF new
  <2>4. \A r \in runs : r.url \in Runs /\ r \in RunType(r.url)
    BY <2>3 DEF FactsInv
  <2>5. \A r, s \in runs : r.url = s.url => r = s
    BY <1>1, <2>3 DEF FactsInv, StoreRun, Known
  <2>6. \A v : Known(v) => \E r \in runs : r.url = v
    BY DEF Known
  <2>7. IsFiniteSet(runs)
    BY FS_AddElement DEF FactsInv
  <2> HIDE DEF runs
  <2> QED
    BY <2>2, <2>4, <2>5, <2>6, <2>7 DEF FactsInv, Known, RowRight, RowOf
<1>2. ASSUME NEW u \in Runs, FindPostGood(u)
      PROVE  FactsInv'
  <2>1. [RunOf(u) EXCEPT !.good = TRUE] \in RunType(u)
    BY <1>2, RunOfKnown, RunTypeKept DEF FindPostGood
  <2> QED
    BY <1>2, <2>1, ReplaceStep DEF FindPostGood, FactsInv
<1>3. ASSUME NEW u \in Runs, Restate(u)
      PROVE  FactsInv'
  <2>1. PICK t \in RunTimes[u] : facts' = Replaced(RunOf(u), [RunOf(u) EXCEPT !.time = t])
    BY <1>3 DEF Restate
  <2>2. [RunOf(u) EXCEPT !.time = t] \in RunType(u)
    BY <1>3, RunOfKnown, RunTypeKept DEF Restate
  <2>3. restates' \in 0..MaxRestates
    BY <1>3 DEF Restate, FactsInv
  <2> QED
    BY <1>3, <2>1, <2>2, <2>3, ReplaceStep DEF Restate
<1>4. ASSUME NEW f \in Failures, StoreFailure(f)
      PROVE  FactsInv'
  <2> DEFINE u == FailureRun[f]
  <2>1. PICK shape \in Shapes[f] : facts' = [facts EXCEPT !.rows = @ \cup {RowOf(f, shape, RunOf(u).time)}]
    BY <1>4 DEF StoreFailure
  <2>2. Known(u) /\ (\A row \in facts.rows : row.id # f) /\ restates' = restates
    BY <1>4 DEF StoreFailure
  <2> DEFINE new == RowOf(f, shape, RunOf(u).time)
             rows == facts.rows \cup {new}
  <2>3. facts' = [runs |-> facts.runs, rows |-> rows]
    BY <2>1 DEF FactsInv
  <2>4. new.id = f /\ new.url = u
    BY DEF RowOf
  <2>5. RunOf(u).time \in RunTimes[u] /\ RunOf(u).time \in Int
    BY <2>2, RunOfKnown, RunTypeKept DEF Runs
  <2>6. RowRight(new)
    BY <2>5 DEF RowRight
  <2> HIDE DEF new
  <2>7. \A row \in rows : row.id \in Failures /\ row.url = FailureRun[row.id] /\ Known(row.url)
    BY <2>2, <2>4 DEF FactsInv
  <2>8. \A row, other \in rows : row.id = other.id => row = other
    BY <2>2, <2>4 DEF FactsInv
  <2>9. \A row \in rows : RowRight(row)
    BY <2>6 DEF FactsInv
  <2>10. IsFiniteSet(rows)
    BY FS_AddElement DEF FactsInv
  <2> HIDE DEF rows
  <2> QED
    BY <2>2, <2>3, <2>7, <2>8, <2>9, <2>10 DEF FactsInv, Known, RowRight
<1>5. CASE UNCHANGED fvars
  BY <1>5 DEF fvars, FactsInv, Known, RowRight
<1> QED
  BY <1>1, <1>2, <1>3, <1>4, <1>5 DEF FactsNext

LEMMA FactsAlways == FactsSpec => []FactsInv
BY InitFacts, FactsStep, PTL DEF FactsSpec

(* A run has one row however often it is restated, and a failure a run.        *)
LEMMA FactsTyped == FactsInv => FactsTypeOK
BY DEF FactsInv, FactsTypeOK, RunType, Runs

THEOREM FactsTypesCorrect == FactsSpec => []FactsTypeOK
BY FactsAlways, FactsTyped, PTL

-----------------------------------------------------------------------------
(* Whatever window is prepared, a part of it shows the failures of the store    *)
(* that lie in that part: loading by environment, filling in runs and cutting  *)
(* out later loses none.                                                       *)

Stored == [rows |-> facts.rows, runs |-> facts.runs]
FailuresIn(envs, w) == {x \in ExtractedRows(Stored) : x.env \in envs /\ Within(x.time, w)}
Inside(w, whole) == whole.start <= w.start /\ w.end <= whole.end

LEMMA ExtractKeeps ==
  \A row, run : /\ Extract(row, run).id = row.id /\ Extract(row, run).env = row.env
                /\ Extract(row, run).url = row.url /\ Extract(row, run).time = row.time
                /\ Extract(row, run).good = run.good /\ Extract(row, run).pr = run.pr
                /\ Extract(row, run).sig = row.text.sig
                /\ Extract(row, run).lane = DeriveLane(row) /\ Extract(row, run).test = row.test
BY DEF Extract

LEMMA ExtractedOf ==
  ASSUME NEW rows, NEW runs, NEW x
  PROVE  x \in ExtractedRows([rows |-> rows, runs |-> runs]) <=>
           \E row \in rows, run \in runs :
             row.backed /\ row.env = run.env /\ row.url = run.url /\ x = Extract(row, run)
<1> DEFINE pairs == {p \in rows \X runs : p[1].backed /\ p[1].env = p[2].env /\ p[1].url = p[2].url}
<1>1. ExtractedRows([rows |-> rows, runs |-> runs]) = {Extract(p[1], p[2]) : p \in pairs}
  BY DEF ExtractedRows
<1>2. ASSUME x \in {Extract(p[1], p[2]) : p \in pairs}
      PROVE  \E row \in rows, run \in runs :
               row.backed /\ row.env = run.env /\ row.url = run.url /\ x = Extract(row, run)
  <2>1. PICK p \in pairs : x = Extract(p[1], p[2])
    BY <1>2
  <2>2. p[1] \in rows /\ p[2] \in runs
    OBVIOUS
  <2> QED
    BY <2>1, <2>2
<1>3. ASSUME NEW row \in rows, NEW run \in runs, row.backed, row.env = run.env, row.url = run.url,
             x = Extract(row, run)
      PROVE  x \in {Extract(p[1], p[2]) : p \in pairs}
  <2>1. <<row, run>> \in pairs
    BY <1>3
  <2>2. x = Extract(<<row, run>>[1], <<row, run>>[2])
    BY <1>3
  <2> HIDE DEF pairs
  <2> QED
    BY <2>1, <2>2
<1> HIDE DEF pairs
<1> QED
  BY <1>1, <1>2, <1>3

LEMMA LoadedFailures ==
  ASSUME NEW envs, NEW w
  PROVE  ExtractedRows(LoadFacts(facts, envs, w)) = FailuresIn(envs, w)
<1> DEFINE rows == UNION {ListRows(facts, e, w) : e \in envs}
           runs == (UNION {ListRuns(facts, e, w) : e \in envs}) \cup RunsOfRows(facts.runs, rows)
<1>1. LoadFacts(facts, envs, w) = [rows |-> rows, runs |-> runs]
  BY DEF LoadFacts
<1>2. rows = {row \in facts.rows : row.env \in envs /\ Within(row.time, w)}
  BY DEF ListRows
<1> DEFINE extra == RunsOfRows(facts.runs, rows)
           listed == UNION {ListRuns(facts, e, w) : e \in envs}
<1> HIDE DEF rows
<1>11. extra = {r \in facts.runs : \E row \in rows : row.env = r.env /\ row.url = r.url}
  BY DEF RunsOfRows
<1>12. \A run : run \in listed => run \in facts.runs
  BY DEF ListRuns
<1> HIDE DEF extra, listed
<1>13. runs = listed \cup extra
  BY DEF extra, listed
<1> HIDE DEF runs
<1>3. \A run : run \in runs => run \in facts.runs
  BY <1>11, <1>12, <1>13
<1>4. \A row \in rows, run \in facts.runs : row.env = run.env /\ row.url = run.url => run \in runs
  BY <1>11, <1>13
<1> DEFINE Made(x, row, run) == row.backed /\ row.env = run.env /\ row.url = run.url /\ x = Extract(row, run)
<1>5. \A x : x \in ExtractedRows([rows |-> rows, runs |-> runs]) <=> \E row \in rows, run \in runs : Made(x, row, run)
  BY ExtractedOf
<1>6. \A x : x \in ExtractedRows(Stored) <=> \E row \in facts.rows, run \in facts.runs : Made(x, row, run)
  BY ExtractedOf DEF Stored
<1>7. \A x, row, run : Made(x, row, run) => /\ x.env = row.env /\ x.time = row.time
                                            /\ row.env = run.env /\ row.url = run.url
  BY ExtractKeeps
<1> HIDE DEF Made
<1>8. \A x : (\E row \in rows, run \in runs : Made(x, row, run)) <=>
             (\E row \in facts.rows, run \in facts.runs : Made(x, row, run)) /\ x.env \in envs /\ Within(x.time, w)
  BY <1>2, <1>3, <1>4, <1>7
<1>9. \A x : x \in ExtractedRows(LoadFacts(facts, envs, w)) <=> x \in FailuresIn(envs, w)
  BY <1>1, <1>5, <1>6, <1>8 DEF FailuresIn
<1>10. \A x : x \in ExtractedRows(LoadFacts(facts, envs, w)) => x \in FailuresIn(envs, w)
  BY <1>9
<1> QED
  BY <1>9, <1>10

(* The times of failures are numbers.                                          *)
LEMMA FailureOfRow ==
  ASSUME FactsInv, NEW x \in ExtractedRows(Stored)
  PROVE  \E row \in facts.rows, run \in facts.runs :
           /\ row.backed /\ row.env = run.env /\ row.url = run.url /\ x = Extract(row, run)
           /\ x.time \in Int
<1>1. PICK row \in facts.rows, run \in facts.runs :
        row.backed /\ row.env = run.env /\ row.url = run.url /\ x = Extract(row, run)
  BY ExtractedOf DEF Stored
<1>2. RowRight(row)
  BY DEF FactsInv
<1>3. row.time \in Int
  BY <1>2 DEF RowRight, RowOf
<1> QED
  BY <1>1, <1>3, ExtractKeeps

LEMMA FailureTimes ==
  FactsInv => \A x \in ExtractedRows(Stored) : x.time \in Int
BY FailureOfRow

LEMMA PreparedPart ==
  ASSUME FactsInv, NEW envs, NEW whole, NEW w, Inside(w, whole),
         whole.start \in Int, whole.end \in Int, w.start \in Int, w.end \in Int
  PROVE  /\ ResultForWindow(Prepare(facts, envs, whole), w).rows = FailuresIn(envs, w)
         /\ ResultForWindow(Prepare(facts, envs, whole), w).patterns = PatternsOf(FailuresIn(envs, w))
<1> DEFINE rows == {x \in Prepare(facts, envs, whole).rows : Within(x.time, w)}
<1>1. Prepare(facts, envs, whole).rows = FailuresIn(envs, whole)
  BY LoadedFailures DEF Prepare
<1>2. rows = FailuresIn(envs, w)
  BY <1>1, FailureTimes DEF FailuresIn, Within, Inside
<1>3. /\ ResultForWindow(Prepare(facts, envs, whole), w).rows = rows
      /\ ResultForWindow(Prepare(facts, envs, whole), w).patterns = PatternsOf(rows)
  BY DEF ResultForWindow
<1> QED
  BY <1>2, <1>3

(* Every failure of a window is in the pattern of its bucket.                  *)
LEMMA PatternOfBucket ==
  ASSUME NEW rows
  PROVE  /\ \A x \in rows : NamedIn(rows, BucketOf(x)) \in PatternsOf(rows)
         /\ \A p \in PatternsOf(rows) : \E x \in rows : p = NamedIn(rows, BucketOf(x))
BY DEF PatternsOf, NamedIn

LEMMA NamedFields ==
  \A rows, b : /\ NamedIn(rows, b).id = b /\ NamedIn(rows, b).env = b[1]
               /\ NamedIn(rows, b).rows = {x \in rows : BucketOf(x) = b}
               /\ NamedIn(rows, b).support = Cardinality({x \in rows : BucketOf(x) = b})
BY DEF NamedIn, Compile

LEMMA BucketEnv == \A x : BucketOf(x)[1] = x.env
BY DEF BucketOf

LEMMA AllFailuresIn ==
  ASSUME NEW asked, NEW w
  PROVE  {x \in AllFailures(asked) : Within(x.time, w)} = FailuresIn(TargetEnvironments(asked), w)
BY DEF AllFailures, FailuresIn, Stored

-----------------------------------------------------------------------------
(* Windows.                                                                    *)

LEMMA WeekStartIs ==
  ASSUME NEW t \in Int
  PROVE  WeekStart(t) \in Int /\ WeekStart(t) <= t /\ t < WeekStart(t) + Week
<1>1. t % Week \in 0..(Week - 1)
  BY PatternsAssumption
<1> QED
  BY <1>1, PatternsAssumption DEF WeekStart

LEMMA ProductNat == \A m, n \in Nat : m * n \in Nat
OBVIOUS

LEMMA EarlierIs ==
  ASSUME NEW a \in Int, NEW b \in Int
  PROVE  Earlier(a, b) \in {a, b} /\ Earlier(a, b) <= a /\ Earlier(a, b) <= b
BY DEF Earlier

LEMMA PresenceWindowIs ==
  ASSUME NEW end \in Int
  PROVE  /\ PresenceWindow(end).end = end /\ PresenceWindow(end).anchor = WeekStart(end - 1)
         /\ PresenceWindow(end).start = WeekStart(end - 1) - HistoryWeeks * Week
         /\ PresenceWindow(end).start \in Int /\ PresenceWindow(end).start <= WeekStart(end - 1)
<1>1. HistoryWeeks * Week \in Nat
  BY ProductNat, PatternsAssumption
<1>2. WeekStart(end - 1) \in Int
  BY WeekStartIs
<1> QED
  BY <1>1, <1>2 DEF PresenceWindow

(* The parts of the failure-patterns page are its own failures and those of    *)
(* the whole history.                                                          *)
PageStart(scope) ==
  Earlier(Earlier(scope.start, WeekStart(scope.end - 1) - SignalWeeks * Week),
          Earlier(scope.start, PresenceWindow(scope.end).start))
Prepared(asked, scope) ==
  Prepare(facts, TargetEnvironments(asked), Window(PageStart(scope), scope.end))
PageCurrent(asked, scope) == ResultForWindow(Prepared(asked, scope), scope)
PageHorizon(asked, scope) ==
  ResultForWindow(Prepared(asked, scope),
                  Window(Earlier(scope.start, WeekStart(scope.end - 1) - SignalWeeks * Week), scope.end))
HistoryWindow(scope) == Window(Earlier(scope.start, PresenceWindow(scope.end).start), scope.end)
PageHistory(asked, scope) == ResultForWindow(Prepared(asked, scope), HistoryWindow(scope))

LEMMA PageIs ==
  ASSUME NEW asked, NEW scope
  PROVE  FailurePatternsPage(facts, asked, scope) =
           [environments |-> FinalEnvironments(asked, PageCurrent(asked, scope)),
            facts |-> PageCurrent(asked, scope).facts,
            rows |-> {InlineRow(p, PageCurrent(asked, scope), PageHorizon(asked, scope),
                                PageHistory(asked, scope), PresenceWindow(scope.end)) :
                        p \in PageCurrent(asked, scope).patterns}]
BY DEF FailurePatternsPage, PageCurrent, PageHorizon, PageHistory, HistoryWindow, Prepared, PageStart

LEMMA PageWindow ==
  ASSUME NEW scope \in Scopes
  PROVE  /\ scope.start \in Int /\ scope.end \in Int
         /\ Window(PageStart(scope), scope.end).start \in Int /\ Window(PageStart(scope), scope.end).end \in Int
         /\ Inside(scope, Window(PageStart(scope), scope.end))
         /\ Inside(HistoryWindow(scope), Window(PageStart(scope), scope.end))
         /\ HistoryWindow(scope).start \in Int /\ HistoryWindow(scope).end = scope.end
         /\ HistoryWindow(scope).start <= scope.start
         /\ HistoryWindow(scope).start <= PresenceWindow(scope.end).start
<1> DEFINE signal == WeekStart(scope.end - 1) - SignalWeeks * Week
           start == PageStart(scope)
           whole == Window(start, scope.end)
<1>1. scope.start \in Int /\ scope.end \in Int /\ scope.start < scope.end
  BY PagesAssumption
<1>2. SignalWeeks * Week \in Nat
  BY ProductNat, PatternsAssumption, PagesAssumption
<1>3. signal \in Int
  BY <1>1, <1>2, WeekStartIs
<1>4. PresenceWindow(scope.end).start \in Int
  BY <1>1, PresenceWindowIs
<1> HIDE DEF signal
<1> DEFINE history == Earlier(scope.start, PresenceWindow(scope.end).start)
           horizon == Earlier(scope.start, signal)
<1>5. history \in Int /\ history <= scope.start /\ history <= PresenceWindow(scope.end).start
  BY <1>1, <1>4, EarlierIs
<1>6. horizon \in Int
  BY <1>1, <1>3, EarlierIs
<1>7. start = Earlier(horizon, history)
  BY DEF PageStart, signal
<1> HIDE DEF history, horizon, start
<1>8. start \in Int /\ start <= history
  BY <1>5, <1>6, <1>7, EarlierIs
<1>9. start <= scope.start
  BY <1>1, <1>5, <1>8
<1>10. whole.start = start /\ whole.end = scope.end
  BY DEF Window
<1>11. HistoryWindow(scope).start = history /\ HistoryWindow(scope).end = scope.end
  BY DEF HistoryWindow, Window, history
<1> HIDE DEF whole
<1>12. Inside(scope, whole) /\ Inside(HistoryWindow(scope), whole)
  BY <1>1, <1>8, <1>9, <1>10, <1>11 DEF Inside
<1> QED
  BY <1>1, <1>5, <1>8, <1>10, <1>11, <1>12 DEF whole, start

LEMMA PageParts ==
  ASSUME FactsInv, NEW asked, NEW scope \in Scopes
  PROVE  /\ PageCurrent(asked, scope).patterns = PatternsOf(FailuresIn(TargetEnvironments(asked), scope))
         /\ PageHistory(asked, scope).patterns
              = PatternsOf(FailuresIn(TargetEnvironments(asked), HistoryWindow(scope)))
         /\ HistoryWindow(scope).start \in Int /\ HistoryWindow(scope).end = scope.end
         /\ HistoryWindow(scope).start <= scope.start
         /\ HistoryWindow(scope).start <= PresenceWindow(scope.end).start
<1>1. Prepared(asked, scope) = Prepare(facts, TargetEnvironments(asked), Window(PageStart(scope), scope.end))
  BY DEF Prepared
<1> QED
  BY <1>1, PageWindow, PreparedPart DEF PageCurrent, PageHistory

-----------------------------------------------------------------------------
(* Presence.                                                                   *)

(* What a verdict "bad pull request" says of the pattern of the name in that    *)
(* environment, and of the patterns of the name elsewhere.                     *)
FlagMeans(rows, b, phrase, pw) ==
  /\ NamedIn(rows, b).phrase = phrase =>
       \A x \in rows : BucketOf(x) = b /\ Within(x.time, pw) =>
         /\ ~x.good /\ x.pr # 0 /\ ~(x.time < pw.anchor)
         /\ \A y \in rows : BucketOf(y) = b /\ Within(y.time, pw) => x.pr = y.pr
  /\ \A x \in rows : Within(x.time, pw) /\ x.env # b[1] => NamedIn(rows, BucketOf(x)).phrase # phrase

LEMMA FlagOfPattern ==
  ASSUME NEW rows, NEW b, NEW phrase, NEW pw, Presence(PatternsOf(rows), pw, b[1], phrase).badPR
  PROVE  FlagMeans(rows, b, phrase, pw)
<1> DEFINE Seen(p) == {x \in p.rows : Within(x.time, pw)}
           named == {p \in PatternsOf(rows) : p.phrase = phrase /\ Seen(p) # {}}
           seen == UNION {Seen(p) : p \in {p \in named : p.env = b[1]}}
           weeks == {WeekStart(x.time) : x \in {x \in seen : x.time < pw.anchor}}
<1>1. BadPR(b[1], seen, SeenInOther(named, b[1]), weeks)
  BY DEF Presence
<1>2. \A x \in seen : ~x.good /\ ~(x.time < pw.anchor) /\ x.pr # 0 /\ \A y \in seen : x.pr = y.pr
  BY <1>1 DEF BadPR
<1>3. \A p \in named : p.env = b[1]
  BY <1>1 DEF BadPR, SeenInOther
<1>4. ASSUME NEW x \in rows, Within(x.time, pw), NamedIn(rows, BucketOf(x)).phrase = phrase
      PROVE  NamedIn(rows, BucketOf(x)) \in named /\ x \in Seen(NamedIn(rows, BucketOf(x)))
  <2>2. NamedIn(rows, BucketOf(x)).rows = {y \in rows : BucketOf(y) = BucketOf(x)}
    BY NamedFields
  <2>1. x \in Seen(NamedIn(rows, BucketOf(x)))
    BY <1>4, <2>2
  <2> QED
    BY <1>4, <2>1, PatternOfBucket
<1>5. ASSUME NEW x \in rows, Within(x.time, pw), BucketOf(x) = b, NamedIn(rows, b).phrase = phrase
      PROVE  x \in seen
  <2>1. NamedIn(rows, b) \in named /\ x \in Seen(NamedIn(rows, b))
    BY <1>4, <1>5
  <2>2. NamedIn(rows, b).env = b[1]
    BY NamedFields
  <2> HIDE DEF named, Seen
  <2> QED
    BY <2>1, <2>2
<1>6. ASSUME NEW x \in rows, Within(x.time, pw), x.env # b[1], NamedIn(rows, BucketOf(x)).phrase = phrase
      PROVE  FALSE
  <2>1. NamedIn(rows, BucketOf(x)).env = BucketOf(x)[1]
    BY NamedFields
  <2>2. BucketOf(x)[1] = x.env
    BY BucketEnv
  <2> QED
    BY <1>3, <1>4, <1>6, <2>1, <2>2
<1> HIDE DEF seen
<1> QED
  BY <1>2, <1>5, <1>6 DEF FlagMeans

LEMMA FlagIsJustified == FactsInv => FlagJustified
<1> SUFFICES ASSUME FactsInv, NEW scope \in Scopes, NEW asked \in EnvChoices
             PROVE  LET anchor == WeekStart(scope.end - 1)
                        lookback == anchor - HistoryWeeks * Week
                        past == {x \in AllFailures(asked) :
                                   Within(x.time, Window(Earlier(scope.start, lookback), scope.end))}
                        Recent(x) == Within(x.time, Window(lookback, scope.end))
                    IN
                    \A row \in FailurePatternsPage(facts, asked, scope).rows :
                      row.presence.badPR /\ NamedIn(past, row.id).phrase = row.phrase =>
                        /\ \A x \in past : BucketOf(x) = row.id /\ Recent(x) =>
                             /\ ~x.good /\ x.pr # 0 /\ x.time >= anchor
                             /\ \A y \in past : BucketOf(y) = row.id /\ Recent(y) => x.pr = y.pr
                        /\ \A x \in past : Recent(x) /\ x.env # row.env =>
                             NamedIn(past, BucketOf(x)).phrase # row.phrase
  BY DEF FlagJustified
<1> DEFINE anchor == WeekStart(scope.end - 1)
           lookback == anchor - HistoryWeeks * Week
           past == {x \in AllFailures(asked) : Within(x.time, Window(Earlier(scope.start, lookback), scope.end))}
           Recent(x) == Within(x.time, Window(lookback, scope.end))
           pw == PresenceWindow(scope.end)
<1>1. scope.start \in Int /\ scope.end \in Int
  BY PagesAssumption
<1>2. pw.start = lookback /\ pw.end = scope.end /\ pw.anchor = anchor /\ anchor \in Int
  BY <1>1, PresenceWindowIs, WeekStartIs, SMTT(30)
<1>3. past = FailuresIn(TargetEnvironments(asked), HistoryWindow(scope))
  BY <1>2, AllFailuresIn DEF HistoryWindow
<1>4. \A x \in past : x.time \in Int
  BY <1>3, FailureTimes DEF FailuresIn
<1>5. \A x : Recent(x) <=> Within(x.time, pw)
  BY <1>2 DEF Within, Window
<1> HIDE DEF anchor, lookback, past, Recent, pw
<1>6. ASSUME NEW row \in FailurePatternsPage(facts, asked, scope).rows,
             row.presence.badPR, NamedIn(past, row.id).phrase = row.phrase
      PROVE  /\ \A x \in past : BucketOf(x) = row.id /\ Recent(x) =>
                  /\ ~x.good /\ x.pr # 0 /\ x.time >= anchor
                  /\ \A y \in past : BucketOf(y) = row.id /\ Recent(y) => x.pr = y.pr
             /\ \A x \in past : Recent(x) /\ x.env # row.env => NamedIn(past, BucketOf(x)).phrase # row.phrase
  <2>1. PICK p \in PageCurrent(asked, scope).patterns :
          row = InlineRow(p, PageCurrent(asked, scope), PageHorizon(asked, scope), PageHistory(asked, scope), pw)
    BY PageIs DEF pw
  <2>2. PICK x \in FailuresIn(TargetEnvironments(asked), scope) :
          p = NamedIn(FailuresIn(TargetEnvironments(asked), scope), BucketOf(x))
    BY <2>1, PageParts, PatternOfBucket
  <2>3. p.env = p.id[1]
    BY <2>2, NamedFields
  <2>4. row.id = p.id /\ row.env = p.env /\ row.phrase = p.phrase
        /\ row.presence = Presence(PageHistory(asked, scope).patterns, pw, p.env, p.phrase)
    BY <2>1 DEF InlineRow
  <2>5. Presence(PatternsOf(past), pw, row.id[1], row.phrase).badPR /\ row.env = row.id[1]
    BY <1>3, <1>6, <2>3, <2>4, PageParts
  <2>6. FlagMeans(past, row.id, row.phrase, pw)
    BY <2>5, FlagOfPattern
  <2> QED
    BY <1>2, <1>4, <1>5, <1>6, <2>5, <2>6 DEF FlagMeans
<1> QED
  BY <1>6 DEF anchor, lookback, past, Recent

(* A pattern that is flagged as a bad pull request has earned it over the whole *)
(* history horizon, whatever part of it is shown (BadPRScoreAndReasons,        *)
(* ResolvePresenceWindow).                                                     *)
THEOREM FlagsAlwaysJustified == FactsSpec => []FlagJustified
BY FlagIsJustified, FactsAlways, PTL

-----------------------------------------------------------------------------
(* Review signals.                                                             *)

LEMMA NamesOf ==
  ASSUME NEW rows, NEW p
  PROVE  /\ (\E x \in rows : BucketOf(x) = p.id) /\ MergeKey(NamedIn(rows, p.id)) = MergeKey(p)
              => MergeKey(p) \in {MergeKey(q) : q \in PatternsOf(rows)}
         /\ MergeKey(p) \in {MergeKey(q) : q \in PatternsOf(rows)}
              => \E x \in rows : x.env = p.env /\ NamedIn(rows, BucketOf(x)).phrase = p.phrase
<1>1. ASSUME NEW x \in rows, BucketOf(x) = p.id, MergeKey(NamedIn(rows, p.id)) = MergeKey(p)
      PROVE  MergeKey(p) \in {MergeKey(q) : q \in PatternsOf(rows)}
  <2>1. NamedIn(rows, p.id) \in PatternsOf(rows)
    BY <1>1, PatternOfBucket
  <2> QED
    BY <1>1, <2>1
<1>2. ASSUME NEW q \in PatternsOf(rows), MergeKey(p) = MergeKey(q)
      PROVE  \E x \in rows : x.env = p.env /\ NamedIn(rows, BucketOf(x)).phrase = p.phrase
  <2>1. PICK x \in rows : q = NamedIn(rows, BucketOf(x))
    BY PatternOfBucket
  <2>2. q.env = BucketOf(x)[1] /\ BucketOf(x)[1] = x.env
    BY <2>1, NamedFields, BucketEnv
  <2>3. p.env = q.env /\ p.phrase = q.phrase
    BY <1>2 DEF MergeKey
  <2> QED
    BY <2>1, <2>2, <2>3
<1> QED
  BY <1>1, <1>2

LEMMA SignalsOf ==
  ASSUME NEW current, NEW previous, NEW history, NEW p \in current
  PROVE  LET reasons == {s.reason : s \in {s \in CrossWindowSignals(current, previous, history) : s.pattern = p}}
             Names(patterns) == {MergeKey(q) : q \in patterns}
         IN  /\ MergeKey(p) \in Names(previous) => reasons = {}
             /\ MergeKey(p) \in Names(history) => "new_pattern" \notin reasons
             /\ MergeKey(p) \notin Names(previous) => reasons # {}
<1> DEFINE Names(patterns) == {MergeKey(q) : q \in patterns}
           Signal(q) == [pattern |-> q,
                         reason |-> IF MergeKey(q) \in Names(history) THEN "recurrence" ELSE "new_pattern",
                         severity |-> IF MergeKey(q) \in Names(history) THEN "low"
                                      ELSE IF q.support >= 5 THEN "high" ELSE "medium"]
           signals == CrossWindowSignals(current, previous, history)
<1>1. signals = {Signal(q) : q \in {q \in current : MergeKey(q) \notin Names(previous)}}
  BY DEF CrossWindowSignals
<1>2. \A q : /\ Signal(q).pattern = q
             /\ MergeKey(q) \in Names(history) => Signal(q).reason = "recurrence"
  OBVIOUS
<1> HIDE DEF Names, Signal, signals
<1>3. \A s \in signals : s.pattern = p => MergeKey(p) \notin Names(previous) /\ s.reason = Signal(p).reason
  BY <1>1, <1>2
<1>4. MergeKey(p) \notin Names(previous) => Signal(p) \in {s \in signals : s.pattern = p}
  BY <1>1, <1>2
<1>5. /\ MergeKey(p) \in Names(previous) => {s \in signals : s.pattern = p} = {}
      /\ MergeKey(p) \in Names(history) => \A s \in {s \in signals : s.pattern = p} : s.reason # "new_pattern"
      /\ MergeKey(p) \notin Names(previous) => {s \in signals : s.pattern = p} # {}
  BY <1>2, <1>3, <1>4
<1> DEFINE mine == {s \in signals : s.pattern = p}
<1> HIDE DEF mine
<1>6. /\ mine = {} => {s.reason : s \in mine} = {}
      /\ mine # {} => {s.reason : s \in mine} # {}
      /\ (\A s \in mine : s.reason # "new_pattern") => "new_pattern" \notin {s.reason : s \in mine}
  OBVIOUS
<1> QED
  BY <1>5, <1>6 DEF mine, signals, Names

LEMMA NewIsUnseen == FactsInv => NewMeansUnseen
<1> SUFFICES ASSUME FactsInv, NEW scope \in Scopes
             PROVE  LET review == ReviewWindow(facts, scope)
                        Before(start) == {x \in AllFailures(Envs) : Within(x.time, Window(start, scope.start))}
                        previous == Before(scope.start - (scope.end - scope.start))
                        history == Before(scope.start - HistoryWeeks * Week)
                        UnderItsName(p, rows) ==
                          /\ \E x \in rows : BucketOf(x) = p.id
                          /\ MergeKey(NamedIn(rows, p.id)) = MergeKey(p)
                        Reasons(p) == {s.reason : s \in {s \in review.signals : s.pattern = p}}
                    IN
                    \A p \in review.patterns :
                      /\ UnderItsName(p, previous) => Reasons(p) = {}
                      /\ UnderItsName(p, history) => "new_pattern" \notin Reasons(p)
                      /\ Reasons(p) = {} =>
                           \E x \in previous : x.env = p.env /\ NamedIn(previous, BucketOf(x)).phrase = p.phrase
  BY DEF NewMeansUnseen
<1> DEFINE compareStart == scope.start - (scope.end - scope.start)
           historyStart == scope.start - HistoryWeeks * Week
           whole == Window(Earlier(compareStart, historyStart), scope.end)
           prepared == Prepare(facts, Envs, whole)
           previous == FailuresIn(Envs, Window(compareStart, scope.start))
           history == FailuresIn(Envs, Window(historyStart, scope.start))
           current == PatternsOf(FailuresIn(Envs, scope))
           signals == CrossWindowSignals(current, PatternsOf(previous), PatternsOf(history))
<1>1. scope.start \in Int /\ scope.end \in Int /\ scope.start < scope.end
  BY PagesAssumption
<1>2. HistoryWeeks * Week \in Nat
  BY ProductNat, PatternsAssumption
<1>3. compareStart \in Int /\ historyStart \in Int /\ compareStart <= scope.start /\ historyStart <= scope.start
  BY <1>1, <1>2
<1>4. historyStart = ReviewHistoryStart(scope)
  BY DEF ReviewHistoryStart
<1>5. TargetEnvironments(Envs) = Envs
  BY DEF TargetEnvironments
<1>6. /\ previous = {x \in AllFailures(Envs) : Within(x.time, Window(compareStart, scope.start))}
      /\ history = {x \in AllFailures(Envs) : Within(x.time, Window(historyStart, scope.start))}
  BY <1>5, AllFailuresIn
<1>7. /\ ReviewWindow(facts, scope).patterns = ResultForWindow(prepared, scope).patterns
      /\ ReviewWindow(facts, scope).signals =
            CrossWindowSignals(ResultForWindow(prepared, scope).patterns,
                               ResultForWindow(prepared, Window(compareStart, scope.start)).patterns,
                               ResultForWindow(prepared, Window(historyStart, scope.start)).patterns)
  BY <1>4 DEF ReviewWindow
<1>8. /\ whole.start = Earlier(compareStart, historyStart) /\ whole.end = scope.end
      /\ Window(compareStart, scope.start).start = compareStart
      /\ Window(compareStart, scope.start).end = scope.start
      /\ Window(historyStart, scope.start).start = historyStart
      /\ Window(historyStart, scope.start).end = scope.start
  BY DEF Window
<1> HIDE DEF compareStart, historyStart
<1>9. whole.start \in Int /\ whole.start <= compareStart /\ whole.start <= historyStart
  BY <1>3, <1>8, EarlierIs
<1> HIDE DEF whole
<1>10. /\ Inside(scope, whole) /\ Inside(Window(compareStart, scope.start), whole)
       /\ Inside(Window(historyStart, scope.start), whole)
  BY <1>1, <1>3, <1>8, <1>9 DEF Inside
<1>11. /\ ResultForWindow(prepared, scope).patterns = current
       /\ ResultForWindow(prepared, Window(compareStart, scope.start)).patterns = PatternsOf(previous)
       /\ ResultForWindow(prepared, Window(historyStart, scope.start)).patterns = PatternsOf(history)
  BY <1>1, <1>3, <1>8, <1>9, <1>10, PreparedPart
<1>12. ReviewWindow(facts, scope).patterns = current /\ ReviewWindow(facts, scope).signals = signals
  BY <1>7, <1>11
<1> HIDE DEF previous, history, current, signals, prepared
<1>13. ASSUME NEW p \in current
       PROVE  LET reasons == {s.reason : s \in {s \in signals : s.pattern = p}}
                  UnderItsName(rows) ==
                    /\ \E x \in rows : BucketOf(x) = p.id
                    /\ MergeKey(NamedIn(rows, p.id)) = MergeKey(p)
              IN  /\ UnderItsName(previous) => reasons = {}
                  /\ UnderItsName(history) => "new_pattern" \notin reasons
                  /\ reasons = {} =>
                       \E x \in previous : x.env = p.env /\ NamedIn(previous, BucketOf(x)).phrase = p.phrase
  <2> DEFINE reasons == {s.reason : s \in {s \in signals : s.pattern = p}}
  <2>1. /\ MergeKey(p) \in {MergeKey(q) : q \in PatternsOf(previous)} => reasons = {}
        /\ MergeKey(p) \in {MergeKey(q) : q \in PatternsOf(history)} => "new_pattern" \notin reasons
        /\ MergeKey(p) \notin {MergeKey(q) : q \in PatternsOf(previous)} => reasons # {}
    BY SignalsOf, ZenonT(60) DEF signals
  <2> HIDE DEF reasons
  <2>2. /\ (\E x \in previous : BucketOf(x) = p.id) /\ MergeKey(NamedIn(previous, p.id)) = MergeKey(p) => reasons = {}
        /\ (\E x \in history : BucketOf(x) = p.id) /\ MergeKey(NamedIn(history, p.id)) = MergeKey(p)
             => "new_pattern" \notin reasons
        /\ reasons = {} => \E x \in previous : x.env = p.env /\ NamedIn(previous, BucketOf(x)).phrase = p.phrase
    BY <2>1, NamesOf
  <2> QED
    BY <2>2 DEF reasons
<1> QED
  BY <1>6, <1>12, <1>13 DEF compareStart, historyStart

(* A review signal is about what the weeks it compares with have not, by the    *)
(* name of the pattern (crossWindowPatternSignals, BuildWindow).               *)
THEOREM NewAlwaysUnseen == FactsSpec => []NewMeansUnseen
BY NewIsUnseen, FactsAlways, PTL

-----------------------------------------------------------------------------
(* One story on every surface.  A failure is known by its id.                  *)

LEMMA ExtractedTypes ==
  ASSUME FactsInv, NEW x \in ExtractedRows(Stored)
  PROVE  x.sig \in Nat /\ x.phrase \in Nat /\ x.search \in Nat
<1>1. PICK row \in facts.rows, run \in facts.runs : row.backed /\ x = Extract(row, run)
  BY FailureOfRow
<1>2. PICK f \in Failures, t \in Int : \E shape \in Shapes[f] : row = RowOf(f, shape, t)
  BY DEF FactsInv, RowRight
<1>3. PICK shape \in Shapes[f] : row = RowOf(f, shape, t)
  BY <1>2
<1>4. row.backed = shape.backed /\ row.text = shape.text /\ row.test = shape.test
  BY <1>3 DEF RowOf
<1>5. {row.text.sig, row.text.phrase, row.text.search, AlertIdentity[row.test]} \subseteq Nat
  BY <1>1, <1>4, PagesAssumption DEF Failures
<1> QED
  BY <1>1, <1>5 DEF Extract

LEMMA RunOfStored ==
  ASSUME FactsInv, NEW r \in facts.runs
  PROVE  Known(r.url) /\ r = RunOf(r.url) /\ r.env = RunEnv[r.url] /\ r.time \in Int /\ r.failed = TRUE
<1>1. Known(r.url)
  BY DEF Known
<1>2. r = RunOf(r.url)
  BY <1>1, RunOfKnown
<1>3. r.url \in Runs /\ r \in RunType(r.url)
  BY DEF FactsInv
<1>4. r.env = RunEnv[r.url] /\ r.time \in RunTimes[r.url] /\ r.failed = TRUE
  BY <1>3 DEF RunType
<1> QED
  BY <1>1, <1>2, <1>3, <1>4, PagesAssumption DEF Runs

LEMMA RowStored ==
  ASSUME FactsInv, NEW row \in facts.rows
  PROVE  /\ Known(row.url) /\ RunOf(row.url) \in facts.runs /\ RunOf(row.url).url = row.url
         /\ row.env = RunOf(row.url).env /\ row.time \in Int
<1>1. Known(row.url) /\ row.url = FailureRun[row.id]
  BY DEF FactsInv
<1>2. RunOf(row.url) \in facts.runs /\ RunOf(row.url).url = row.url
  BY <1>1, RunOfKnown
<1>3. RunOf(row.url).env = RunEnv[row.url]
  BY <1>2, RunOfStored
<1>4. RowRight(row)
  BY DEF FactsInv
<1>5. row.env = RunEnv[row.url] /\ row.time \in Int
  BY <1>4 DEF RowRight, RowOf
<1> QED
  BY <1>1, <1>2, <1>3, <1>5

(* The failure of a row that an artifact is behind.                            *)
FailureOf(row) == Extract(row, RunOf(row.url))

LEMMA FailureStored ==
  ASSUME FactsInv
  PROVE  /\ \A row \in facts.rows : row.backed => FailureOf(row) \in ExtractedRows(Stored)
         /\ \A x \in ExtractedRows(Stored) :
              \E row \in facts.rows : row.backed /\ x = FailureOf(row)
<1>1. ASSUME NEW row \in facts.rows, row.backed
      PROVE  FailureOf(row) \in ExtractedRows(Stored)
  BY <1>1, RowStored, ExtractedOf DEF Stored, FailureOf
<1>2. ASSUME NEW x \in ExtractedRows(Stored)
      PROVE  \E row \in facts.rows : row.backed /\ x = FailureOf(row)
  <2>1. PICK row \in facts.rows, run \in facts.runs :
          row.backed /\ row.env = run.env /\ row.url = run.url /\ x = Extract(row, run)
    BY FailureOfRow
  <2>2. run = RunOf(row.url)
    BY <2>1, RunOfStored
  <2> QED
    BY <2>1, <2>2 DEF FailureOf
<1> QED
  BY <1>1, <1>2

LEMMA FailureUnique ==
  ASSUME FactsInv, NEW x \in ExtractedRows(Stored), NEW row \in facts.rows, x.id = row.id
  PROVE  row.backed /\ x = FailureOf(row)
<1>1. PICK other \in facts.rows : other.backed /\ x = FailureOf(other)
  BY FailureStored
<1>2. other.id = row.id
  BY <1>1, ExtractKeeps DEF FailureOf
<1>3. other = row
  BY <1>2 DEF FactsInv
<1> QED
  BY <1>1, <1>3

LEMMA FailuresFinite ==
  ASSUME FactsInv, NEW envs, NEW w
  PROVE  IsFiniteSet(ExtractedRows(Stored)) /\ IsFiniteSet(FailuresIn(envs, w))
<1> DEFINE f == [row \in facts.rows |-> FailureOf(row)]
<1>1. IsFiniteSet(Values(f, facts.rows))
  BY ValuesFinite DEF FactsInv
<1>2. ExtractedRows(Stored) \subseteq Values(f, facts.rows)
  BY FailureStored DEF Values
<1>3. IsFiniteSet(ExtractedRows(Stored))
  BY <1>1, <1>2, FS_Subset
<1>4. FailuresIn(envs, w) \subseteq ExtractedRows(Stored)
  BY DEF FailuresIn
<1> QED
  BY <1>3, <1>4, FS_Subset

(* The name of a pattern is a number, so that the preferred one of them is.    *)
LEMMA MostCommonNat ==
  ASSUME NEW f, IsFiniteSet(DOMAIN f), \A x \in DOMAIN f : f[x] \in Nat
  PROVE  MostCommon(f) \in Nat
<1> DEFINE Votes(p) == Cardinality({x \in DOMAIN f : f[x] = p})
           phrases == Values(f, DOMAIN f) \ {0}
           best == {p \in phrases : \A q \in phrases : Votes(q) <= Votes(p)}
           counts == [p \in phrases |-> Votes(p)]
<1>1. MostCommon(f) = IF phrases = {} THEN 0 ELSE Min(best)
  BY DEF MostCommon, Values
<1>2. phrases \subseteq Nat /\ IsFiniteSet(phrases)
  <2>1. IsFiniteSet(Values(f, DOMAIN f)) /\ Values(f, DOMAIN f) \subseteq Nat
    BY ValuesFinite DEF Values
  <2> QED
    BY <2>1, FS_Difference
<1>3. \A p : Votes(p) \in Nat
  BY FS_Subset, FS_CardinalityType
<1> HIDE DEF Votes, phrases
<1>4. Values(counts, phrases) \subseteq Int /\ IsFiniteSet(Values(counts, phrases))
  <2>1. Values(counts, phrases) \subseteq Int
    BY <1>3 DEF Values
  <2>2. IsFiniteSet(Values(counts, phrases))
    BY <1>2, ValuesFinite
  <2> QED
    BY <2>1, <2>2
<1>5. ASSUME phrases # {} PROVE Min(best) \in Nat
  <2>0. Values(counts, phrases) # {}
    BY <1>5 DEF Values
  <2>1. PICK m \in Values(counts, phrases) : \A n \in Values(counts, phrases) : n <= m
    BY <1>4, <2>0, MaxIn
  <2>2. PICK p \in phrases : m = Votes(p)
    BY DEF Values
  <2>3. \A q \in phrases : Votes(q) <= Votes(p)
    BY <2>1, <2>2 DEF Values
  <2>4. best # {} /\ best \subseteq phrases
    BY <2>3
  <2> HIDE DEF best
  <2>5. best \in SUBSET Int /\ IsFiniteSet(best)
    <3>1. best \in SUBSET phrases /\ best \in SUBSET Int
      BY <1>2, <2>4
    <3>2. IsFiniteSet(best)
      BY <1>2, <3>1, FS_Subset
    <3> QED
      BY <3>1, <3>2
  <2>6. Min(best) \in best
    BY <2>4, <2>5, MinIs
  <2> QED
    BY <1>2, <2>4, <2>6
<1> QED
  BY <1>1, <1>5

LEMMA NamedTypes ==
  ASSUME FactsInv, NEW envs, NEW w, NEW x \in FailuresIn(envs, w)
  PROVE  /\ NamedIn(FailuresIn(envs, w), BucketOf(x)).phrase \in Nat
         /\ NamedIn(FailuresIn(envs, w), BucketOf(x)).support \in Nat
<1> DEFINE rows == {y \in FailuresIn(envs, w) : BucketOf(y) = BucketOf(x)}
           common == MostCommon([y \in rows |-> y.phrase])
           sig == [y \in rows |-> y.sig]
<1>1. IsFiniteSet(rows) /\ x \in rows
  BY FailuresFinite, FS_Subset
<1>2. \A y \in rows : y.phrase \in Nat /\ y.sig \in Nat
  BY ExtractedTypes DEF FailuresIn
<1>3. NamedIn(FailuresIn(envs, w), BucketOf(x)).phrase = IF common # 0 THEN common ELSE Min({y.sig : y \in rows})
  BY DEF NamedIn, Compile
<1>4. NamedIn(FailuresIn(envs, w), BucketOf(x)).support = Cardinality(rows)
  BY DEF NamedIn, Compile
<1> HIDE DEF rows
<1>5. common \in Nat
  BY <1>1, <1>2, MostCommonNat
<1>6. {y.sig : y \in rows} = Values(sig, rows)
  BY DEF Values
<1>8. IsFiniteSet(Values(sig, rows)) /\ Values(sig, rows) \subseteq Nat /\ Values(sig, rows) # {}
  BY <1>1, <1>2, ValuesFinite DEF Values
<1>7. Min({y.sig : y \in rows}) \in Nat
  <2>1. Min(Values(sig, rows)) \in Values(sig, rows)
    BY <1>8, MinIs
  <2> QED
    BY <1>6, <1>8, <2>1
<1> QED
  BY <1>1, <1>3, <1>4, <1>5, <1>7, FS_CardinalityType

-----------------------------------------------------------------------------
(* The runs and rows of a window, as a page and the run log have them.         *)

RowsWithin(envs, w) == {row \in facts.rows : row.env \in envs /\ Within(row.time, w)}
RunsWithin(envs, w) == {r \in facts.runs : r.env \in envs /\ Within(r.time, w)}
RunsBehind(rows) == {r \in facts.runs : \E row \in rows : row.env = r.env /\ row.url = r.url}

LEMMA LoadedParts ==
  ASSUME NEW envs, NEW w
  PROVE  /\ LoadFacts(facts, envs, w).rows = RowsWithin(envs, w)
         /\ LoadFacts(facts, envs, w).runs = RunsWithin(envs, w) \cup RunsBehind(RowsWithin(envs, w))
<1> DEFINE rows == UNION {ListRows(facts, e, w) : e \in envs}
           runs == UNION {ListRuns(facts, e, w) : e \in envs}
<1>1. LoadFacts(facts, envs, w).rows = rows /\ LoadFacts(facts, envs, w).runs = runs \cup RunsOfRows(facts.runs, rows)
  BY DEF LoadFacts
<1>2. rows = RowsWithin(envs, w)
  BY DEF ListRows, RowsWithin
<1>3. runs = RunsWithin(envs, w)
  BY DEF ListRuns, RunsWithin
<1>4. RunsOfRows(facts.runs, RowsWithin(envs, w)) = RunsBehind(RowsWithin(envs, w))
  BY DEF RunsOfRows, RunsBehind
<1> HIDE DEF rows, runs
<1> QED
  BY <1>1, <1>2, <1>3, <1>4

SlicedTo(prepared, envs, w) ==
  /\ {row \in prepared.facts.rows : Within(row.time, w)} = RowsWithin(envs, w)
  /\ {r \in prepared.facts.runs : Within(r.time, w)} = RunsWithin(envs, w)
  /\ ResultForWindow(prepared, w).facts.rows = RowsWithin(envs, w)
  /\ ResultForWindow(prepared, w).facts.runs = RunsWithin(envs, w) \cup RunsBehind(RowsWithin(envs, w))

LEMMA SlicedParts ==
  ASSUME FactsInv, NEW envs, NEW whole, NEW w, Inside(w, whole),
         whole.start \in Int, whole.end \in Int, w.start \in Int, w.end \in Int
  PROVE  SlicedTo(Prepare(facts, envs, whole), envs, w)
<1> DEFINE prepared == Prepare(facts, envs, whole)
           all == prepared.facts.runs
<1>1. /\ prepared.facts.rows = RowsWithin(envs, whole)
      /\ all = RunsWithin(envs, whole) \cup RunsBehind(RowsWithin(envs, whole))
  BY LoadedParts DEF Prepare
<1>2. (\A row \in facts.rows : row.time \in Int) /\ (\A r \in facts.runs : r.time \in Int)
  BY RowStored, RunOfStored
<1>3. \A t \in Int : Within(t, w) => Within(t, whole)
  BY DEF Within, Inside
<1> HIDE DEF prepared, all
<1>4. {row \in prepared.facts.rows : Within(row.time, w)} = RowsWithin(envs, w)
  BY <1>1, <1>2, <1>3 DEF RowsWithin
<1>5. \A r \in RunsBehind(RowsWithin(envs, whole)) : r.env \in envs /\ r \in facts.runs
  BY DEF RunsBehind, RowsWithin
<1>6. {r \in all : Within(r.time, w)} = RunsWithin(envs, w)
  BY <1>1, <1>2, <1>3, <1>5 DEF RunsWithin
<1>7. RunsBehind(RowsWithin(envs, w)) \subseteq all
  BY <1>1, <1>2, <1>3 DEF RunsBehind, RowsWithin
<1>8. \A r \in all : r \in facts.runs
  BY <1>1, <1>5 DEF RunsWithin
<1>9. RunsOfRows(all, RowsWithin(envs, w)) = RunsBehind(RowsWithin(envs, w))
  BY <1>7, <1>8 DEF RunsOfRows, RunsBehind
<1>10. /\ ResultForWindow(prepared, w).facts.rows = {row \in prepared.facts.rows : Within(row.time, w)}
       /\ ResultForWindow(prepared, w).facts.runs =
             {r \in all : Within(r.time, w)} \cup RunsOfRows(all, {row \in prepared.facts.rows : Within(row.time, w)})
  BY DEF ResultForWindow, SliceFacts, all
<1> QED
  BY <1>4, <1>6, <1>9, <1>10 DEF all, prepared, SlicedTo

(* The failures, patterns and verdicts both surfaces show.                     *)
ShownIn(asked, scope) == FailuresIn(TargetEnvironments(asked), scope)
PatternFor(asked, scope, x) == NamedIn(ShownIn(asked, scope), BucketOf(x))
Verdict(asked, scope, p) ==
  Presence(PatternsOf(FailuresIn(TargetEnvironments(asked), HistoryWindow(scope))),
           PresenceWindow(scope.end), p.env, p.phrase)

(* A row is shown under the pattern of its failure, or under none if no        *)
(* artifact is behind it.                                                      *)
LEMMA AttachedTo ==
  ASSUME FactsInv, NEW asked, NEW scope, NEW row \in RowsWithin(TargetEnvironments(asked), scope)
  PROVE  /\ row.backed =>
              /\ FailureOf(row) \in ShownIn(asked, scope)
              /\ Attachment(row, PatternsOf(ShownIn(asked, scope))) = {PatternFor(asked, scope, FailureOf(row))}
         /\ ~row.backed => Attachment(row, PatternsOf(ShownIn(asked, scope))) = {}
<1> DEFINE F == ShownIn(asked, scope)
           patterns == PatternsOf(F)
           own == {p \in patterns : \E x \in p.rows : SameRow(row, x)}
           alike == {p \in patterns : \E x \in p.rows : SameTuple(row, x)}
<1>1. row \in facts.rows /\ row.env \in TargetEnvironments(asked) /\ Within(row.time, scope)
  BY DEF RowsWithin
<1>2. \A x \in F : x \in ExtractedRows(Stored)
  BY DEF ShownIn, FailuresIn
<1>3. \A p \in patterns : p.rows \subseteq F /\ \A x \in p.rows : p = PatternFor(asked, scope, x)
  <2> SUFFICES ASSUME NEW p \in patterns
               PROVE  p.rows \subseteq F /\ \A x \in p.rows : p = PatternFor(asked, scope, x)
    OBVIOUS
  <2>1. PICK y \in F : p = NamedIn(F, BucketOf(y))
    BY PatternOfBucket
  <2>2. p.rows = {x \in F : BucketOf(x) = BucketOf(y)}
    BY <2>1, NamedFields
  <2> QED
    BY <2>1, <2>2 DEF PatternFor
<1>4. Attachment(row, patterns) = IF own # {} THEN {Preferred(own)} ELSE IF alike # {} THEN {Preferred(alike)} ELSE {}
  BY DEF Attachment
<1>5. ASSUME row.backed
      PROVE  FailureOf(row) \in F /\ Attachment(row, patterns) = {PatternFor(asked, scope, FailureOf(row))}
  <2> DEFINE x == FailureOf(row)
             p == PatternFor(asked, scope, x)
  <2>1. x \in ExtractedRows(Stored) /\ x.id = row.id /\ x.env = row.env /\ x.time = row.time
    BY <1>1, <1>5, FailureStored, ExtractKeeps DEF FailureOf
  <2>2. x \in F
    BY <1>1, <2>1 DEF ShownIn, FailuresIn
  <2> HIDE DEF x, patterns
  <2>3. p \in patterns /\ x \in p.rows
    <3>1. p \in patterns
      BY <2>2, PatternOfBucket DEF PatternFor, patterns
    <3>2. p.rows = {y \in F : BucketOf(y) = BucketOf(x)}
      BY NamedFields DEF PatternFor
    <3> QED
      BY <2>2, <3>1, <3>2
  <2>4. p.phrase \in Nat /\ p.support \in Nat
    BY <2>2, NamedTypes DEF PatternFor, ShownIn
  <2>5. \A q \in own : q = p
    <3> SUFFICES ASSUME NEW q \in patterns, NEW y \in q.rows, SameRow(row, y) PROVE q = p
      OBVIOUS
    <3>1. y \in ExtractedRows(Stored) /\ y.id = row.id
      BY <1>2, <1>3 DEF SameRow
    <3>2. y = x
      BY <1>1, <3>1, FailureUnique DEF x
    <3> QED
      BY <1>3, <3>2
  <2>6. p \in own
    BY <2>1, <2>3 DEF SameRow
  <2> HIDE DEF p, own
  <2>7. own = {p}
    BY <2>5, <2>6
  <2>8. Preferred({p}) = p
    BY <2>4 DEF Preferred
  <2> QED
    BY <1>4, <2>2, <2>7, <2>8 DEF x, p
<1>6. ASSUME ~row.backed
      PROVE  Attachment(row, patterns) = {}
  <2>1. ASSUME NEW q \in patterns, NEW y \in q.rows
        PROVE  ~SameRow(row, y) /\ ~SameTuple(row, y)
    <3>1. y \in ExtractedRows(Stored)
      BY <1>2, <1>3
    <3>2. PICK other \in facts.rows : other.backed /\ y = FailureOf(other)
      BY <3>1, FailureStored
    <3>3. y.sig = other.text.sig /\ y.id = other.id
      BY <3>2, ExtractKeeps DEF FailureOf
    <3>4. y.id # row.id
      BY <1>1, <1>6, <3>1, FailureUnique
    <3>5. RowRight(row) /\ RowRight(other)
      BY <1>1 DEF FactsInv
    <3>6. row.text.sig # other.text.sig
      BY <1>6, <3>2, <3>5, MarkersApart DEF RowRight, RowOf, Failures
    <3> QED
      BY <3>3, <3>4, <3>6 DEF SameRow, SameTuple
  <2>2. own = {} /\ alike = {}
    BY <2>1
  <2> QED
    BY <1>4, <2>2
<1> QED
  BY <1>5, <1>6

(* What a row of the run log's failures says of a stored row.                   *)
ShownAs(asked, scope, row, f) ==
  /\ f.id = row.id /\ f.lane = DeriveLane(row)
  /\ row.backed => /\ f.clusters = {BucketOf(FailureOf(row))}
                   /\ f.verdicts = {Verdict(asked, scope, PatternFor(asked, scope, FailureOf(row)))}
  /\ ~row.backed => f.clusters = {} /\ f.verdicts = {}

LEMMA FailureRowIs ==
  ASSUME FactsInv, NEW asked, NEW scope, NEW row \in RowsWithin(TargetEnvironments(asked), scope), NEW history,
         history.patterns = PatternsOf(FailuresIn(TargetEnvironments(asked), HistoryWindow(scope)))
  PROVE  ShownAs(asked, scope, row,
                 FailureRow(row, PatternsOf(ShownIn(asked, scope)), history, PresenceWindow(scope.end)))
<1> DEFINE clusters == Attachment(row, PatternsOf(ShownIn(asked, scope)))
           f == FailureRow(row, PatternsOf(ShownIn(asked, scope)), history, PresenceWindow(scope.end))
           p == PatternFor(asked, scope, FailureOf(row))
<1>1. /\ f.id = row.id /\ f.lane = DeriveLane(row) /\ f.clusters = {q.id : q \in clusters}
      /\ f.verdicts = {Verdict(asked, scope, q) : q \in clusters}
  BY DEF FailureRow, Verdict
<1>2. row.backed => clusters = {p}
  BY AttachedTo
<1>3. ~row.backed => clusters = {}
  BY AttachedTo
<1>4. p.id = BucketOf(FailureOf(row))
  BY NamedFields DEF PatternFor
<1> HIDE DEF clusters, f, p
<1>5. row.backed => f.clusters = {p.id} /\ f.verdicts = {Verdict(asked, scope, p)}
  BY <1>1, <1>2
<1>6. ~row.backed => f.clusters = {} /\ f.verdicts = {}
  BY <1>1, <1>3
<1> QED
  BY <1>1, <1>4, <1>5, <1>6 DEF ShownAs, p, f

(* The runs of the log: those of the day, each with the rows of the day.        *)
PageOf(asked, scope) == FailurePatternsPage(facts, asked, scope)
Log(asked, scope) == RunLogDay(facts, asked, scope.start)
LogRow(asked, scope, run, history) ==
  RunRow(run, {row \in RowsWithin(TargetEnvironments(asked), scope) : row.env = run.env},
         PatternsOf(ShownIn(asked, scope)), history, PresenceWindow(scope.end))

LEMMA LogIs ==
  ASSUME FactsInv, NEW asked, NEW scope \in Scopes, scope.end = scope.start + 1
  PROVE  \E history :
           /\ history.patterns = PatternsOf(FailuresIn(TargetEnvironments(asked), HistoryWindow(scope)))
           /\ Log(asked, scope) =
                {LogRow(asked, scope, run, history) : run \in RunsWithin(TargetEnvironments(asked), scope)}
<1> DEFINE T == TargetEnvironments(asked)
           day == Window(scope.start, scope.start + 1)
           pw == PresenceWindow(day.end)
           whole == Window(Earlier(day.start, pw.start), day.end)
           prepared == Prepare(facts, T, whole)
           current == ResultForWindow(prepared, day)
           history == DayHistory(prepared, day, pw)
           rows == {row \in prepared.facts.rows : Within(row.time, day)}
           runs == {run \in prepared.facts.runs : run.env \in FinalEnvironments(asked, current) /\ Within(run.time, day)}
<1>1. Log(asked, scope) = {RunRow(run, {row \in rows : row.env = run.env}, current.patterns, history, pw) : run \in runs}
  BY DEF Log, RunLogDay
<1>2. scope.start \in Int /\ scope.end \in Int
  BY PagesAssumption
<1>3. day.start = scope.start /\ day.end = scope.end /\ pw = PresenceWindow(scope.end)
  BY <1>2 DEF Window
<1>4. whole = HistoryWindow(scope)
  BY <1>3 DEF HistoryWindow
<1>5. whole.start \in Int /\ whole.end = scope.end /\ whole.start <= scope.start
  BY <1>4, PageParts
<1>6. \A t : Within(t, day) <=> Within(t, scope)
  BY <1>3 DEF Within
<1>7. \A e : FailuresIn(e, day) = FailuresIn(e, scope) /\ RowsWithin(e, day) = RowsWithin(e, scope)
             /\ RunsWithin(e, day) = RunsWithin(e, scope)
  BY <1>6 DEF FailuresIn, RowsWithin, RunsWithin
<1>8. history = ResultForWindow(prepared, whole)
  BY DEF DayHistory
<1> HIDE DEF day, whole, pw, history
<1>9. Inside(day, whole) /\ Inside(whole, whole)
  BY <1>2, <1>3, <1>5 DEF Inside
<1>10. current.patterns = PatternsOf(FailuresIn(T, scope)) /\ history.patterns = PatternsOf(FailuresIn(T, whole))
  BY <1>2, <1>3, <1>5, <1>7, <1>8, <1>9, PreparedPart
<1>11. /\ rows = RowsWithin(T, scope)
       /\ {r \in prepared.facts.runs : Within(r.time, day)} = RunsWithin(T, scope)
       /\ current.facts.runs = RunsWithin(T, scope) \cup RunsBehind(RowsWithin(T, scope))
  <2>1. /\ rows = RowsWithin(T, day)
        /\ {r \in prepared.facts.runs : Within(r.time, day)} = RunsWithin(T, day)
        /\ current.facts.runs = RunsWithin(T, day) \cup RunsBehind(RowsWithin(T, day))
    <3>1. SlicedTo(Prepare(facts, T, whole), T, day)
      BY <1>2, <1>3, <1>5, <1>9, SlicedParts
    <3>2. SlicedTo(prepared, T, day)
      BY <3>1 DEF prepared
    <3>3. rows = {row \in prepared.facts.rows : Within(row.time, day)} /\ current = ResultForWindow(prepared, day)
      BY DEF rows, current
    <3> HIDE DEF prepared, rows, current
    <3> QED
      BY <3>2, <3>3 DEF SlicedTo
  <2> QED
    BY <1>7, <2>1
<1> HIDE DEF current, prepared, rows
<1>12. \A r \in RunsWithin(T, scope) : r.env \in FinalEnvironments(asked, current)
  BY <1>11 DEF FinalEnvironments, AvailableEnvironments, TargetEnvironments, RunsWithin
<1>13. runs = RunsWithin(T, scope)
  BY <1>11, <1>12
<1> HIDE DEF runs
<1>14. Log(asked, scope) = {LogRow(asked, scope, run, history) : run \in RunsWithin(T, scope)}
  BY <1>1, <1>3, <1>10, <1>11, <1>13 DEF LogRow, ShownIn
<1> QED
  BY <1>4, <1>10, <1>14

LogRowIs(asked, scope, l, run) ==
  /\ l.url = run.url /\ l.env = run.env /\ l.failed = TRUE
  /\ l.sources = {BucketSource(f.lane) : f \in l.failures}
  /\ l.badPR <=> \E f \in l.failures : \E verdict \in f.verdicts : verdict.badPR
  /\ \A row \in RowsWithin(TargetEnvironments(asked), scope) :
       row.url = run.url => \E f \in l.failures : ShownAs(asked, scope, row, f)
  /\ \A f \in l.failures : \E row \in RowsWithin(TargetEnvironments(asked), scope) :
       row.url = run.url /\ ShownAs(asked, scope, row, f)

LEMMA LogRowFields ==
  ASSUME FactsInv, NEW asked, NEW scope, NEW run \in RunsWithin(TargetEnvironments(asked), scope), NEW history,
         history.patterns = PatternsOf(FailuresIn(TargetEnvironments(asked), HistoryWindow(scope)))
  PROVE  LogRowIs(asked, scope, LogRow(asked, scope, run, history), run)
<1> DEFINE l == LogRow(asked, scope, run, history)
           T == TargetEnvironments(asked)
           mine == {row \in {row \in RowsWithin(T, scope) : row.env = run.env} : row.url = run.url}
           F(row) == FailureRow(row, PatternsOf(ShownIn(asked, scope)), history, PresenceWindow(scope.end))
<1>1. /\ l.url = run.url /\ l.env = run.env /\ l.failed = run.failed
      /\ l.failures = {F(row) : row \in mine}
      /\ l.sources = {BucketSource(f.lane) : f \in l.failures}
      /\ l.badPR = RunBadPR(l.failures)
  BY DEF LogRow, RunRow
<1>2. run \in facts.runs
  BY DEF RunsWithin
<1>3. run.failed = TRUE /\ run = RunOf(run.url)
  BY <1>2, RunOfStored
<1>4. \A row \in RowsWithin(T, scope) : row.url = run.url => row \in mine
  BY <1>3, RowStored DEF RowsWithin
<1>5. \A row \in RowsWithin(T, scope) : ShownAs(asked, scope, row, F(row))
  BY FailureRowIs
<1> HIDE DEF l, F
<1>6. \A row \in RowsWithin(T, scope) :
         row.url = run.url => \E f \in l.failures : ShownAs(asked, scope, row, f)
  BY <1>1, <1>4, <1>5
<1>7. \A f \in l.failures : \E row \in RowsWithin(T, scope) : row.url = run.url /\ ShownAs(asked, scope, row, f)
  BY <1>1, <1>5
<1>8. l.badPR <=> \E f \in l.failures : \E verdict \in f.verdicts : verdict.badPR
  BY <1>1 DEF RunBadPR
<1> QED
  BY <1>1, <1>3, <1>6, <1>7, <1>8 DEF LogRowIs, l

LEMMA LogRows ==
  ASSUME FactsInv, NEW asked, NEW scope \in Scopes, scope.end = scope.start + 1
  PROVE  /\ \A run \in RunsWithin(TargetEnvironments(asked), scope) :
              \E l \in Log(asked, scope) : LogRowIs(asked, scope, l, run)
         /\ \A l \in Log(asked, scope) :
              \E run \in RunsWithin(TargetEnvironments(asked), scope) : LogRowIs(asked, scope, l, run)
         /\ \A l, m \in Log(asked, scope) : l.url = m.url => l = m
<1> DEFINE runs == RunsWithin(TargetEnvironments(asked), scope)
<1>1. PICK history :
         /\ history.patterns = PatternsOf(FailuresIn(TargetEnvironments(asked), HistoryWindow(scope)))
         /\ Log(asked, scope) = {LogRow(asked, scope, run, history) : run \in runs}
  BY LogIs
<1>2. \A run \in runs : LogRowIs(asked, scope, LogRow(asked, scope, run, history), run)
  BY <1>1, LogRowFields
<1>3. \A run, other \in runs : run.url = other.url => run = other
  BY RunOfStored DEF RunsWithin
<1>4. \A run \in runs : LogRow(asked, scope, run, history).url = run.url
  BY <1>2 DEF LogRowIs
<1> HIDE DEF runs
<1>5. \A l, m \in Log(asked, scope) : l.url = m.url => l = m
  BY <1>1, <1>3, <1>4
<1>6. \A run \in runs : \E l \in Log(asked, scope) : LogRowIs(asked, scope, l, run)
  BY <1>1, <1>2
<1>7. \A l \in Log(asked, scope) : \E run \in runs : LogRowIs(asked, scope, l, run)
  BY <1>1, <1>2
<1> QED
  BY <1>5, <1>6, <1>7 DEF runs

(* The rows of the page: one for the pattern of each failure shown.             *)
PageRowIs(asked, scope, row, x) ==
  /\ row.id = BucketOf(x) /\ row.env = x.env /\ row.source = BucketSource(x.lane)
  /\ row.refs = {y \in ShownIn(asked, scope) : BucketOf(y) = BucketOf(x)}
  /\ row.failures = Cardinality(row.refs)
  /\ row.presence = Verdict(asked, scope, PatternFor(asked, scope, x))

LEMMA PageRows ==
  ASSUME FactsInv, NEW asked, NEW scope \in Scopes
  PROVE  /\ \A x \in ShownIn(asked, scope) : \E row \in PageOf(asked, scope).rows : PageRowIs(asked, scope, row, x)
         /\ \A row \in PageOf(asked, scope).rows :
              \E x \in ShownIn(asked, scope) : PageRowIs(asked, scope, row, x)
         /\ \A row, other \in PageOf(asked, scope).rows : row.id = other.id => row = other
<1> DEFINE F == ShownIn(asked, scope)
           Row(p) == InlineRow(p, PageCurrent(asked, scope), PageHorizon(asked, scope),
                               PageHistory(asked, scope), PresenceWindow(scope.end))
           P(x) == PatternFor(asked, scope, x)
<1>1. PageOf(asked, scope).rows = {Row(p) : p \in PatternsOf(F)}
  BY PageIs, PageParts DEF PageOf, ShownIn
<1>2. \A p : /\ Row(p).id = p.id /\ Row(p).env = p.env /\ Row(p).source = p.id[2] /\ Row(p).refs = p.rows
             /\ Row(p).failures = p.support /\ Row(p).presence = Verdict(asked, scope, p)
  BY PageParts DEF InlineRow, Verdict
<1>3. \A x \in F : P(x) \in PatternsOf(F)
  BY PatternOfBucket DEF PatternFor
<1>4. \A p \in PatternsOf(F) : \E x \in F : p = P(x)
  BY PatternOfBucket DEF PatternFor
<1>5. \A x \in F : /\ P(x).id = BucketOf(x) /\ P(x).env = BucketOf(x)[1]
                   /\ P(x).rows = {y \in F : BucketOf(y) = BucketOf(x)}
                   /\ P(x).support = Cardinality(P(x).rows)
  BY NamedFields DEF PatternFor, NamedIn, Compile
<1>6. \A x : BucketOf(x)[1] = x.env /\ BucketOf(x)[2] = BucketSource(x.lane)
  BY DEF BucketOf
<1>7. \A x, y \in F : BucketOf(x) = BucketOf(y) => P(x) = P(y)
  BY DEF PatternFor
<1> HIDE DEF Row, P
<1>8. \A x \in F : PageRowIs(asked, scope, Row(P(x)), x)
  BY <1>2, <1>5, <1>6 DEF PageRowIs, P
<1>9. \A row \in PageOf(asked, scope).rows : \E x \in F : row = Row(P(x))
  BY <1>1, <1>4
<1>10. \A x \in F : Row(P(x)) \in PageOf(asked, scope).rows /\ Row(P(x)).id = BucketOf(x)
  BY <1>1, <1>2, <1>3, <1>5
<1> HIDE DEF F
<1>11. \A row, other \in PageOf(asked, scope).rows : row.id = other.id => row = other
  BY <1>7, <1>9, <1>10
<1> QED
  BY <1>8, <1>9, <1>10, <1>11 DEF F

LEMMA SourceRows ==
  ASSUME FactsInv, NEW asked, NEW scope, NEW x \in ShownIn(asked, scope)
  PROVE  \E row \in RowsWithin(TargetEnvironments(asked), scope) : row.backed /\ x = FailureOf(row)
<1>1. x \in ExtractedRows(Stored) /\ x.env \in TargetEnvironments(asked) /\ Within(x.time, scope)
  BY DEF ShownIn, FailuresIn
<1>2. PICK row \in facts.rows : row.backed /\ x = FailureOf(row)
  BY <1>1, FailureStored
<1>3. x.env = row.env /\ x.time = row.time
  BY <1>2, ExtractKeeps DEF FailureOf
<1> QED
  BY <1>1, <1>2, <1>3 DEF RowsWithin

LEMMA RunBehindRow ==
  ASSUME FactsInv, NEW asked, NEW scope, NEW row \in RowsWithin(TargetEnvironments(asked), scope)
  PROVE  /\ FailureOf(row).id = row.id /\ FailureOf(row).url = row.url /\ FailureOf(row).env = row.env
         /\ FailureOf(row).lane = DeriveLane(row)
         /\ RunOf(row.url) \in facts.runs /\ RunOf(row.url).url = row.url /\ RunOf(row.url).env = row.env
         /\ Within(RunOf(row.url).time, scope) => RunOf(row.url) \in RunsWithin(TargetEnvironments(asked), scope)
BY RowStored, ExtractKeeps DEF RowsWithin, RunsWithin, FailureOf

(* No failure of the page is counted twice or lost.                             *)
LEMMA PageCounts ==
  ASSUME FactsInv, NEW asked, NEW scope \in Scopes
  PROVE  /\ \A row, other \in PageOf(asked, scope).rows : row # other => row.refs \cap other.refs = {}
         /\ UNION {row.refs : row \in PageOf(asked, scope).rows} = ShownIn(asked, scope)
<1> DEFINE F == ShownIn(asked, scope)
           rows == PageOf(asked, scope).rows
<1>1. /\ \A x \in F : \E row \in rows : row.id = BucketOf(x) /\ row.refs = {y \in F : BucketOf(y) = BucketOf(x)}
      /\ \A row \in rows : \E x \in F : row.id = BucketOf(x) /\ row.refs = {y \in F : BucketOf(y) = BucketOf(x)}
      /\ \A row, other \in rows : row.id = other.id => row = other
  BY PageRows DEF PageRowIs
<1> HIDE DEF F, rows
<1>2. \A row \in rows : row.refs = {y \in F : BucketOf(y) = row.id}
  BY <1>1
<1>3. \A row, other \in rows : row # other => row.refs \cap other.refs = {}
  BY <1>1, <1>2
<1>4. \A x \in F : \E row \in rows : x \in row.refs
  BY <1>1
<1>5. UNION {row.refs : row \in rows} = F
  BY <1>2, <1>4
<1> QED
  BY <1>3, <1>5 DEF F, rows

(* What a page row counts is in the log, and what the log attaches on the page. *)
LEMMA PageInLog ==
  ASSUME FactsInv, NEW asked, NEW scope \in Scopes, scope.end = scope.start + 1, NEW sources,
         NEW row \in FilterBySource(PageOf(asked, scope).rows, sources), NEW x \in row.refs,
         Within(RunOf(x.url).time, scope)
  PROVE  \E run \in FilterRunsByFailedAt(Log(asked, scope), sources) :
           /\ run.url = x.url
           /\ \E f \in run.failures : f.id = x.id /\ f.clusters = {row.id} /\ f.verdicts = {row.presence}
<1>1. row \in PageOf(asked, scope).rows /\ (sources = {} \/ row.source \in sources)
  BY DEF FilterBySource
<1>2. PICK y \in ShownIn(asked, scope) : PageRowIs(asked, scope, row, y)
  BY <1>1, PageRows
<1>3. x \in ShownIn(asked, scope) /\ BucketOf(x) = BucketOf(y)
  BY <1>2 DEF PageRowIs
<1>4. row.id = BucketOf(x) /\ row.presence = Verdict(asked, scope, PatternFor(asked, scope, x))
  BY <1>2, <1>3 DEF PageRowIs, PatternFor
<1>5. row.source = BucketSource(x.lane)
  BY <1>2, <1>3 DEF PageRowIs, BucketOf
<1>6. PICK r \in RowsWithin(TargetEnvironments(asked), scope) : r.backed /\ x = FailureOf(r)
  BY <1>3, SourceRows
<1>7. x.id = r.id /\ x.url = r.url /\ x.lane = DeriveLane(r) /\ RunOf(x.url).url = x.url
      /\ RunOf(x.url) \in RunsWithin(TargetEnvironments(asked), scope)
  BY <1>6, RunBehindRow
<1>8. PICK l \in Log(asked, scope) : LogRowIs(asked, scope, l, RunOf(x.url))
  BY <1>7, LogRows
<1>9. PICK f \in l.failures : ShownAs(asked, scope, r, f)
  BY <1>7, <1>8 DEF LogRowIs
<1>10. f.id = x.id /\ f.clusters = {row.id} /\ f.verdicts = {row.presence} /\ f.lane = x.lane
  BY <1>4, <1>6, <1>7, <1>9 DEF ShownAs
<1>11. row.source \in l.sources /\ l.url = x.url
  BY <1>5, <1>7, <1>8, <1>10 DEF LogRowIs
<1>12. l \in FilterRunsByFailedAt(Log(asked, scope), sources)
  BY <1>1, <1>11 DEF FilterRunsByFailedAt
<1> QED
  BY <1>10, <1>11, <1>12

LEMMA LogInPage ==
  ASSUME FactsInv, NEW asked, NEW scope \in Scopes, scope.end = scope.start + 1, NEW l \in Log(asked, scope)
  PROVE  /\ \A f \in l.failures : \A c \in f.clusters :
              \E row \in PageOf(asked, scope).rows : row.id = c /\ \E x \in row.refs : x.id = f.id
         /\ l.badPR <=> \E row \in PageOf(asked, scope).rows :
                          row.presence.badPR /\ \E x \in row.refs : x.url = l.url /\ \E f \in l.failures : f.id = x.id
<1> DEFINE T == TargetEnvironments(asked)
           F == ShownIn(asked, scope)
           rows == PageOf(asked, scope).rows
<1>1. PICK run \in RunsWithin(T, scope) : LogRowIs(asked, scope, l, run)
  BY LogRows
<1>2. ASSUME NEW f \in l.failures
      PROVE  \E r \in RowsWithin(T, scope) : r.url = l.url /\ ShownAs(asked, scope, r, f)
  BY <1>1 DEF LogRowIs
<1>3. ASSUME NEW r \in RowsWithin(T, scope), r.backed
      PROVE  /\ FailureOf(r) \in F
             /\ \E row \in rows : /\ row.id = BucketOf(FailureOf(r)) /\ FailureOf(r) \in row.refs
                                  /\ row.presence = Verdict(asked, scope, PatternFor(asked, scope, FailureOf(r)))
  <2>1. FailureOf(r) \in F
    BY <1>3, AttachedTo
  <2>2. PICK row \in rows : PageRowIs(asked, scope, row, FailureOf(r))
    BY <2>1, PageRows
  <2> QED
    BY <2>1, <2>2 DEF PageRowIs
<1>4. ASSUME NEW f \in l.failures, NEW c \in f.clusters
      PROVE  \E row \in rows : row.id = c /\ \E x \in row.refs : x.id = f.id
  <2>1. PICK r \in RowsWithin(T, scope) : r.url = l.url /\ ShownAs(asked, scope, r, f)
    BY <1>2
  <2>2. r.backed /\ c = BucketOf(FailureOf(r)) /\ FailureOf(r).id = f.id
    BY <2>1, <1>4, RunBehindRow DEF ShownAs
  <2> QED
    BY <1>3, <2>2
<1>5. ASSUME NEW f \in l.failures, NEW verdict \in f.verdicts, verdict.badPR
      PROVE  \E row \in rows : row.presence.badPR /\ \E x \in row.refs : x.url = l.url /\ \E g \in l.failures : g.id = x.id
  <2>1. PICK r \in RowsWithin(T, scope) : r.url = l.url /\ ShownAs(asked, scope, r, f)
    BY <1>2
  <2>2. r.backed /\ verdict = Verdict(asked, scope, PatternFor(asked, scope, FailureOf(r)))
        /\ FailureOf(r).id = f.id /\ FailureOf(r).url = l.url
    BY <2>1, <1>5, RunBehindRow DEF ShownAs
  <2>3. PICK row \in rows : FailureOf(r) \in row.refs /\ row.presence = verdict
    BY <1>3, <2>2
  <2> QED
    BY <1>5, <2>2, <2>3
<1>6. ASSUME NEW row \in rows, row.presence.badPR, NEW x \in row.refs, x.url = l.url,
             NEW f \in l.failures, f.id = x.id
      PROVE  \E verdict \in f.verdicts : verdict.badPR
  <2>1. PICK y \in F : PageRowIs(asked, scope, row, y)
    BY PageRows
  <2>2. x \in F /\ row.presence = Verdict(asked, scope, PatternFor(asked, scope, x))
    BY <2>1 DEF PageRowIs, PatternFor
  <2>3. PICK r \in RowsWithin(T, scope) : r.url = l.url /\ ShownAs(asked, scope, r, f)
    BY <1>2
  <2>4. x \in ExtractedRows(Stored) /\ x.id = r.id /\ r \in facts.rows
    BY <1>6, <2>2, <2>3 DEF ShownAs, ShownIn, FailuresIn, RowsWithin
  <2>5. r.backed /\ x = FailureOf(r)
    BY <2>4, FailureUnique
  <2>6. row.presence \in f.verdicts
    BY <2>2, <2>3, <2>5 DEF ShownAs
  <2> QED
    BY <1>6, <2>6
<1>7. l.badPR <=> \E f \in l.failures : \E verdict \in f.verdicts : verdict.badPR
  BY <1>1 DEF LogRowIs
<1> HIDE DEF rows
<1>8. l.badPR => \E row \in rows : row.presence.badPR /\ \E x \in row.refs : x.url = l.url /\ \E g \in l.failures : g.id = x.id
  BY <1>5, <1>7
<1>9. (\E row \in rows : row.presence.badPR /\ \E x \in row.refs : x.url = l.url /\ \E g \in l.failures : g.id = x.id)
        => l.badPR
  BY <1>6, <1>7
<1> QED
  BY <1>4, <1>8, <1>9 DEF rows

-----------------------------------------------------------------------------
(* The numbers above the rows and above the runs.                              *)

(* What has a url of its own is counted by the urls.                           *)
LEMMA UrlCount ==
  ASSUME NEW S, IsFiniteSet(S), \A l, m \in S : l.url = m.url => l = m
  PROVE  IsFiniteSet({l.url : l \in S}) /\ Cardinality({l.url : l \in S}) = Cardinality(S)
<1> DEFINE f == [l \in S |-> l.url]
<1>1. Values(f, S) = {l.url : l \in S}
  BY DEF Values
<1>2. \A l, m \in S : f[l] = f[m] => l = m
  OBVIOUS
<1> HIDE DEF f
<1> QED
  BY <1>1, <1>2, ValuesFinite, ValuesCount

LEMMA LogFinite ==
  ASSUME FactsInv, NEW asked, NEW scope \in Scopes, scope.end = scope.start + 1
  PROVE  IsFiniteSet(Log(asked, scope))
<1> DEFINE runs == RunsWithin(TargetEnvironments(asked), scope)
<1>1. PICK history : Log(asked, scope) = {LogRow(asked, scope, run, history) : run \in runs}
  BY LogIs
<1> DEFINE f == [run \in runs |-> LogRow(asked, scope, run, history)]
<1>2. IsFiniteSet(runs)
  <2>1. runs \subseteq facts.runs
    BY DEF RunsWithin
  <2> QED
    BY <2>1, FS_Subset DEF FactsInv
<1> HIDE DEF runs
<1>3. Values(f, runs) = Log(asked, scope)
  BY <1>1 DEF Values
<1> QED
  BY <1>2, <1>3, ValuesFinite

LEMMA PageFacts ==
  ASSUME FactsInv, NEW asked, NEW scope \in Scopes
  PROVE  /\ PageOf(asked, scope).facts.runs =
              RunsWithin(TargetEnvironments(asked), scope) \cup RunsBehind(RowsWithin(TargetEnvironments(asked), scope))
         /\ PageOf(asked, scope).environments \subseteq TargetEnvironments(asked)
<1> DEFINE T == TargetEnvironments(asked)
           current == PageCurrent(asked, scope)
           whole == Window(PageStart(scope), scope.end)
<1>1. PageOf(asked, scope).facts = current.facts /\ PageOf(asked, scope).environments = FinalEnvironments(asked, current)
  BY PageIs DEF PageOf
<1>2. current = ResultForWindow(Prepare(facts, T, whole), scope)
  BY DEF PageCurrent, Prepared
<1>3. Inside(scope, whole) /\ whole.start \in Int /\ whole.end \in Int /\ scope.start \in Int /\ scope.end \in Int
  BY PageWindow
<1> HIDE DEF current, whole
<1>4. /\ current.facts.rows = RowsWithin(T, scope)
      /\ current.facts.runs = RunsWithin(T, scope) \cup RunsBehind(RowsWithin(T, scope))
  <2>1. SlicedTo(Prepare(facts, T, whole), T, scope)
    BY <1>2, <1>3, SlicedParts
  <2> QED
    BY <1>2, <2>1 DEF SlicedTo
<1>5. current.patterns = PatternsOf(FailuresIn(T, scope))
  BY PageParts DEF current
<1>6. ASSUME asked = {}
      PROVE  AvailableEnvironments(current) \subseteq T
  <2>1. \A r \in facts.runs : r.env \in T
    BY <1>6, RunOfStored DEF FactsInv, TargetEnvironments, Envs
  <2>2. \A r \in current.facts.runs : r.env \in T
    BY <1>4, <2>1 DEF RunsWithin, RunsBehind
  <2>3. \A row \in current.facts.rows : row.env \in T
    BY <1>4 DEF RowsWithin
  <2>4. \A p \in current.patterns : p.env \in T
    BY <1>5, PatternOfBucket, NamedFields, BucketEnv DEF FailuresIn
  <2> QED
    BY <2>2, <2>3, <2>4 DEF AvailableEnvironments
<1>7. FinalEnvironments(asked, current) \subseteq T
  BY <1>6 DEF FinalEnvironments, TargetEnvironments
<1> QED
  BY <1>1, <1>4, <1>7

(* The sets the numbers count.                                                 *)
PageRowsOf(asked, scope, env) == {row \in PageOf(asked, scope).rows : row.env = env}
RefsOf(rows) == UNION {row.refs : row \in rows}
ShownOf(asked, scope, env) == {x \in ShownIn(asked, scope) : x.env = env}
LogOf(asked, scope, env) == {run \in Log(asked, scope) : run.env = env}
RowsOf(scope, env) == {row \in facts.rows : row.env = env /\ Within(row.time, scope)}
Urls(things) == {x.url : x \in things}
MovedOut(scope, urls) == {u \in urls : ~Within(RunOf(u).time, scope)}
MatchedRuns(runs) == {run \in runs : \E f \in run.failures : f.clusters # {}}
FailedOf(runs) == {run \in runs : run.failed}
CountedIn(rows) == SumFunctionOnSet([row \in rows |-> row.failures], rows)

(* Failures of an environment.                                                 *)
LEMMA MatchedNumber ==
  ASSUME FactsInv, NEW asked, NEW scope \in Scopes, NEW env
  PROVE  /\ RefsOf(PageRowsOf(asked, scope, env)) = ShownOf(asked, scope, env)
         /\ CountedIn(PageRowsOf(asked, scope, env)) = Cardinality(ShownOf(asked, scope, env))
<1> DEFINE F == ShownIn(asked, scope)
           all == PageOf(asked, scope).rows
           rows == {row \in all : row.env = env}
           failures == {x \in F : x.env = env}
           parts == [row \in rows |-> row.refs]
           h == [row \in rows |-> row.failures]
<1>1. \A row \in all : /\ row.failures = Cardinality(row.refs) /\ row.refs \subseteq F
                       /\ \A x \in row.refs : x.env = row.env
  <2> SUFFICES ASSUME NEW row \in all
               PROVE  /\ row.failures = Cardinality(row.refs) /\ row.refs \subseteq F
                      /\ \A x \in row.refs : x.env = row.env
    OBVIOUS
  <2>1. PICK x \in F : PageRowIs(asked, scope, row, x)
    BY PageRows
  <2> QED
    BY <2>1, BucketEnv DEF PageRowIs
<1>2. /\ \A row, other \in all : row # other => row.refs \cap other.refs = {}
      /\ UNION {row.refs : row \in all} = F
  BY PageCounts
<1>3. IsFiniteSet(F)
  BY FailuresFinite DEF ShownIn
<1>4. IsFiniteSet(all)
  <2> DEFINE Row(p) == InlineRow(p, PageCurrent(asked, scope), PageHorizon(asked, scope),
                                 PageHistory(asked, scope), PresenceWindow(scope.end))
             Of(x) == Row(NamedIn(F, BucketOf(x)))
             f == [x \in F |-> Of(x)]
  <2>1. all = {Row(p) : p \in PatternsOf(F)}
    BY PageIs, PageParts DEF PageOf, ShownIn
  <2> HIDE DEF Row
  <2>2. all = {Of(x) : x \in F}
    BY <2>1, PatternOfBucket
  <2>3. all = Values(f, F)
    BY <2>2 DEF Values
  <2> QED
    BY <1>3, <2>3, ValuesFinite
<1> HIDE DEF all, F
<1>5. UNION {row.refs : row \in rows} = failures
  BY <1>1, <1>2
<1>6. IsFiniteSet(rows)
  BY <1>4, FS_Subset
<1>7. \A row \in rows : IsFiniteSet(parts[row]) /\ h[row] = Cardinality(parts[row])
  BY <1>1, <1>3, FS_Subset
<1>8. \A row, other \in rows : row # other => parts[row] \cap parts[other] = {}
  BY <1>2
<1>9. Values(parts, rows) = {row.refs : row \in rows}
  BY DEF Values
<1> HIDE DEF parts, h, rows, failures
<1>10. SumFunctionOnSet(h, rows) = Cardinality(UNION Values(parts, rows))
  BY <1>6, <1>7, <1>8, SumOfCardinalities
<1>11. SumFunctionOnSet(h, rows) = Cardinality(failures)
  BY <1>5, <1>9, <1>10
<1> QED
  BY <1>5, <1>11 DEF h, rows, failures, all, F, RefsOf, CountedIn, PageRowsOf, ShownOf

LEMMA PartsByTime ==
  ASSUME NEW U, IsFiniteSet(U), NEW scope
  PROVE  Cardinality(U) = Cardinality({u \in U : Within(RunOf(u).time, scope)})
                            + Cardinality({u \in U : ~Within(RunOf(u).time, scope)})
<1> DEFINE A == {u \in U : Within(RunOf(u).time, scope)}
           B == {u \in U : ~Within(RunOf(u).time, scope)}
<1>1. A \cup B = U /\ A \cap B = {} /\ IsFiniteSet(A) /\ IsFiniteSet(B)
  BY FS_Subset
<1> HIDE DEF A, B
<1>2. Cardinality(A \cup B) = Cardinality(A) + Cardinality(B)
  BY <1>1, CardinalityOfTwo
<1> QED
  BY <1>1, <1>2 DEF A, B

(* Runs with a failure of a pattern.                                           *)
LEMMA AffectedNumber ==
  ASSUME FactsInv, NEW asked, NEW scope \in Scopes, scope.end = scope.start + 1, NEW env
  PROVE  Cardinality(Urls(ShownOf(asked, scope, env)))
           = Cardinality(MatchedRuns(LogOf(asked, scope, env)))
               + Cardinality(MovedOut(scope, Urls(ShownOf(asked, scope, env))))
<1> DEFINE T == TargetEnvironments(asked)
           failures == {x \in ShownIn(asked, scope) : x.env = env}
           U == {x.url : x \in failures}
           matched == {run \in {run \in Log(asked, scope) : run.env = env} : \E f \in run.failures : f.clusters # {}}
           stay == {u \in U : Within(RunOf(u).time, scope)}
           url == [x \in failures |-> x.url]
<1>1. IsFiniteSet(U)
  <2>1. IsFiniteSet(failures)
    BY FailuresFinite, FS_Subset DEF ShownIn
  <2>2. U = Values(url, failures)
    BY DEF Values
  <2> QED
    BY <2>1, <2>2, ValuesFinite
<1>2. IsFiniteSet(matched) /\ \A l, m \in matched : l.url = m.url => l = m
  BY LogFinite, LogRows, FS_Subset
<1>3. ASSUME NEW l \in matched
      PROVE  l.url \in stay
  <2>1. PICK run \in RunsWithin(T, scope) : LogRowIs(asked, scope, l, run)
    BY LogRows
  <2>2. PICK f \in l.failures : f.clusters # {}
    OBVIOUS
  <2>3. PICK r \in RowsWithin(T, scope) : r.url = run.url /\ ShownAs(asked, scope, r, f)
    BY <2>1 DEF LogRowIs
  <2>4. r.backed
    BY <2>2, <2>3 DEF ShownAs
  <2>5. FailureOf(r) \in ShownIn(asked, scope) /\ FailureOf(r).url = l.url /\ FailureOf(r).env = RunOf(r.url).env
    BY <2>1, <2>3, <2>4, AttachedTo, RunBehindRow DEF LogRowIs
  <2>6. run = RunOf(l.url) /\ run.env = env /\ Within(run.time, scope)
    BY <2>1, RunOfStored DEF LogRowIs, RunsWithin
  <2>7. l.url = r.url
    BY <2>1, <2>3 DEF LogRowIs
  <2> QED
    BY <2>5, <2>6, <2>7
<1>4. ASSUME NEW u \in stay
      PROVE  \E l \in matched : l.url = u
  <2>1. PICK x \in failures : u = x.url
    OBVIOUS
  <2>2. PICK r \in RowsWithin(T, scope) : r.backed /\ x = FailureOf(r)
    BY <2>1, SourceRows
  <2>3. u = r.url /\ r.env = env /\ RunOf(u).env = env /\ RunOf(u).url = u /\ RunOf(u) \in RunsWithin(T, scope)
    BY <2>1, <2>2, RunBehindRow
  <2>4. PICK l \in Log(asked, scope) : LogRowIs(asked, scope, l, RunOf(u))
    BY <2>3, LogRows
  <2>5. PICK f \in l.failures : ShownAs(asked, scope, r, f)
    BY <2>3, <2>4 DEF LogRowIs
  <2>6. f.clusters # {}
    BY <2>2, <2>5 DEF ShownAs
  <2> QED
    BY <2>3, <2>4, <2>6 DEF LogRowIs
<1> HIDE DEF U, matched
<1>5. {l.url : l \in matched} = stay
  BY <1>3, <1>4
<1>6. Cardinality(stay) = Cardinality(matched)
  BY <1>2, <1>5, UrlCount
<1>7. Cardinality(U) = Cardinality(stay) + Cardinality(MovedOut(scope, U))
  BY <1>1, PartsByTime DEF MovedOut
<1>8. U = Urls(ShownOf(asked, scope, env)) /\ matched = MatchedRuns(LogOf(asked, scope, env))
  BY DEF U, matched, Urls, ShownOf, MatchedRuns, LogOf
<1> QED
  BY <1>6, <1>7, <1>8

(* Failed runs, those of the window and those that were moved out of it.       *)
LEMMA FailedNumber ==
  ASSUME FactsInv, NEW asked, NEW scope \in Scopes, scope.end = scope.start + 1,
         NEW env \in TargetEnvironments(asked)
  PROVE  Cardinality({r \in {r \in PageOf(asked, scope).facts.runs : r.env = env} : r.failed})
           = Cardinality(FailedOf(LogOf(asked, scope, env)))
               + Cardinality(MovedOut(scope, Urls(RowsOf(scope, env))))
<1> DEFINE T == TargetEnvironments(asked)
           rows == {row \in facts.rows : row.env = env /\ Within(row.time, scope)}
           U == {row.url : row \in rows}
           moved == {u \in U : ~Within(RunOf(u).time, scope)}
           failures == {run \in {run \in Log(asked, scope) : run.env = env} : run.failed}
           runs == {r \in {r \in PageOf(asked, scope).facts.runs : r.env = env} : r.failed}
           A == {r \in runs : Within(r.time, scope)}
           B == {r \in runs : ~Within(r.time, scope)}
<1>1. PageOf(asked, scope).facts.runs = RunsWithin(T, scope) \cup RunsBehind(RowsWithin(T, scope))
  BY PageFacts
<1>2. \A r \in runs : r \in facts.runs
  BY <1>1 DEF RunsWithin, RunsBehind
<1>3. \A r \in runs : r = RunOf(r.url) /\ r.env = env
  BY <1>2, RunOfStored
<1>4. IsFiniteSet(runs)
  BY <1>2, FS_Subset DEF FactsInv
<1>5. A \cup B = runs /\ A \cap B = {} /\ IsFiniteSet(A) /\ IsFiniteSet(B)
  BY <1>4, FS_Subset
<1>6. IsFiniteSet(failures) /\ \A l, m \in failures : l.url = m.url => l = m
  BY LogFinite, LogRows, FS_Subset
<1>7. ASSUME NEW l \in failures
      PROVE  \E r \in A : r.url = l.url
  <2>1. PICK run \in RunsWithin(T, scope) : LogRowIs(asked, scope, l, run)
    BY LogRows
  <2>2. run \in facts.runs /\ Within(run.time, scope) /\ run.env = env /\ run.url = l.url
    BY <2>1 DEF RunsWithin, LogRowIs
  <2>3. run.failed = TRUE
    BY <2>2, RunOfStored
  <2>4. run \in A
    BY <1>1, <2>1, <2>2, <2>3
  <2> QED
    BY <2>2, <2>4
<1>8. ASSUME NEW r \in A
      PROVE  \E l \in failures : r.url = l.url
  <2>1. r \in RunsWithin(T, scope) /\ r.env = env
    BY <1>2, <1>3 DEF RunsWithin
  <2>2. PICK l \in Log(asked, scope) : LogRowIs(asked, scope, l, r)
    BY <2>1, LogRows
  <2> QED
    BY <2>1, <2>2 DEF LogRowIs
<1>9. ASSUME NEW r \in B
      PROVE  r.url \in moved
  <2>1. r \in RunsBehind(RowsWithin(T, scope)) /\ r = RunOf(r.url) /\ r.env = env
    BY <1>1, <1>3 DEF RunsWithin
  <2>2. PICK row \in RowsWithin(T, scope) : row.env = r.env /\ row.url = r.url
    BY <2>1 DEF RunsBehind
  <2>3. row \in rows
    BY <2>1, <2>2 DEF RowsWithin
  <2>4. ~Within(RunOf(r.url).time, scope)
    BY <2>1
  <2> QED
    BY <2>2, <2>3, <2>4
<1>10. ASSUME NEW u \in moved
       PROVE  \E r \in B : u = r.url
  <2>1. PICK row \in rows : u = row.url
    OBVIOUS
  <2>2. row \in RowsWithin(T, scope)
    BY DEF RowsWithin
  <2>3. RunOf(u) \in facts.runs /\ RunOf(u).url = u /\ RunOf(u).env = env
    BY <2>1, <2>2, RunBehindRow
  <2>4. RunOf(u).failed = TRUE /\ RunOf(u) \in RunsBehind(RowsWithin(T, scope))
    BY <2>1, <2>2, <2>3, RunOfStored DEF RunsBehind
  <2>5. RunOf(u) \in B
    BY <1>1, <2>3, <2>4
  <2> QED
    BY <2>3, <2>5
<1> HIDE DEF A, B, moved, failures
<1>11. \A S \in {A, B} : Cardinality({r.url : r \in S}) = Cardinality(S)
  <2>1. \A r, s \in A \cup B : r.url = s.url => r = s
    BY <1>3, <1>5
  <2>2. Cardinality({r.url : r \in A}) = Cardinality(A)
    BY <1>5, <2>1, UrlCount
  <2>3. Cardinality({r.url : r \in B}) = Cardinality(B)
    BY <1>5, <2>1, UrlCount
  <2> QED
    BY <2>2, <2>3
<1>12. {r.url : r \in A} = {l.url : l \in failures}
  BY <1>7, <1>8
<1>13. {r.url : r \in B} = moved
  BY <1>9, <1>10
<1>14. Cardinality({l.url : l \in failures}) = Cardinality(failures)
  BY <1>6, UrlCount
<1>15. Cardinality(A \cup B) = Cardinality(A) + Cardinality(B)
  BY <1>5, CardinalityOfTwo
<1>16. Cardinality(runs) = Cardinality(failures) + Cardinality(moved)
  BY <1>5, <1>11, <1>12, <1>13, <1>14, <1>15
<1>17. failures = FailedOf(LogOf(asked, scope, env)) /\ moved = MovedOut(scope, Urls(RowsOf(scope, env)))
  BY DEF failures, moved, FailedOf, LogOf, MovedOut, Urls, RowsOf
<1> QED
  BY <1>16, <1>17

(* What SurfacesAgree says of one window.                                      *)
InLog(row, x, runs) ==
  \E run \in runs :
    /\ run.url = x.url
    /\ \E f \in run.failures : f.id = x.id /\ f.clusters = {row.id} /\ f.verdicts = {row.presence}
OnPage(page, run) ==
  /\ \A f \in run.failures : \A c \in f.clusters :
       \E row \in page.rows : row.id = c /\ \E x \in row.refs : x.id = f.id
  /\ run.badPR <=> \E row \in page.rows : row.presence.badPR /\ \E x \in row.refs : x.url = run.url /\ \E f \in run.failures : f.id = x.id
Numbers(scope, env, page, log, shown) ==
  LET summary == EnvironmentSummary(env, page, {})
      runs == RunLogSummary({run \in log : run.env = env})
      failures == {x \in shown : x.env = env}
  IN
  /\ summary.matched = Cardinality(failures)
  /\ summary.jobsAffected = runs.matched + Cardinality(MovedOut(scope, Urls(failures)))
  /\ summary.failedRuns = runs.failedRuns + Cardinality(MovedOut(scope, Urls(RowsOf(scope, env))))
Agreement(scope, page, log, shown) ==
  /\ \A row, other \in page.rows : row # other => row.refs \cap other.refs = {}
  /\ UNION {row.refs : row \in page.rows} = shown
  /\ \A sources \in {{}, {"provision"}, {"e2e", "alert"}} :
       \A row \in FilterBySource(page.rows, sources) : \A x \in row.refs :
         Within(RunOf(x.url).time, scope) => InLog(row, x, FilterRunsByFailedAt(log, sources))
  /\ \A run \in log : OnPage(page, run)
  /\ \A env \in page.environments : Numbers(scope, env, page, log, shown)

LEMMA NumbersAgree ==
  ASSUME FactsInv, NEW asked, NEW scope \in Scopes, scope.end = scope.start + 1,
         NEW env \in PageOf(asked, scope).environments
  PROVE  Numbers(scope, env, PageOf(asked, scope), Log(asked, scope), ShownIn(asked, scope))
<1> DEFINE page == PageOf(asked, scope)
           log == Log(asked, scope)
           summary == EnvironmentSummary(env, page, {})
           runs == RunLogSummary({run \in log : run.env = env})
           mine == PageRowsOf(asked, scope, env)
           failures == ShownOf(asked, scope, env)
<1>1. env \in TargetEnvironments(asked)
  BY PageFacts
<1>2. FilterBySource(mine, {}) = mine
  BY DEF FilterBySource
<1>3. /\ summary.matched = CountedIn(mine)
      /\ summary.jobsAffected = Cardinality(Urls(RefsOf(mine)))
      /\ summary.failedRuns = Cardinality({r \in {r \in page.facts.runs : r.env = env} : r.failed})
  BY <1>2 DEF EnvironmentSummary, JobsAffected, PageRowsOf, CountedIn, Urls, RefsOf
<1>4. /\ runs.matched = Cardinality(MatchedRuns(LogOf(asked, scope, env)))
      /\ runs.failedRuns = Cardinality(FailedOf(LogOf(asked, scope, env)))
  BY DEF RunLogSummary, LogOf, FailedOf, MatchedRuns
<1>5. RefsOf(mine) = failures /\ CountedIn(mine) = Cardinality(failures)
  BY MatchedNumber
<1>6. Cardinality(Urls(failures))
        = Cardinality(MatchedRuns(LogOf(asked, scope, env))) + Cardinality(MovedOut(scope, Urls(failures)))
  BY AffectedNumber
<1>7. Cardinality({r \in {r \in page.facts.runs : r.env = env} : r.failed})
        = Cardinality(FailedOf(LogOf(asked, scope, env))) + Cardinality(MovedOut(scope, Urls(RowsOf(scope, env))))
  BY <1>1, FailedNumber
<1> HIDE DEF summary, runs, mine, failures
<1>8. /\ summary.matched = Cardinality(failures)
      /\ summary.jobsAffected = runs.matched + Cardinality(MovedOut(scope, Urls(failures)))
      /\ summary.failedRuns = runs.failedRuns + Cardinality(MovedOut(scope, Urls(RowsOf(scope, env))))
  BY <1>3, <1>4, <1>5, <1>6, <1>7
<1> QED
  BY <1>8 DEF Numbers, summary, runs, failures, ShownOf

LEMMA SurfacesDoAgree == FactsInv => SurfacesAgree
<1> SUFFICES ASSUME FactsInv, NEW scope \in Scopes, scope.end = scope.start + 1, NEW asked \in EnvChoices
             PROVE  Agreement(scope, FailurePatternsPage(facts, asked, scope), RunLogDay(facts, asked, scope.start),
                              {x \in AllFailures(asked) : Within(x.time, scope)})
  BY DEF SurfacesAgree, Agreement, InLog, OnPage, Numbers, MovedOut, Urls, RowsOf
<1> DEFINE page == PageOf(asked, scope)
           log == Log(asked, scope)
           shown == ShownIn(asked, scope)
<1>1. page = FailurePatternsPage(facts, asked, scope) /\ log = RunLogDay(facts, asked, scope.start)
  BY DEF PageOf, Log
<1>2. shown = {x \in AllFailures(asked) : Within(x.time, scope)}
  BY AllFailuresIn DEF ShownIn
<1>3. /\ \A row, other \in page.rows : row # other => row.refs \cap other.refs = {}
      /\ UNION {row.refs : row \in page.rows} = shown
  BY PageCounts
<1>4. \A sources : \A row \in FilterBySource(page.rows, sources) : \A x \in row.refs :
        Within(RunOf(x.url).time, scope) => InLog(row, x, FilterRunsByFailedAt(log, sources))
  <2> SUFFICES ASSUME NEW sources, NEW row \in FilterBySource(page.rows, sources), NEW x \in row.refs,
                      Within(RunOf(x.url).time, scope)
               PROVE  InLog(row, x, FilterRunsByFailedAt(log, sources))
    OBVIOUS
  <2>1. \E run \in FilterRunsByFailedAt(log, sources) :
          /\ run.url = x.url
          /\ \E f \in run.failures : f.id = x.id /\ f.clusters = {row.id} /\ f.verdicts = {row.presence}
    BY PageInLog
  <2> HIDE DEF page, log
  <2> QED
    BY <2>1 DEF InLog
<1>5. \A run \in log : OnPage(page, run)
  BY LogInPage DEF OnPage
<1>6. \A env \in page.environments : Numbers(scope, env, page, log, shown)
  BY NumbersAgree
<1> HIDE DEF page, log, shown
<1>7. Agreement(scope, page, log, shown)
  BY <1>3, <1>4, <1>5, <1>6 DEF Agreement
<1> QED
  BY <1>1, <1>2, <1>7

(* The failure-patterns page of a day and the run log of that day show the same *)
(* failures under the same patterns and verdicts, and their numbers are those  *)
(* of the same runs (buildFailurePatternsInline, BuildDay).                    *)
THEOREM SurfacesAlwaysAgree == FactsSpec => []SurfacesAgree
BY SurfacesDoAgree, FactsAlways, PTL

-----------------------------------------------------------------------------
(* Loading the facts of a window.                                              *)

EnvOfRow(f) == LoadRunEnv[LoadRowRun[f]]
LoaderType ==
  [pc : {"none", "start", "runs", "rows", "fill", "done"},
   runs : SUBSET LoadRuns, rows : SUBSET LoadRows, todo : SUBSET LoadRuns]
Facts == [runs : SUBSET LoadRuns, rows : SUBSET LoadRows]

(* The writers: a row is only stored of a stored run, and a run stays stored.  *)
StoreInv ==
  /\ stored \in [runs : [LoadRuns -> LoadDays \cup {Unstored}], rows : [LoadRows -> LoadDays \cup {Unstored}]]
  /\ \A f \in LoadRows : stored.rows[f] # Unstored => stored.runs[LoadRowRun[f]] # Unstored
  /\ steady \subseteq {f \in LoadRows : stored.rows[f] \in LoadWindow}

(* A goroutine that has read the rows holds the steady ones, and has or is to  *)
(* get the run of each; what it leaves behind is the same, or it has failed or *)
(* lost its caller.                                                            *)
LoaderWhole(e, l) ==
  /\ l \in LoaderType
  /\ l.pc = "fill" =>
       /\ \A f \in l.rows : LoadRowRun[f] \in l.runs \cup l.todo
       /\ \A u \in l.todo : stored.runs[u] # Unstored
       /\ \A f \in steady : EnvOfRow(f) = e => f \in l.rows
  /\ l.pc = "done" => gone \/ failed \/ \A f \in steady : EnvOfRow(f) = e => f \in loaded[e].rows

LoadInv ==
  /\ StoreInv
  /\ loader \in [LoadEnvs -> LoaderType] /\ loaded \in [LoadEnvs -> Facts]
  /\ \A e \in LoadEnvs : LoaderWhole(e, loader[e])
  /\ \A e \in LoadEnvs : \A f \in loaded[e].rows : LoadRowRun[f] \in loaded[e].runs
  /\ answer # "none" => \A e \in LoadEnvs : loader[e].pc = "done"
  /\ answer = "facts" => ~failed

LEMMA InitLoad == LoadInit => LoadInv
<1> SUFFICES ASSUME LoadInit PROVE LoadInv
  OBVIOUS
<1>1. loader = [e \in LoadEnvs |-> Loading("none", {}, {}, {})]
  BY SMTT(30) DEF LoadInit, Unread, Loading
<1>2. Loading("none", {}, {}, {}) \in LoaderType /\ Nothing \in Facts
  BY DEF Loading, LoaderType, Nothing, Facts
<1>3. StoreInv
  BY LoadAssumption DEF LoadInit, StoreInv
<1>4. \A e \in LoadEnvs : LoaderWhole(e, loader[e])
  BY <1>1, <1>2 DEF LoaderWhole, Loading
<1> QED
  BY <1>1, <1>2, <1>3, <1>4 DEF LoadInit, LoadInv, Nothing

(* A write leaves every loader whole: it removes rows from the steady ones.    *)
LEMMA WriteStep ==
  ASSUME LoadInv, UNCHANGED reading, StoreInv', steady' \subseteq steady,
         \A u \in LoadRuns : stored.runs[u] # Unstored => stored'.runs[u] # Unstored
  PROVE  LoadInv'
<1>1. \A e \in LoadEnvs : LoaderWhole(e, loader[e])'
  BY DEF LoadInv, LoaderWhole, LoaderType, reading
<1> QED
  BY <1>1 DEF LoadInv, reading

(* A goroutine advances, the others and what is loaded staying as they are.    *)
LEMMA AdvanceStep ==
  ASSUME LoadInv, NEW e \in LoadEnvs, NEW l \in LoaderType, Advance(e, l), LoaderWhole(e, l),
         loader[e].pc # "done"
  PROVE  LoadInv'
<1>1. loader' = [loader EXCEPT ![e] = l] /\ UNCHANGED <<stored, writes, steady, gone, failed, loaded, answer>>
  BY DEF Advance
<1>2. StoreInv'
  BY <1>1 DEF LoadInv, StoreInv
<1>3. loader' \in [LoadEnvs -> LoaderType] /\ loader'[e] = l /\ \A d \in LoadEnvs \ {e} : loader'[d] = loader[d]
  BY <1>1 DEF LoadInv
<1>4. \A d \in LoadEnvs : LoaderWhole(d, loader[d])'
  BY <1>1, <1>3 DEF LoadInv, LoaderWhole
<1>5. answer' = "none"
  BY <1>1 DEF LoadInv
<1> QED
  BY <1>1, <1>2, <1>3, <1>4, <1>5 DEF LoadInv

LEMMA LoadStep == LoadInv /\ [LoadNext]_lvars => LoadInv'
<1> SUFFICES ASSUME LoadInv, [LoadNext]_lvars
             PROVE  LoadInv'
  OBVIOUS
<1> USE LoadAssumption
<1>1. ASSUME NEW u \in LoadRuns, WriteRun(u)
      PROVE  LoadInv'
  <2>1. PICK t \in LoadDays : stored' = [stored EXCEPT !.runs[u] = t]
    BY <1>1 DEF WriteRun
  <2>2. stored'.rows = stored.rows /\ stored'.runs = [stored.runs EXCEPT ![u] = t]
        /\ stored' \in [runs : [LoadRuns -> LoadDays \cup {Unstored}], rows : [LoadRows -> LoadDays \cup {Unstored}]]
    BY <2>1 DEF LoadInv, StoreInv
  <2>3. \A v \in LoadRuns : stored.runs[v] # Unstored => stored'.runs[v] # Unstored
    BY <2>2 DEF LoadInv, StoreInv
  <2>4. StoreInv'
    BY <1>1, <2>2, <2>3 DEF WriteRun, LoadInv, StoreInv
  <2> QED
    BY <1>1, <2>3, <2>4, WriteStep DEF WriteRun
<1>2. ASSUME NEW f \in LoadRows, WriteRow(f)
      PROVE  LoadInv'
  <2> DEFINE t == stored.runs[LoadRowRun[f]]
  <2>1. stored' = [stored EXCEPT !.rows[f] = t] /\ t # Unstored /\ t \in LoadDays
        /\ steady' = IF t \in LoadWindow THEN steady ELSE steady \ {f}
    BY <1>2 DEF WriteRow, LoadInv, StoreInv
  <2> HIDE DEF t
  <2>2. stored'.runs = stored.runs /\ stored'.rows = [stored.rows EXCEPT ![f] = t]
        /\ stored' \in [runs : [LoadRuns -> LoadDays \cup {Unstored}], rows : [LoadRows -> LoadDays \cup {Unstored}]]
    BY <2>1 DEF LoadInv, StoreInv
  <2>3. \A g \in LoadRows : stored'.rows[g] # Unstored => stored'.runs[LoadRowRun[g]] # Unstored
    BY <2>1, <2>2 DEF t, LoadInv, StoreInv
  <2>4. StoreInv' /\ steady' \subseteq steady
    BY <2>1, <2>2, <2>3 DEF LoadInv, StoreInv
  <2> QED
    BY <1>2, <2>2, <2>4, WriteStep DEF WriteRow
<1>3. CASE StartLoad
  <2>1. steady' \subseteq {f \in LoadRows : stored.rows[f] \in LoadWindow}
    BY <1>3 DEF StartLoad, RowsIn
  <2>2. StoreInv'
    BY <1>3, <2>1 DEF StartLoad, LoadInv, StoreInv
  <2>3. Unread \in LoaderType /\ Unread.pc = "start"
    BY DEF Unread, Loading, LoaderType
  <2>4. \A e \in LoadEnvs : loader'[e] = Unread
    BY <1>3 DEF StartLoad
  <2>5. \A e \in LoadEnvs : LoaderWhole(e, loader[e])'
    BY <2>3, <2>4 DEF LoaderWhole
  <2> QED
    BY <1>3, <2>2, <2>3, <2>4, <2>5 DEF StartLoad, LoadInv
<1>4. CASE CallerGone
  <2>1. \A e \in LoadEnvs : LoaderWhole(e, loader[e])'
    BY <1>4 DEF CallerGone, LoadInv, LoaderWhole
  <2> QED
    BY <1>4, <2>1 DEF CallerGone, LoadInv, StoreInv
<1>5. CASE Answer
  <2>1. \A e \in LoadEnvs : LoaderWhole(e, loader[e])'
    BY <1>5 DEF Answer, LoadInv, LoaderWhole
  <2> QED
    BY <1>5, <2>1 DEF Answer, LoadInv, StoreInv
<1>6. ASSUME NEW e \in LoadEnvs, Acquire(e) \/ GiveUp(e)
      PROVE  LoadInv'
  <2>1. ASSUME Acquire(e) PROVE LoadInv'
    <3>1. LoaderWhole(e, Loading("runs", {}, {}, {}))
      BY DEF LoaderWhole, Loading, LoaderType
    <3> QED
      BY <2>1, <3>1, AdvanceStep DEF Acquire, LoaderWhole
  <2>2. ASSUME GiveUp(e) PROVE LoadInv'
    <3>1. LoaderWhole(e, Loading("done", {}, {}, {}))
      BY <2>2 DEF GiveUp, LoaderWhole, Loading, LoaderType
    <3> QED
      BY <2>2, <3>1, AdvanceStep DEF GiveUp, LoaderWhole
  <2> QED
    BY <1>6, <2>1, <2>2
<1>7. ASSUME NEW e \in LoadEnvs, ListRunsOf(e)
      PROVE  LoadInv'
  <2>1. LoaderWhole(e, Loading("rows", RunsIn(e), {}, {}))
    BY DEF LoaderWhole, Loading, LoaderType, RunsIn
  <2> QED
    BY <1>7, <2>1, AdvanceStep DEF ListRunsOf, LoaderWhole
<1>8. ASSUME NEW e \in LoadEnvs, ListRowsOf(e)
      PROVE  LoadInv'
  <2> DEFINE todo == {LoadRowRun[f] : f \in RowsIn(e)} \ loader[e].runs
             next == Loading("fill", loader[e].runs, RowsIn(e), todo)
  <2>1. loader[e].runs \subseteq LoadRuns /\ RowsIn(e) \subseteq LoadRows /\ todo \subseteq LoadRuns
    BY DEF LoadInv, LoaderType, RowsIn
  <2>2. \A u \in todo : stored.runs[u] # Unstored
    BY DEF LoadInv, StoreInv, RowsIn
  <2>3. \A f \in steady : EnvOfRow(f) = e => f \in RowsIn(e)
    BY DEF LoadInv, StoreInv, RowsIn, EnvOfRow
  <2>4. \A f \in RowsIn(e) : LoadRowRun[f] \in loader[e].runs \cup todo
    OBVIOUS
  <2> HIDE DEF todo
  <2>5. LoaderWhole(e, next)
    BY <2>1, <2>2, <2>3, <2>4 DEF LoaderWhole, Loading, LoaderType
  <2>6. Advance(e, next) /\ loader[e].pc # "done"
    BY <1>8 DEF ListRowsOf, todo
  <2> HIDE DEF next
  <2> QED
    BY <2>5, <2>6, AdvanceStep DEF LoaderWhole
<1>9. ASSUME NEW e \in LoadEnvs, GetMissingRun(e)
      PROVE  LoadInv'
  <2>1. PICK u \in loader[e].todo :
          Advance(e, Loading("fill", loader[e].runs \cup ({u} \cap {v \in LoadRuns : stored.runs[v] # Unstored}),
                             loader[e].rows, loader[e].todo \ {u}))
    BY <1>9 DEF GetMissingRun
  <2> DEFINE runs == loader[e].runs \cup ({u} \cap {v \in LoadRuns : stored.runs[v] # Unstored})
             next == Loading("fill", runs, loader[e].rows, loader[e].todo \ {u})
  <2>2. LoaderWhole(e, loader[e]) /\ loader[e].pc = "fill"
    BY <1>9 DEF GetMissingRun, LoadInv
  <2>3. u \in LoadRuns /\ stored.runs[u] # Unstored
    BY <2>2 DEF LoaderWhole, LoaderType
  <2>4. runs = loader[e].runs \cup {u}
    BY <2>3
  <2> HIDE DEF runs
  <2>5. LoaderWhole(e, next)
    BY <2>2, <2>3, <2>4 DEF LoaderWhole, Loading, LoaderType
  <2>6. Advance(e, next)
    BY <2>1 DEF runs
  <2> HIDE DEF next
  <2> QED
    BY <2>2, <2>5, <2>6, AdvanceStep DEF LoaderWhole
<1>10. ASSUME NEW e \in LoadEnvs, KeepFacts(e)
       PROVE  LoadInv'
  <2> DEFINE rest == Loading("done", {}, {}, {})
             kept == [runs |-> loader[e].runs, rows |-> loader[e].rows]
  <2>1. LoaderWhole(e, loader[e]) /\ loader[e].pc = "fill" /\ loader[e].todo = {}
    BY <1>10 DEF KeepFacts, LoadInv
  <2>2. rest \in LoaderType /\ rest.pc = "done" /\ kept \in Facts
    BY <2>1 DEF Loading, LoaderType, LoaderWhole, Facts
  <2>3. \A f \in kept.rows : LoadRowRun[f] \in kept.runs
    BY <2>1 DEF LoaderWhole
  <2>4. \A f \in steady : EnvOfRow(f) = e => f \in kept.rows
    BY <2>1 DEF LoaderWhole
  <2>5. /\ loader' = [loader EXCEPT ![e] = rest]
        /\ UNCHANGED <<stored, writes, steady, gone, failed, answer>>
    BY <1>10 DEF KeepFacts
  <2>6. \/ failed /\ loaded' = loaded
        \/ loaded' = [loaded EXCEPT ![e] = kept]
    BY <1>10, Zenon DEF KeepFacts
  <2> HIDE DEF rest, kept
  <2>7. /\ loader' \in [LoadEnvs -> LoaderType]
        /\ loader'[e] = rest /\ \A d \in LoadEnvs \ {e} : loader'[d] = loader[d]
    BY <2>2, <2>5 DEF LoadInv
  <2>8. StoreInv' /\ answer' = "none"
    BY <2>1, <2>5 DEF LoadInv, StoreInv
  <2>9. \A d \in LoadEnvs \ {e} : loaded'[d] = loaded[d]
    BY <2>6 DEF LoadInv
  <2>10. ASSUME NEW d \in LoadEnvs \ {e}
         PROVE  LoaderWhole(d, loader[d])' /\ \A f \in loaded'[d].rows : LoadRowRun[f] \in loaded'[d].runs
    BY <2>5, <2>7, <2>9 DEF LoaderWhole, LoadInv
  <2>11. CASE failed /\ loaded' = loaded
    <3>1. LoaderWhole(e, loader[e])'
      BY <2>2, <2>5, <2>7, <2>11 DEF LoaderWhole
    <3> QED
      BY <2>7, <2>8, <2>10, <2>11, <3>1 DEF LoadInv
  <2>12. CASE loaded' = [loaded EXCEPT ![e] = kept]
    <3>1. loaded' \in [LoadEnvs -> Facts] /\ loaded'[e] = kept
      BY <2>2, <2>12 DEF LoadInv
    <3>2. LoaderWhole(e, loader[e])'
      BY <2>2, <2>4, <2>5, <2>7, <3>1 DEF LoaderWhole
    <3>3. \A d \in LoadEnvs : \A f \in loaded'[d].rows : LoadRowRun[f] \in loaded'[d].runs
      BY <2>3, <2>10, <3>1
    <3> QED
      BY <2>7, <2>8, <2>10, <3>1, <3>2, <3>3 DEF LoadInv
  <2> QED
    BY <2>6, <2>11, <2>12
<1>11. ASSUME NEW e \in LoadEnvs, QueryFails(e)
       PROVE  LoadInv'
  <2>1. Loading("done", {}, {}, {}) \in LoaderType /\ Loading("done", {}, {}, {}).pc = "done"
    BY DEF Loading, LoaderType
  <2>2. loader' = [loader EXCEPT ![e] = Loading("done", {}, {}, {})] /\ failed'
        /\ UNCHANGED <<stored, writes, steady, gone, loaded, answer>> /\ loader[e].pc # "done"
    BY <1>11 DEF QueryFails, Holding
  <2>3. loader' \in [LoadEnvs -> LoaderType] /\ loader'[e] = Loading("done", {}, {}, {})
        /\ \A d \in LoadEnvs \ {e} : loader'[d] = loader[d]
    BY <2>1, <2>2 DEF LoadInv
  <2>4. StoreInv' /\ answer' = "none"
    BY <2>2 DEF LoadInv, StoreInv
  <2>5. \A d \in LoadEnvs : LoaderWhole(d, loader[d])'
    BY <2>1, <2>2, <2>3 DEF LoadInv, LoaderWhole
  <2> QED
    BY <2>2, <2>3, <2>4, <2>5 DEF LoadInv
<1>12. CASE UNCHANGED lvars
  <2>1. \A e \in LoadEnvs : LoaderWhole(e, loader[e])'
    BY <1>12 DEF lvars, LoadInv, LoaderWhole
  <2> QED
    BY <1>12, <2>1 DEF lvars, LoadInv, StoreInv
<1> QED
  BY <1>1, <1>2, <1>3, <1>4, <1>5, <1>6, <1>7, <1>8, <1>9, <1>10, <1>11, <1>12 DEF LoadNext

LEMMA LoadIsWhole == LoadInv => LoadKeepsStoredRows
BY LoadAssumption DEF LoadInv, LoadKeepsStoredRows, LoaderWhole, StoreInv, EnvOfRow

(* A load that succeeds for a caller who waits hands out every row with its    *)
(* run and no fewer rows than were in the window throughout                    *)
(* (LoadDateScopedFacts, fillMissingRuns).                                     *)
THEOREM LoadsAlwaysWhole == LoadSpec => []LoadKeepsStoredRows
BY LoadIsWhole, InitLoad, LoadStep, PTL DEF LoadSpec

-----------------------------------------------------------------------------
(* The daily metrics of dev.                                                   *)

AllLanes == FailureLanes \cup {"passed"}
Ran(d, lanes) == Cardinality(RunsWith(d, lanes))
RanGood(d, lanes) == Cardinality(GoodWith(d, lanes))

(* What is stored of a day is no better than what is known of it now: the runs *)
(* were counted first, and runs are only added to a lane.                      *)
MetricsRight(d, m) ==
  /\ DOMAIN m \subseteq RawKeys \cup GoodKeys /\ \A key \in DOMAIN m : m[key] \in Nat
  /\ {"runs", "failed"} \subseteq DOMAIN m => m["runs"] - m["failed"] <= Ran(d, {"passed"})
  /\ "e2e" \in DOMAIN m => m["e2e"] <= Ran(d, {"e2e"})
  /\ GoodKeys \subseteq DOMAIN m =>
       /\ m["good"] - (m["goodProvision"] + m["goodE2E"] + m["goodOther"]) <= RanGood(d, {"passed"})
       /\ m["goodE2E"] <= RanGood(d, {"e2e"})
FirstRight(d, first) ==
  first.good <= first.runs /\ first.runs <= Ran(d, AllLanes) /\ first.good <= RanGood(d, AllLanes)

TrendsInv ==
  /\ ended \in [TrendRuns -> [day : TrendDays \cup {0}, lane : FailureLanes \cup {"passed", "none"},
                              good : BOOLEAN]]
  /\ counting \in [TrendDays -> SUBSET [runs : Nat, good : Nat]]
  /\ metrics = [d \in TrendDays |-> metrics[d]]
  /\ \A d \in TrendDays : \A first \in counting[d] : FirstRight(d, first)
  /\ \A d \in TrendDays : MetricsRight(d, metrics[d])

LEMMA RunsFinite ==
  \A d, lanes : /\ IsFiniteSet(RunsWith(d, lanes)) /\ IsFiniteSet(GoodWith(d, lanes))
                /\ Ran(d, lanes) \in Nat /\ RanGood(d, lanes) \in Nat /\ RanGood(d, lanes) <= Ran(d, lanes)
<1> SUFFICES ASSUME NEW d, NEW lanes
             PROVE  /\ IsFiniteSet(RunsWith(d, lanes)) /\ IsFiniteSet(GoodWith(d, lanes))
                    /\ Ran(d, lanes) \in Nat /\ RanGood(d, lanes) \in Nat /\ RanGood(d, lanes) <= Ran(d, lanes)
  OBVIOUS
<1>1. RunsWith(d, lanes) \subseteq TrendRuns /\ GoodWith(d, lanes) \subseteq RunsWith(d, lanes)
  BY DEF RunsWith, GoodWith
<1>2. IsFiniteSet(RunsWith(d, lanes))
  BY <1>1, TrendsAssumption, FS_Subset
<1>3. IsFiniteSet(GoodWith(d, lanes)) /\ RanGood(d, lanes) <= Ran(d, lanes)
  BY <1>1, <1>2, FS_Subset DEF Ran, RanGood
<1> QED
  BY <1>2, <1>3, FS_CardinalityType DEF Ran, RanGood

(* A day's runs by their lanes.                                                *)
LEMMA LanesApart ==
  ASSUME NEW d, NEW lanes, NEW others, lanes \cap others = {}
  PROVE  /\ Ran(d, lanes \cup others) = Ran(d, lanes) + Ran(d, others)
         /\ RanGood(d, lanes \cup others) = RanGood(d, lanes) + RanGood(d, others)
<1>1. /\ RunsWith(d, lanes \cup others) = RunsWith(d, lanes) \cup RunsWith(d, others)
      /\ RunsWith(d, lanes) \cap RunsWith(d, others) = {}
  BY DEF RunsWith
<1>2. /\ GoodWith(d, lanes \cup others) = GoodWith(d, lanes) \cup GoodWith(d, others)
      /\ GoodWith(d, lanes) \cap GoodWith(d, others) = {}
  BY DEF GoodWith, RunsWith
<1> QED
  BY <1>1, <1>2, RunsFinite, CardinalityOfTwo DEF Ran, RanGood

LEMMA LanesOfDay ==
  ASSUME NEW d
  PROVE  /\ Ran(d, AllLanes) = Ran(d, {"provision"}) + Ran(d, {"e2e"}) + Ran(d, {"other"}) + Ran(d, {"passed"})
         /\ RanGood(d, AllLanes)
              = RanGood(d, {"provision"}) + RanGood(d, {"e2e"}) + RanGood(d, {"other"}) + RanGood(d, {"passed"})
<1>1. /\ AllLanes = ({"provision"} \cup ({"e2e"} \cup {"other"})) \cup {"passed"}
      /\ {"provision"} \cap ({"e2e"} \cup {"other"}) = {}
      /\ ({"provision"} \cup ({"e2e"} \cup {"other"})) \cap {"passed"} = {}
      /\ {"e2e"} \cap {"other"} = {}
  BY DEF AllLanes, FailureLanes
<1>2. /\ Ran(d, AllLanes) = Ran(d, {"provision"} \cup ({"e2e"} \cup {"other"})) + Ran(d, {"passed"})
      /\ RanGood(d, AllLanes) = RanGood(d, {"provision"} \cup ({"e2e"} \cup {"other"})) + RanGood(d, {"passed"})
  BY <1>1, LanesApart
<1>3. /\ Ran(d, {"provision"} \cup ({"e2e"} \cup {"other"})) = Ran(d, {"provision"}) + Ran(d, {"e2e"} \cup {"other"})
      /\ RanGood(d, {"provision"} \cup ({"e2e"} \cup {"other"}))
           = RanGood(d, {"provision"}) + RanGood(d, {"e2e"} \cup {"other"})
  BY <1>1, LanesApart
<1>4. /\ Ran(d, {"e2e"} \cup {"other"}) = Ran(d, {"e2e"}) + Ran(d, {"other"})
      /\ RanGood(d, {"e2e"} \cup {"other"}) = RanGood(d, {"e2e"}) + RanGood(d, {"other"})
  BY <1>1, LanesApart
<1> QED
  BY <1>2, <1>3, <1>4, RunsFinite

(* Runs are added to lanes, and found to be good.                              *)
LEMMA LanesGrow ==
  ASSUME TrendsInv, NEW r \in TrendRuns, RunEnds(r) \/ BecomesGood(r), NEW d, NEW lanes, "none" \notin lanes
  PROVE  /\ Ran(d, lanes) <= Ran(d, lanes)' /\ RanGood(d, lanes) <= RanGood(d, lanes)'
         /\ Ran(d, lanes)' \in Nat /\ RanGood(d, lanes)' \in Nat
<1>1. /\ RunsWith(d, lanes) \subseteq RunsWith(d, lanes)' /\ GoodWith(d, lanes) \subseteq GoodWith(d, lanes)'
      /\ RunsWith(d, lanes)' \subseteq TrendRuns /\ GoodWith(d, lanes)' \subseteq TrendRuns
  BY DEF TrendsInv, RunEnds, BecomesGood, RunsWith, GoodWith
<1>2. IsFiniteSet(RunsWith(d, lanes)') /\ IsFiniteSet(GoodWith(d, lanes)')
  BY <1>1, TrendsAssumption, FS_Subset
<1>3. Ran(d, lanes)' \in Nat /\ RanGood(d, lanes)' \in Nat
  BY <1>2, FS_CardinalityType DEF Ran, RanGood
<1> QED
  BY <1>1, <1>2, <1>3, FS_Subset DEF Ran, RanGood

LEMMA CountsRight ==
  ASSUME NEW d, NEW first \in [runs : Nat, good : Nat], FirstRight(d, first), NEW keys \in ReleaseKeys
  PROVE  MetricsRight(d, Restrict(CountsOf(d, first), keys))
<1> DEFINE c == CountsOf(d, first)
           m == Restrict(c, keys)
<1>1. /\ c["runs"] = first.runs /\ c["failed"] = Ran(d, {"provision"}) + Ran(d, {"e2e"}) + Ran(d, {"other"})
      /\ c["provision"] = Ran(d, {"provision"}) /\ c["e2e"] = Ran(d, {"e2e"}) /\ c["other"] = Ran(d, {"other"})
      /\ c["good"] = first.good /\ c["goodProvision"] = RanGood(d, {"provision"})
      /\ c["goodE2E"] = RanGood(d, {"e2e"}) /\ c["goodOther"] = RanGood(d, {"other"})
  BY DEF CountsOf, Ran, RanGood
<1>2. DOMAIN m = keys /\ \A key \in keys : m[key] = c[key]
  BY DEF Restrict
<1>3. keys \subseteq RawKeys \cup GoodKeys
  BY DEF ReleaseKeys, RawKeys, GoodKeys
<1> HIDE DEF c, m
<1>4. \A key \in RawKeys \cup GoodKeys : c[key] \in Nat
  BY <1>1, RunsFinite DEF RawKeys, GoodKeys
<1>5. c["runs"] - c["failed"] <= Ran(d, {"passed"})
  BY <1>1, RunsFinite, LanesOfDay DEF FirstRight
<1>6. c["good"] - (c["goodProvision"] + c["goodE2E"] + c["goodOther"]) <= RanGood(d, {"passed"})
  BY <1>1, RunsFinite, LanesOfDay DEF FirstRight
<1>7. c["e2e"] <= Ran(d, {"e2e"}) /\ c["goodE2E"] <= RanGood(d, {"e2e"})
  BY <1>1, RunsFinite
<1>8. MetricsRight(d, m)
  BY <1>2, <1>3, <1>4, <1>5, <1>6, <1>7 DEF MetricsRight, GoodKeys
<1> QED
  BY <1>8 DEF m, c

LEMMA InitTrends == TrendsInit => TrendsInv
<1> SUFFICES ASSUME TrendsInit PROVE TrendsInv
  OBVIOUS
<1>1. \A d \in TrendDays : MetricsRight(d, metrics[d])
  BY DEF TrendsInit, MetricsRight, GoodKeys
<1> QED
  BY <1>1 DEF TrendsInit, TrendsInv, FailureLanes

LEMMA TrendsStep == TrendsInv /\ [TrendsNext]_nvars => TrendsInv'
<1> SUFFICES ASSUME TrendsInv, [TrendsNext]_nvars PROVE TrendsInv'
  OBVIOUS
<1>1. ASSUME NEW r \in TrendRuns, RunEnds(r) \/ BecomesGood(r)
      PROVE  TrendsInv'
  <2>1. ended' \in [TrendRuns -> [day : TrendDays \cup {0}, lane : FailureLanes \cup {"passed", "none"}, good : BOOLEAN]]
    <3>1. CASE RunEnds(r)
      BY <3>1 DEF TrendsInv, RunEnds
    <3>2. CASE BecomesGood(r)
      <4>1. ended' = [ended EXCEPT ![r].good = TRUE]
        BY <3>2 DEF BecomesGood
      <4>2. \A s \in TrendRuns : ended'[s] \in [day : TrendDays \cup {0}, lane : FailureLanes \cup {"passed", "none"}, good : BOOLEAN]
        BY <4>1 DEF TrendsInv
      <4> QED
        BY <4>1, <4>2 DEF TrendsInv
    <3> QED
      BY <1>1, <3>1, <3>2
  <2>2. UNCHANGED <<counting, metrics>>
    BY <1>1 DEF RunEnds, BecomesGood
  <2>3. \A d : /\ Ran(d, AllLanes) <= Ran(d, AllLanes)' /\ RanGood(d, AllLanes) <= RanGood(d, AllLanes)'
               /\ Ran(d, {"passed"}) <= Ran(d, {"passed"})' /\ RanGood(d, {"passed"}) <= RanGood(d, {"passed"})'
               /\ Ran(d, {"e2e"}) <= Ran(d, {"e2e"})' /\ RanGood(d, {"e2e"}) <= RanGood(d, {"e2e"})'
    BY <1>1, LanesGrow DEF AllLanes, FailureLanes
  <2>4. \A d : /\ Ran(d, AllLanes)' \in Nat /\ RanGood(d, AllLanes)' \in Nat
               /\ Ran(d, {"passed"})' \in Nat /\ RanGood(d, {"passed"})' \in Nat
               /\ Ran(d, {"e2e"})' \in Nat /\ RanGood(d, {"e2e"})' \in Nat
    BY <1>1, LanesGrow DEF AllLanes, FailureLanes
  <2>5. ASSUME NEW d \in TrendDays PROVE \A first \in counting'[d] : FirstRight(d, first)'
    BY <2>2, <2>3, <2>4, RunsFinite DEF TrendsInv, FirstRight
  <2>6. ASSUME NEW d \in TrendDays PROVE MetricsRight(d, metrics[d])'
    BY <2>2, <2>3, <2>4, RunsFinite DEF TrendsInv, MetricsRight, GoodKeys
  <2> QED
    BY <2>1, <2>2, <2>5, <2>6 DEF TrendsInv
<1>2. ASSUME NEW d \in TrendDays, RollupReadsRuns(d)
      PROVE  TrendsInv'
  <2> DEFINE first == [runs |-> Ran(d, AllLanes), good |-> RanGood(d, AllLanes)]
  <2>1. counting' = [counting EXCEPT ![d] = {first}] /\ UNCHANGED <<ended, metrics>>
    BY <1>2 DEF RollupReadsRuns, AllLanes, Ran, RanGood
  <2>2. first \in [runs : Nat, good : Nat] /\ FirstRight(d, first)
    BY RunsFinite DEF FirstRight
  <2> HIDE DEF first
  <2>3. \A e, lanes : Ran(e, lanes)' = Ran(e, lanes) /\ RanGood(e, lanes)' = RanGood(e, lanes)
    BY <2>1 DEF Ran, RanGood, RunsWith, GoodWith
  <2>4. ASSUME NEW e \in TrendDays PROVE \A f \in counting'[e] : FirstRight(e, f)'
    BY <2>1, <2>2, <2>3 DEF TrendsInv, FirstRight
  <2>5. ASSUME NEW e \in TrendDays PROVE MetricsRight(e, metrics[e])'
    BY <2>1, <2>3 DEF TrendsInv, MetricsRight
  <2> QED
    BY <2>1, <2>2, <2>4, <2>5 DEF TrendsInv
<1>3. ASSUME NEW d \in TrendDays, NEW keys \in ReleaseKeys, RollupStores(d, keys)
      PROVE  TrendsInv'
  <2>1. PICK first \in counting[d] : metrics' = [metrics EXCEPT ![d] = Restrict(CountsOf(d, first), keys)]
    BY <1>3 DEF RollupStores
  <2>2. counting' = [counting EXCEPT ![d] = {}] /\ ended' = ended
    BY <1>3 DEF RollupStores
  <2>3. first \in [runs : Nat, good : Nat] /\ FirstRight(d, first)
    BY DEF TrendsInv
  <2>4. MetricsRight(d, Restrict(CountsOf(d, first), keys))
    BY <2>3, CountsRight
  <2>5. metrics'[d] = Restrict(CountsOf(d, first), keys) /\ \A e \in TrendDays \ {d} : metrics'[e] = metrics[e]
    BY <2>1 DEF TrendsInv
  <2>6. \A e, lanes : Ran(e, lanes)' = Ran(e, lanes) /\ RanGood(e, lanes)' = RanGood(e, lanes)
    BY <2>2 DEF Ran, RanGood, RunsWith, GoodWith
  <2>7. ASSUME NEW e \in TrendDays PROVE \A f \in counting'[e] : FirstRight(e, f)'
    BY <2>2, <2>6 DEF TrendsInv, FirstRight
  <2>8. \A e \in TrendDays : MetricsRight(e, metrics'[e])
    BY <2>4, <2>5 DEF TrendsInv
  <2>9. ASSUME NEW e \in TrendDays PROVE MetricsRight(e, metrics[e])'
    BY <2>6, <2>8 DEF MetricsRight
  <2> QED
    BY <2>1, <2>2, <2>7, <2>9 DEF TrendsInv
<1>4. CASE UNCHANGED nvars
  <2>1. \A e, lanes : Ran(e, lanes)' = Ran(e, lanes) /\ RanGood(e, lanes)' = RanGood(e, lanes)
    BY <1>4 DEF Ran, RanGood, RunsWith, GoodWith, nvars
  <2>2. ASSUME NEW e \in TrendDays
        PROVE  MetricsRight(e, metrics[e])' /\ \A f \in counting'[e] : FirstRight(e, f)'
    BY <1>4, <2>1 DEF TrendsInv, MetricsRight, FirstRight, nvars
  <2> QED
    BY <1>4, <2>2 DEF TrendsInv, nvars
<1> QED
  BY <1>1, <1>2, <1>3, <1>4 DEF TrendsNext

LEMMA TrendsTyped == TrendsInv => TrendsTypeOK
BY DEF TrendsInv, TrendsTypeOK, FirstRight, MetricsRight

-----------------------------------------------------------------------------
(* Buckets of a chart.                                                         *)

LEMMA SumsBelow ==
  ASSUME NEW f, NEW g, NEW e, NEW n, NEW S, IsFiniteSet(S),
         \A x \in S : f[x] \in Int /\ g[x] \in Int /\ e[x] \in Int /\ n[x] \in Int,
         \A x \in S : f[x] - g[x] + e[x] <= n[x]
  PROVE  SumFunctionOnSet(f, S) - SumFunctionOnSet(g, S) + SumFunctionOnSet(e, S) <= SumFunctionOnSet(n, S)
<1> DEFINE G == {T \in SUBSET S : SumFunctionOnSet(f, T) - SumFunctionOnSet(g, T) + SumFunctionOnSet(e, T)
                                    <= SumFunctionOnSet(n, T)}
<1>1. {} \in G
  BY SumEmpty
<1>2. \A T \in G : \A x \in S \ T : T \subseteq S => T \cup {x} \in G
  <2> SUFFICES ASSUME NEW T \in G, NEW x \in S \ T PROVE T \cup {x} \in G
    OBVIOUS
  <2>1. IsFiniteSet(T) /\ \A y \in T \cup {x} : f[y] \in Int /\ g[y] \in Int /\ e[y] \in Int /\ n[y] \in Int
    BY FS_Subset
  <2>2. /\ SumFunctionOnSet(f, T \cup {x}) = SumFunctionOnSet(f, T) + f[x]
        /\ SumFunctionOnSet(g, T \cup {x}) = SumFunctionOnSet(g, T) + g[x]
        /\ SumFunctionOnSet(e, T \cup {x}) = SumFunctionOnSet(e, T) + e[x]
        /\ SumFunctionOnSet(n, T \cup {x}) = SumFunctionOnSet(n, T) + n[x]
    BY <2>1, SumGrow
  <2>3. /\ SumFunctionOnSet(f, T) \in Int /\ SumFunctionOnSet(g, T) \in Int
        /\ SumFunctionOnSet(e, T) \in Int /\ SumFunctionOnSet(n, T) \in Int
    BY <2>1, SumInt
  <2>4. f[x] - g[x] + e[x] <= n[x] /\ f[x] \in Int /\ g[x] \in Int /\ e[x] \in Int /\ n[x] \in Int
    OBVIOUS
  <2> QED
    BY <2>2, <2>3, <2>4
<1> HIDE DEF G
<1>3. S \in G
  <2>1. Grows(S, G)
    BY <1>1, <1>2 DEF Grows
  <2> QED
    BY <2>1, GrowingSets
<1> QED
  BY <1>3 DEF G

(* The runs of some days are those of each of them.                            *)
RunsOfDays(days, lanes) == {r \in TrendRuns : ended[r].day \in days /\ ended[r].lane \in lanes}
GoodOfDays(days, lanes) == {r \in RunsOfDays(days, lanes) : ended[r].good}

LEMMA DaysCount ==
  ASSUME NEW days \in SUBSET TrendDays, NEW lanes
  PROVE  /\ Cardinality(RunsOfDays(days, lanes)) = SumFunctionOnSet([d \in days |-> Ran(d, lanes)], days)
         /\ Cardinality(GoodOfDays(days, lanes)) = SumFunctionOnSet([d \in days |-> RanGood(d, lanes)], days)
<1> DEFINE ran == [d \in days |-> Ran(d, lanes)]
           good == [d \in days |-> RanGood(d, lanes)]
           runs == [d \in days |-> RunsWith(d, lanes)]
           goods == [d \in days |-> GoodWith(d, lanes)]
<1>1. IsFiniteSet(days)
  BY TrendsAssumption, FS_Subset
<1>2. \A d \in days : /\ IsFiniteSet(runs[d]) /\ ran[d] = Cardinality(runs[d])
                      /\ IsFiniteSet(goods[d]) /\ good[d] = Cardinality(goods[d])
  BY RunsFinite DEF Ran, RanGood
<1>3. \A d, e \in days : d # e => runs[d] \cap runs[e] = {} /\ goods[d] \cap goods[e] = {}
  BY DEF RunsWith, GoodWith
<1>4. UNION Values(runs, days) = RunsOfDays(days, lanes)
  BY DEF Values, RunsWith, RunsOfDays
<1>5. UNION Values(goods, days) = GoodOfDays(days, lanes)
  BY DEF Values, RunsWith, GoodWith, RunsOfDays, GoodOfDays
<1> HIDE DEF ran, good, runs, goods
<1>6. SumFunctionOnSet(ran, days) = Cardinality(UNION Values(runs, days))
  BY <1>1, <1>2, <1>3, SumOfCardinalities
<1>7. SumFunctionOnSet(good, days) = Cardinality(UNION Values(goods, days))
  BY <1>1, <1>2, <1>3, SumOfCardinalities
<1> QED
  BY <1>4, <1>5, <1>6, <1>7 DEF ran, good

(* A bucket adds up the metrics of its days.                                   *)
Total(key, days) == SumFunctionOnSet([d \in days |-> Count(metrics[d], key)], days)
TotalGoodFailed(days) == SumFunctionOnSet([d \in days |-> GoodFailed(metrics[d])], days)
BucketRight(b) ==
  /\ b.days \subseteq TrendDays
  /\ b.raw.runs = Total("runs", b.days) /\ b.raw.failed = Total("failed", b.days)
  /\ b.raw.provision = Total("provision", b.days) /\ b.raw.e2e = Total("e2e", b.days)
  /\ b.raw.other = Total("other", b.days)
  /\ b.filtered.runs = Total("good", b.days) /\ b.filtered.failed = TotalGoodFailed(b.days)
  /\ b.filtered.provision = Total("goodProvision", b.days) /\ b.filtered.e2e = Total("goodE2E", b.days)
  /\ b.filtered.other = Total("goodOther", b.days)
  /\ b.raw.defined => b.raw.runs > 0 /\ \A d \in b.days : RawComplete(metrics[d])
  /\ b.raw.lanesDefined => \A d \in b.days : LanesComplete(metrics[d])
  /\ b.filtered.defined => b.filtered.runs > 0 /\ \A d \in b.days : FilteredComplete(metrics[d])

BucketDays(start, step, first, last) ==
  {d \in TrendDays : /\ start <= d /\ d < start + step
                     /\ first <= d /\ d <= last /\ d <= Today
                     /\ metrics[d] # <<>>}

LEMMA BucketIs ==
  ASSUME NEW start, NEW step, NEW first, NEW last
  PROVE  /\ Bucket(start, step, first, last).start = start
         /\ Bucket(start, step, first, last).days = BucketDays(start, step, first, last)
         /\ BucketRight(Bucket(start, step, first, last))
<1> DEFINE b == Bucket(start, step, first, last)
<1>1. b.start = start /\ b.days = BucketDays(start, step, first, last)
  BY DEF Bucket, BucketDays
<1>2. b.days \subseteq TrendDays
  BY <1>1 DEF BucketDays
<1>3. /\ b.raw.runs = Total("runs", b.days) /\ b.raw.failed = Total("failed", b.days)
      /\ b.raw.provision = Total("provision", b.days) /\ b.raw.e2e = Total("e2e", b.days)
      /\ b.raw.other = Total("other", b.days)
  BY DEF Bucket, Outcomes, Total
<1>4. /\ b.filtered.runs = Total("good", b.days) /\ b.filtered.failed = TotalGoodFailed(b.days)
      /\ b.filtered.provision = Total("goodProvision", b.days) /\ b.filtered.e2e = Total("goodE2E", b.days)
      /\ b.filtered.other = Total("goodOther", b.days)
  BY DEF Bucket, Outcomes, Total, TotalGoodFailed
<1>5. /\ b.raw.defined => b.raw.runs > 0 /\ \A d \in b.days : RawComplete(metrics[d])
      /\ b.raw.lanesDefined => \A d \in b.days : LanesComplete(metrics[d])
      /\ b.filtered.defined => b.filtered.runs > 0 /\ \A d \in b.days : FilteredComplete(metrics[d])
  BY DEF Bucket, Outcomes
<1> QED
  BY <1>1, <1>2, <1>3, <1>4, <1>5 DEF BucketRight

LEMMA CountNat ==
  ASSUME TrendsInv, NEW d \in TrendDays, NEW key
  PROVE  /\ Count(metrics[d], key) \in Nat /\ GoodFailed(metrics[d]) \in Nat
         /\ GoodFailed(metrics[d]) = Count(metrics[d], "goodProvision") + Count(metrics[d], "goodE2E")
                                       + Count(metrics[d], "goodOther")
<1>1. \A k : Count(metrics[d], k) \in Nat
  BY DEF TrendsInv, MetricsRight, Count
<1> QED
  BY <1>1 DEF GoodFailed

LEMMA TotalsNat ==
  ASSUME TrendsInv, NEW days \in SUBSET TrendDays
  PROVE  IsFiniteSet(days) /\ TotalGoodFailed(days) \in Nat /\ \A key : Total(key, days) \in Nat
<1>1. IsFiniteSet(days)
  BY TrendsAssumption, FS_Subset
<1>2. ASSUME NEW key PROVE Total(key, days) \in Nat
  <2> DEFINE f == [d \in days |-> Count(metrics[d], key)]
  <2>1. \A d \in days : f[d] \in Nat
    BY CountNat
  <2> HIDE DEF f
  <2>2. SumFunctionOnSet(f, days) \in Nat
    BY <1>1, <2>1, SumNat
  <2> QED
    BY <2>2 DEF f, Total
<1>3. TotalGoodFailed(days) \in Nat
  <2> DEFINE f == [d \in days |-> GoodFailed(metrics[d])]
  <2>1. \A d \in days : f[d] \in Nat
    BY CountNat
  <2> HIDE DEF f
  <2>2. SumFunctionOnSet(f, days) \in Nat
    BY <1>1, <2>1, SumNat
  <2> QED
    BY <2>2 DEF f, TotalGoodFailed
<1> QED
  BY <1>1, <1>2, <1>3

LEMMA TotalAtMost ==
  ASSUME TrendsInv, NEW days \in SUBSET TrendDays, NEW key, NEW other,
         \A d \in days : Count(metrics[d], key) <= Count(metrics[d], other)
  PROVE  Total(key, days) <= Total(other, days)
<1> DEFINE f == [d \in days |-> Count(metrics[d], key)]
           g == [d \in days |-> Count(metrics[d], other)]
<1>1. \A d \in days : f[d] \in Int /\ g[d] \in Int /\ f[d] <= g[d]
  BY CountNat
<1>2. IsFiniteSet(days)
  BY TotalsNat
<1> HIDE DEF f, g
<1>3. SumFunctionOnSet(f, days) <= SumFunctionOnSet(g, days)
  BY <1>1, <1>2, SumAtMost
<1> QED
  BY <1>3 DEF f, g, Total

(* Days whose counts hold no more successes than the day had runs: nor do all. *)
LEMMA TotalsBelow ==
  ASSUME TrendsInv, NEW days \in SUBSET TrendDays, NEW lanes
  PROVE  /\ (\A d \in days : Count(metrics[d], "runs") - Count(metrics[d], "failed") <= Ran(d, lanes))
              => Total("runs", days) - Total("failed", days) <= Cardinality(RunsOfDays(days, lanes))
         /\ (\A d \in days : Count(metrics[d], "runs") - Count(metrics[d], "failed") + Count(metrics[d], "e2e")
                               <= Ran(d, lanes))
              => Total("runs", days) - Total("failed", days) + Total("e2e", days)
                   <= Cardinality(RunsOfDays(days, lanes))
         /\ (\A d \in days : Count(metrics[d], "good") - GoodFailed(metrics[d]) <= RanGood(d, lanes))
              => Total("good", days) - TotalGoodFailed(days) <= Cardinality(GoodOfDays(days, lanes))
         /\ (\A d \in days : Count(metrics[d], "good") - GoodFailed(metrics[d]) + Count(metrics[d], "goodE2E")
                               <= RanGood(d, lanes))
              => Total("good", days) - TotalGoodFailed(days) + Total("goodE2E", days)
                   <= Cardinality(GoodOfDays(days, lanes))
<1> DEFINE k(key) == [d \in days |-> Count(metrics[d], key)]
           goodBad == [d \in days |-> GoodFailed(metrics[d])]
           ran == [d \in days |-> Ran(d, lanes)]
           good == [d \in days |-> RanGood(d, lanes)]
           zero == [d \in days |-> 0]
           runs == k("runs")
           bad == k("failed")
           e2e == k("e2e")
           goods == k("good")
           goodE2E == k("goodE2E")
<1>1. IsFiniteSet(days)
  BY TotalsNat
<1>2. \A d \in days : /\ runs[d] = Count(metrics[d], "runs") /\ bad[d] = Count(metrics[d], "failed")
                      /\ e2e[d] = Count(metrics[d], "e2e") /\ goods[d] = Count(metrics[d], "good")
                      /\ goodE2E[d] = Count(metrics[d], "goodE2E") /\ goodBad[d] = GoodFailed(metrics[d])
                      /\ ran[d] = Ran(d, lanes) /\ good[d] = RanGood(d, lanes) /\ zero[d] = 0
  OBVIOUS
<1>3. \A d \in days : /\ runs[d] \in Int /\ bad[d] \in Int /\ e2e[d] \in Int /\ goods[d] \in Int
                      /\ goodE2E[d] \in Int /\ goodBad[d] \in Int /\ ran[d] \in Int /\ good[d] \in Int
                      /\ zero[d] \in Int
  BY CountNat, RunsFinite
<1>4. /\ Total("runs", days) = SumFunctionOnSet(runs, days) /\ Total("failed", days) = SumFunctionOnSet(bad, days)
      /\ Total("e2e", days) = SumFunctionOnSet(e2e, days) /\ Total("good", days) = SumFunctionOnSet(goods, days)
      /\ Total("goodE2E", days) = SumFunctionOnSet(goodE2E, days)
      /\ TotalGoodFailed(days) = SumFunctionOnSet(goodBad, days)
      /\ Cardinality(RunsOfDays(days, lanes)) = SumFunctionOnSet(ran, days)
      /\ Cardinality(GoodOfDays(days, lanes)) = SumFunctionOnSet(good, days)
  BY DaysCount DEF Total, TotalGoodFailed
<1> HIDE DEF runs, bad, e2e, goods, goodE2E, goodBad, ran, good, zero
<1>5. SumFunctionOnSet(zero, days) = 0
  BY <1>1, <1>2, SumZero
<1>6. \A f \in {runs, bad, goods, goodBad} : SumFunctionOnSet(f, days) \in Int
  BY <1>1, <1>3, SumInt
<1>7. ASSUME \A d \in days : Count(metrics[d], "runs") - Count(metrics[d], "failed") <= Ran(d, lanes)
      PROVE  Total("runs", days) - Total("failed", days) <= Cardinality(RunsOfDays(days, lanes))
  <2>1. \A d \in days : runs[d] - bad[d] + zero[d] <= ran[d]
    BY <1>2, <1>3, <1>7
  <2>2. SumFunctionOnSet(runs, days) - SumFunctionOnSet(bad, days) + SumFunctionOnSet(zero, days)
          <= SumFunctionOnSet(ran, days)
    BY <1>1, <1>3, <2>1, SumsBelow
  <2> QED
    BY <1>4, <1>5, <1>6, <2>2
<1>8. ASSUME \A d \in days : Count(metrics[d], "runs") - Count(metrics[d], "failed") + Count(metrics[d], "e2e")
                               <= Ran(d, lanes)
      PROVE  Total("runs", days) - Total("failed", days) + Total("e2e", days)
                   <= Cardinality(RunsOfDays(days, lanes))
  <2>1. \A d \in days : runs[d] - bad[d] + e2e[d] <= ran[d]
    BY <1>2, <1>8
  <2>2. SumFunctionOnSet(runs, days) - SumFunctionOnSet(bad, days) + SumFunctionOnSet(e2e, days)
          <= SumFunctionOnSet(ran, days)
    BY <1>1, <1>3, <2>1, SumsBelow
  <2> QED
    BY <1>4, <2>2
<1>9. ASSUME \A d \in days : Count(metrics[d], "good") - GoodFailed(metrics[d]) <= RanGood(d, lanes)
      PROVE  Total("good", days) - TotalGoodFailed(days) <= Cardinality(GoodOfDays(days, lanes))
  <2>1. \A d \in days : goods[d] - goodBad[d] + zero[d] <= good[d]
    BY <1>2, <1>3, <1>9
  <2>2. SumFunctionOnSet(goods, days) - SumFunctionOnSet(goodBad, days) + SumFunctionOnSet(zero, days)
          <= SumFunctionOnSet(good, days)
    BY <1>1, <1>3, <2>1, SumsBelow
  <2> QED
    BY <1>4, <1>5, <1>6, <2>2
<1>10. ASSUME \A d \in days : Count(metrics[d], "good") - GoodFailed(metrics[d]) + Count(metrics[d], "goodE2E")
                               <= RanGood(d, lanes)
       PROVE  Total("good", days) - TotalGoodFailed(days) + Total("goodE2E", days)
                   <= Cardinality(GoodOfDays(days, lanes))
  <2>1. \A d \in days : goods[d] - goodBad[d] + goodE2E[d] <= good[d]
    BY <1>2, <1>10
  <2>2. SumFunctionOnSet(goods, days) - SumFunctionOnSet(goodBad, days) + SumFunctionOnSet(goodE2E, days)
          <= SumFunctionOnSet(good, days)
    BY <1>1, <1>3, <2>1, SumsBelow
  <2> QED
    BY <1>4, <2>2
<1> QED
  BY <1>7, <1>8, <1>9, <1>10

(* What TrendsHonest says of one bucket.                                       *)
Honest(rate, runs) == rate.defined => rate.count <= Cardinality(runs)
HonestOf(b, passed, reached, goodPassed, goodReached) ==
  /\ Honest(OverallRate(b.raw), passed) /\ Honest(OverallRate(b.filtered), goodPassed)
  /\ Honest(ProvisionRate(b.raw), reached) /\ Honest(ProvisionRate(b.filtered), goodReached)
  /\ Honest(E2ERate(b.raw), passed) /\ Honest(E2ERate(b.filtered), goodPassed)
  /\ b.raw.defined /\ b.filtered.defined => b.filtered.runs <= b.raw.runs
  /\ b.raw.defined /\ b.raw.lanesDefined => OtherShare(b.raw).defined
HonestBucket(b) ==
  HonestOf(b, RunsOfDays(b.days, {"passed"}), RunsOfDays(b.days, {"passed", "e2e"}),
           GoodOfDays(b.days, {"passed"}), GoodOfDays(b.days, {"passed", "e2e"}))

LEMMA DayBelow ==
  ASSUME TrendsInv, NEW d \in TrendDays
  PROVE  LET m == metrics[d] IN
         /\ RawComplete(m) => /\ Count(m, "runs") - Count(m, "failed") <= Ran(d, {"passed"})
                              /\ Count(m, "failed") <= Count(m, "runs")
         /\ RawComplete(m) /\ LanesComplete(m) =>
              /\ Count(m, "runs") - Count(m, "failed") + Count(m, "e2e") <= Ran(d, {"passed", "e2e"})
              /\ Count(m, "other") <= Count(m, "runs")
         /\ FilteredComplete(m) =>
              /\ Count(m, "good") - GoodFailed(m) <= RanGood(d, {"passed"})
              /\ Count(m, "good") - GoodFailed(m) + Count(m, "goodE2E") <= RanGood(d, {"passed", "e2e"})
              /\ Count(m, "good") <= Count(m, "runs")
<1> DEFINE m == metrics[d]
<1>1. MetricsRight(d, m) /\ \A key : Count(m, key) \in Nat
  BY CountNat DEF TrendsInv
<1>2. \A key \in DOMAIN m : Count(m, key) = m[key]
  BY DEF Count
<1>3. /\ Ran(d, {"passed", "e2e"}) = Ran(d, {"passed"}) + Ran(d, {"e2e"})
      /\ RanGood(d, {"passed", "e2e"}) = RanGood(d, {"passed"}) + RanGood(d, {"e2e"})
  <2>1. {"passed", "e2e"} = {"passed"} \cup {"e2e"} /\ {"passed"} \cap {"e2e"} = {}
    OBVIOUS
  <2> QED
    BY <2>1, LanesApart
<1>4. /\ Ran(d, {"passed"}) \in Nat /\ Ran(d, {"e2e"}) \in Nat
      /\ RanGood(d, {"passed"}) \in Nat /\ RanGood(d, {"e2e"}) \in Nat
  BY RunsFinite
<1> HIDE DEF m
<1>5. ASSUME RawComplete(m)
      PROVE  /\ Count(m, "runs") - Count(m, "failed") <= Ran(d, {"passed"})
             /\ Count(m, "failed") <= Count(m, "runs")
  BY <1>1, <1>2, <1>5 DEF RawComplete, Valid, MetricsRight
<1>6. ASSUME LanesComplete(m), RawComplete(m)
      PROVE  Count(m, "e2e") <= Ran(d, {"e2e"}) /\ Count(m, "other") <= Count(m, "runs")
  BY <1>1, <1>2, <1>6 DEF LanesComplete, RawComplete, Valid, MetricsRight, FailureLanes
<1>7. ASSUME FilteredComplete(m)
      PROVE  /\ Count(m, "good") - GoodFailed(m) <= RanGood(d, {"passed"})
             /\ Count(m, "goodE2E") <= RanGood(d, {"e2e"})
             /\ Count(m, "good") <= Count(m, "runs")
  <2>1. GoodKeys \subseteq DOMAIN m /\ Count(m, "good") <= Count(m, "runs")
    BY <1>7 DEF FilteredComplete, Valid
  <2>2. /\ m["good"] - (m["goodProvision"] + m["goodE2E"] + m["goodOther"]) <= RanGood(d, {"passed"})
        /\ m["goodE2E"] <= RanGood(d, {"e2e"})
    BY <1>1, <2>1 DEF MetricsRight
  <2>3. /\ Count(m, "good") = m["good"] /\ Count(m, "goodProvision") = m["goodProvision"]
        /\ Count(m, "goodE2E") = m["goodE2E"] /\ Count(m, "goodOther") = m["goodOther"]
    BY <1>2, <2>1 DEF GoodKeys
  <2> QED
    BY <2>1, <2>2, <2>3 DEF GoodFailed
<1>8. GoodFailed(m) \in Nat
  BY <1>1 DEF GoodFailed
<1> QED
  BY <1>1, <1>3, <1>4, <1>5, <1>6, <1>7, <1>8 DEF m

LEMMA BucketHonest ==
  ASSUME TrendsInv, NEW b, BucketRight(b)
  PROVE  HonestBucket(b)
<1> DEFINE days == b.days
<1>1. days \in SUBSET TrendDays
  BY DEF BucketRight
<1>2. TotalGoodFailed(days) \in Nat /\ \A key : Total(key, days) \in Nat
  BY <1>1, TotalsNat
<1>3. /\ b.raw.runs = Total("runs", days) /\ b.raw.failed = Total("failed", days) /\ b.raw.e2e = Total("e2e", days)
      /\ b.raw.other = Total("other", days) /\ b.filtered.runs = Total("good", days)
      /\ b.filtered.failed = TotalGoodFailed(days) /\ b.filtered.e2e = Total("goodE2E", days)
  BY DEF BucketRight
<1>4. ASSUME b.raw.defined
      PROVE  /\ b.raw.runs > 0 /\ \A d \in days : RawComplete(metrics[d])
             /\ b.raw.runs - b.raw.failed <= Cardinality(RunsOfDays(days, {"passed"}))
  <2>1. \A d \in days : RawComplete(metrics[d])
    BY <1>4 DEF BucketRight
  <2>2. \A d \in days : Count(metrics[d], "runs") - Count(metrics[d], "failed") <= Ran(d, {"passed"})
    BY <1>1, <2>1, DayBelow
  <2> QED
    BY <1>1, <1>3, <1>4, <2>1, <2>2, TotalsBelow DEF BucketRight
<1>5. ASSUME b.raw.defined, b.raw.lanesDefined
      PROVE  /\ b.raw.runs - b.raw.failed + b.raw.e2e <= Cardinality(RunsOfDays(days, {"passed", "e2e"}))
             /\ b.raw.other <= b.raw.runs
  <2>1. \A d \in days : RawComplete(metrics[d]) /\ LanesComplete(metrics[d])
    BY <1>4, <1>5 DEF BucketRight
  <2>2. \A d \in days : /\ Count(metrics[d], "runs") - Count(metrics[d], "failed") + Count(metrics[d], "e2e")
                             <= Ran(d, {"passed", "e2e"})
                        /\ Count(metrics[d], "other") <= Count(metrics[d], "runs")
    BY <1>1, <2>1, DayBelow
  <2>3. Total("other", days) <= Total("runs", days)
    BY <1>1, <2>2, TotalAtMost
  <2> QED
    BY <1>1, <1>3, <2>2, <2>3, TotalsBelow
<1>6. ASSUME b.filtered.defined
      PROVE  /\ b.filtered.runs - b.filtered.failed <= Cardinality(GoodOfDays(days, {"passed"}))
             /\ b.filtered.runs - b.filtered.failed + b.filtered.e2e
                  <= Cardinality(GoodOfDays(days, {"passed", "e2e"}))
             /\ b.filtered.runs <= b.raw.runs
  <2>1. \A d \in days : FilteredComplete(metrics[d])
    BY <1>6 DEF BucketRight
  <2>2. \A d \in days :
          /\ Count(metrics[d], "good") - GoodFailed(metrics[d]) <= RanGood(d, {"passed"})
          /\ Count(metrics[d], "good") - GoodFailed(metrics[d]) + Count(metrics[d], "goodE2E")
               <= RanGood(d, {"passed", "e2e"})
          /\ Count(metrics[d], "good") <= Count(metrics[d], "runs")
    BY <1>1, <2>1, DayBelow
  <2>3. Total("good", days) <= Total("runs", days)
    BY <1>1, <2>2, TotalAtMost
  <2> QED
    BY <1>1, <1>3, <2>2, <2>3, TotalsBelow
<1>7. b.raw.defined /\ b.raw.lanesDefined => OtherShare(b.raw).defined
  <2>1. b.raw.defined /\ b.raw.lanesDefined => b.raw.runs > 0 /\ 0 <= b.raw.other /\ b.raw.other <= b.raw.runs
    BY <1>2, <1>3, <1>4, <1>5
  <2>2. OtherShare(b.raw).defined = ((b.raw.defined /\ b.raw.lanesDefined)
          /\ b.raw.runs > 0 /\ 0 <= b.raw.other /\ b.raw.other <= b.raw.runs)
    BY DEF OtherShare, Point
  <2> QED
    BY <2>1, <2>2, Zenon
<1> QED
  BY <1>4, <1>5, <1>6, <1>7 DEF HonestBucket, HonestOf, Honest, OverallRate, ProvisionRate, E2ERate, Point
-----------------------------------------------------------------------------
(* Charts.                                                                     *)

LEMMA TimesGrow ==
  ASSUME NEW s \in Nat, NEW j \in Int, NEW k \in Int, j < k
  PROVE  s * j \in Int /\ s * k \in Int /\ s * j + s <= s * k
<1>1. s * (k - j) >= s
  <2>1. k - j - 1 \in Nat
    OBVIOUS
  <2>2. s * (k - j - 1) \in Nat
    BY <2>1, ProductNat
  <2> QED
    BY <2>2
<1> QED
  BY <1>1

LEMMA Quotient ==
  ASSUME NEW s \in Nat \ {0}, NEW a \in Int
  PROVE  a \div s \in Int /\ s * (a \div s) \in Int /\ s * (a \div s) <= a /\ a < s * (a \div s) + s
OBVIOUS

LEMMA QuotientGrows ==
  ASSUME NEW s \in Nat \ {0}, NEW a \in Int, NEW b \in Int, a <= b
  PROVE  a \div s <= b \div s
<1>1. /\ a \div s \in Int /\ s * (a \div s) \in Int /\ s * (a \div s) <= a
      /\ b \div s \in Int /\ s * (b \div s) \in Int /\ b < s * (b \div s) + s
  BY Quotient
<1>2. b \div s < a \div s => s * (b \div s) + s <= s * (a \div s)
  BY <1>1, TimesGrow
<1> QED
  BY <1>1, <1>2

WindowDays(first, last) == {d \in TrendDays : first <= d /\ d <= last /\ d <= Today /\ metrics[d] # <<>>}
Starts(axis, step, last) == {axis + step * k : k \in 0..((last - axis) \div step)}
Chart(axis, step, first, last) == {Bucket(start, step, first, last) : start \in Starts(axis, step, last)}
Axis(first, step) == IF step = Week THEN WeekStart(first) ELSE first

LEMMA StartsApart ==
  ASSUME NEW axis \in Int, NEW step \in Nat \ {0}, NEW last \in Int,
         NEW s \in Starts(axis, step, last), NEW t \in Starts(axis, step, last), s # t
  PROVE  s \in Int /\ t \in Int /\ (s + step <= t \/ t + step <= s)
<1>1. PICK j \in 0..((last - axis) \div step) : s = axis + step * j
  BY DEF Starts
<1>2. PICK k \in 0..((last - axis) \div step) : t = axis + step * k
  BY DEF Starts
<1>3. (last - axis) \div step \in Int
  BY Quotient
<1>4. j \in Int /\ k \in Int /\ j # k
  BY <1>1, <1>2, <1>3
<1>5. CASE j < k
  BY <1>1, <1>2, <1>4, <1>5, TimesGrow
<1>6. CASE k < j
  BY <1>1, <1>2, <1>4, <1>6, TimesGrow
<1> QED
  BY <1>4, <1>5, <1>6

LEMMA StartOf ==
  ASSUME NEW axis \in Int, NEW step \in Nat \ {0}, NEW last \in Int, NEW d \in Int, axis <= d, d <= last
  PROVE  \E s \in Starts(axis, step, last) : s \in Int /\ s <= d /\ d < s + step
<1> DEFINE k == (d - axis) \div step
           n == (last - axis) \div step
<1>1. k \in Int /\ step * k \in Int /\ step * k <= d - axis /\ d - axis < step * k + step
  BY Quotient
<1>2. k <= n /\ n \in Int
  BY Quotient, QuotientGrows
<1>3. 0 <= k
  <2>1. k < 0 => step * k + step <= step * 0
    BY <1>1, TimesGrow
  <2> HIDE DEF k
  <2> QED
    BY <1>1, <2>1
<1> HIDE DEF k
<1>4. k \in 0..n
  BY <1>1, <1>2, <1>3
<1>5. axis + step * k \in Starts(axis, step, last)
  BY <1>4 DEF Starts
<1> QED
  BY <1>1, <1>5

LEMMA ChartFinite ==
  ASSUME NEW axis \in Int, NEW step \in Nat \ {0}, NEW first \in Int, NEW last \in Int
  PROVE  IsFiniteSet(Chart(axis, step, first, last))
<1> DEFINE n == (last - axis) \div step
           f == [k \in 0..n |-> Bucket(axis + step * k, step, first, last)]
<1>1. n \in Int
  BY Quotient
<1>2. Chart(axis, step, first, last) = Values(f, 0..n)
  BY DEF Chart, Starts, Values
<1> HIDE DEF f, n
<1>3. IsFiniteSet(0..n)
  BY <1>1, FS_Interval
<1> QED
  BY <1>2, <1>3, ValuesFinite

(* The buckets of a chart share no day, and are of all days of the window.     *)
LEMMA ChartParts ==
  ASSUME NEW axis \in Int, NEW step \in Nat \ {0}, NEW first \in Int, NEW last \in Int, axis <= first,
         NEW parts, \A b \in Chart(axis, step, first, last) : parts[b] = b.days
  PROVE  /\ UNION Values(parts, Chart(axis, step, first, last)) = WindowDays(first, last)
         /\ \A b, c \in Chart(axis, step, first, last) : b # c => parts[b] \cap parts[c] = {}
<1> DEFINE C == Chart(axis, step, first, last)
<1>0. TrendDays \subseteq Int /\ Today \in Int
  BY TrendsAssumption
<1>1. ASSUME NEW b \in C
      PROVE  \E s \in Starts(axis, step, last) :
               b = Bucket(s, step, first, last) /\ parts[b] = BucketDays(s, step, first, last)
  BY BucketIs DEF Chart
<1>2. ASSUME NEW d \in WindowDays(first, last)
      PROVE  \E b \in C : d \in parts[b]
  <2>1. d \in Int /\ axis <= d /\ d <= last
    BY ONLY <1>0, <1>2, axis \in Int, first \in Int, last \in Int, axis <= first DEF WindowDays
  <2> HIDE DEF C
  <2>2. PICK s \in Starts(axis, step, last) : s \in Int /\ s <= d /\ d < s + step
    BY <2>1, StartOf
  <2>3. d \in BucketDays(s, step, first, last)
    BY <2>2 DEF BucketDays, WindowDays
  <2>4. Bucket(s, step, first, last) \in C
    BY DEF C, Chart
  <2> QED
    BY <2>3, <2>4, BucketIs DEF C
<1>3. ASSUME NEW b \in C PROVE parts[b] \subseteq WindowDays(first, last)
  BY <1>1 DEF BucketDays, WindowDays
<1>4. ASSUME NEW b \in C, NEW c \in C, b # c
      PROVE  parts[b] \cap parts[c] = {}
  <2>1. PICK s \in Starts(axis, step, last) :
           b = Bucket(s, step, first, last) /\ parts[b] = BucketDays(s, step, first, last)
    BY <1>1
  <2>2. PICK t \in Starts(axis, step, last) :
           c = Bucket(t, step, first, last) /\ parts[c] = BucketDays(t, step, first, last)
    BY <1>1
  <2>3. s \in Int /\ t \in Int /\ (s + step <= t \/ t + step <= s)
    BY <1>4, <2>1, <2>2, StartsApart
  <2> HIDE DEF C
  <2>4. \A d \in TrendDays : ~(s <= d /\ d < s + step /\ t <= d /\ d < t + step)
    BY <1>0, <2>3
  <2> QED
    BY <2>1, <2>2, <2>4 DEF BucketDays
<1> HIDE DEF C
<1>5. UNION Values(parts, C) = WindowDays(first, last)
  BY <1>2, <1>3 DEF Values
<1> QED
  BY <1>4, <1>5 DEF C

LEMMA NoDays ==
  ASSUME NEW axis \in Int, NEW step \in Nat \ {0}, NEW first \in Int, NEW last \in Int, axis <= first,
         \A b \in Chart(axis, step, first, last) : b.days = {}
  PROVE  WindowDays(first, last) = {}
<1> DEFINE parts == [b \in Chart(axis, step, first, last) |-> b.days]
<1>1. \A b \in Chart(axis, step, first, last) : parts[b] = b.days
  OBVIOUS
<1> HIDE DEF parts
<1>2. UNION Values(parts, Chart(axis, step, first, last)) = WindowDays(first, last)
  BY ONLY <1>1, ChartParts, axis \in Int, step \in Nat \ {0}, first \in Int, last \in Int, axis <= first, SMTT(30)
<1> QED
  BY <1>1, <1>2 DEF Values

(* What the buckets of a chart add up to, whatever their length.               *)
LEMMA ChartTotals ==
  ASSUME TrendsInv, NEW axis \in Int, NEW step \in Nat \ {0}, NEW first \in Int, NEW last \in Int, axis <= first
  PROVE  /\ AllRuns(Chart(axis, step, first, last)) = Total("runs", WindowDays(first, last))
         /\ AllGoodFailed(Chart(axis, step, first, last)) = TotalGoodFailed(WindowDays(first, last))
<1> DEFINE C == Chart(axis, step, first, last)
           W == WindowDays(first, last)
           parts == [b \in C |-> b.days]
           hr == [b \in C |-> b.raw.runs]
           hg == [b \in C |-> b.filtered.failed]
           fr == [d \in TrendDays |-> Count(metrics[d], "runs")]
           fg == [d \in TrendDays |-> GoodFailed(metrics[d])]
<1>1. IsFiniteSet(C)
  BY ChartFinite
<1>2. \A b \in C : BucketRight(b) /\ parts[b] = b.days
  BY BucketIs DEF Chart
<1>3. UNION Values(parts, C) = W /\ \A b, c \in C : b # c => parts[b] \cap parts[c] = {}
  <2> HIDE DEF parts, W, C
  <2>1. \A b \in C : parts[b] = b.days
    BY <1>2
  <2> QED
    BY ONLY <2>1, ChartParts, axis \in Int, step \in Nat \ {0}, first \in Int, last \in Int, axis <= first DEF C, W
<1>4. ASSUME NEW days \in SUBSET TrendDays
      PROVE  /\ IsFiniteSet(days)
             /\ Total("runs", days) = SumFunctionOnSet(fr, days)
             /\ TotalGoodFailed(days) = SumFunctionOnSet(fg, days)
             /\ \A d \in days : fr[d] \in Int /\ fg[d] \in Int
  <2> DEFINE gr == [d \in days |-> Count(metrics[d], "runs")]
             gg == [d \in days |-> GoodFailed(metrics[d])]
  <2>1. IsFiniteSet(days)
    BY TotalsNat
  <2>2. \A d \in days : /\ fr[d] \in Int /\ gr[d] = fr[d]
                        /\ fg[d] \in Int /\ gg[d] = fg[d]
    BY CountNat
  <2>3. Total("runs", days) = SumFunctionOnSet(gr, days) /\ TotalGoodFailed(days) = SumFunctionOnSet(gg, days)
    BY DEF Total, TotalGoodFailed
  <2> HIDE DEF gr, gg, fr, fg
  <2>4. SumFunctionOnSet(fr, days) = SumFunctionOnSet(gr, days)
    BY <2>1, <2>2, SumAlike
  <2>5. SumFunctionOnSet(fg, days) = SumFunctionOnSet(gg, days)
    BY <2>1, <2>2, SumAlike
  <2> QED
    BY <2>1, <2>2, <2>3, <2>4, <2>5
<1>5. \A b \in C : /\ parts[b] \in SUBSET TrendDays
                   /\ hr[b] = Total("runs", parts[b]) /\ hg[b] = TotalGoodFailed(parts[b])
  BY <1>2 DEF BucketRight
<1>6. W \in SUBSET TrendDays
  BY DEF WindowDays
<1>7. AllRuns(C) = SumFunctionOnSet(hr, C) /\ AllGoodFailed(C) = SumFunctionOnSet(hg, C)
  BY DEF AllRuns, AllGoodFailed
<1> HIDE DEF C, W, parts, hr, hg, fr, fg
<1>8. SumFunctionOnSet(hr, C) = SumFunctionOnSet(fr, W)
  <2>1. \A b \in C : IsFiniteSet(parts[b]) /\ hr[b] = SumFunctionOnSet(fr, parts[b])
    BY <1>4, <1>5
  <2>2. \A d \in W : fr[d] \in Int
    BY <1>4, <1>6
  <2> QED
    BY <1>1, <1>3, <2>1, <2>2, SumOfParts
<1>9. SumFunctionOnSet(hg, C) = SumFunctionOnSet(fg, W)
  <2>1. \A b \in C : IsFiniteSet(parts[b]) /\ hg[b] = SumFunctionOnSet(fg, parts[b])
    BY <1>4, <1>5
  <2>2. \A d \in W : fg[d] \in Int
    BY <1>4, <1>6
  <2> QED
    BY <1>1, <1>3, <2>1, <2>2, SumOfParts
<1>10. Total("runs", W) = SumFunctionOnSet(fr, W) /\ TotalGoodFailed(W) = SumFunctionOnSet(fg, W)
  BY <1>4, <1>6
<1> QED
  BY <1>7, <1>8, <1>9, <1>10 DEF C, W

LEMMA TrendsWindowIs ==
  ASSUME NEW query \in TrendQueries, \E d \in TrendDays : metrics[d] # <<>>
  PROVE  TrendsWindow(query).first \in Int /\ TrendsWindow(query).last \in Int
<1> DEFINE known == {d \in TrendDays : metrics[d] # <<>>}
<1>1. known \subseteq Int /\ IsFiniteSet(known) /\ known # {}
  BY TrendsAssumption, FS_Subset
<1>2. Min(known) \in Int /\ Max(known) \in Int
  <2> HIDE DEF known
  <2> QED
    BY <1>1, MinIs, MaxIs
<1>3. CASE query.mode = "relative"
  BY <1>3, TrendsAssumption DEF TrendsWindow
<1>4. CASE query.mode = "weekly"
  BY <1>4, TrendsAssumption, PatternsAssumption, WeekStartIs DEF TrendsWindow
<1>5. CASE query.mode = "all"
  BY <1>2, <1>5 DEF TrendsWindow
<1>6. CASE query.mode \notin {"relative", "weekly", "all"}
  BY <1>6, TrendsAssumption DEF TrendsWindow
<1> QED
  BY <1>3, <1>4, <1>5, <1>6

AxisOf(query, step) == IF step = Week THEN WeekStart(TrendsWindow(query).first) ELSE TrendsWindow(query).first
ChartOf(query, step) == Chart(AxisOf(query, step), step, TrendsWindow(query).first, TrendsWindow(query).last)

LEMMA TrendsAre ==
  ASSUME NEW query, NEW step
  PROVE  BuildTrends(query, step) =
           IF (\A d \in TrendDays : metrics[d] = <<>>) \/ (\A b \in ChartOf(query, step) : b.days = {})
           THEN {} ELSE ChartOf(query, step)
<1> DEFINE w == TrendsWindow(query)
           axis == AxisOf(query, step)
           starts == {axis + step * k : k \in 0..((w.last - axis) \div step)}
           buckets == {Bucket(start, step, w.first, w.last) : start \in starts}
<1>1. buckets = ChartOf(query, step)
  BY DEF ChartOf, Chart, Starts
<1>2. BuildTrends(query, step) =
        IF \A d \in TrendDays : metrics[d] = <<>> THEN {}
        ELSE IF \A b \in buckets : b.days = {} THEN {} ELSE buckets
  BY DEF BuildTrends, AxisOf
<1> HIDE DEF buckets
<1> QED
  BY <1>1, <1>2

LEMMA TrendsTotals ==
  ASSUME TrendsInv, NEW query \in TrendQueries, NEW step \in Nat \ {0}
  PROVE  /\ \A b \in BuildTrends(query, step) : BucketRight(b)
         /\ (\A d \in TrendDays : metrics[d] = <<>>) => BuildTrends(query, step) = {}
         /\ (\E d \in TrendDays : metrics[d] # <<>>) =>
              LET W == WindowDays(TrendsWindow(query).first, TrendsWindow(query).last) IN
              /\ AllRuns(BuildTrends(query, step)) = Total("runs", W)
              /\ AllGoodFailed(BuildTrends(query, step)) = TotalGoodFailed(W)
<1> DEFINE w == TrendsWindow(query)
           axis == AxisOf(query, step)
           C == ChartOf(query, step)
           T == BuildTrends(query, step)
<1>1. T \subseteq C /\ (T # C => T = {})
  BY TrendsAre
<1>2. \A b \in C : BucketRight(b)
  BY BucketIs DEF ChartOf, Chart
<1>3. ASSUME NEW d \in TrendDays, metrics[d] # <<>>
      PROVE  LET W == WindowDays(w.first, w.last) IN
             AllRuns(T) = Total("runs", W) /\ AllGoodFailed(T) = TotalGoodFailed(W)
  <2>1. w.first \in Int /\ w.last \in Int
    BY <1>3, TrendsWindowIs
  <2>2. axis \in Int /\ axis <= w.first
    BY <2>1, WeekStartIs DEF AxisOf
  <2>3. AllRuns(C) = Total("runs", WindowDays(w.first, w.last))
        /\ AllGoodFailed(C) = TotalGoodFailed(WindowDays(w.first, w.last))
    BY <2>1, <2>2, ChartTotals DEF ChartOf
  <2>4. CASE T = C
    BY <2>3, <2>4
  <2>5. CASE T # C
    <3>1. \A b \in C : b.days = {}
      BY <1>3, <2>5, TrendsAre
    <3>2. WindowDays(w.first, w.last) = {}
      BY <2>1, <2>2, <3>1, NoDays DEF ChartOf
    <3>3. Total("runs", {}) = 0 /\ TotalGoodFailed({}) = 0 /\ AllRuns({}) = 0 /\ AllGoodFailed({}) = 0
      BY SumEmpty DEF Total, TotalGoodFailed, AllRuns, AllGoodFailed
    <3> QED
      BY <1>1, <2>5, <3>2, <3>3
  <2> QED
    BY <2>4, <2>5
<1>4. (\A d \in TrendDays : metrics[d] = <<>>) => T = {}
  BY TrendsAre
<1> QED
  BY <1>1, <1>2, <1>3, <1>4

LEMMA TrendsAreHonest == TrendsInv => TrendsHonest
<1> SUFFICES ASSUME TrendsInv, NEW query \in TrendQueries
             PROVE  LET daily == BuildTrends(query, 1)
                        weekly == BuildTrends(query, Week)
                    IN /\ \A b \in daily \cup weekly : HonestBucket(b)
                       /\ AllRuns(daily) = AllRuns(weekly) /\ AllGoodFailed(daily) = AllGoodFailed(weekly)
  <2> SUFFICES ASSUME NEW b, HonestBucket(b)
               PROVE  LET passed == {r \in TrendRuns : ended[r].day \in b.days /\ ended[r].lane = "passed"}
                          reached == {r \in TrendRuns : ended[r].day \in b.days /\ ended[r].lane \in {"passed", "e2e"}}
                          good == {r \in TrendRuns : ended[r].good}
                      IN HonestOf(b, passed, reached, passed \cap good, reached \cap good)
    BY Zenon DEF TrendsHonest, HonestOf, Honest
  <2> DEFINE passed == {r \in TrendRuns : ended[r].day \in b.days /\ ended[r].lane = "passed"}
             reached == {r \in TrendRuns : ended[r].day \in b.days /\ ended[r].lane \in {"passed", "e2e"}}
             good == {r \in TrendRuns : ended[r].good}
  <2>1. /\ passed = RunsOfDays(b.days, {"passed"}) /\ reached = RunsOfDays(b.days, {"passed", "e2e"})
        /\ passed \cap good = GoodOfDays(b.days, {"passed"})
        /\ reached \cap good = GoodOfDays(b.days, {"passed", "e2e"})
    BY DEF RunsOfDays, GoodOfDays
  <2> HIDE DEF passed, reached, good
  <2>2. HonestOf(b, passed, reached, passed \cap good, reached \cap good)
    BY <2>1 DEF HonestBucket
  <2> QED
    BY <2>2 DEF passed, reached, good
<1>1. 1 \in Nat \ {0} /\ Week \in Nat \ {0}
  BY PatternsAssumption
<1>2. \A b \in BuildTrends(query, 1) \cup BuildTrends(query, Week) : HonestBucket(b)
  BY <1>1, TrendsTotals, BucketHonest
<1>3. /\ AllRuns(BuildTrends(query, 1)) = AllRuns(BuildTrends(query, Week))
      /\ AllGoodFailed(BuildTrends(query, 1)) = AllGoodFailed(BuildTrends(query, Week))
  <2>1. CASE \A d \in TrendDays : metrics[d] = <<>>
    BY <1>1, <2>1, TrendsTotals
  <2>2. CASE \E d \in TrendDays : metrics[d] # <<>>
    BY <1>1, <2>2, TrendsTotals
  <2> QED
    BY <2>1, <2>2
<1> QED
  BY <1>2, <1>3

(* No rate of a chart counts more successes than runs had, whatever metrics    *)
(* are missing, older or read while they changed, and a window has the same    *)
(* totals by day and by week (BuildTrends, counts).                            *)
THEOREM TrendsAlwaysHonest == TrendsSpec => []TrendsHonest
BY InitTrends, TrendsStep, TrendsAreHonest, PTL DEF TrendsSpec

-----------------------------------------------------------------------------
(* The overview.                                                               *)

AllKeys == RawKeys \cup GoodKeys

LEMMA KeyNames ==
  /\ \A key \in {"runs", "failed", "provision", "e2e", "other"} : key \in AllKeys /\ key \in RawKeys
  /\ \A key \in {"good", "goodProvision", "goodE2E", "goodOther"} : key \in AllKeys
BY DEF AllKeys, RawKeys, GoodKeys

(* What the overview reads of a day is what the trends count of it, and zero   *)
(* for the other days.                                                         *)
LEMMA CollectedIs ==
  ASSUME TrendsInv, NEW first \in Int, NEW last \in Int, NEW d \in first..last, NEW key \in AllKeys
  PROVE  /\ CollectCounts(d)[key] \in Nat
         /\ CollectCounts(d)[key] = IF d \in WindowDays(first, last) THEN Count(metrics[d], key) ELSE 0
<1>1. CollectCounts(d)[key] = IF d \in TrendDays THEN Count(metrics[d], key) ELSE 0
  BY DEF CollectCounts, AllKeys
<1>2. Count(<<>>, key) = 0
  BY DEF Count
<1>3. d \in TrendDays => d <= Today /\ Count(metrics[d], key) \in Nat
  BY NothingToCome, CountNat
<1>4. d \in Int /\ first <= d /\ d <= last
  OBVIOUS
<1> QED
  BY <1>1, <1>2, <1>3, <1>4 DEF WindowDays

LEMMA WindowDaysIn ==
  ASSUME NEW first \in Int, NEW last \in Int
  PROVE  /\ WindowDays(first, last) \in SUBSET (first..last) /\ WindowDays(first, last) \in SUBSET TrendDays
         /\ IsFiniteSet(first..last) /\ IsFiniteSet(WindowDays(first, last))
<1>1. WindowDays(first, last) \in SUBSET (first..last) /\ WindowDays(first, last) \in SUBSET TrendDays
  <2>1. \A d \in TrendDays : d \in Int
    BY TrendsAssumption
  <2>2. \A d \in WindowDays(first, last) : d \in TrendDays /\ d \in first..last
    BY <2>1 DEF WindowDays
  <2> QED
    BY <2>2
<1>2. IsFiniteSet(first..last)
  BY FS_Interval
<1> QED
  BY <1>1, <1>2, FS_Subset

(* A sum over the days of a report.                                            *)
LEMMA ReportSum ==
  ASSUME NEW first \in Int, NEW last \in Int, NEW f, NEW g,
         \A d \in WindowDays(first, last) : g[d] \in Int /\ f[d] = g[d],
         \A d \in (first..last) \ WindowDays(first, last) : f[d] = 0
  PROVE  /\ SumFunctionOnSet(f, first..last) = SumFunctionOnSet(g, WindowDays(first, last))
         /\ SumFunctionOnSet(g, WindowDays(first, last)) \in Int
<1> DEFINE W == WindowDays(first, last)
           D == first..last
<1>1. W \in SUBSET D /\ IsFiniteSet(D) /\ IsFiniteSet(W)
  BY WindowDaysIn
<1>2. \A d \in W : f[d] \in Int /\ g[d] \in Int /\ g[d] = f[d]
  OBVIOUS
<1> HIDE DEF W
<1>3. \A d \in D \ W : f[d] = 0
  BY DEF W
<1> HIDE DEF D
<1>4. SumFunctionOnSet(f, D) = SumFunctionOnSet(f, W)
  BY <1>1, <1>2, <1>3, SumIgnoresZero
<1>5. SumFunctionOnSet(f, W) = SumFunctionOnSet(g, W)
  BY <1>1, <1>2, SumAlike
<1>6. SumFunctionOnSet(g, W) \in Int
  BY <1>1, <1>2, SumInt
<1> QED
  BY <1>4, <1>5, <1>6 DEF W, D

LEMMA ReportTotals ==
  ASSUME TrendsInv, NEW env, NEW first \in Int, NEW last \in Int, NEW key \in RawKeys
  PROVE  EnvReport(env, first, last).totals[key] = Total(key, WindowDays(first, last))
<1> DEFINE D == first..last
           W == WindowDays(first, last)
           counts == [d \in D |-> CollectCounts(d)]
           f == [d \in D |-> counts[d][key]]
           g == [d \in W |-> Count(metrics[d], key)]
<1>1. EnvReport(env, first, last).totals[key] = SumFunctionOnSet(f, D)
  BY DEF EnvReport
<1>2. Total(key, W) = SumFunctionOnSet(g, W)
  BY DEF Total
<1>3. W \in SUBSET D /\ W \in SUBSET TrendDays /\ key \in AllKeys
  BY WindowDaysIn DEF AllKeys
<1>4. \A d \in D : f[d] = CollectCounts(d)[key]
  OBVIOUS
<1>5. \A d \in W : g[d] \in Int /\ f[d] = g[d]
  BY <1>3, <1>4, CollectedIs, CountNat
<1>6. \A d \in D \ W : f[d] = 0
  BY <1>3, <1>4, CollectedIs
<1> HIDE DEF f, g
<1>7. SumFunctionOnSet(f, D) = SumFunctionOnSet(g, W)
  BY <1>5, <1>6, ReportSum
<1> QED
  BY <1>1, <1>2, <1>7

MaxOfTwo(a, b) == IF a >= b THEN a ELSE b
LEMMA MaxOfTwoIs ==
  ASSUME NEW a \in Int, NEW b \in Int
  PROVE  Max({a, b}) = MaxOfTwo(a, b)
<1>1. {a, b} \in SUBSET Int /\ {a, b} # {} /\ IsFiniteSet({a, b})
  <2>1. IsFiniteSet({a})
    BY FS_Singleton
  <2>2. IsFiniteSet({a} \cup {b}) /\ {a} \cup {b} = {a, b}
    BY <2>1, FS_AddElement
  <2> QED
    BY <2>2
<1>2. Max({a, b}) \in {a, b} /\ \A x \in {a, b} : x <= Max({a, b})
  BY <1>1, MaxIs
<1> QED
  BY <1>2 DEF MaxOfTwo

(* The outcomes of a day, of counts that are complete and of any.              *)
LEMMA DailyOutcomesAre ==
  ASSUME NEW c, c.runs \in Nat, c.failed \in Nat, c.provision \in Nat, c.e2e \in Nat, c.other \in Nat,
         c.failed <= c.runs, c.other + c.provision + c.e2e <= c.failed
  PROVE  LET o == DailyRunOutcomes(c) IN
         /\ o.total = c.runs /\ o.passed = c.runs - c.failed /\ o.e2e = c.e2e /\ o.provision = c.provision
         /\ o.other = c.failed - (c.provision + c.e2e)
<1> DEFINE unclassified == c.failed - (c.other + c.provision + c.e2e)
           other == c.other + Max({unclassified, 0})
<1>1. unclassified \in Int /\ Max({unclassified, 0}) = unclassified
  BY MaxOfTwoIs DEF MaxOfTwo
<1>2. other = c.failed - (c.provision + c.e2e)
  BY <1>1
<1> HIDE DEF other
<1>3. c.runs - (other + c.provision + c.e2e) = c.runs - c.failed /\ c.runs - c.failed \in Int
  BY <1>2
<1>4. Max({c.runs - (other + c.provision + c.e2e), 0}) = c.runs - c.failed
  BY <1>3, MaxOfTwoIs DEF MaxOfTwo
<1> QED
  BY <1>2, <1>4 DEF DailyRunOutcomes, RunOutcomes, other

LEMMA PostGoodOutcomesAre ==
  ASSUME NEW c, c.good \in Nat, c.goodProvision \in Nat, c.goodE2E \in Nat, c.goodOther \in Nat
  PROVE  LET o == PostGoodRunOutcomes(c)
             goodBad == c.goodOther + c.goodProvision + c.goodE2E
         IN
         /\ o.other = c.goodOther /\ o.provision = c.goodProvision /\ o.e2e = c.goodE2E
         /\ o.passed + o.other + o.provision + o.e2e = o.total
         /\ goodBad <= c.good => o.total = c.good /\ o.passed = c.good - goodBad
<1> DEFINE goodBad == c.goodOther + c.goodProvision + c.goodE2E
<1>1. goodBad \in Int /\ goodBad = c.goodOther + c.goodProvision + c.goodE2E
  OBVIOUS
<1> HIDE DEF goodBad
<1>2. Max({c.good, goodBad}) = MaxOfTwo(c.good, goodBad)
  BY <1>1, MaxOfTwoIs
<1>3. PostGoodRunOutcomes(c) = [total |-> MaxOfTwo(c.good, goodBad), passed |-> MaxOfTwo(c.good, goodBad) - goodBad,
                                other |-> c.goodOther, provision |-> c.goodProvision, e2e |-> c.goodE2E]
  BY <1>2 DEF PostGoodRunOutcomes, RunOutcomes, goodBad
<1> QED
  BY <1>1, <1>3 DEF MaxOfTwo

(* Parts of outcomes, added up over a report whose days without metrics have   *)
(* none.                                                                       *)
LEMMA SummedIs ==
  ASSUME NEW first \in Int, NEW last \in Int, NEW outcomes, DOMAIN outcomes = first..last, NEW key, NEW g,
         \A d \in WindowDays(first, last) : g[d] \in Int /\ outcomes[d][key] = g[d],
         \A d \in (first..last) \ WindowDays(first, last) : outcomes[d][key] = 0
  PROVE  Summed(outcomes, key) = SumFunctionOnSet(g, WindowDays(first, last))
<1> DEFINE f == [d \in first..last |-> outcomes[d][key]]
<1>1. Summed(outcomes, key) = SumFunctionOnSet(f, first..last)
  BY DEF Summed
<1>2. WindowDays(first, last) \in SUBSET (first..last)
  BY WindowDaysIn
<1>3. \A d \in WindowDays(first, last) : g[d] \in Int /\ f[d] = g[d]
  BY <1>2
<1>4. \A d \in (first..last) \ WindowDays(first, last) : f[d] = 0
  OBVIOUS
<1> HIDE DEF f
<1>5. SumFunctionOnSet(f, first..last) = SumFunctionOnSet(g, WindowDays(first, last))
  BY <1>3, <1>4, ReportSum
<1> QED
  BY <1>1, <1>5

LEMMA SummedCounts ==
  ASSUME TrendsInv, NEW first \in Int, NEW last \in Int, NEW outcomes, DOMAIN outcomes = first..last,
         NEW field, NEW key \in AllKeys, \A d \in first..last : outcomes[d][field] = CollectCounts(d)[key]
  PROVE  Summed(outcomes, field) = Total(key, WindowDays(first, last))
<1> DEFINE W == WindowDays(first, last)
           g == [d \in W |-> Count(metrics[d], key)]
<1>1. W \in SUBSET (first..last) /\ W \in SUBSET TrendDays
  BY WindowDaysIn
<1>2. \A d \in W : g[d] \in Int /\ outcomes[d][field] = g[d]
  BY <1>1, CollectedIs
<1>3. \A d \in (first..last) \ W : outcomes[d][field] = 0
  BY CollectedIs
<1>4. Total(key, W) = SumFunctionOnSet(g, W)
  BY DEF Total
<1> HIDE DEF g
<1>5. Summed(outcomes, field) = SumFunctionOnSet(g, W)
  BY ONLY <1>2, <1>3, first \in Int, last \in Int, DOMAIN outcomes = first..last, SummedIs
<1> QED
  BY <1>4, <1>5

LEMMA SummedRest ==
  ASSUME NEW first \in Int, NEW last \in Int, NEW outcomes, DOMAIN outcomes = first..last,
         NEW key, NEW f, NEW g,
         \A d \in WindowDays(first, last) : f[d] \in Int /\ g[d] \in Int /\ outcomes[d][key] = f[d] - g[d],
         \A d \in (first..last) \ WindowDays(first, last) : outcomes[d][key] = 0
  PROVE  Summed(outcomes, key)
           = SumFunctionOnSet(f, WindowDays(first, last)) - SumFunctionOnSet(g, WindowDays(first, last))
<1> DEFINE W == WindowDays(first, last)
           h == [d \in W |-> f[d] - g[d]]
<1>1. IsFiniteSet(W)
  BY WindowDaysIn
<1>2. \A d \in W : h[d] \in Int /\ g[d] \in Int /\ f[d] = h[d] + g[d] /\ outcomes[d][key] = h[d]
  OBVIOUS
<1> HIDE DEF h
<1>3. Summed(outcomes, key) = SumFunctionOnSet(h, W)
  BY <1>2, SummedIs
<1>4. SumFunctionOnSet(f, W) = SumFunctionOnSet(h, W) + SumFunctionOnSet(g, W)
  BY <1>1, <1>2, SumOfTwo
<1>5. SumFunctionOnSet(h, W) \in Int /\ SumFunctionOnSet(g, W) \in Int
  BY <1>1, <1>2, SumInt
<1> QED
  BY <1>3, <1>4, <1>5

(* All runs, of a window whose days are complete.                              *)
LEMMA RawSums ==
  ASSUME TrendsInv, NEW env, NEW first \in Int, NEW last \in Int,
         \A d \in WindowDays(first, last) : RawComplete(metrics[d]) /\ LanesComplete(metrics[d])
  PROVE  LET raw == EnvReport(env, first, last).raw
             W == WindowDays(first, last)
         IN /\ Summed(raw, "passed") = Total("runs", W) - Total("failed", W)
            /\ Summed(raw, "e2e") = Total("e2e", W) /\ Summed(raw, "provision") = Total("provision", W)
<1> DEFINE raw == EnvReport(env, first, last).raw
           W == WindowDays(first, last)
           f == [d \in W |-> Count(metrics[d], "runs")]
           g == [d \in W |-> Count(metrics[d], "failed")]
<1>1. raw = [d \in first..last |-> DailyRunOutcomes(CollectCounts(d))]
  BY DEF EnvReport
<1> HIDE DEF raw
<1>2. DOMAIN raw = first..last /\ \A d \in first..last : raw[d] = DailyRunOutcomes(CollectCounts(d))
  BY <1>1
<1>3. W \in SUBSET (first..last) /\ W \in SUBSET TrendDays
  BY WindowDaysIn
<1>4. ASSUME NEW d \in first..last
      PROVE  /\ raw[d].passed = CollectCounts(d).runs - CollectCounts(d).failed
             /\ raw[d].e2e = CollectCounts(d).e2e /\ raw[d].provision = CollectCounts(d).provision
             /\ \A key \in AllKeys : /\ CollectCounts(d)[key] \in Nat
                                     /\ CollectCounts(d)[key] = IF d \in W THEN Count(metrics[d], key) ELSE 0
  <2> DEFINE c == CollectCounts(d)
  <2>1. \A key \in AllKeys : c[key] \in Nat /\ c[key] = IF d \in W THEN Count(metrics[d], key) ELSE 0
    BY CollectedIs
  <2> HIDE DEF c
  <2>2. c.runs \in Nat /\ c.failed \in Nat /\ c.provision \in Nat /\ c.e2e \in Nat /\ c.other \in Nat
    BY <2>1, KeyNames
  <2>3. c.failed <= c.runs /\ c.other + c.provision + c.e2e <= c.failed
    <3>1. CASE d \in W
      <4>1. /\ c.runs = Count(metrics[d], "runs") /\ c.failed = Count(metrics[d], "failed")
            /\ c.provision = Count(metrics[d], "provision") /\ c.e2e = Count(metrics[d], "e2e")
            /\ c.other = Count(metrics[d], "other")
        BY <2>1, <3>1, KeyNames
      <4>2. RawComplete(metrics[d]) /\ LanesComplete(metrics[d])
        BY <3>1
      <4> QED
        BY <2>2, <4>1, <4>2 DEF RawComplete, LanesComplete
    <3>2. CASE d \notin W
      BY <2>1, <3>2, KeyNames
    <3> QED
      BY <3>1, <3>2
  <2>4. /\ DailyRunOutcomes(c).passed = c.runs - c.failed /\ DailyRunOutcomes(c).e2e = c.e2e
        /\ DailyRunOutcomes(c).provision = c.provision
    BY <2>2, <2>3, DailyOutcomesAre
  <2>5. raw[d] = DailyRunOutcomes(c)
    BY <1>2 DEF c
  <2>6. raw[d].passed = c.runs - c.failed /\ raw[d].e2e = c.e2e /\ raw[d].provision = c.provision
    BY <2>4, <2>5
  <2> QED
    BY <2>1, <2>6 DEF c
<1>5. Summed(raw, "e2e") = Total("e2e", W) /\ Summed(raw, "provision") = Total("provision", W)
  <2>1. /\ \A d \in first..last : raw[d]["e2e"] = CollectCounts(d)["e2e"]
        /\ \A d \in first..last : raw[d]["provision"] = CollectCounts(d)["provision"]
    BY <1>4
  <2>2. "e2e" \in AllKeys /\ "provision" \in AllKeys
    BY KeyNames
  <2>3. Summed(raw, "e2e") = Total("e2e", WindowDays(first, last))
    BY <1>2, <2>1, <2>2, SummedCounts
  <2>4. Summed(raw, "provision") = Total("provision", WindowDays(first, last))
    BY <1>2, <2>1, <2>2, SummedCounts
  <2> QED
    BY <2>3, <2>4
<1>6. \A d \in W : f[d] \in Int /\ g[d] \in Int /\ raw[d].passed = f[d] - g[d]
  BY <1>3, <1>4, KeyNames
<1>7. \A d \in (first..last) \ W : raw[d].passed = 0
  BY <1>4, KeyNames
<1>8. Total("runs", W) = SumFunctionOnSet(f, W) /\ Total("failed", W) = SumFunctionOnSet(g, W)
  BY DEF Total
<1> HIDE DEF f, g
<1>9. Summed(raw, "passed") = SumFunctionOnSet(f, W) - SumFunctionOnSet(g, W)
  BY <1>2, <1>6, <1>7, SummedRest
<1> QED
  BY <1>5, <1>8, <1>9 DEF raw, W

(* The post-good runs of dev: their parts always add up, and they are those of *)
(* the trends when the days are complete.                                      *)
LEMMA GoodDay ==
  ASSUME TrendsInv, NEW first \in Int, NEW last \in Int, NEW d \in first..last
  PROVE  LET o == EnvReport("dev", first, last).good[d]
             c == CollectCounts(d)
             bad == c.goodOther + c.goodProvision + c.goodE2E
         IN /\ o.other = c.goodOther /\ o.provision = c.goodProvision /\ o.e2e = c.goodE2E
            /\ o.passed + o.other + o.provision + o.e2e = o.total
            /\ bad <= c.good => o.total = c.good /\ o.passed = c.good - bad
<1> DEFINE c == CollectCounts(d)
<1>1. EnvReport("dev", first, last).good[d] = PostGoodRunOutcomes(c)
  BY DEF EnvReport
<1>2. c.good \in Nat /\ c.goodProvision \in Nat /\ c.goodE2E \in Nat /\ c.goodOther \in Nat
  BY CollectedIs, KeyNames
<1> HIDE DEF c
<1> QED
  BY <1>1, <1>2, PostGoodOutcomesAre DEF c

LEMMA GoodSums ==
  ASSUME TrendsInv, NEW first \in Int, NEW last \in Int,
         \A d \in WindowDays(first, last) : FilteredComplete(metrics[d])
  PROVE  LET good == EnvReport("dev", first, last).good
             W == WindowDays(first, last)
         IN /\ Summed(good, "total") = Total("good", W)
            /\ Summed(good, "passed") = Total("good", W) - TotalGoodFailed(W)
            /\ Summed(good, "e2e") = Total("goodE2E", W) /\ Summed(good, "provision") = Total("goodProvision", W)
            /\ Summed(good, "other") = Total("goodOther", W)
<1> DEFINE good == EnvReport("dev", first, last).good
           W == WindowDays(first, last)
           f == [d \in W |-> Count(metrics[d], "good")]
           g == [d \in W |-> GoodFailed(metrics[d])]
<1>1. DOMAIN good = first..last
  BY DEF EnvReport
<1>2. W \in SUBSET (first..last) /\ W \in SUBSET TrendDays
  BY WindowDaysIn
<1>3. ASSUME NEW d \in first..last
      PROVE  LET c == CollectCounts(d)
                 bad == c.goodOther + c.goodProvision + c.goodE2E
             IN /\ \A key \in AllKeys : c[key] \in Nat /\ c[key] = IF d \in W THEN Count(metrics[d], key) ELSE 0
                /\ good[d].other = c.goodOther /\ good[d].provision = c.goodProvision /\ good[d].e2e = c.goodE2E
                /\ good[d].total = c.good /\ good[d].passed = c.good - bad
  <2> DEFINE c == CollectCounts(d)
             bad == c.goodOther + c.goodProvision + c.goodE2E
  <2>1. \A key \in AllKeys : c[key] \in Nat /\ c[key] = IF d \in W THEN Count(metrics[d], key) ELSE 0
    BY CollectedIs
  <2>2. /\ good[d].other = c.goodOther /\ good[d].provision = c.goodProvision /\ good[d].e2e = c.goodE2E
        /\ bad <= c.good => good[d].total = c.good /\ good[d].passed = c.good - bad
    BY GoodDay
  <2> HIDE DEF c, good
  <2>3. c.goodOther + c.goodProvision + c.goodE2E <= c.good
    <3>1. CASE d \in W
      <4>1. /\ c.good = Count(metrics[d], "good") /\ c.goodOther = Count(metrics[d], "goodOther")
            /\ c.goodProvision = Count(metrics[d], "goodProvision") /\ c.goodE2E = Count(metrics[d], "goodE2E")
            /\ c.goodOther \in Nat /\ c.goodProvision \in Nat /\ c.goodE2E \in Nat
        BY <2>1, <3>1, KeyNames
      <4>2. GoodFailed(metrics[d]) <= Count(metrics[d], "good")
        BY <3>1 DEF FilteredComplete
      <4> QED
        BY <4>1, <4>2 DEF GoodFailed
    <3>2. CASE d \notin W
      BY <2>1, <3>2, KeyNames
    <3> QED
      BY <3>1, <3>2
  <2> QED
    BY <2>1, <2>2, <2>3 DEF c
<1> HIDE DEF good
<1>4. /\ Summed(good, "total") = Total("good", W) /\ Summed(good, "e2e") = Total("goodE2E", W)
      /\ Summed(good, "provision") = Total("goodProvision", W) /\ Summed(good, "other") = Total("goodOther", W)
  <2>1. \A d \in first..last :
          /\ good[d].total = CollectCounts(d)["good"] /\ good[d].e2e = CollectCounts(d)["goodE2E"]
          /\ good[d].provision = CollectCounts(d)["goodProvision"] /\ good[d].other = CollectCounts(d)["goodOther"]
    BY <1>3
  <2> QED
    BY <1>1, <2>1, SummedCounts, KeyNames
<1>5. \A d \in W : f[d] \in Int /\ g[d] \in Int /\ good[d].passed = f[d] - g[d]
  <2> SUFFICES ASSUME NEW d \in W PROVE f[d] \in Int /\ g[d] \in Int /\ good[d].passed = f[d] - g[d]
    OBVIOUS
  <2>1. d \in first..last /\ d \in TrendDays
    BY <1>2
  <2>2. f[d] = Count(metrics[d], "good") /\ g[d] = GoodFailed(metrics[d])
    OBVIOUS
  <2>3. /\ f[d] \in Int /\ \A key : Count(metrics[d], key) \in Nat
        /\ g[d] = Count(metrics[d], "goodProvision") + Count(metrics[d], "goodE2E") + Count(metrics[d], "goodOther")
    BY <2>1, <2>2, CountNat
  <2> HIDE DEF f, g
  <2>4. \A key \in AllKeys : CollectCounts(d)[key] = Count(metrics[d], key)
    BY <1>3, <2>1
  <2>5. good[d].passed = Count(metrics[d], "good") - (Count(metrics[d], "goodOther")
                           + Count(metrics[d], "goodProvision") + Count(metrics[d], "goodE2E"))
    BY <1>3, <2>1, <2>4, KeyNames
  <2> QED
    BY <2>2, <2>3, <2>5
<1>6. \A d \in (first..last) \ W : good[d].passed = 0
  BY <1>3, KeyNames
<1>7. Total("good", W) = SumFunctionOnSet(f, W) /\ TotalGoodFailed(W) = SumFunctionOnSet(g, W)
  BY DEF Total, TotalGoodFailed
<1> HIDE DEF f, g
<1>8. Summed(good, "passed") = SumFunctionOnSet(f, W) - SumFunctionOnSet(g, W)
  BY <1>1, <1>5, <1>6, SummedRest
<1> QED
  BY <1>4, <1>7, <1>8 DEF good, W

LEMMA GoodFailedParts ==
  ASSUME TrendsInv, NEW days \in SUBSET TrendDays
  PROVE  TotalGoodFailed(days) = Total("goodOther", days) + Total("goodProvision", days) + Total("goodE2E", days)
<1> DEFINE f == [d \in days |-> GoodFailed(metrics[d])]
           p == [d \in days |-> Count(metrics[d], "goodProvision")]
           e == [d \in days |-> Count(metrics[d], "goodE2E")]
           o == [d \in days |-> Count(metrics[d], "goodOther")]
           pe == [d \in days |-> p[d] + e[d]]
<1>1. IsFiniteSet(days)
  BY TotalsNat
<1>2. \A d \in days : p[d] \in Int /\ e[d] \in Int /\ o[d] \in Int /\ f[d] = p[d] + e[d] + o[d]
  BY CountNat
<1>3. /\ TotalGoodFailed(days) = SumFunctionOnSet(f, days) /\ Total("goodOther", days) = SumFunctionOnSet(o, days)
      /\ Total("goodProvision", days) = SumFunctionOnSet(p, days) /\ Total("goodE2E", days) = SumFunctionOnSet(e, days)
  BY DEF Total, TotalGoodFailed
<1> HIDE DEF f, p, e, o
<1>4. \A d \in days : pe[d] \in Int /\ pe[d] = p[d] + e[d] /\ f[d] = pe[d] + o[d]
  BY <1>2
<1> HIDE DEF pe
<1>5. SumFunctionOnSet(pe, days) = SumFunctionOnSet(p, days) + SumFunctionOnSet(e, days)
  BY <1>1, <1>2, <1>4, SumOfTwo
<1>6. SumFunctionOnSet(f, days) = SumFunctionOnSet(pe, days) + SumFunctionOnSet(o, days)
  BY <1>1, <1>2, <1>4, SumOfTwo
<1>7. /\ SumFunctionOnSet(p, days) \in Int /\ SumFunctionOnSet(e, days) \in Int /\ SumFunctionOnSet(o, days) \in Int
  BY <1>1, <1>2, SumInt
<1> QED
  BY <1>3, <1>5, <1>6, <1>7

(* A rate that the trends have for a whole window is the one of the overview.  *)
Shows(cell, point) == point.defined => cell = {Rate(point.count, point.total)}

LEMMA SuccessIs ==
  ASSUME NEW runs \in Int, NEW bad \in Int, bad <= runs
  PROVE  SuccessPct(runs, bad) = Rate(runs - bad, runs)
<1>1. runs - bad \in Int /\ Max({runs - bad, 0}) = runs - bad
  BY MaxOfTwoIs DEF MaxOfTwo
<1> QED
  BY <1>1 DEF SuccessPct

LEMMA CellIs == \A rate : rate.total > 0 => Cell(rate) = {rate}
BY DEF Cell

LEMMA RateIs == \A m, n : Rate(m, n).count = m /\ Rate(m, n).total = n
BY DEF Rate

(* All runs.                                                                   *)
LEMMA RawShown ==
  ASSUME TrendsInv, NEW first \in Int, NEW last \in Int, NEW b, BucketRight(b), b.days = WindowDays(first, last),
         NEW env
  PROVE  LET report == EnvReport(env, first, last) IN
         /\ Shows({SuccessPct(report.totals.runs, report.totals.failed)}, OverallRate(b.raw))
         /\ Shows(Cell(SuccessPct(report.totals.runs, report.totals.failed)), OverallRate(b.raw))
         /\ Shows({E2EStep(report.raw)}, E2ERate(b.raw)) /\ Shows(Cell(E2EStep(report.raw)), E2ERate(b.raw))
         /\ Shows({Provision(report.raw)}, ProvisionRate(b.raw))
<1> DEFINE report == EnvReport(env, first, last)
           W == WindowDays(first, last)
<1>1. /\ report.totals.runs = Total("runs", W) /\ report.totals.failed = Total("failed", W)
  BY ReportTotals, KeyNames
<1>2. W \in SUBSET TrendDays /\ \A key : Total(key, W) \in Nat
  BY WindowDaysIn, TotalsNat
<1>3. /\ b.raw.runs = Total("runs", W) /\ b.raw.failed = Total("failed", W)
      /\ b.raw.provision = Total("provision", W) /\ b.raw.e2e = Total("e2e", W)
  BY DEF BucketRight
<1>4. b.raw.defined /\ b.raw.lanesDefined => \A d \in W : RawComplete(metrics[d]) /\ LanesComplete(metrics[d])
  BY DEF BucketRight
<1>5. (\A d \in W : RawComplete(metrics[d]) /\ LanesComplete(metrics[d])) =>
        /\ Summed(report.raw, "passed") = Total("runs", W) - Total("failed", W)
        /\ Summed(report.raw, "e2e") = Total("e2e", W) /\ Summed(report.raw, "provision") = Total("provision", W)
  BY RawSums
<1> HIDE DEF report, W
<1> DEFINE runs == Total("runs", W)
           bad == Total("failed", W)
           e2e == Total("e2e", W)
           provision == Total("provision", W)
<1>6. runs \in Int /\ bad \in Int /\ e2e \in Int /\ provision \in Int
  BY <1>2
<1>7. ASSUME OverallRate(b.raw).defined
      PROVE  /\ SuccessPct(report.totals.runs, report.totals.failed)
                  = Rate(OverallRate(b.raw).count, OverallRate(b.raw).total)
             /\ OverallRate(b.raw).total > 0
  <2>1. OverallRate(b.raw).count = runs - bad /\ OverallRate(b.raw).total = runs
    BY <1>3 DEF OverallRate, Point
  <2>2. runs > 0 /\ 0 <= runs - bad
    BY <1>3, <1>7 DEF OverallRate, Point
  <2> HIDE DEF runs, bad
  <2>3. SuccessPct(runs, bad) = Rate(runs - bad, runs)
    BY <1>6, <2>2, SuccessIs
  <2> QED
    BY <1>1, <2>1, <2>2, <2>3 DEF runs, bad
<1>8. ASSUME E2ERate(b.raw).defined
      PROVE  /\ E2EStep(report.raw) = Rate(E2ERate(b.raw).count, E2ERate(b.raw).total)
             /\ E2ERate(b.raw).total > 0
  <2>1. b.raw.defined /\ b.raw.lanesDefined
    BY <1>8 DEF E2ERate, Point
  <2>2. E2ERate(b.raw).count = runs - bad /\ E2ERate(b.raw).total = runs - bad + e2e
    BY <1>3 DEF E2ERate, Point
  <2>3. E2ERate(b.raw).total > 0
    BY <1>8 DEF E2ERate, Point
  <2>4. E2EStep(report.raw) = Rate(runs - bad, runs - bad + e2e)
    BY <1>4, <1>5, <2>1 DEF E2EStep
  <2> QED
    BY <2>2, <2>3, <2>4
<1>9. ASSUME ProvisionRate(b.raw).defined
      PROVE  Provision(report.raw) = Rate(ProvisionRate(b.raw).count, ProvisionRate(b.raw).total)
  <2>1. b.raw.defined /\ b.raw.lanesDefined
    BY <1>9 DEF ProvisionRate, Point
  <2>2. /\ ProvisionRate(b.raw).count = runs - bad + e2e
        /\ ProvisionRate(b.raw).total = runs - bad + e2e + provision
    BY <1>3 DEF ProvisionRate, Point
  <2>3. Provision(report.raw) = Rate(runs - bad + e2e, runs - bad + e2e + provision)
    BY <1>4, <1>5, <2>1 DEF Provision
  <2> QED
    BY <2>2, <2>3
<1> QED
  BY <1>7, <1>8, <1>9, CellIs, RateIs DEF Shows, report

(* The post-good runs of dev.                                                  *)
LEMMA GoodShown ==
  ASSUME TrendsInv, NEW first \in Int, NEW last \in Int, NEW b, BucketRight(b), b.days = WindowDays(first, last)
  PROVE  LET report == EnvReport("dev", first, last) IN
         /\ Shows(GoalCell(report), OverallRate(b.filtered))
         /\ Shows(ProvisionCell(report), ProvisionRate(b.filtered))
         /\ Shows(E2ECell(report), E2ERate(b.filtered))
<1> DEFINE report == EnvReport("dev", first, last)
           W == WindowDays(first, last)
           failures == Summed(report.good, "other") + Summed(report.good, "provision") + Summed(report.good, "e2e")
<1>1. report.env = "dev"
  BY DEF EnvReport
<1>2. W \in SUBSET TrendDays /\ TotalGoodFailed(W) \in Nat /\ \A key : Total(key, W) \in Nat
  BY WindowDaysIn, TotalsNat
<1>3. /\ b.filtered.runs = Total("good", W) /\ b.filtered.failed = TotalGoodFailed(W)
      /\ b.filtered.provision = Total("goodProvision", W) /\ b.filtered.e2e = Total("goodE2E", W)
  BY DEF BucketRight
<1>4. b.filtered.defined => \A d \in W : FilteredComplete(metrics[d])
  BY DEF BucketRight
<1>5. (\A d \in W : FilteredComplete(metrics[d])) =>
        /\ Summed(report.good, "total") = Total("good", W)
        /\ Summed(report.good, "passed") = Total("good", W) - TotalGoodFailed(W)
        /\ Summed(report.good, "e2e") = Total("goodE2E", W)
        /\ Summed(report.good, "provision") = Total("goodProvision", W)
        /\ Summed(report.good, "other") = Total("goodOther", W)
  BY GoodSums
<1>6. TotalGoodFailed(W) = Total("goodOther", W) + Total("goodProvision", W) + Total("goodE2E", W)
  BY <1>2, GoodFailedParts
<1> HIDE DEF report, W
<1> DEFINE runs == Total("good", W)
           bad == TotalGoodFailed(W)
           e2e == Total("goodE2E", W)
           provision == Total("goodProvision", W)
<1>7. runs \in Int /\ bad \in Int /\ e2e \in Int /\ provision \in Int
  BY <1>2
<1>8. /\ GoalCell(report) = Cell(SuccessPct(Summed(report.good, "total"), failures))
      /\ ProvisionCell(report) = Cell(Provision(report.good)) /\ E2ECell(report) = Cell(E2EStep(report.good))
  BY <1>1 DEF GoalCell, GoalRate, ProvisionCell, E2ECell, GoalOutcomes
<1>9. ASSUME OverallRate(b.filtered).defined
      PROVE  /\ SuccessPct(Summed(report.good, "total"), failures)
                  = Rate(OverallRate(b.filtered).count, OverallRate(b.filtered).total)
             /\ OverallRate(b.filtered).total > 0
  <2>1. OverallRate(b.filtered).count = runs - bad /\ OverallRate(b.filtered).total = runs
    BY <1>3 DEF OverallRate, Point
  <2>2. b.filtered.defined /\ runs > 0 /\ 0 <= runs - bad
    BY <1>3, <1>9 DEF OverallRate, Point
  <2>3. Summed(report.good, "total") = runs /\ failures = bad
    BY <1>4, <1>5, <1>6, <2>2
  <2> HIDE DEF runs, bad, failures
  <2>4. SuccessPct(runs, bad) = Rate(runs - bad, runs)
    BY <1>7, <2>2, SuccessIs
  <2> QED
    BY <2>1, <2>2, <2>3, <2>4
<1>10. ASSUME E2ERate(b.filtered).defined
       PROVE  /\ E2EStep(report.good) = Rate(E2ERate(b.filtered).count, E2ERate(b.filtered).total)
              /\ E2ERate(b.filtered).total > 0
  <2>1. b.filtered.defined /\ E2ERate(b.filtered).total > 0
    BY <1>10 DEF E2ERate, Point
  <2>2. E2ERate(b.filtered).count = runs - bad /\ E2ERate(b.filtered).total = runs - bad + e2e
    BY <1>3 DEF E2ERate, Point
  <2>3. E2EStep(report.good) = Rate(runs - bad, runs - bad + e2e)
    BY <1>4, <1>5, <2>1 DEF E2EStep
  <2> QED
    BY <2>1, <2>2, <2>3
<1>11. ASSUME ProvisionRate(b.filtered).defined
       PROVE  /\ Provision(report.good) = Rate(ProvisionRate(b.filtered).count, ProvisionRate(b.filtered).total)
              /\ ProvisionRate(b.filtered).total > 0
  <2>1. b.filtered.defined /\ ProvisionRate(b.filtered).total > 0
    BY <1>11 DEF ProvisionRate, Point
  <2>2. /\ ProvisionRate(b.filtered).count = runs - bad + e2e
        /\ ProvisionRate(b.filtered).total = runs - bad + e2e + provision
    BY <1>3 DEF ProvisionRate, Point
  <2>3. Provision(report.good) = Rate(runs - bad + e2e, runs - bad + e2e + provision)
    BY <1>4, <1>5, <2>1 DEF Provision
  <2> QED
    BY <2>1, <2>2, <2>3
<1> HIDE DEF failures
<1> QED
  BY <1>8, <1>9, <1>10, <1>11, CellIs, RateIs DEF Shows, report

(* Two windows are compared as the trends would compare them.                  *)
Compares(change, now, then) ==
  now.defined /\ then.defined => change = {Sign(now.count * then.total, then.count * now.total)}

LEMMA ChangeShown ==
  ASSUME NEW cell, NEW previous, NEW now, NEW then, Shows(cell, now), Shows(previous, then)
  PROVE  Compares(Change(cell, previous), now, then)
<1> SUFFICES ASSUME now.defined, then.defined
             PROVE  Change(cell, previous) = {Sign(now.count * then.total, then.count * now.total)}
  BY DEF Compares
<1> DEFINE r == Rate(now.count, now.total)
           p == Rate(then.count, then.total)
<1>1. cell = {r} /\ previous = {p}
  BY DEF Shows
<1>2. r.count = now.count /\ r.total = now.total /\ p.count = then.count /\ p.total = then.total
  BY RateIs
<1> HIDE DEF r, p
<1>3. Change(cell, previous) = {Sign(r.count * p.total, p.count * r.total)}
  BY <1>1 DEF Change
<1> QED
  BY <1>2, <1>3

(* The bucket of a window and of the one before it.                            *)
LEMMA WholeBucket ==
  ASSUME NEW first \in Int, NEW last \in Int
  PROVE  LET days == last - first + 1
             whole == Bucket(first, days, first, last)
             before == Bucket(first - days, days, first - days, first - 1)
         IN /\ BucketRight(whole) /\ whole.days = WindowDays(first, last)
            /\ BucketRight(before) /\ before.days = WindowDays(first - days, first - 1)
<1> DEFINE days == last - first + 1
<1>1. \A d \in TrendDays : d \in Int
  BY TrendsAssumption
<1>2. /\ \A d \in Int : first <= d /\ d < first + days /\ first <= d /\ d <= last <=> first <= d /\ d <= last
      /\ \A d \in Int : first - days <= d /\ d < first - days + days /\ first - days <= d /\ d <= first - 1
                          <=> first - days <= d /\ d <= first - 1
  OBVIOUS
<1> HIDE DEF days
<1>3. BucketDays(first, days, first, last) = WindowDays(first, last)
  BY <1>1, <1>2 DEF BucketDays, WindowDays
<1>4. BucketDays(first - days, days, first - days, first - 1) = WindowDays(first - days, first - 1)
  BY <1>1, <1>2 DEF BucketDays, WindowDays
<1> QED
  BY <1>3, <1>4, BucketIs DEF days

LEMMA TestsDayKept ==
  ASSUME NEW end \in Int, NEW dates \in SUBSET TrendDays, NEW d \in TrendDays, end < d,
         NEW e \in dates, end < e, e < d
  PROVE  TestsDay(end, dates) = TestsDay(end, dates \cup {d})
<1> DEFINE after == {x \in dates : x > end}
           later == {x \in dates \cup {d} : x > end}
<1>1. \A x \in TrendDays : x \in Int
  BY TrendsAssumption
<1>2. e \in after /\ e \in later /\ after \in SUBSET Int /\ later \in SUBSET Int
  BY <1>1
<1>3. IsFiniteSet(after) /\ IsFiniteSet(later)
  <2>1. after \subseteq TrendDays /\ later \subseteq TrendDays
    OBVIOUS
  <2> HIDE DEF after, later
  <2> QED
    BY <2>1, TrendsAssumption, FS_Subset
<1>4. after \subseteq later /\ later \subseteq after \cup {d}
  OBVIOUS
<1>5. TestsDay(end, dates) = {Min(after)} /\ TestsDay(end, dates \cup {d}) = {Min(later)}
  BY <1>2 DEF TestsDay
<1> HIDE DEF after, later
<1>6. Min(after) \in after /\ (\A x \in after : Min(after) <= x) /\ Min(later) \in later /\ \A x \in later : Min(later) <= x
  BY <1>2, <1>3, MinIs
<1>7. Min(later) # d
  BY <1>1, <1>2, <1>6
<1>8. Min(later) \in after /\ Min(after) \in later
  BY <1>4, <1>6, <1>7
<1>9. Min(after) = Min(later)
  <2>1. Min(after) <= Min(later) /\ Min(later) <= Min(after) /\ Min(after) \in Int /\ Min(later) \in Int
    BY <1>2, <1>6, <1>8
  <2> QED
    BY <2>1
<1> QED
  BY <1>5, <1>9

(* What OverviewMatchesTrends says of one window.                              *)
RowsMatch(row, allRow, cards, whole, before) ==
  /\ Shows(row.goal, OverallRate(whole.filtered)) /\ Shows(row.provision, ProvisionRate(whole.filtered))
  /\ Shows(row.e2e, E2ERate(whole.filtered)) /\ Shows(allRow.goal, OverallRate(whole.raw))
  /\ Shows({cards.success}, OverallRate(whole.raw)) /\ Shows({cards.e2e}, E2ERate(whole.raw))
  /\ Shows(cards.provision, ProvisionRate(whole.raw)) /\ Shows(allRow.e2e, E2ERate(whole.raw))
  /\ Compares(row.change, OverallRate(whole.filtered), OverallRate(before.filtered))
  /\ Compares(allRow.change, OverallRate(whole.raw), OverallRate(before.raw))
  /\ Compares(row.provisionChange, ProvisionRate(whole.filtered), ProvisionRate(before.filtered))
  /\ Compares(row.e2eChange, E2ERate(whole.filtered), E2ERate(before.filtered))

LEMMA RowsDoMatch ==
  ASSUME TrendsInv, NEW w, w.first \in Int, w.last \in Int
  PROVE  LET days == w.last - w.first + 1
             dev == EnvReport("dev", w.first, w.last)
             allRuns == EnvReport("int", w.first, w.last)
         IN RowsMatch(ExecutiveRow(dev, PreviousReport("dev", w)),
                      ExecutiveRow(allRuns, PreviousReport("int", w)), Cards(dev),
                      Bucket(w.first, days, w.first, w.last),
                      Bucket(w.first - days, days, w.first - days, w.first - 1))
<1> DEFINE days == w.last - w.first + 1
           dev == EnvReport("dev", w.first, w.last)
           devBefore == EnvReport("dev", w.first - days, w.first - 1)
           allRuns == EnvReport("int", w.first, w.last)
           allBefore == EnvReport("int", w.first - days, w.first - 1)
           whole == Bucket(w.first, days, w.first, w.last)
           before == Bucket(w.first - days, days, w.first - days, w.first - 1)
<1>1. PreviousReport("dev", w) = devBefore /\ PreviousReport("int", w) = allBefore
  BY DEF PreviousReport
<1>2. /\ BucketRight(whole) /\ whole.days = WindowDays(w.first, w.last)
      /\ BucketRight(before) /\ before.days = WindowDays(w.first - days, w.first - 1)
  BY WholeBucket
<1>3. w.first - days \in Int /\ w.first - 1 \in Int
  OBVIOUS
<1>4. /\ dev.env = "dev" /\ devBefore.env = "dev" /\ allRuns.env = "int" /\ allBefore.env = "int"
  BY DEF EnvReport
<1> HIDE DEF days, whole, before
<1>5. /\ Shows(GoalCell(dev), OverallRate(whole.filtered)) /\ Shows(ProvisionCell(dev), ProvisionRate(whole.filtered))
      /\ Shows(E2ECell(dev), E2ERate(whole.filtered))
  BY <1>2, GoodShown
<1>6. /\ Shows(GoalCell(devBefore), OverallRate(before.filtered))
      /\ Shows(ProvisionCell(devBefore), ProvisionRate(before.filtered))
      /\ Shows(E2ECell(devBefore), E2ERate(before.filtered))
  BY <1>2, <1>3, GoodShown
<1>7. /\ Shows({SuccessPct(dev.totals.runs, dev.totals.failed)}, OverallRate(whole.raw))
      /\ Shows({E2EStep(dev.raw)}, E2ERate(whole.raw)) /\ Shows({Provision(dev.raw)}, ProvisionRate(whole.raw))
      /\ Shows(Cell(SuccessPct(allRuns.totals.runs, allRuns.totals.failed)), OverallRate(whole.raw))
      /\ Shows(Cell(E2EStep(allRuns.raw)), E2ERate(whole.raw))
  BY <1>2, RawShown
<1>8. Shows(Cell(SuccessPct(allBefore.totals.runs, allBefore.totals.failed)), OverallRate(before.raw))
  BY <1>2, <1>3, RawShown
<1> HIDE DEF dev, devBefore, allRuns, allBefore
<1>9. /\ GoalCell(allRuns) = Cell(SuccessPct(allRuns.totals.runs, allRuns.totals.failed))
      /\ GoalCell(allBefore) = Cell(SuccessPct(allBefore.totals.runs, allBefore.totals.failed))
      /\ E2ECell(allRuns) = Cell(E2EStep(allRuns.raw))
  BY <1>4 DEF GoalCell, GoalRate, E2ECell, GoalOutcomes
<1>10. /\ Cards(dev).success = SuccessPct(dev.totals.runs, dev.totals.failed)
       /\ Cards(dev).provision = {Provision(dev.raw)} /\ Cards(dev).e2e = E2EStep(dev.raw)
  BY <1>4 DEF Cards
<1>11. /\ Compares(Change(GoalCell(dev), GoalCell(devBefore)), OverallRate(whole.filtered), OverallRate(before.filtered))
       /\ Compares(Change(ProvisionCell(dev), ProvisionCell(devBefore)),
                   ProvisionRate(whole.filtered), ProvisionRate(before.filtered))
       /\ Compares(Change(E2ECell(dev), E2ECell(devBefore)), E2ERate(whole.filtered), E2ERate(before.filtered))
  BY <1>5, <1>6, ChangeShown
<1>12. Compares(Change(GoalCell(allRuns), GoalCell(allBefore)), OverallRate(whole.raw), OverallRate(before.raw))
  BY <1>7, <1>8, <1>9, ChangeShown
<1>13. \A r, p : /\ ExecutiveRow(r, p).goal = GoalCell(r) /\ ExecutiveRow(r, p).provision = ProvisionCell(r)
                 /\ ExecutiveRow(r, p).e2e = E2ECell(r) /\ ExecutiveRow(r, p).change = Change(GoalCell(r), GoalCell(p))
                 /\ ExecutiveRow(r, p).provisionChange = Change(ProvisionCell(r), ProvisionCell(p))
                 /\ ExecutiveRow(r, p).e2eChange = Change(E2ECell(r), E2ECell(p))
  BY DEF ExecutiveRow
<1>14. RowsMatch(ExecutiveRow(dev, devBefore), ExecutiveRow(allRuns, allBefore), Cards(dev), whole, before)
  BY <1>5, <1>7, <1>9, <1>10, <1>11, <1>12, <1>13 DEF RowsMatch
<1> QED
  BY <1>1, <1>14 DEF days, dev, devBefore, allRuns, allBefore, whole, before

PartsOf(o) == o.passed + o.other + o.provision + o.e2e

WindowMatches(w, whole, before, dev, row, allRow) ==
  /\ Shows(row.goal, OverallRate(whole.filtered)) /\ Shows(row.provision, ProvisionRate(whole.filtered))
  /\ Shows(row.e2e, E2ERate(whole.filtered)) /\ Shows(allRow.goal, OverallRate(whole.raw))
  /\ Shows({Cards(dev).success}, OverallRate(whole.raw)) /\ Shows({Cards(dev).e2e}, E2ERate(whole.raw))
  /\ Shows(Cards(dev).provision, ProvisionRate(whole.raw)) /\ Shows(allRow.e2e, E2ERate(whole.raw))
  /\ Compares(row.change, OverallRate(whole.filtered), OverallRate(before.filtered))
  /\ Compares(allRow.change, OverallRate(whole.raw), OverallRate(before.raw))
  /\ Compares(row.provisionChange, ProvisionRate(whole.filtered), ProvisionRate(before.filtered))
  /\ Compares(row.e2eChange, E2ERate(whole.filtered), E2ERate(before.filtered))
  /\ \A d \in w.first..w.last :
       /\ PartsOf(dev.good[d]) = dev.good[d].total
       /\ LET c == CollectCounts(d) IN
          c.failed <= c.runs /\ c.other + c.provision + c.e2e <= c.failed
            => PartsOf(dev.raw[d]) = dev.raw[d].total /\ dev.raw[d].passed = c.runs - c.failed
  /\ \A dates \in SUBSET TrendDays, d \in TrendDays :
       w.last < d /\ (\E e \in dates : w.last < e /\ e < d)
         => TestsDay(w.last, dates) = TestsDay(w.last, dates \cup {d})

LEMMA OverviewDoesMatch == TrendsInv => OverviewMatchesTrends
<1> SUFFICES ASSUME TrendsInv
             PROVE  \A query \in {q \in TrendQueries : BuildTrends(q, 1) # {}} :
                      LET w == TrendsWindow(query)
                          days == w.last - w.first + 1
                          dev == EnvReport("dev", w.first, w.last)
                          allRuns == EnvReport("int", w.first, w.last)
                      IN WindowMatches(w, Bucket(w.first, days, w.first, w.last),
                                       Bucket(w.first - days, days, w.first - days, w.first - 1), dev,
                                       ExecutiveRow(dev, PreviousReport("dev", w)),
                                       ExecutiveRow(allRuns, PreviousReport("int", w)))
  BY Zenon DEF OverviewMatchesTrends, WindowMatches, Shows, Compares, PartsOf
<1> TAKE query \in {q \in TrendQueries : BuildTrends(q, 1) # {}}
<1> DEFINE w == TrendsWindow(query)
           dev == EnvReport("dev", w.first, w.last)
<1>1. w.first \in Int /\ w.last \in Int
  <2>1. \E d \in TrendDays : metrics[d] # <<>>
    BY TrendsTotals
  <2> QED
    BY <2>1, TrendsWindowIs
<1> HIDE DEF w
<1>2. ASSUME NEW d \in w.first..w.last
      PROVE  PartsOf(dev.good[d]) = dev.good[d].total
  BY <1>1, GoodDay DEF PartsOf
<1>3. ASSUME NEW d \in w.first..w.last,
             CollectCounts(d).failed <= CollectCounts(d).runs,
             CollectCounts(d).other + CollectCounts(d).provision + CollectCounts(d).e2e <= CollectCounts(d).failed
      PROVE  /\ PartsOf(dev.raw[d]) = dev.raw[d].total
             /\ dev.raw[d].passed = CollectCounts(d).runs - CollectCounts(d).failed
  <2> DEFINE c == CollectCounts(d)
  <2>1. dev.raw[d] = DailyRunOutcomes(c)
    BY DEF EnvReport
  <2>2. c.runs \in Nat /\ c.failed \in Nat /\ c.provision \in Nat /\ c.e2e \in Nat /\ c.other \in Nat
    BY <1>1, CollectedIs, KeyNames
  <2> HIDE DEF c
  <2>3. c.failed <= c.runs /\ c.other + c.provision + c.e2e <= c.failed
    BY <1>3 DEF c
  <2> QED
    BY <2>1, <2>2, <2>3, DailyOutcomesAre DEF PartsOf, c
<1>4. \A dates \in SUBSET TrendDays, d \in TrendDays :
        w.last < d /\ (\E e \in dates : w.last < e /\ e < d)
          => TestsDay(w.last, dates) = TestsDay(w.last, dates \cup {d})
  BY <1>1, TestsDayKept
<1> DEFINE days == w.last - w.first + 1
           row == ExecutiveRow(dev, PreviousReport("dev", w))
           allRow == ExecutiveRow(EnvReport("int", w.first, w.last), PreviousReport("int", w))
           whole == Bucket(w.first, days, w.first, w.last)
           before == Bucket(w.first - days, days, w.first - days, w.first - 1)
<1>5. RowsMatch(row, allRow, Cards(dev), whole, before)
  BY <1>1, RowsDoMatch
<1> HIDE DEF dev, row, allRow, whole, before
<1>6. WindowMatches(w, whole, before, dev, row, allRow)
  BY <1>2, <1>3, <1>4, <1>5, Zenon DEF WindowMatches, RowsMatch
<1> QED
  BY <1>6 DEF w, days, dev, row, allRow, whole, before

(* Whenever the trends have a rate for a whole window, the overview of that    *)
(* window shows the same rate and the same change, the parts of a day's bar    *)
(* are its runs, and the listed tests stay those of one day (EnvReport,        *)
(* dailyRunOutcomes, the executive table).                                     *)
THEOREM OverviewAlwaysMatches == TrendsSpec => []OverviewMatchesTrends
BY InitTrends, TrendsStep, OverviewDoesMatch, PTL DEF TrendsSpec
=============================================================================
