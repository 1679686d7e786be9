------------------------------ MODULE SumLemmas ------------------------------
(***************************************************************************)
(* What FoldFunctionOnSet(+, 0, f, S) is: the sum of f over a finite set,  *)
(* in whatever order CHOOSE takes its elements.  The community module      *)
(* defines it by recursion over the subsets of S; the induction theorems   *)
(* of the library have an operator for a parameter, so every induction     *)
(* here is over a set: among the subsets for which something fails there   *)
(* would be a least one.                                                   *)
(***************************************************************************)
EXTENDS Functions, FiniteSetTheorems, WellFoundedInduction, TLAPS

SumOn(f, S) == FoldFunctionOnSet(+, 0, f, S)

(* The recursion of MapThenFoldSet: g has the sum of f over every subset   *)
(* of D.                                                                   *)
Chosen(s) == CHOOSE x \in s : TRUE
Partial(g, f, s) == IF s = {} THEN 0 ELSE f[Chosen(s)] + g[s \ {Chosen(s)}]
Sums(g, f, D) == g = [s \in SUBSET D |-> Partial(g, f, s)]

(* Among sets of subsets of a finite set, one that is not empty has a      *)
(* least member.                                                           *)
LEMMA LeastSubset ==
    ASSUME NEW S, IsFiniteSet(S), NEW Bad \in SUBSET SUBSET S, Bad # {}
    PROVE  \E T \in Bad : \A U \in SUBSET T : U # T => U \notin Bad
<1>1. Bad \subseteq FiniteSubsetsOf(S)
  <2>1. \A T \in Bad : IsFiniteSet(T)
    BY FS_Subset
  <2> QED
    BY <2>1 DEF FiniteSubsetsOf
<1>2. PICK T \in Bad : \A U \in Bad : ~(<<U, T>> \in StrictSubsetOrdering(S))
  BY <1>1, FS_StrictSubsetOrderingWellFounded, WFMin, Zenon
<1>3. \A U \in SUBSET T : U # T => U \notin Bad
  BY <1>2 DEF StrictSubsetOrdering
<1> QED
  BY <1>3

LEMMA Unfolded ==
    ASSUME NEW f, NEW S
    PROVE  SumOn(f, S) = (CHOOSE g : Sums(g, f, S))[S]
BY DEF SumOn, FoldFunctionOnSet, MapThenFoldSet, Sums, Partial, Chosen

(* Two functions that sum up f agree where both are defined ...            *)
LEMMA SumsAgree ==
    ASSUME NEW S, IsFiniteSet(S), NEW f, NEW C \in SUBSET S, NEW D \in SUBSET S,
           NEW g, NEW h, Sums(g, f, C), Sums(h, f, D)
    PROVE  \A s \in SUBSET (C \cap D) : g[s] = h[s]
<1> DEFINE Bad == {s \in SUBSET (C \cap D) : g[s] # h[s]}
<1> SUFFICES ASSUME Bad # {} PROVE FALSE
  OBVIOUS
<1>1. Bad \in SUBSET SUBSET S
  OBVIOUS
<1>2. PICK T \in Bad : \A U \in SUBSET T : U # T => U \notin Bad
  <2> HIDE DEF Bad
  <2> QED
    BY <1>1, LeastSubset
<1>3. T \in SUBSET C /\ T \in SUBSET D /\ g[T] # h[T]
  OBVIOUS
<1>4. g[T] = Partial(g, f, T) /\ h[T] = Partial(h, f, T)
  BY <1>3 DEF Sums
<1>5. T # {}
  BY <1>3, <1>4 DEF Partial
<1>6. Chosen(T) \in T
  BY <1>5 DEF Chosen
<1>7. g[T \ {Chosen(T)}] = h[T \ {Chosen(T)}]
  BY <1>2, <1>3, <1>6
<1> QED
  BY <1>3, <1>4, <1>5, <1>7 DEF Partial

(* ... and there is one for every finite set.                              *)
LEMMA SumsExist ==
    ASSUME NEW S, IsFiniteSet(S), NEW f
    PROVE  \E g : Sums(g, f, S)
<1> DEFINE Bad == {D \in SUBSET S : ~\E g : Sums(g, f, D)}
<1> SUFFICES ASSUME Bad # {} PROVE FALSE
  OBVIOUS
<1>1. PICK T \in Bad : \A U \in SUBSET T : U # T => U \notin Bad
  <2>1. Bad \in SUBSET SUBSET S
    OBVIOUS
  <2> HIDE DEF Bad
  <2> QED
    BY <2>1, LeastSubset
<1> DEFINE Sum(D) == CHOOSE g : Sums(g, f, D)
           Top(s) == IF s = {} THEN 0 ELSE f[Chosen(s)] + Sum(s \ {Chosen(s)})[s \ {Chosen(s)}]
           h == [s \in SUBSET T |-> Top(s)]
<1>2. T \in SUBSET S /\ ~\E g : Sums(g, f, T)
  OBVIOUS
<1>3. \A U \in SUBSET T : U # T => Sums(Sum(U), f, U)
  BY <1>1, <1>2
<1>4. \A U \in SUBSET T : U # T => Sum(U)[U] = Top(U)
  <2> SUFFICES ASSUME NEW U \in SUBSET T, U # T PROVE Sum(U)[U] = Top(U)
    OBVIOUS
  <2> HIDE DEF Sum, Bad, h
  <2>1. Sums(Sum(U), f, U)
    BY <1>3
  <2>2. Sum(U)[U] = Partial(Sum(U), f, U)
    BY <2>1 DEF Sums
  <2>3. CASE U = {}
    BY <2>2, <2>3 DEF Partial
  <2>4. CASE U # {}
    <3> DEFINE V == U \ {Chosen(U)}
    <3>1. V \in SUBSET U /\ V \in SUBSET T /\ V # T
      OBVIOUS
    <3>2. Sums(Sum(V), f, V)
      BY <1>3, <3>1
    <3>3. U \in SUBSET S /\ V \in SUBSET S /\ V \in SUBSET (U \cap V)
      BY <1>2
    <3>4. Sum(U)[V] = Sum(V)[V]
      <4> DEFINE a == Sum(U)
                 b == Sum(V)
      <4>1. Sums(a, f, U) /\ Sums(b, f, V)
        BY <2>1, <3>2
      <4>2. a[V] = b[V]
        <5> HIDE DEF V, a, b
        <5> QED
          BY <3>3, <4>1, SumsAgree
      <4> QED
        BY <4>2
    <3> QED
      BY <2>2, <2>4, <3>4 DEF Partial
  <2> QED
    BY <2>3, <2>4
<1>5. \A s \in SUBSET T : h[s] = Partial(h, f, s)
  <2> SUFFICES ASSUME NEW s \in SUBSET T PROVE h[s] = Partial(h, f, s)
    OBVIOUS
  <2>1. CASE s = {}
    BY <2>1 DEF Partial
  <2>2. CASE s # {}
    <3> DEFINE u == s \ {Chosen(s)}
    <3>1. Chosen(s) \in s
      BY <2>2 DEF Chosen
    <3>2. u \in SUBSET T /\ u # T
      BY <3>1
    <3>3. h[u] = Sum(u)[u]
      <4> HIDE DEF Sum
      <4> QED
        BY <1>4, <3>2
    <3>4. h[s] = f[Chosen(s)] + Sum(u)[u]
      <4> HIDE DEF Sum
      <4> QED
        BY <2>2
    <3> QED
      <4> HIDE DEF h, u
      <4>1. Partial(h, f, s) = f[Chosen(s)] + h[u]
        BY <2>2 DEF Partial, u
      <4> QED
        BY <3>3, <3>4, <4>1
  <2> QED
    BY <2>1, <2>2
<1>6. Sums(h, f, T)
  BY <1>5 DEF Sums
<1> QED
  BY <1>2, <1>6

LEMMA SumEmpty == \A f : SumOn(f, {}) = 0
<1> SUFFICES ASSUME NEW f PROVE SumOn(f, {}) = 0
  OBVIOUS
<1>1. \E g : Sums(g, f, {})
  BY SumsExist, FS_EmptySet, Zenon
<1>2. Sums(CHOOSE g : Sums(g, f, {}), f, {})
  BY <1>1
<1>3. (CHOOSE g : Sums(g, f, {}))[{}] = 0
  <2> DEFINE g == CHOOSE g : Sums(g, f, {})
  <2> HIDE DEF g
  <2>1. Sums(g, f, {})
    BY <1>2 DEF g
  <2>2. g[{}] = 0
    BY <2>1 DEF Sums, Partial
  <2> QED
    BY <2>2 DEF g
<1> QED
  BY <1>3, Unfolded

(* The recursion itself.                                                   *)
LEMMA SumChosen ==
    ASSUME NEW S, IsFiniteSet(S), S # {}, NEW f
    PROVE  /\ Chosen(S) \in S
           /\ SumOn(f, S) = f[Chosen(S)] + SumOn(f, S \ {Chosen(S)})
<1> DEFINE g == CHOOSE g : Sums(g, f, S)
           V == S \ {Chosen(S)}
           h == CHOOSE h : Sums(h, f, V)
<1>1. Chosen(S) \in S
  BY DEF Chosen
<1>2. Sums(g, f, S)
  BY SumsExist
<1>3. IsFiniteSet(V)
  BY FS_RemoveElement
<1>4. Sums(h, f, V)
  <2> HIDE DEF V
  <2> QED
    BY <1>3, SumsExist
<1>5. SumOn(f, S) = g[S] /\ SumOn(f, V) = h[V]
  BY Unfolded
<1>6. g[S] = f[Chosen(S)] + g[V]
  <2> HIDE DEF g
  <2> QED
    BY <1>2 DEF Sums, Partial
<1>7. g[V] = h[V]
  <2>1. V \in SUBSET S /\ S \in SUBSET S /\ V \in SUBSET (S \cap V)
    OBVIOUS
  <2> HIDE DEF g, h, V
  <2> QED
    BY <1>2, <1>4, <2>1, SumsAgree
<1> QED
  BY <1>1, <1>5, <1>6, <1>7
-----------------------------------------------------------------------------
(* What the recursion gives: the order in which elements are taken does    *)
(* not matter, and the sum is a natural number.                            *)
LEMMA SumNat ==
    ASSUME NEW S, IsFiniteSet(S), NEW f, \A x \in S : f[x] \in Nat
    PROVE  \A T \in SUBSET S : SumOn(f, T) \in Nat
<1> DEFINE Bad == {T \in SUBSET S : SumOn(f, T) \notin Nat}
<1> SUFFICES ASSUME Bad # {} PROVE FALSE
  OBVIOUS
<1>1. PICK T \in Bad : \A U \in SUBSET T : U # T => U \notin Bad
  <2>1. Bad \in SUBSET SUBSET S
    OBVIOUS
  <2> HIDE DEF Bad
  <2> QED
    BY <2>1, LeastSubset
<1>2. T \in SUBSET S /\ SumOn(f, T) \notin Nat /\ IsFiniteSet(T)
  BY FS_Subset
<1>3. T # {}
  BY <1>2, SumEmpty
<1>4. Chosen(T) \in T /\ SumOn(f, T) = f[Chosen(T)] + SumOn(f, T \ {Chosen(T)})
  BY <1>2, <1>3, SumChosen
<1>5. SumOn(f, T \ {Chosen(T)}) \in Nat
  BY <1>1, <1>2, <1>4
<1> QED
  BY <1>2, <1>4, <1>5

LEMMA SumRemove ==
    ASSUME NEW S, IsFiniteSet(S), NEW f, \A x \in S : f[x] \in Nat
    PROVE  \A T \in SUBSET S : \A x \in T : SumOn(f, T) = f[x] + SumOn(f, T \ {x})
<1> DEFINE Any(T) == \A x \in T : SumOn(f, T) = f[x] + SumOn(f, T \ {x})
           Bad == {T \in SUBSET S : ~Any(T)}
<1> SUFFICES ASSUME Bad # {} PROVE FALSE
  OBVIOUS
<1>1. PICK T \in Bad : \A U \in SUBSET T : U # T => U \notin Bad
  <2>1. Bad \in SUBSET SUBSET S
    OBVIOUS
  <2> HIDE DEF Bad
  <2> QED
    BY <2>1, LeastSubset
<1>2. T \in SUBSET S /\ IsFiniteSet(T)
  BY FS_Subset
<1>3. \A U \in SUBSET T : U # T => Any(U)
  BY <1>1, <1>2
<1>4. PICK x \in T : SumOn(f, T) # f[x] + SumOn(f, T \ {x})
  OBVIOUS
<1> DEFINE y == Chosen(T)
<1>5. y \in T /\ SumOn(f, T) = f[y] + SumOn(f, T \ {y})
  BY <1>2, <1>4, SumChosen
<1>6. x # y
  BY <1>4, <1>5
<1> HIDE DEF y, Bad
<1>7. SumOn(f, T \ {y}) = f[x] + SumOn(f, (T \ {y}) \ {x})
  <2>1. T \ {y} \in SUBSET T /\ T \ {y} # T /\ x \in T \ {y}
    BY <1>5, <1>6
  <2> QED
    BY <1>3, <2>1
<1>8. SumOn(f, T \ {x}) = f[y] + SumOn(f, (T \ {x}) \ {y})
  <2>1. T \ {x} \in SUBSET T /\ T \ {x} # T /\ y \in T \ {x}
    BY <1>5, <1>6
  <2> QED
    BY <1>3, <2>1
<1>9. (T \ {x}) \ {y} = (T \ {y}) \ {x}
  OBVIOUS
<1>10. SumOn(f, (T \ {y}) \ {x}) \in Nat /\ f[x] \in Nat /\ f[y] \in Nat
  <2>1. (T \ {y}) \ {x} \in SUBSET S
    BY <1>2
  <2> QED
    BY <1>2, <1>5, <2>1, SumNat
<1>11. SumOn(f, T) = f[x] + SumOn(f, T \ {x})
  <2> DEFINE m == SumOn(f, (T \ {y}) \ {x})
             a == f[x]
             b == f[y]
  <2>1. SumOn(f, T) = b + (a + m)
    BY <1>5, <1>7
  <2>2. f[x] + SumOn(f, T \ {x}) = a + (b + m)
    BY <1>8, <1>9
  <2>3. m \in Nat /\ a \in Nat /\ b \in Nat
    BY <1>10
  <2>4. b + (a + m) = a + (b + m)
    <3> HIDE DEF m, a, b
    <3> QED
      BY <2>3
  <2> QED
    BY <2>1, <2>2, <2>4
<1> QED
  BY <1>4, <1>11

(* Only the values over S matter.                                          *)
LEMMA SumSame ==
    ASSUME NEW S, IsFiniteSet(S), NEW f, NEW g, \A x \in S : f[x] = g[x]
    PROVE  \A T \in SUBSET S : SumOn(f, T) = SumOn(g, T)
<1> DEFINE Bad == {T \in SUBSET S : SumOn(f, T) # SumOn(g, T)}
<1> SUFFICES ASSUME Bad # {} PROVE FALSE
  OBVIOUS
<1>1. PICK T \in Bad : \A U \in SUBSET T : U # T => U \notin Bad
  <2>1. Bad \in SUBSET SUBSET S
    OBVIOUS
  <2> HIDE DEF Bad
  <2> QED
    BY <2>1, LeastSubset
<1>2. T \in SUBSET S /\ SumOn(f, T) # SumOn(g, T) /\ IsFiniteSet(T)
  BY FS_Subset
<1>3. T # {}
  BY <1>2, SumEmpty
<1>4. /\ Chosen(T) \in T /\ SumOn(f, T) = f[Chosen(T)] + SumOn(f, T \ {Chosen(T)})
      /\ SumOn(g, T) = g[Chosen(T)] + SumOn(g, T \ {Chosen(T)})
  BY <1>2, <1>3, SumChosen
<1>5. SumOn(f, T \ {Chosen(T)}) = SumOn(g, T \ {Chosen(T)})
  BY <1>1, <1>2, <1>4
<1> QED
  BY <1>2, <1>4, <1>5

(* A set is summed up in two parts.                                        *)
LEMMA SumSplit ==
    ASSUME NEW S, IsFiniteSet(S), NEW f, \A x \in S : f[x] \in Nat
    PROVE  \A T \in SUBSET S : SumOn(f, S) = SumOn(f, T) + SumOn(f, S \ T)
<1> DEFINE Bad == {T \in SUBSET S : SumOn(f, S) # SumOn(f, T) + SumOn(f, S \ T)}
<1> SUFFICES ASSUME Bad # {} PROVE FALSE
  OBVIOUS
<1>1. PICK T \in Bad : \A U \in SUBSET T : U # T => U \notin Bad
  <2>1. Bad \in SUBSET SUBSET S
    OBVIOUS
  <2> HIDE DEF Bad
  <2> QED
    BY <2>1, LeastSubset
<1>2. T \in SUBSET S /\ SumOn(f, S) # SumOn(f, T) + SumOn(f, S \ T)
  OBVIOUS
<1>3. PICK x \in T : TRUE
  <2>1. T = {} => SumOn(f, S \ T) \in Nat /\ S \ T = S
    BY SumNat
  <2> QED
    BY <1>2, <2>1, SumEmpty
<1> DEFINE U == T \ {x}
           rest == S \ T
<1>4. SumOn(f, S) = SumOn(f, U) + SumOn(f, S \ U)
  BY <1>1, <1>2, <1>3
<1>5. SumOn(f, T) = f[x] + SumOn(f, U)
  BY <1>2, <1>3, SumRemove
<1>6. SumOn(f, S \ U) = f[x] + SumOn(f, rest)
  <2>1. S \ U \in SUBSET S /\ x \in S \ U /\ (S \ U) \ {x} = rest
    BY <1>2, <1>3
  <2> HIDE DEF U, rest
  <2>2. SumOn(f, S \ U) = f[x] + SumOn(f, (S \ U) \ {x})
    BY <2>1, SumRemove
  <2> QED
    BY <2>1, <2>2
<1>7. f[x] \in Nat /\ SumOn(f, U) \in Nat /\ SumOn(f, rest) \in Nat
  BY <1>2, <1>3, SumNat
<1> QED
  <2> HIDE DEF U
  <2> QED
    BY <1>2, <1>4, <1>5, <1>6, <1>7

LEMMA SumPart ==
    ASSUME NEW S, IsFiniteSet(S), NEW f, \A x \in S : f[x] \in Nat, NEW T \in SUBSET S
    PROVE  SumOn(f, T) <= SumOn(f, S)
<1>1. SumOn(f, T) \in Nat /\ SumOn(f, S \ T) \in Nat
  BY SumNat
<1>2. SumOn(f, S) = SumOn(f, T) + SumOn(f, S \ T)
  BY SumSplit
<1> QED
  BY <1>1, <1>2

LEMMA SumZero ==
    ASSUME NEW S, IsFiniteSet(S), NEW f, \A x \in S : f[x] = 0
    PROVE  SumOn(f, S) = 0
<1> DEFINE Bad == {T \in SUBSET S : SumOn(f, T) # 0}
<1> SUFFICES ASSUME Bad # {} PROVE FALSE
  OBVIOUS
<1>1. PICK T \in Bad : \A U \in SUBSET T : U # T => U \notin Bad
  <2>1. Bad \in SUBSET SUBSET S
    OBVIOUS
  <2> HIDE DEF Bad
  <2> QED
    BY <2>1, LeastSubset
<1>2. T \in SUBSET S /\ SumOn(f, T) # 0 /\ IsFiniteSet(T)
  BY FS_Subset
<1>3. T # {}
  BY <1>2, SumEmpty
<1>4. Chosen(T) \in T /\ SumOn(f, T) = f[Chosen(T)] + SumOn(f, T \ {Chosen(T)})
  BY <1>2, <1>3, SumChosen
<1>5. SumOn(f, T \ {Chosen(T)}) = 0
  BY <1>1, <1>2, <1>4
<1> QED
  BY <1>2, <1>4, <1>5

(* One more at one place is one more in the sum.                           *)
LEMMA SumOneMore ==
    ASSUME NEW S, IsFiniteSet(S), NEW f, NEW g, NEW x \in S,
           \A y \in S : f[y] \in Nat,
           \A y \in S \ {x} : g[y] = f[y], g[x] = f[x] + 1
    PROVE  SumOn(g, S) = SumOn(f, S) + 1
<1>1. \A y \in S : g[y] \in Nat
  OBVIOUS
<1>2. SumOn(f, S) = f[x] + SumOn(f, S \ {x}) /\ SumOn(g, S) = g[x] + SumOn(g, S \ {x})
  BY <1>1, SumRemove
<1>3. IsFiniteSet(S \ {x})
  BY FS_RemoveElement
<1>4. SumOn(g, S \ {x}) = SumOn(f, S \ {x})
  BY <1>3, SumSame
<1>5. SumOn(f, S \ {x}) \in Nat
  BY SumNat
<1> QED
  BY <1>2, <1>4, <1>5

(* The same values under other names have the same sum.                    *)
LEMMA SumRenamed ==
    ASSUME NEW S, IsFiniteSet(S), NEW R, IsFiniteSet(R), NEW f, NEW g, NEW b \in [S -> R],
           \A x \in R : f[x] \in Nat,
           \A x, y \in S : b[x] = b[y] => x = y,
           \A x \in S : g[x] = f[b[x]]
    PROVE  SumOn(f, {b[x] : x \in S}) = SumOn(g, S)
<1> DEFINE Bad == {T \in SUBSET S : SumOn(f, {b[x] : x \in T}) # SumOn(g, T)}
<1> SUFFICES ASSUME Bad # {} PROVE FALSE
  OBVIOUS
<1>1. PICK T \in Bad : \A U \in SUBSET T : U # T => U \notin Bad
  <2>1. Bad \in SUBSET SUBSET S
    OBVIOUS
  <2> HIDE DEF Bad
  <2> QED
    BY <2>1, LeastSubset
<1>2. T \in SUBSET S /\ SumOn(f, {b[x] : x \in T}) # SumOn(g, T) /\ IsFiniteSet(T)
  BY FS_Subset
<1>3. T # {}
  BY <1>2, SumEmpty
<1> DEFINE y == Chosen(T)
           U == T \ {y}
<1>4. y \in T /\ SumOn(g, T) = g[y] + SumOn(g, U)
  BY <1>2, <1>3, SumChosen
<1>5. SumOn(f, {b[x] : x \in U}) = SumOn(g, U)
  BY <1>1, <1>2, <1>4
<1>6. {b[x] : x \in U} = {b[x] : x \in T} \ {b[y]}
  BY <1>2, <1>4
<1>7. {b[x] : x \in T} \in SUBSET R /\ b[y] \in {b[x] : x \in T}
  BY <1>2, <1>4
<1>8. SumOn(f, {b[x] : x \in T}) = f[b[y]] + SumOn(f, {b[x] : x \in T} \ {b[y]})
  <2> DEFINE Image == {b[x] : x \in T}
  <2> HIDE DEF Image, y
  <2>1. Image \in SUBSET R /\ b[y] \in Image
    BY <1>7 DEF Image
  <2>2. SumOn(f, Image) = f[b[y]] + SumOn(f, Image \ {b[y]})
    BY <2>1, SumRemove
  <2> QED
    BY <2>2 DEF Image
<1>9. g[y] = f[b[y]]
  BY <1>2, <1>4
<1> QED
  BY <1>2, <1>4, <1>5, <1>6, <1>8, <1>9
=============================================================================
