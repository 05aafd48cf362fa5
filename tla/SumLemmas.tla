----------------------------- MODULE SumLemmas ------------------------------
(***************************************************************************)
(* Sums over finite sets, which the model takes from the community modules *)
(* (SumFunction): what an element more or less does to a sum, and what the *)
(* order of two functions says of their sums; the least and the greatest   *)
(* of a finite set of numbers; and the ranks of the elements of a finite   *)
(* set in a total order.  A sum is defined by recursion on the set; that   *)
(* the recursion has a solution, and each of the facts, is proved of a     *)
(* smallest set that would contradict it.                                  *)
(***************************************************************************)
EXTENDS Integers, FiniteSets, FiniteSetsExt, FiniteSetTheorems, WellFoundedInduction, TLAPS

FirstOf(s) == CHOOSE x \in s : TRUE

\* g gives the sum of f over every subset of S.
SumsOf(g, f, S) ==
  g = [s \in SUBSET S |-> IF s = {} THEN 0 ELSE f[FirstOf(s)] + g[s \ {FirstOf(s)}]]

\* The element that is taken first is one of the set.
LEMMA FirstIn ==
  ASSUME NEW s, s # {}
  PROVE  FirstOf(s) \in s /\ s \ {FirstOf(s)} # s
BY DEF FirstOf

\* Among sets of subsets of a finite set one has a smallest member.
LEMMA SmallestSet ==
  ASSUME NEW S, IsFiniteSet(S), NEW T, T \subseteq SUBSET S, T # {}
  PROVE  \E s \in T : \A t \in T : t \subseteq s => t = s
<1>1. T \subseteq FiniteSubsetsOf(S)
  BY FS_Subset DEF FiniteSubsetsOf
<1>2. PICK s \in T : \A t \in T : <<t, s>> \notin StrictSubsetOrdering(S)
  BY <1>1, FS_StrictSubsetOrderingWellFounded, WFMin, Zenon
<1>3. \A t \in T : t \subseteq s /\ t # s => <<t, s>> \in StrictSubsetOrdering(S)
  BY DEF StrictSubsetOrdering
<1>4. \A t \in T : t \subseteq s => t = s
  BY <1>2, <1>3
<1> QED
  BY <1>4

\* Among the elements of a finite set one is greatest in a total order.
LEMMA GreatestExists ==
  ASSUME NEW S, IsFiniteSet(S), S # {}, NEW R,
         \A x, y \in S : <<x, y>> \in R \/ <<y, x>> \in R,
         \A x, y, z \in S : <<x, y>> \in R /\ <<y, z>> \in R => <<x, z>> \in R
  PROVE  \E x \in S : \A y \in S : <<x, y>> \in R
<1> DEFINE Endless == {s \in SUBSET S : s # {} /\ ~\E x \in s : \A y \in s : <<x, y>> \in R}
<1>1. SUFFICES ASSUME Endless # {} PROVE FALSE
  <2>1. S \notin Endless
    BY <1>1
  <2> QED
    BY <2>1
<1>2. Endless \subseteq SUBSET S
  OBVIOUS
<1> HIDE DEF Endless
<1>3. PICK s \in Endless : \A t \in Endless : t \subseteq s => t = s
  BY <1>1, <1>2, SmallestSet
<1>4. s \subseteq S /\ s # {} /\ ~\E x \in s : \A y \in s : <<x, y>> \in R
  BY <1>3 DEF Endless
<1>5. PICK x : x \in s
  BY <1>4
<1> DEFINE rest == s \ {x}
<1>6. PICK y \in rest : \A z \in rest : <<y, z>> \in R
  <2>1. rest # {}
    BY <1>4, <1>5
  <2>2. rest \notin Endless
    BY <1>3, <1>5
  <2> QED
    BY <1>4, <2>1, <2>2 DEF Endless
<1>7. <<x, y>> \in R \/ <<y, x>> \in R
  BY <1>4, <1>5, <1>6
<1>8. \A z \in s : <<x, y>> \in R => <<x, z>> \in R
  BY <1>4, <1>5, <1>6
<1> QED
  BY <1>4, <1>5, <1>6, <1>7, <1>8

\* The library's sum, with its recursion in sight.
LEMMA SumIsChosen ==
  ASSUME NEW f, NEW S
  PROVE  SumFunctionOnSet(f, S) = (CHOOSE g : SumsOf(g, f, S))[S]
BY DEF SumFunctionOnSet, FoldFunctionOnSet, MapThenFoldSet, SumsOf, FirstOf

\* Two solutions agree where both are defined.
LEMMA SumsAgree ==
  ASSUME NEW f, NEW S, NEW T, NEW U, IsFiniteSet(U), U \subseteq S, U \subseteq T,
         NEW g, SumsOf(g, f, S), NEW h, SumsOf(h, f, T)
  PROVE  g[U] = h[U]
<1> DEFINE Differ == {s \in SUBSET U : g[s] # h[s]}
<1>1. SUFFICES ASSUME Differ # {} PROVE FALSE
  OBVIOUS
<1>a. Differ \subseteq SUBSET U
  OBVIOUS
<1> HIDE DEF Differ
<1>2. PICK s \in Differ : \A t \in Differ : t \subseteq s => t = s
  BY <1>1, <1>a, SmallestSet
<1> USE DEF Differ
<1>3. s \in SUBSET S /\ s \in SUBSET T
  OBVIOUS
<1>4. /\ g[s] = IF s = {} THEN 0 ELSE f[FirstOf(s)] + g[s \ {FirstOf(s)}]
      /\ h[s] = IF s = {} THEN 0 ELSE f[FirstOf(s)] + h[s \ {FirstOf(s)}]
  BY <1>3 DEF SumsOf
<1>5. s # {} /\ g[s \ {FirstOf(s)}] # h[s \ {FirstOf(s)}]
  BY <1>2, <1>4
<1>6. s \ {FirstOf(s)} \in Differ
  BY <1>5
<1> QED
  BY <1>2, <1>5, <1>6, FirstIn

\* The recursion has a solution over every finite set.
LEMMA SumsExist ==
  ASSUME NEW f, NEW S, IsFiniteSet(S)
  PROVE  \E g : SumsOf(g, f, S)
<1> DEFINE Without == {s \in SUBSET S : ~\E g : SumsOf(g, f, s)}
<1>1. SUFFICES ASSUME Without # {} PROVE FALSE
  OBVIOUS
<1>a. Without \subseteq SUBSET S
  OBVIOUS
<1> HIDE DEF Without
<1>2. PICK T \in Without : \A t \in Without : t \subseteq T => t = T
  BY <1>1, <1>a, SmallestSet
<1> USE DEF Without
<1> DEFINE sol(V) == CHOOSE h : SumsOf(h, f, V)
           g == [U \in SUBSET T |-> IF U = {} THEN 0
                   ELSE f[FirstOf(U)] + sol(U \ {FirstOf(U)})[U \ {FirstOf(U)}]]
<1>3. \A V \in SUBSET T : V # T => SumsOf(sol(V), f, V)
  BY <1>2
<1> HIDE DEF sol
<1>4. ASSUME NEW V \in SUBSET T, V # T PROVE g[V] = sol(V)[V]
  <2>1. CASE V = {}
    <3>1. SumsOf(sol(V), f, V)
      BY <1>3, <1>4
    <3>2. sol(V)[V] = 0
      BY <3>1, <2>1 DEF SumsOf
    <3> QED BY <3>2, <2>1
  <2>2. CASE V # {}
    <3> DEFINE W == V \ {FirstOf(V)}
    <3>1. W \in SUBSET T /\ W # T /\ W \subseteq V
      BY <1>4, FirstIn
    <3>2. SumsOf(sol(V), f, V) /\ SumsOf(sol(W), f, W)
      BY <1>3, <1>4, <3>1
    <3>3. IsFiniteSet(W)
      BY <3>1, <1>2, FS_Subset
    <3>4. sol(V)[W] = sol(W)[W]
      BY <3>1, <3>2, <3>3, SumsAgree
    <3>5. sol(V)[V] = f[FirstOf(V)] + sol(V)[W]
      BY <3>2, <2>2 DEF SumsOf
    <3>6. g[V] = f[FirstOf(V)] + sol(W)[W]
      BY <2>2
    <3> QED
      BY <3>4, <3>5, <3>6
  <2> QED
    BY <2>1, <2>2
<1>5. \A U \in SUBSET T : U # {} => g[U \ {FirstOf(U)}] = sol(U \ {FirstOf(U)})[U \ {FirstOf(U)}]
  BY <1>4, FirstIn
<1>6. SumsOf(g, f, T)
  <2>1. \A U \in SUBSET T :
          g[U] = IF U = {} THEN 0 ELSE f[FirstOf(U)] + g[U \ {FirstOf(U)}]
    BY <1>5
  <2> HIDE DEF g
  <2>2. g = [U \in SUBSET T |-> g[U]]
    BY DEF g
  <2> QED
    BY <2>1, <2>2 DEF SumsOf
<1> QED
  BY <1>2, <1>6

\* A sum over a set is the sum over a subset, in any solution for the larger one.
LEMMA SumAt ==
  ASSUME NEW f, NEW S, IsFiniteSet(S), NEW g, SumsOf(g, f, S), NEW U \in SUBSET S
  PROVE  SumFunctionOnSet(f, U) = g[U]
<1>1. IsFiniteSet(U) /\ U \subseteq S /\ U \subseteq U
  BY FS_Subset
<1>2. SumsOf(CHOOSE h : SumsOf(h, f, U), f, U)
  BY <1>1, SumsExist
<1>3. (CHOOSE h : SumsOf(h, f, U))[U] = g[U]
  BY <1>1, <1>2, SumsAgree
<1> QED
  BY <1>3, SumIsChosen

\* A sum over no element is zero.
LEMMA SumEmpty == ASSUME NEW f PROVE SumFunctionOnSet(f, {}) = 0
<1>1. IsFiniteSet({})
  BY FS_EmptySet
<1>2. PICK g : SumsOf(g, f, {})
  BY <1>1, SumsExist
<1>3. g[{}] = 0
  BY <1>2 DEF SumsOf
<1> QED
  BY <1>1, <1>2, <1>3, SumAt

\* A sum taken apart at the element it takes first.
LEMMA SumHead ==
  ASSUME NEW f, NEW S, IsFiniteSet(S), S # {}
  PROVE  SumFunctionOnSet(f, S) = f[FirstOf(S)] + SumFunctionOnSet(f, S \ {FirstOf(S)})
<1>1. PICK g : SumsOf(g, f, S)
  BY SumsExist
<1>2. g[S] = f[FirstOf(S)] + g[S \ {FirstOf(S)}]
  BY <1>1 DEF SumsOf
<1>3. g[S] = SumFunctionOnSet(f, S) /\ g[S \ {FirstOf(S)}] = SumFunctionOnSet(f, S \ {FirstOf(S)})
  BY <1>1, SumAt
<1> QED
  BY <1>2, <1>3

\* Sums of equal numbers are equal.
LEMMA SumSame ==
  ASSUME NEW S, IsFiniteSet(S), NEW f, NEW g, \A x \in S : f[x] = g[x]
  PROVE  SumFunctionOnSet(f, S) = SumFunctionOnSet(g, S)
<1> DEFINE Differ == {s \in SUBSET S : SumFunctionOnSet(f, s) # SumFunctionOnSet(g, s)}
<1>1. SUFFICES ASSUME Differ # {} PROVE FALSE
  OBVIOUS
<1>a. Differ \subseteq SUBSET S
  OBVIOUS
<1> HIDE DEF Differ
<1>2. PICK s \in Differ : \A t \in Differ : t \subseteq s => t = s
  BY <1>1, <1>a, SmallestSet
<1> USE DEF Differ
<1>b. s # {}
  BY SumEmpty
<1>c. IsFiniteSet(s)
  BY FS_Subset
<1>3. s # {} /\ IsFiniteSet(s)
  BY <1>b, <1>c
<1>4. FirstOf(s) \in S /\ s \ {FirstOf(s)} # s /\ s \ {FirstOf(s)} \subseteq s
  BY <1>3, FirstIn
<1>5. SumFunctionOnSet(f, s \ {FirstOf(s)}) = SumFunctionOnSet(g, s \ {FirstOf(s)})
  BY <1>2, <1>4
<1> QED
  BY <1>3, <1>4, <1>5, SumHead

\* A sum of integers is one.
LEMMA SumInt ==
  ASSUME NEW S, IsFiniteSet(S), NEW f, \A x \in S : f[x] \in Int
  PROVE  SumFunctionOnSet(f, S) \in Int
<1> DEFINE Bad == {s \in SUBSET S : SumFunctionOnSet(f, s) \notin Int}
<1>1. SUFFICES ASSUME Bad # {} PROVE FALSE
  OBVIOUS
<1>a. Bad \subseteq SUBSET S
  OBVIOUS
<1> HIDE DEF Bad
<1>2. PICK s \in Bad : \A t \in Bad : t \subseteq s => t = s
  BY <1>1, <1>a, SmallestSet
<1> USE DEF Bad
<1>b. s # {}
  BY SumEmpty
<1>c. IsFiniteSet(s)
  BY FS_Subset
<1>3. s # {} /\ IsFiniteSet(s)
  BY <1>b, <1>c
<1>4. FirstOf(s) \in S /\ s \ {FirstOf(s)} # s /\ s \ {FirstOf(s)} \subseteq s
  BY <1>3, FirstIn
<1>5. SumFunctionOnSet(f, s \ {FirstOf(s)}) \in Int /\ f[FirstOf(s)] \in Int
  BY <1>2, <1>4
<1>6. SumFunctionOnSet(f, s) \in Int
  BY <1>3, <1>5, SumHead
<1> QED
  BY <1>6

\* Any element of the set may be taken out first.
LEMMA SumTake ==
  ASSUME NEW S, IsFiniteSet(S), NEW f, \A x \in S : f[x] \in Int, NEW x \in S
  PROVE  SumFunctionOnSet(f, S) = f[x] + SumFunctionOnSet(f, S \ {x})
<1> DEFINE Sum(s) == SumFunctionOnSet(f, s)
           Bad == {s \in SUBSET S : \E y \in s : Sum(s) # f[y] + Sum(s \ {y})}
<1>1. SUFFICES ASSUME Bad # {} PROVE FALSE
  OBVIOUS
<1>a. Bad \subseteq SUBSET S
  OBVIOUS
<1> HIDE DEF Bad
<1>2. PICK s \in Bad : \A t \in Bad : t \subseteq s => t = s
  BY <1>1, <1>a, SmallestSet
<1> USE DEF Bad
<1>3. PICK y \in s : Sum(s) # f[y] + Sum(s \ {y})
  OBVIOUS
<1> DEFINE z == FirstOf(s)
           rest == (s \ {z}) \ {y}
<1>4. z \in s /\ IsFiniteSet(s) /\ s # {}
  BY <1>3, FirstIn, FS_Subset
<1>5. Sum(s) = f[z] + Sum(s \ {z})
  BY <1>4, SumHead
<1>6. y # z
  BY <1>3, <1>5
<1>7. s \ {z} \notin Bad /\ s \ {y} \notin Bad
  BY <1>2, <1>3, <1>4
<1>8. Sum(s \ {z}) = f[y] + Sum(rest)
  BY <1>3, <1>6, <1>7
<1>9. (s \ {y}) \ {z} = rest
  OBVIOUS
<1>10. Sum(s \ {y}) = f[z] + Sum(rest)
  <2>1. z \in s \ {y} /\ s \ {y} \in SUBSET S
    BY <1>4, <1>6
  <2> QED BY <2>1, <1>7, <1>9
<1>11. Sum(rest) \in Int /\ f[y] \in Int /\ f[z] \in Int
  <2>1. IsFiniteSet(rest) /\ rest \subseteq S
    BY <1>4, FS_RemoveElement
  <2>2. \A u \in rest : f[u] \in Int
    BY <2>1
  <2> QED BY <2>1, <2>2, <1>3, <1>4, SumInt
<1> HIDE DEF Sum, rest, z
<1> QED
  BY <1>3, <1>5, <1>8, <1>10, <1>11

\* What is added to a set is added to its sum.
LEMMA SumAdd ==
  ASSUME NEW S, IsFiniteSet(S), NEW x, x \notin S, NEW f, \A y \in S \cup {x} : f[y] \in Int
  PROVE  SumFunctionOnSet(f, S \cup {x}) = f[x] + SumFunctionOnSet(f, S)
<1>1. IsFiniteSet(S \cup {x}) /\ (S \cup {x}) \ {x} = S
  BY FS_AddElement
<1> QED
  BY <1>1, SumTake

\* Nothing that is summed up is below zero: neither is the sum, and a part of it is no
\* larger than the whole.
LEMMA SumNat ==
  ASSUME NEW S, IsFiniteSet(S), NEW f, \A x \in S : f[x] \in Nat
  PROVE  SumFunctionOnSet(f, S) \in Nat
<1> DEFINE Bad == {s \in SUBSET S : SumFunctionOnSet(f, s) \notin Nat}
<1>1. SUFFICES ASSUME Bad # {} PROVE FALSE
  OBVIOUS
<1>a. Bad \subseteq SUBSET S
  OBVIOUS
<1> HIDE DEF Bad
<1>2. PICK s \in Bad : \A t \in Bad : t \subseteq s => t = s
  BY <1>1, <1>a, SmallestSet
<1> USE DEF Bad
<1>b. s # {}
  BY SumEmpty
<1>c. IsFiniteSet(s)
  BY FS_Subset
<1>3. s # {} /\ IsFiniteSet(s)
  BY <1>b, <1>c
<1>4. FirstOf(s) \in S /\ s \ {FirstOf(s)} # s /\ s \ {FirstOf(s)} \subseteq s
  BY <1>3, FirstIn
<1>5. SumFunctionOnSet(f, s \ {FirstOf(s)}) \in Nat /\ f[FirstOf(s)] \in Nat
  BY <1>2, <1>4
<1>6. SumFunctionOnSet(f, s) \in Nat
  BY <1>3, <1>5, SumHead
<1> QED
  BY <1>6

\* Sums are ordered as the numbers they are sums of.
LEMMA SumOrder ==
  ASSUME NEW S, IsFiniteSet(S), NEW f, NEW g,
         \A x \in S : f[x] \in Int /\ g[x] \in Int /\ f[x] <= g[x]
  PROVE  SumFunctionOnSet(f, S) <= SumFunctionOnSet(g, S)
<1> DEFINE Bad == {s \in SUBSET S : ~(SumFunctionOnSet(f, s) <= SumFunctionOnSet(g, s))}
<1>1. SUFFICES ASSUME Bad # {} PROVE FALSE
  OBVIOUS
<1>a. Bad \subseteq SUBSET S
  OBVIOUS
<1> HIDE DEF Bad
<1>2. PICK s \in Bad : \A t \in Bad : t \subseteq s => t = s
  BY <1>1, <1>a, SmallestSet
<1> USE DEF Bad
<1>b. s # {}
  BY SumEmpty
<1>c. IsFiniteSet(s)
  BY FS_Subset
<1>3. s # {} /\ IsFiniteSet(s)
  BY <1>b, <1>c
<1> DEFINE z == FirstOf(s)
           fr == SumFunctionOnSet(f, s \ {FirstOf(s)})
           gr == SumFunctionOnSet(g, s \ {FirstOf(s)})
<1>4. z \in S /\ s \ {z} # s /\ s \ {z} \subseteq s
  BY <1>3, FirstIn
<1>5. fr <= gr
  BY <1>2, <1>4
<1>6. fr \in Int /\ gr \in Int
  <2>1. IsFiniteSet(s \ {z}) /\ \A x \in s \ {z} : f[x] \in Int /\ g[x] \in Int
    BY <1>3, FS_RemoveElement
  <2> QED BY <2>1, SumInt
<1>7. f[z] \in Int /\ g[z] \in Int /\ f[z] <= g[z]
  BY <1>4
<1>8. SumFunctionOnSet(f, s) = f[z] + fr /\ SumFunctionOnSet(g, s) = g[z] + gr
  BY <1>3, SumHead
<1> HIDE DEF z, fr, gr
<1>9. f[z] + fr <= g[z] + gr
  BY <1>5, <1>6, <1>7
<1> QED
  BY <1>8, <1>9

\* A sum over two sets without a common element is the sum of theirs.
LEMMA SumSplit ==
  ASSUME NEW S, IsFiniteSet(S), NEW T, IsFiniteSet(T), S \cap T = {},
         NEW f, \A x \in S \cup T : f[x] \in Int
  PROVE  SumFunctionOnSet(f, S \cup T) = SumFunctionOnSet(f, S) + SumFunctionOnSet(f, T)
<1> DEFINE Sum(s) == SumFunctionOnSet(f, s)
           Bad == {s \in SUBSET T : Sum(S \cup s) # Sum(S) + Sum(s)}
<1>1. SUFFICES ASSUME Bad # {} PROVE FALSE
  OBVIOUS
<1>2. Bad \subseteq SUBSET T
  OBVIOUS
<1> HIDE DEF Bad
<1>3. PICK s \in Bad : \A t \in Bad : t \subseteq s => t = s
  BY <1>1, <1>2, SmallestSet
<1> USE DEF Bad
<1>4. s \subseteq T /\ IsFiniteSet(s) /\ IsFiniteSet(S \cup s)
  BY FS_Subset, FS_Union
<1>5. Sum(S) \in Int
  BY SumInt
<1>6. PICK x : x \in s
  <2>1. s # {}
    <3>1. SUFFICES ASSUME s = {} PROVE FALSE
      OBVIOUS
    <3>2. Sum(s) = 0 /\ S \cup s = S
      BY <3>1, SumEmpty
    <3>3. Sum(S \cup s) # Sum(S) + Sum(s)
      OBVIOUS
    <3> HIDE DEF Sum, Bad
    <3>4. Sum(S) # Sum(S) + 0
      BY <3>2, <3>3, Zenon
    <3> QED
      BY <1>5, <3>4
  <2> QED
    BY <2>1
<1> DEFINE rest == s \ {x}
<1>7. rest \in SUBSET T /\ rest # s /\ rest \subseteq s /\ rest \notin Bad
  BY <1>3, <1>4, <1>6
<1>8. Sum(S \cup rest) = Sum(S) + Sum(rest)
  BY <1>7
<1>9. Sum(s) = f[x] + Sum(rest)
  BY <1>4, <1>6, SumTake
<1>10. (S \cup s) \ {x} = S \cup rest /\ x \in S \cup s
  BY <1>4, <1>6
<1>11. Sum(S \cup s) = f[x] + Sum(S \cup rest)
  <2>1. \A y \in S \cup s : f[y] \in Int
    BY <1>4
  <2> HIDE DEF rest
  <2> QED
    BY <1>4, <1>10, <2>1, SumTake
<1>12. Sum(rest) \in Int /\ f[x] \in Int
  <2>1. IsFiniteSet(rest)
    BY <1>4, FS_RemoveElement
  <2>2. \A y \in rest : f[y] \in Int
    BY <1>4
  <2> QED
    BY <1>4, <1>6, <2>1, <2>2, SumInt
<1>13. Sum(S \cup s) # Sum(S) + Sum(s)
  OBVIOUS
<1> HIDE DEF Sum, rest
<1> QED
  BY <1>5, <1>8, <1>9, <1>11, <1>12, <1>13

\* A part of a sum of naturals is no larger than the whole.
LEMMA SumPart ==
  ASSUME NEW S, IsFiniteSet(S), NEW T, T \subseteq S, NEW f, \A x \in S : f[x] \in Nat
  PROVE  SumFunctionOnSet(f, T) <= SumFunctionOnSet(f, S)
<1>1. IsFiniteSet(T) /\ IsFiniteSet(S \ T)
  BY FS_Subset
<1>2. SumFunctionOnSet(f, T) \in Nat /\ SumFunctionOnSet(f, S \ T) \in Nat
  <2>1. (\A x \in T : f[x] \in Nat) /\ (\A x \in S \ T : f[x] \in Nat)
    OBVIOUS
  <2> QED
    BY <1>1, <2>1, SumNat
<1>3. T \cup (S \ T) = S /\ T \cap (S \ T) = {}
  OBVIOUS
<1>4. SumFunctionOnSet(f, S) = SumFunctionOnSet(f, T) + SumFunctionOnSet(f, S \ T)
  <2>1. \A x \in T \cup (S \ T) : f[x] \in Int
    OBVIOUS
  <2> QED
    BY <1>1, <1>3, <2>1, SumSplit
<1> QED
  BY <1>2, <1>4

\* Numbers that are at most n add up to at most n for each element.
LEMMA SumAtMost ==
  ASSUME NEW S, IsFiniteSet(S), NEW n \in Int, NEW f,
         \A x \in S : f[x] \in Int /\ f[x] <= n
  PROVE  SumFunctionOnSet(f, S) <= n * Cardinality(S)
<1> DEFINE Sum(s) == SumFunctionOnSet(f, s)
           Bad == {s \in SUBSET S : ~(Sum(s) <= n * Cardinality(s))}
<1>1. SUFFICES ASSUME Bad # {} PROVE FALSE
  OBVIOUS
<1>2. Bad \subseteq SUBSET S
  OBVIOUS
<1> HIDE DEF Bad
<1>3. PICK s \in Bad : \A t \in Bad : t \subseteq s => t = s
  BY <1>1, <1>2, SmallestSet
<1> USE DEF Bad
<1>4. s \subseteq S /\ IsFiniteSet(s)
  BY FS_Subset
<1>5. PICK x : x \in s
  <2>1. s # {}
    <3>1. SUFFICES ASSUME s = {} PROVE FALSE
      OBVIOUS
    <3>2. Sum(s) = 0 /\ Cardinality(s) = 0
      BY <3>1, SumEmpty, FS_EmptySet
    <3>3. ~(Sum(s) <= n * Cardinality(s))
      OBVIOUS
    <3> HIDE DEF Sum
    <3> QED
      BY <3>2, <3>3
  <2> QED
    BY <2>1
<1> DEFINE rest == s \ {x}
           k == Cardinality(rest)
<1>6. rest \in SUBSET S /\ rest # s /\ rest \subseteq s /\ rest \notin Bad
  BY <1>3, <1>4, <1>5
<1>7. IsFiniteSet(rest) /\ k \in Nat /\ Cardinality(s) = k + 1
  <2>1. IsFiniteSet(rest) /\ k = Cardinality(s) - 1
    BY <1>4, <1>5, FS_RemoveElement
  <2>2. k \in Nat /\ Cardinality(s) \in Nat
    BY <1>4, <2>1, FS_CardinalityType
  <2> HIDE DEF k, rest
  <2> QED
    BY <2>1, <2>2
<1>8. Sum(rest) <= n * k
  BY <1>6
<1>9. Sum(s) = f[x] + Sum(rest)
  BY <1>4, <1>5, SumTake
<1>10. Sum(rest) \in Int /\ f[x] \in Int /\ f[x] <= n
  <2>1. \A y \in rest : f[y] \in Int
    BY <1>4
  <2> QED
    BY <1>4, <1>5, <1>7, <2>1, SumInt
<1>11. ~(Sum(s) <= n * Cardinality(s))
  OBVIOUS
<1> HIDE DEF Sum, rest, k
<1>12. n * (k + 1) = n * k + n /\ n * k \in Int
  BY <1>7
<1> QED
  BY <1>7, <1>8, <1>9, <1>10, <1>11, <1>12
\* A function has finitely many values on a finite set.
LEMMA ImageFinite ==
  ASSUME NEW S, IsFiniteSet(S), NEW f
  PROVE  IsFiniteSet({f[x] : x \in S})
<1> DEFINE T == {f[x] : x \in S}
           g == [x \in S |-> f[x]]
<1>1. g \in Surjection(S, T)
  BY DEF Surjection
<1> HIDE DEF T, g
<1>2. IsFiniteSet(T)
  BY <1>1, FS_Surjection
<1> QED
  BY <1>2 DEF T

\* A finite set of numbers has a largest one.
LEMMA LargestOf ==
  ASSUME NEW S, IsFiniteSet(S), S \subseteq Int, S # {}
  PROVE  Max(S) \in S /\ \A y \in S : y <= Max(S)
<1> DEFINE R == {e \in S \X S : e[1] >= e[2]}
<1>1. \A x, y \in S : <<x, y>> \in R <=> x >= y
  OBVIOUS
<1> HIDE DEF R
<1>2. ASSUME NEW x \in S, NEW y \in S PROVE <<x, y>> \in R \/ <<y, x>> \in R
  <2>1. x >= y \/ y >= x
    <3>1. x \in Int /\ y \in Int
      OBVIOUS
    <3> QED
      BY <3>1
  <2> QED
    BY <1>1, <2>1
<1>3. \A x, y, z \in S : <<x, y>> \in R /\ <<y, z>> \in R => <<x, z>> \in R
  BY <1>1
<1>4. PICK x \in S : \A y \in S : <<x, y>> \in R
  BY <1>2, <1>3, GreatestExists
<1>5. \A y \in S : x >= y
  BY <1>1, <1>4
<1>6. Max(S) \in S /\ \A y \in S : Max(S) >= y
  BY <1>5 DEF Max
<1> QED
  BY <1>6

\* And a smallest one.
LEMMA SmallestOf ==
  ASSUME NEW S, IsFiniteSet(S), S \subseteq Int, S # {}
  PROVE  Min(S) \in S /\ \A y \in S : Min(S) <= y
<1> DEFINE R == {e \in S \X S : e[1] <= e[2]}
<1>1. \A x, y \in S : <<x, y>> \in R <=> x <= y
  OBVIOUS
<1> HIDE DEF R
<1>2. ASSUME NEW x \in S, NEW y \in S PROVE <<x, y>> \in R \/ <<y, x>> \in R
  <2>1. x <= y \/ y <= x
    <3>1. x \in Int /\ y \in Int
      OBVIOUS
    <3> QED
      BY <3>1
  <2> QED
    BY <1>1, <2>1
<1>3. \A x, y, z \in S : <<x, y>> \in R /\ <<y, z>> \in R => <<x, z>> \in R
  BY <1>1
<1>4. PICK x \in S : \A y \in S : <<x, y>> \in R
  BY <1>2, <1>3, GreatestExists
<1>5. \A y \in S : x <= y
  BY <1>1, <1>4
<1> QED
  BY <1>5 DEF Min

\* Summing up over other names of the same elements.
LEMMA SumMoved ==
  ASSUME NEW S, IsFiniteSet(S), NEW m, NEW f, NEW g,
         \A x, y \in S : m[x] = m[y] => x = y,
         \A x \in S : g[x] \in Int /\ f[m[x]] = g[x]
  PROVE  SumFunctionOnSet(f, {m[x] : x \in S}) = SumFunctionOnSet(g, S)
<1> DEFINE Moved(s) == {m[x] : x \in s}
           Bad == {s \in SUBSET S : SumFunctionOnSet(f, Moved(s)) # SumFunctionOnSet(g, s)}
<1>1. SUFFICES ASSUME Bad # {} PROVE FALSE
  OBVIOUS
<1>2. Bad \subseteq SUBSET S
  OBVIOUS
<1> HIDE DEF Bad
<1>3. PICK s \in Bad : \A t \in Bad : t \subseteq s => t = s
  BY <1>1, <1>2, SmallestSet
<1> USE DEF Bad
<1>4. s \subseteq S /\ IsFiniteSet(s) /\ IsFiniteSet(Moved(s))
  BY FS_Subset, ImageFinite
<1>5. SumFunctionOnSet(f, Moved(s)) # SumFunctionOnSet(g, s)
  BY <1>3
<1>6. PICK x : x \in s
  <2>1. s # {}
    <3>1. SUFFICES ASSUME s = {} PROVE FALSE
      OBVIOUS
    <3>2. Moved(s) = {}
      BY <3>1
    <3> HIDE DEF Moved
    <3> QED
      BY <1>5, <3>1, <3>2, SumEmpty
  <2> QED
    BY <2>1
<1> DEFINE rest == s \ {x}
<1>7. rest \in SUBSET S /\ rest # s /\ rest \subseteq s
  BY <1>4, <1>6
<1>8. SumFunctionOnSet(f, Moved(rest)) = SumFunctionOnSet(g, rest)
  BY <1>3, <1>7
<1>9. Moved(rest) = Moved(s) \ {m[x]} /\ m[x] \in Moved(s)
  BY <1>4, <1>6
<1>10. \A y \in Moved(s) : f[y] \in Int
  BY <1>4
<1>11. \A y \in s : g[y] \in Int
  BY <1>4
<1> HIDE DEF Moved, Bad
<1>12. SumFunctionOnSet(f, Moved(s)) = f[m[x]] + SumFunctionOnSet(f, Moved(s) \ {m[x]})
  BY <1>4, <1>9, <1>10, SumTake
<1>13. SumFunctionOnSet(g, s) = g[x] + SumFunctionOnSet(g, rest)
  BY <1>4, <1>6, <1>11, SumTake
<1>14. f[m[x]] = g[x]
  BY <1>4, <1>6
<1> QED
  BY <1>5, <1>8, <1>9, <1>12, <1>13, <1>14

-----------------------------------------------------------------------------
(* Finite sets in order *)

\* R orders the elements of D one after the other.
Orders(R, D) ==
  /\ \A x \in D : <<x, x>> \notin R
  /\ \A x, y \in D : x = y \/ <<x, y>> \in R \/ <<y, x>> \in R
  /\ \A x, y, z \in D : <<x, y>> \in R /\ <<y, z>> \in R => <<x, z>> \in R

\* x and what R puts before it in D.
UpTo(R, D, x) == {y \in D : y = x \/ <<y, x>> \in R}

\* A finite set has a first element in R.
LEMMA FirstExists ==
  ASSUME NEW R, NEW D, Orders(R, D), IsFiniteSet(D), NEW S, S \subseteq D, S # {}
  PROVE  \E x \in S : \A y \in S \ {x} : <<x, y>> \in R
<1> DEFINE Q == {e \in S \X S : e[1] = e[2] \/ e \in R}
<1>1. \A x, y \in S : <<x, y>> \in Q <=> x = y \/ <<x, y>> \in R
  OBVIOUS
<1> HIDE DEF Q
<1>2. IsFiniteSet(S)
  BY FS_Subset
<1>3. ASSUME NEW x \in S, NEW y \in S PROVE <<x, y>> \in Q \/ <<y, x>> \in Q
  BY <1>1 DEF Orders
<1>4. ASSUME NEW x \in S, NEW y \in S, NEW z \in S, <<x, y>> \in Q, <<y, z>> \in Q PROVE <<x, z>> \in Q
  BY <1>1, <1>4 DEF Orders
<1>5. PICK x \in S : \A y \in S : <<x, y>> \in Q
  BY <1>2, <1>3, <1>4, GreatestExists
<1> QED
  BY <1>1, <1>5

\* And a last one.
LEMMA LastExists ==
  ASSUME NEW R, NEW D, Orders(R, D), IsFiniteSet(D), NEW S, S \subseteq D, S # {}
  PROVE  \E x \in S : \A y \in S \ {x} : <<y, x>> \in R
<1> DEFINE Q == {e \in S \X S : e[1] = e[2] \/ <<e[2], e[1]>> \in R}
<1>1. \A x, y \in S : <<x, y>> \in Q <=> x = y \/ <<y, x>> \in R
  OBVIOUS
<1> HIDE DEF Q
<1>2. IsFiniteSet(S)
  BY FS_Subset
<1>3. ASSUME NEW x \in S, NEW y \in S PROVE <<x, y>> \in Q \/ <<y, x>> \in Q
  BY <1>1 DEF Orders
<1>4. ASSUME NEW x \in S, NEW y \in S, NEW z \in S, <<x, y>> \in Q, <<y, z>> \in Q PROVE <<x, z>> \in Q
  BY <1>1, <1>4 DEF Orders
<1>5. PICK x \in S : \A y \in S : <<x, y>> \in Q
  BY <1>2, <1>3, <1>4, GreatestExists
<1> QED
  BY <1>1, <1>5

\* What comes before an earlier element comes before a later one.
LEMMA UpToGrows ==
  ASSUME NEW R, NEW D, Orders(R, D), IsFiniteSet(D), NEW x \in D, NEW y \in D, <<x, y>> \in R
  PROVE  /\ UpTo(R, D, x) \subseteq UpTo(R, D, y)
         /\ Cardinality(UpTo(R, D, x)) < Cardinality(UpTo(R, D, y))
<1>1. UpTo(R, D, x) \subseteq UpTo(R, D, y)
  BY DEF UpTo, Orders
<1>2. y \in UpTo(R, D, y) /\ y \notin UpTo(R, D, x)
  BY DEF UpTo, Orders
<1>3. IsFiniteSet(UpTo(R, D, y)) /\ IsFiniteSet(UpTo(R, D, x))
  BY FS_Subset DEF UpTo
<1>4. Cardinality(UpTo(R, D, x)) \in Nat /\ Cardinality(UpTo(R, D, y)) \in Nat
  BY <1>3, FS_CardinalityType
<1>5. /\ Cardinality(UpTo(R, D, x)) <= Cardinality(UpTo(R, D, y))
      /\ Cardinality(UpTo(R, D, y)) = Cardinality(UpTo(R, D, x)) => UpTo(R, D, y) = UpTo(R, D, x)
  BY <1>1, <1>3, FS_Subset
<1> QED
  BY <1>1, <1>2, <1>4, <1>5

\* The place of an element tells it from the others, and a later place has more before it.
LEMMA RanksTell ==
  ASSUME NEW R, NEW D, Orders(R, D), IsFiniteSet(D), NEW x \in D, NEW y \in D,
         Cardinality(UpTo(R, D, x)) <= Cardinality(UpTo(R, D, y))
  PROVE  /\ UpTo(R, D, x) \subseteq UpTo(R, D, y)
         /\ x = y \/ <<x, y>> \in R
         /\ Cardinality(UpTo(R, D, x)) = Cardinality(UpTo(R, D, y)) => x = y
<1>1. IsFiniteSet(UpTo(R, D, y)) /\ IsFiniteSet(UpTo(R, D, x))
  BY FS_Subset DEF UpTo
<1>2. Cardinality(UpTo(R, D, x)) \in Nat /\ Cardinality(UpTo(R, D, y)) \in Nat
  BY <1>1, FS_CardinalityType
<1>3. ~(<<y, x>> \in R)
  BY <1>2, UpToGrows
<1>4. x = y \/ <<x, y>> \in R
  BY <1>3 DEF Orders
<1>5. CASE <<x, y>> \in R
  BY <1>2, <1>5, UpToGrows
<1> QED
  BY <1>4, <1>5

\* What R puts before x in D, and the elements of D with fewer than n before them.
Before(R, D, x) == {y \in D : <<y, x>> \in R}
Foremost(R, D, n) == {x \in D : Cardinality(Before(R, D, x)) < n}

\* Of the elements of a set with at least n of them, n have fewer than n before them.
LEMMA FirstMany ==
  ASSUME NEW R, NEW D, Orders(R, D), IsFiniteSet(D), NEW n \in Nat, n <= Cardinality(D)
  PROVE  Cardinality(Foremost(R, D, n)) = n
<1> DEFINE Earlier(x) == Before(R, D, x)
           Rank(x) == Cardinality(Earlier(x))
           First(k) == Foremost(R, D, k)
           Bad == {k \in Nat : k <= Cardinality(D) /\ Cardinality(First(k)) # k}
<1> USE DEF Before, Foremost
<1>a. Cardinality(D) \in Nat
  BY FS_CardinalityType
<1>b. \A x \in D : IsFiniteSet(Earlier(x)) /\ Rank(x) \in Nat
  <2> TAKE x \in D
  <2>1. Earlier(x) \in SUBSET D
    OBVIOUS
  <2> HIDE DEF Earlier
  <2>2. IsFiniteSet(Earlier(x))
    BY <2>1, FS_Subset
  <2> QED
    BY <2>2, FS_CardinalityType
<1>c. \A k \in Nat : First(k) \subseteq D /\ IsFiniteSet(First(k))
  <2> TAKE k \in Nat
  <2>1. First(k) \subseteq D
    OBVIOUS
  <2> HIDE DEF First
  <2> QED
    BY <2>1, FS_Subset
<1>1. SUFFICES ASSUME Bad # {} PROVE FALSE
  OBVIOUS
<1>2. Bad \subseteq Nat
  OBVIOUS
<1>d. ASSUME NEW x \in D, NEW y \in D, <<y, x>> \in R PROVE Rank(y) < Rank(x)
  <2>1. Earlier(y) \subseteq Earlier(x) /\ y \in Earlier(x) /\ y \notin Earlier(y)
    BY <1>d DEF Orders
  <2>2. IsFiniteSet(Earlier(x)) /\ Rank(x) \in Nat /\ Rank(y) \in Nat
    BY <1>b
  <2> HIDE DEF Earlier
  <2>3. /\ Cardinality(Earlier(y)) <= Cardinality(Earlier(x))
        /\ Cardinality(Earlier(x)) = Cardinality(Earlier(y)) => Earlier(x) = Earlier(y)
    BY <2>1, <2>2, FS_Subset
  <2> QED
    BY <2>1, <2>2, <2>3
<1> HIDE DEF Bad
<1>3. PICK k \in Bad : \A e \in Bad : ~(<<e, k>> \in OpToRel(<, Nat))
  BY <1>1, <1>2, NatLessThanWellFounded, WFMin, Zenon
<1>4. \A e \in Bad : ~(e < k)
  BY <1>2, <1>3, Zenon DEF OpToRel
<1> USE DEF Bad
<1>5. k \in Nat /\ k <= Cardinality(D) /\ Cardinality(First(k)) # k
  OBVIOUS
<1>6. First(0) = {}
  BY <1>b
<1>7. k # 0
  BY <1>5, <1>6, FS_EmptySet
<1> DEFINE j == k - 1
<1>f. \A i : First(i) = {z \in D : Rank(z) < i}
  OBVIOUS
<1> HIDE DEF First, Rank, Earlier
<1>8. j \in Nat /\ j < k /\ j < Cardinality(D) /\ Cardinality(First(j)) = j
  BY <1>4, <1>5, <1>7, <1>a
<1>e. k = j + 1
  BY <1>5
<1> HIDE DEF Bad, j, First
<1>9. D \ First(j) # {}
  <2>1. First(j) \subseteq D
    BY <1>8, <1>c
  <2> QED
    BY <1>8, <2>1
<1>10. PICK x \in D \ First(j) : \A y \in (D \ First(j)) \ {x} : <<x, y>> \in R
  <2>1. PICK T : T = D \ First(j)
    OBVIOUS
  <2>2. T \subseteq D /\ T # {}
    BY <1>9, <2>1
  <2>3. \E x \in T : \A y \in T \ {x} : <<x, y>> \in R
    BY <2>2, FirstExists
  <2> QED
    BY <2>1, <2>3
<1>g. \A z : Earlier(z) = {y \in D : <<y, z>> \in R}
  BY DEF Earlier
<1>h. \A z : Rank(z) = Cardinality(Earlier(z))
  BY DEF Rank
<1>11. \A y \in First(j) : <<y, x>> \in R
  <2> TAKE y \in First(j)
  <2>1. y # x /\ y \in D /\ Rank(y) < j /\ ~(Rank(x) < j)
    BY <1>10, <1>f
  <2>2. ~(<<x, y>> \in R)
    <3>1. Rank(x) \in Nat /\ Rank(y) \in Nat
      BY <1>b, <2>1, <1>10
    <3>2. <<x, y>> \in R => Rank(x) < Rank(y)
      BY <1>d, <2>1, <1>10
    <3> QED
      BY <1>8, <2>1, <3>1, <3>2
  <2> QED
    BY <2>1, <2>2 DEF Orders
<1>12. Earlier(x) = First(j)
  <2>1. First(j) \subseteq Earlier(x)
    BY <1>11, <1>g, <1>f
  <2>2. ASSUME NEW y \in Earlier(x), y \notin First(j) PROVE FALSE
    BY <1>10, <2>2, <1>g DEF Orders
  <2> QED
    BY <2>1, <2>2
<1>13. Rank(x) = j
  BY <1>8, <1>12, <1>h
<1>14. \A y \in D \ First(j) : y # x => Rank(y) > j
  <2> TAKE y \in D \ First(j)
  <2> HAVE y # x
  <2>1. <<x, y>> \in R
    BY <1>10
  <2> QED
    BY <2>1, <1>10, <1>13, <1>d, <1>b, <1>8
<1>15. First(k) = First(j) \cup {x}
  <2>1. \A y \in D : Rank(y) \in Nat /\ (y \in First(j) <=> Rank(y) < j)
                   /\ (y \in First(k) <=> Rank(y) < k)
    BY <1>b, <1>f
  <2>2. First(j) \subseteq D /\ First(k) \subseteq D
    BY <1>f
  <2>3. \A y \in D : y \in First(k) <=> y \in First(j) \/ y = x
    BY <1>8, <1>e, <1>10, <1>13, <1>14, <2>1
  <2> QED
    BY <1>10, <2>2, <2>3
<1>16. Cardinality(First(k)) = j + 1
  BY <1>8, <1>10, <1>15, <1>c, FS_AddElement
<1> QED
  BY <1>5, <1>8, <1>e, <1>16
=============================================================================
