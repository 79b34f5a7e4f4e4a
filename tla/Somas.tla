------------------------------- MODULE Somas -------------------------------
(***************************************************************************)
(* Sums over finite sets: facts about SumFunctionOnSet, with which the     *)
(* model adds up the lines of a document.  They are proved by induction    *)
(* over the subsets of the set, through WFMin of WellFoundedInduction: the *)
(* property to prove is given as the set of subsets that have it.          *)
(***************************************************************************)
EXTENDS Integers, FiniteSets, Functions, FiniteSetTheorems, WellFoundedInduction, TLAPS

-----------------------------------------------------------------------------
(***************************************************************************)
(* Induction.                                                              *)
(***************************************************************************)

\* Every subset of a finite set is in T when T has each subset whose proper parts
\* it has.
LEMMA Descida ==
    ASSUME NEW S, IsFiniteSet(S), NEW T,
           \A s \in SUBSET S : (\A u \in SUBSET s : u # s => u \in T) => s \in T
    PROVE  SUBSET S \subseteq T
<1> DEFINE ruins == (SUBSET S) \ T
<1>1. SUFFICES ASSUME ruins # {} PROVE FALSE
  OBVIOUS
<1>2. /\ IsWellFoundedOn(StrictSubsetOrdering(S), FiniteSubsetsOf(S))
      /\ FiniteSubsetsOf(S) = SUBSET S
  BY FS_StrictSubsetOrderingWellFounded, FS_FiniteSubsetsOfFinite
<1>3. PICK s \in ruins : \A u \in ruins : <<u, s>> \notin StrictSubsetOrdering(S)
  <2> HIDE DEF ruins
  <2>1. ruins \subseteq FiniteSubsetsOf(S)
    BY <1>2 DEF ruins
  <2> QED
    BY <1>1, <1>2, <2>1, WFMin
<1>4. \A u \in SUBSET s : u # s => u \in T
  BY <1>3 DEF StrictSubsetOrdering
<1> QED
  BY <1>3, <1>4

\* Every natural number is in T.
LEMMA Subida ==
    ASSUME NEW T, 0 \in T, \A n \in Nat : n \in T => n + 1 \in T
    PROVE  Nat \subseteq T
<1> DEFINE ruins == Nat \ T
<1>1. SUFFICES ASSUME ruins # {} PROVE FALSE
  OBVIOUS
<1>3. PICK n \in ruins : \A m \in ruins : <<m, n>> \notin OpToRel(<, Nat)
  <2> HIDE DEF ruins
  <2>1. ruins \subseteq Nat
    BY DEF ruins
  <2> QED
    BY <1>1, <2>1, WFMin, NatLessThanWellFounded
<1>4. \A m \in Nat : m < n => m \in T
  BY <1>3 DEF OpToRel
<1>5. n # 0 /\ n \in Nat
  BY <1>3
<1>6. n - 1 \in Nat /\ n - 1 \in T /\ (n - 1) + 1 = n
  BY <1>4, <1>5
<1>7. n \in T
  <2> DEFINE m == n - 1
  <2>1. m \in Nat /\ m \in T /\ m + 1 = n
    BY <1>6
  <2> HIDE DEF m
  <2> QED
    BY <2>1
<1> QED
  BY <1>3, <1>7

-----------------------------------------------------------------------------
(***************************************************************************)
(* What SumFunctionOnSet computes.                                         *)
(***************************************************************************)

\* The element the fold takes out of a set first.
Um(s) == CHOOSE x \in s : TRUE

\* The body of the recursion: g holds the sums of the smaller sets.
Soma(g, f, s) == IF s = {} THEN 0 ELSE f[Um(s)] + g[s \ {Um(s)}]

\* g holds the sums of the subsets with up to n elements, or of all of them.
Ate(g, f, S, n) == \A s \in SUBSET S : Cardinality(s) <= n => g[s] = Soma(g, f, s)

Equacao(g, f, S) == \A s \in SUBSET S : g[s] = Soma(g, f, s)

LEMMA UmDeles ==
    ASSUME NEW s, s # {}
    PROVE  Um(s) \in s
BY DEF Um

LEMMA Menor ==
    ASSUME NEW S, IsFiniteSet(S), NEW s \in SUBSET S
    PROVE  /\ IsFiniteSet(s) /\ Cardinality(s) \in Nat /\ Cardinality(s) <= Cardinality(S)
           /\ Cardinality(s) = 0 <=> s = {}
           /\ \A x \in s : /\ s \ {x} \in SUBSET S
                           /\ Cardinality(s \ {x}) = Cardinality(s) - 1
<1>1. IsFiniteSet(s) /\ Cardinality(s) <= Cardinality(S)
  BY FS_Subset
<1> QED
  BY <1>1, FS_CardinalityType, FS_EmptySet, FS_RemoveElement

\* The recursion of the fold has a solution on the subsets of a finite set.
LEMMA SomaExiste ==
    ASSUME NEW f, NEW S, IsFiniteSet(S)
    PROVE  \E g : g = [s \in SUBSET S |-> Soma(g, f, s)]
<1> DEFINE T == {n \in Nat : \E g : Ate(g, f, S, n)}
<1>1. 0 \in T
  <2> DEFINE g == [s \in SUBSET S |-> 0]
  <2>1. ASSUME NEW s \in SUBSET S, Cardinality(s) <= 0
        PROVE  g[s] = Soma(g, f, s)
    BY <2>1, Menor DEF Soma
  <2>2. Ate(g, f, S, 0)
    BY <2>1 DEF Ate
  <2> QED
    BY <2>2
<1>2. ASSUME NEW n \in Nat, n \in T
      PROVE  n + 1 \in T
  <2>1. PICK g : Ate(g, f, S, n)
    BY <1>2
  <2> DEFINE h == [s \in SUBSET S |-> IF Cardinality(s) = n + 1
                                      THEN f[Um(s)] + g[s \ {Um(s)}] ELSE g[s]]
  <2>2. ASSUME NEW s \in SUBSET S, Cardinality(s) <= n + 1
        PROVE  h[s] = Soma(h, f, s)
    <3>1. Cardinality(s) \in Nat /\ (Cardinality(s) = 0 <=> s = {})
      BY Menor
    <3>2. CASE s = {}
      <4>1. h[s] = g[s] /\ g[s] = 0
        BY <2>1, <3>1, <3>2 DEF Ate, Soma
      <4> QED
        BY <3>2, <4>1 DEF Soma
    <3>3. CASE s # {}
      <4> DEFINE t == s \ {Um(s)}
      <4>1. Um(s) \in s
        BY <3>3, UmDeles
      <4>2. t \in SUBSET S /\ Cardinality(t) = Cardinality(s) - 1
        BY <4>1, Menor
      <4>3. h[t] = g[t]
        BY <2>2, <3>1, <4>2
      <4>4. CASE Cardinality(s) = n + 1
        BY <3>3, <4>3, <4>4 DEF Soma
      <4>5. CASE Cardinality(s) # n + 1
        <5>1. Cardinality(s) <= n
          BY <2>2, <3>1, <4>5
        <5>2. h[s] = g[s] /\ g[s] = Soma(g, f, s)
          BY <2>1, <4>5, <5>1 DEF Ate
        <5> QED
          BY <3>3, <4>3, <5>2 DEF Soma
      <4> QED
        BY <4>4, <4>5
    <3> QED
      BY <3>2, <3>3
  <2>3. Ate(h, f, S, n + 1)
    <3> HIDE DEF h
    <3> QED
      BY <2>2 DEF Ate
  <2> QED
    BY <2>3
<1>3. Cardinality(S) \in T
  <2> HIDE DEF T
  <2>1. Nat \subseteq T
    BY <1>1, <1>2, Subida
  <2> QED
    BY <2>1, FS_CardinalityType
<1>4. PICK g : Ate(g, f, S, Cardinality(S))
  BY <1>3
<1> DEFINE k == [s \in SUBSET S |-> g[s]]
<1>5. ASSUME NEW s \in SUBSET S
      PROVE  k[s] = Soma(k, f, s)
  <2>1. g[s] = Soma(g, f, s)
    BY <1>4, Menor DEF Ate
  <2>2. Soma(k, f, s) = Soma(g, f, s)
    BY DEF Soma
  <2> QED
    BY <2>1, <2>2
<1>6. k = [s \in SUBSET S |-> Soma(k, f, s)]
  BY <1>5
<1> QED
  BY <1>6

\* Solutions agree on the subsets they share.
LEMMA SomaUnica ==
    ASSUME NEW f, NEW S, IsFiniteSet(S), NEW U, S \subseteq U, NEW g, NEW h,
           Equacao(g, f, S), Equacao(h, f, U)
    PROVE  \A s \in SUBSET S : g[s] = h[s]
<1> DEFINE T == {s \in SUBSET S : g[s] = h[s]}
<1>1. ASSUME NEW s \in SUBSET S, \A u \in SUBSET s : u # s => u \in T
      PROVE  s \in T
  <2>1. g[s] = Soma(g, f, s) /\ h[s] = Soma(h, f, s)
    BY DEF Equacao
  <2>2. CASE s = {}
    BY <2>1, <2>2 DEF Soma
  <2>3. CASE s # {}
    <3>1. Um(s) \in s
      BY <2>3, UmDeles
    <3>2. g[s \ {Um(s)}] = h[s \ {Um(s)}]
      BY <1>1, <3>1
    <3> QED
      BY <2>1, <2>3, <3>2 DEF Soma
  <2> QED
    BY <2>2, <2>3
<1>2. SUBSET S \subseteq T
  <2> HIDE DEF T
  <2> QED
    BY <1>1, Descida
<1> QED
  BY <1>2

\* SumFunctionOnSet satisfies its recursive equation.
LEMMA SomaDefinida ==
    ASSUME NEW f, NEW S, IsFiniteSet(S)
    PROVE  \E g : /\ Equacao(g, f, S)
                  /\ SumFunctionOnSet(f, S) = g[S]
<1> DEFINE g == CHOOSE g : g = [s \in SUBSET S |-> Soma(g, f, s)]
<1>1. SumFunctionOnSet(f, S) = g[S]
  BY DEF SumFunctionOnSet, FoldFunctionOnSet, MapThenFoldSet, Soma, Um
<1>2. g = [s \in SUBSET S |-> Soma(g, f, s)]
  BY SomaExiste
<1> HIDE DEF g
<1>3. Equacao(g, f, S)
  BY <1>2 DEF Equacao
<1> QED
  BY <1>1, <1>3

-----------------------------------------------------------------------------
(***************************************************************************)
(* Laws of sums.                                                           *)
(***************************************************************************)

LEMMA SomaVazia ==
    ASSUME NEW f
    PROVE  SumFunctionOnSet(f, {}) = 0
<1>1. PICK g : Equacao(g, f, {}) /\ SumFunctionOnSet(f, {}) = g[{}]
  <2>1. IsFiniteSet({})
    BY FS_EmptySet
  <2> QED
    BY <2>1, SomaDefinida
<1>2. g[{}] = Soma(g, f, {})
  BY <1>1 DEF Equacao
<1> QED
  BY <1>1, <1>2 DEF Soma

LEMMA SomaPasso ==
    ASSUME NEW f, NEW S, IsFiniteSet(S), S # {}
    PROVE  SumFunctionOnSet(f, S) = f[Um(S)] + SumFunctionOnSet(f, S \ {Um(S)})
<1> DEFINE R == S \ {Um(S)}
<1>1. IsFiniteSet(R) /\ R \subseteq S
  BY FS_Subset
<1>2. PICK g : Equacao(g, f, S) /\ SumFunctionOnSet(f, S) = g[S]
  BY SomaDefinida
<1>3. PICK h : Equacao(h, f, R) /\ SumFunctionOnSet(f, R) = h[R]
  BY <1>1, SomaDefinida
<1>4. h[R] = g[R]
  <2> HIDE DEF R
  <2>1. \A s \in SUBSET R : h[s] = g[s]
    BY <1>1, <1>2, <1>3, SomaUnica
  <2> QED
    BY <2>1
<1>5. g[S] = f[Um(S)] + g[R]
  BY <1>2 DEF Soma, Equacao
<1> QED
  BY <1>2, <1>3, <1>4, <1>5

\* The sum does not depend on the order: any element can be taken out first.
LEMMA SomaTira ==
    ASSUME NEW S, IsFiniteSet(S), NEW f, \A x \in S : f[x] \in Int
    PROVE  /\ SumFunctionOnSet(f, S) \in Int
           /\ \A x \in S : SumFunctionOnSet(f, S) = f[x] + SumFunctionOnSet(f, S \ {x})
<1> DEFINE T == {s \in SUBSET S : /\ SumFunctionOnSet(f, s) \in Int
                                  /\ \A x \in s : SumFunctionOnSet(f, s)
                                         = f[x] + SumFunctionOnSet(f, s \ {x})}
<1>1. ASSUME NEW s \in SUBSET S, \A u \in SUBSET s : u # s => u \in T
      PROVE  s \in T
  <2>1. IsFiniteSet(s)
    BY FS_Subset
  <2>2. CASE s = {}
    BY <2>2, SomaVazia
  <2>3. CASE s # {}
    <3> DEFINE c == Um(s)
    <3>1. c \in s /\ SumFunctionOnSet(f, s) = f[c] + SumFunctionOnSet(f, s \ {c})
      BY <2>1, <2>3, UmDeles, SomaPasso
    <3>2. s \ {c} \in T /\ f[c] \in Int
      BY <1>1, <3>1
    <3>3. SumFunctionOnSet(f, s) \in Int
      BY <3>1, <3>2
    <3> HIDE DEF c
    <3>4. ASSUME NEW x \in s
          PROVE  SumFunctionOnSet(f, s) = f[x] + SumFunctionOnSet(f, s \ {x})
      <4>1. CASE x = c
        BY <3>1, <4>1
      <4>2. CASE x # c
        <5>1. s \ {x} \in T /\ f[x] \in Int
          BY <1>1
        <5>2. (s \ {c}) \ {x} = (s \ {x}) \ {c} /\ x \in s \ {c} /\ c \in s \ {x}
          BY <3>1, <4>2
        <5> DEFINE r == SumFunctionOnSet(f, (s \ {x}) \ {c})
        <5>3. SumFunctionOnSet(f, s \ {c}) = f[x] + r
          BY <3>2, <5>2
        <5>4. SumFunctionOnSet(f, s \ {x}) = f[c] + r
          BY <5>1, <5>2
        <5>5. (s \ {x}) \ {c} \in T
          BY <1>1, <5>2
        <5>6. r \in Int
          BY <5>5
        <5> HIDE DEF r, T
        <5> QED
          BY <3>1, <3>2, <5>1, <5>3, <5>4, <5>6
      <4> QED
        BY <4>1, <4>2
    <3> QED
      BY <3>3, <3>4
  <2> QED
    BY <2>2, <2>3
<1>2. SUBSET S \subseteq T
  <2> HIDE DEF T
  <2> QED
    BY <1>1, Descida
<1> QED
  BY <1>2

LEMMA SomaPoe ==
    ASSUME NEW S, IsFiniteSet(S), NEW x, x \notin S, NEW f, f[x] \in Int,
           \A y \in S : f[y] \in Int
    PROVE  /\ SumFunctionOnSet(f, S) \in Int
           /\ SumFunctionOnSet(f, S \cup {x}) = SumFunctionOnSet(f, S) + f[x]
<1>1. IsFiniteSet(S \cup {x}) /\ (S \cup {x}) \ {x} = S
  BY FS_AddElement
<1>2. SumFunctionOnSet(f, S) \in Int
  BY SomaTira
<1>3. SumFunctionOnSet(f, S \cup {x}) = f[x] + SumFunctionOnSet(f, (S \cup {x}) \ {x})
  <2>1. \A y \in S \cup {x} : f[y] \in Int
    OBVIOUS
  <2> QED
    BY <1>1, <2>1, SomaTira
<1>4. SumFunctionOnSet(f, (S \cup {x}) \ {x}) = SumFunctionOnSet(f, S)
  BY <1>1
<1> DEFINE a == SumFunctionOnSet(f, S \cup {x})
           b == SumFunctionOnSet(f, S)
<1>5. a = f[x] + b /\ b \in Int
  BY <1>2, <1>3, <1>4
<1> HIDE DEF a, b
<1>6. a = b + f[x]
  BY <1>5
<1> QED
  BY <1>2, <1>6 DEF a, b

\* Only the values on the set count.
LEMMA SomaIgual ==
    ASSUME NEW S, IsFiniteSet(S), NEW f, NEW g, \A x \in S : f[x] = g[x]
    PROVE  SumFunctionOnSet(f, S) = SumFunctionOnSet(g, S)
<1> DEFINE T == {s \in SUBSET S : SumFunctionOnSet(f, s) = SumFunctionOnSet(g, s)}
<1>1. ASSUME NEW s \in SUBSET S, \A u \in SUBSET s : u # s => u \in T
      PROVE  s \in T
  <2>1. IsFiniteSet(s)
    BY FS_Subset
  <2>2. CASE s = {}
    BY <2>2, SomaVazia
  <2>3. CASE s # {}
    <3>1. Um(s) \in s
      BY <2>3, UmDeles
    <3>2. SumFunctionOnSet(f, s) = f[Um(s)] + SumFunctionOnSet(f, s \ {Um(s)})
          /\ SumFunctionOnSet(g, s) = g[Um(s)] + SumFunctionOnSet(g, s \ {Um(s)})
      BY <2>1, <2>3, SomaPasso
    <3>3. s \ {Um(s)} \in T
      BY <1>1, <3>1
    <3> QED
      BY <3>1, <3>2, <3>3
  <2> QED
    BY <2>2, <2>3
<1>2. SUBSET S \subseteq T
  <2> HIDE DEF T
  <2> QED
    BY <1>1, Descida
<1> QED
  BY <1>2

\* Changing one value by d changes the sum by d.
LEMMA SomaMuda ==
    ASSUME NEW S, IsFiniteSet(S), NEW f, NEW g, NEW x \in S, NEW d \in Int,
           \A y \in S : f[y] \in Int, \A y \in S \ {x} : g[y] = f[y], g[x] = f[x] + d
    PROVE  SumFunctionOnSet(g, S) = SumFunctionOnSet(f, S) + d
<1> DEFINE R == S \ {x}
           a == SumFunctionOnSet(f, R)
<1>1. IsFiniteSet(R)
  BY FS_Subset
<1>2. SumFunctionOnSet(g, R) = a
  BY <1>1, SomaIgual
<1>3. SumFunctionOnSet(f, S) = f[x] + a /\ a \in Int
  <2>1. \A y \in R : f[y] \in Int
    OBVIOUS
  <2> QED
    BY <1>1, <2>1, SomaTira
<1>4. SumFunctionOnSet(g, S) = g[x] + a
  <2>1. \A y \in S : g[y] \in Int
    OBVIOUS
  <2> QED
    BY <1>2, <2>1, SomaTira
<1> HIDE DEF a
<1> QED
  BY <1>3, <1>4

LEMMA SomaNula ==
    ASSUME NEW S, IsFiniteSet(S), NEW f, \A x \in S : f[x] = 0
    PROVE  SumFunctionOnSet(f, S) = 0
<1> DEFINE T == {s \in SUBSET S : SumFunctionOnSet(f, s) = 0}
<1>1. ASSUME NEW s \in SUBSET S, \A u \in SUBSET s : u # s => u \in T
      PROVE  s \in T
  <2>1. IsFiniteSet(s)
    BY FS_Subset
  <2>2. CASE s = {}
    BY <2>2, SomaVazia
  <2>3. CASE s # {}
    <3>1. Um(s) \in s
      BY <2>3, UmDeles
    <3>2. SumFunctionOnSet(f, s) = f[Um(s)] + SumFunctionOnSet(f, s \ {Um(s)})
      BY <2>1, <2>3, SomaPasso
    <3>3. s \ {Um(s)} \in T
      BY <1>1, <3>1
    <3> QED
      BY <3>1, <3>2, <3>3
  <2> QED
    BY <2>2, <2>3
<1>2. SUBSET S \subseteq T
  <2> HIDE DEF T
  <2> QED
    BY <1>1, Descida
<1> QED
  BY <1>2

\* The sum of a sum is the sum of the sums.
LEMMA SomaMais ==
    ASSUME NEW S, IsFiniteSet(S), NEW f, NEW g, NEW h,
           \A x \in S : f[x] \in Int /\ g[x] \in Int /\ h[x] = f[x] + g[x]
    PROVE  SumFunctionOnSet(h, S) = SumFunctionOnSet(f, S) + SumFunctionOnSet(g, S)
<1> DEFINE T == {s \in SUBSET S : SumFunctionOnSet(h, s)
                                     = SumFunctionOnSet(f, s) + SumFunctionOnSet(g, s)}
<1>1. ASSUME NEW s \in SUBSET S, \A u \in SUBSET s : u # s => u \in T
      PROVE  s \in T
  <2>1. IsFiniteSet(s)
    BY FS_Subset
  <2>2. CASE s = {}
    BY <2>2, SomaVazia
  <2>3. CASE s # {}
    <3> DEFINE c == Um(s)
               a == SumFunctionOnSet(f, s \ {c})
               b == SumFunctionOnSet(g, s \ {c})
    <3>1. c \in s /\ s \ {c} \in SUBSET S /\ IsFiniteSet(s \ {c})
      BY <2>1, <2>3, UmDeles, FS_Subset
    <3>2. /\ SumFunctionOnSet(f, s) = f[c] + a
          /\ SumFunctionOnSet(g, s) = g[c] + b
          /\ SumFunctionOnSet(h, s) = h[c] + SumFunctionOnSet(h, s \ {c})
      BY <2>1, <2>3, SomaPasso
    <3>3. SumFunctionOnSet(h, s \ {c}) = a + b
      BY <1>1, <3>1
    <3>4. a \in Int /\ b \in Int
      <4>1. \A x \in s \ {c} : f[x] \in Int /\ g[x] \in Int
        BY <3>1
      <4> HIDE DEF c
      <4> QED
        BY <3>1, <4>1, SomaTira
    <3>5. f[c] \in Int /\ g[c] \in Int /\ h[c] = f[c] + g[c]
      BY <3>1
    <3> HIDE DEF a, b, c
    <3> QED
      BY <3>2, <3>3, <3>4, <3>5
  <2> QED
    BY <2>2, <2>3
<1>2. SUBSET S \subseteq T
  <2> HIDE DEF T
  <2> QED
    BY <1>1, Descida
<1> QED
  BY <1>2

LEMMA ImagemFinita ==
    ASSUME NEW I, IsFiniteSet(I), NEW k
    PROVE  IsFiniteSet({k[i] : i \in I})
<1> DEFINE J == {k[i] : i \in I}
           h == [i \in I |-> k[i]]
<1>1. h \in Surjection(I, J)
  BY DEF Surjection
<1> HIDE DEF h, J
<1>2. IsFiniteSet(J)
  BY <1>1, FS_Surjection
<1> QED
  BY <1>2 DEF J

\* Summing over the image of an injective function is summing over its domain.
LEMMA SomaReindexada ==
    ASSUME NEW I, IsFiniteSet(I), NEW f, NEW g, NEW k,
           \A i, j \in I : k[i] = k[j] => i = j,
           \A i \in I : f[i] \in Int /\ g[k[i]] = f[i]
    PROVE  SumFunctionOnSet(g, {k[i] : i \in I}) = SumFunctionOnSet(f, I)
<1> DEFINE T == {s \in SUBSET I : SumFunctionOnSet(g, {k[i] : i \in s})
                                     = SumFunctionOnSet(f, s)}
<1>1. ASSUME NEW s \in SUBSET I, \A u \in SUBSET s : u # s => u \in T
      PROVE  s \in T
  <2>1. IsFiniteSet(s)
    BY FS_Subset
  <2>2. CASE s = {}
    <3>1. {k[i] : i \in s} = {}
      BY <2>2
    <3> QED
      BY <2>2, <3>1, SomaVazia
  <2>3. CASE s # {}
    <3> DEFINE c == Um(s)
               r == s \ {c}
               J == {k[i] : i \in r}
    <3>1. c \in s /\ r \in SUBSET I /\ r # s
      BY <2>3, UmDeles
    <3>2. SumFunctionOnSet(f, s) = f[c] + SumFunctionOnSet(f, r)
      BY <2>1, <2>3, SomaPasso
    <3>3. SumFunctionOnSet(g, J) = SumFunctionOnSet(f, r)
      BY <1>1, <3>1
    <3>4. IsFiniteSet(J)
      <4>1. IsFiniteSet(r)
        BY <2>1, FS_Subset
      <4> HIDE DEF r
      <4> QED
        BY <4>1, ImagemFinita
    <3>5. {k[i] : i \in s} = J \cup {k[c]} /\ k[c] \notin J
      BY <3>1
    <3>6. \A y \in J : g[y] \in Int
      BY <3>1
    <3>7. g[k[c]] = f[c] /\ f[c] \in Int
      BY <3>1
    <3> DEFINE x == k[c]
               fs == SumFunctionOnSet(f, s)
               gs == SumFunctionOnSet(g, {k[i] : i \in s})
               gJ == SumFunctionOnSet(g, J)
    <3>8. x \notin J /\ g[x] \in Int /\ gs = SumFunctionOnSet(g, J \cup {x})
      BY <3>5, <3>7
    <3> HIDE DEF J, x
    <3>9. gJ \in Int /\ SumFunctionOnSet(g, J \cup {x}) = gJ + g[x]
      BY <3>4, <3>6, <3>8, SomaPoe
    <3>10. fs = f[c] + gJ /\ gs = gJ + g[x] /\ g[x] = f[c] /\ f[c] \in Int
      BY <3>2, <3>3, <3>7, <3>8, <3>9 DEF x
    <3> HIDE DEF gJ, gs, fs, c
    <3>11. gs = fs
      BY <3>9, <3>10
    <3> QED
      BY <3>11 DEF gs, fs
  <2> QED
    BY <2>2, <2>3
<1>2. SUBSET I \subseteq T
  <2> HIDE DEF T
  <2> QED
    BY <1>1, Descida
<1> QED
  BY <1>2

\* Adding up by class and then over the classes is adding up.
LEMMA SomaPorClasse ==
    ASSUME NEW I, IsFiniteSet(I), NEW P, IsFiniteSet(P), NEW k \in [I -> P], NEW f,
           \A i \in I : f[i] \in Int
    PROVE  SumFunctionOnSet([p \in P |-> SumFunctionOnSet(f, {i \in I : k[i] = p})], P)
               = SumFunctionOnSet(f, I)
<1> DEFINE De(s, p) == {i \in s : k[i] = p}
           C(s) == [p \in P |-> SumFunctionOnSet(f, De(s, p))]
           T == {s \in SUBSET I : SumFunctionOnSet(C(s), P) = SumFunctionOnSet(f, s)}
<1>1. ASSUME NEW s \in SUBSET I, \A u \in SUBSET s : u # s => u \in T
      PROVE  s \in T
  <2>1. IsFiniteSet(s)
    BY FS_Subset
  <2>2. CASE s = {}
    <3>1. ASSUME NEW p \in P
          PROVE  C(s)[p] = 0
      <4>1. De(s, p) = {}
        BY <2>2
      <4> HIDE DEF De
      <4> QED
        BY <4>1, SomaVazia
    <3> HIDE DEF C
    <3>2. SumFunctionOnSet(C(s), P) = 0
      BY <3>1, SomaNula
    <3> QED
      BY <2>2, <3>2, SomaVazia DEF T
  <2>3. CASE s # {}
    <3> DEFINE c == Um(s)
               r == s \ {c}
    <3>1. c \in s /\ r \in SUBSET I /\ r # s /\ r \in SUBSET s
      BY <2>3, UmDeles
    <3>2. SumFunctionOnSet(f, s) = f[c] + SumFunctionOnSet(f, r)
      BY <2>1, <2>3, SomaPasso
    <3>3. SumFunctionOnSet(C(r), P) = SumFunctionOnSet(f, r)
      <4> HIDE DEF C, r
      <4> QED
        BY <1>1, <3>1 DEF T
    <3>4. f[c] \in Int /\ k[c] \in P
      BY <3>1
    <3>5. ASSUME NEW p \in P
          PROVE  SumFunctionOnSet(f, De(r, p)) \in Int
      <4>1. De(r, p) \in SUBSET I /\ IsFiniteSet(De(r, p))
        BY <3>1, FS_Subset
      <4>2. \A i \in De(r, p) : f[i] \in Int
        BY <4>1
      <4> HIDE DEF De
      <4> QED
        BY <4>1, <4>2, SomaTira
    <3>6. ASSUME NEW p \in P, p # k[c]
          PROVE  De(s, p) = De(r, p)
      BY <3>6
    <3>7. De(s, k[c]) = De(r, k[c]) \cup {c} /\ c \notin De(r, k[c])
      BY <3>1
    <3>8. SumFunctionOnSet(f, De(s, k[c])) = SumFunctionOnSet(f, De(r, k[c])) + f[c]
      <4>1. De(r, k[c]) \in SUBSET I /\ IsFiniteSet(De(r, k[c]))
        BY <3>1, FS_Subset
      <4>2. \A i \in De(r, k[c]) : f[i] \in Int
        BY <4>1
      <4> HIDE DEF De, c
      <4> QED
        BY <3>4, <3>7, <4>1, <4>2, SomaPoe
    <3> HIDE DEF De, r, c
    <3>9. /\ \A p \in P : C(r)[p] \in Int
          /\ \A p \in P \ {k[c]} : C(s)[p] = C(r)[p]
          /\ C(s)[k[c]] = C(r)[k[c]] + f[c]
      BY <3>4, <3>5, <3>6, <3>8
    <3> HIDE DEF C
    <3>10. SumFunctionOnSet(C(s), P) = SumFunctionOnSet(C(r), P) + f[c]
      <4> DEFINE a == C(r)
                 b == C(s)
                 x == k[c]
                 d == f[c]
      <4>1. /\ x \in P /\ d \in Int /\ \A p \in P : a[p] \in Int
            /\ \A p \in P \ {x} : b[p] = a[p]
            /\ b[x] = a[x] + d
        BY <3>4, <3>9
      <4> HIDE DEF a, b, x, d
      <4>2. SumFunctionOnSet(b, P) = SumFunctionOnSet(a, P) + d
        BY <4>1, SomaMuda
      <4> QED
        BY <4>2 DEF a, b, d
    <3>11. SumFunctionOnSet(C(r), P) \in Int
      BY <3>9, SomaTira
    <3>12. SumFunctionOnSet(C(s), P) = SumFunctionOnSet(f, s)
      BY <3>2, <3>3, <3>4, <3>10, <3>11
    <3> QED
      BY <3>12 DEF T
  <2> QED
    BY <2>2, <2>3
<1>2. SUBSET I \subseteq T
  <2> HIDE DEF T
  <2> QED
    BY <1>1, Descida
<1> QED
  BY <1>2

\* A sum of counts is a count.
LEMMA SomaNatural ==
    ASSUME NEW S, IsFiniteSet(S), NEW f, \A x \in S : f[x] \in Nat
    PROVE  SumFunctionOnSet(f, S) \in Nat
<1> DEFINE T == {s \in SUBSET S : SumFunctionOnSet(f, s) \in Nat}
<1>1. ASSUME NEW s \in SUBSET S, \A u \in SUBSET s : u # s => u \in T
      PROVE  s \in T
  <2>1. IsFiniteSet(s)
    BY FS_Subset
  <2>2. CASE s = {}
    BY <2>2, SomaVazia
  <2>3. CASE s # {}
    <3>1. Um(s) \in s
      BY <2>3, UmDeles
    <3>2. SumFunctionOnSet(f, s) = f[Um(s)] + SumFunctionOnSet(f, s \ {Um(s)})
      BY <2>1, <2>3, SomaPasso
    <3>3. s \ {Um(s)} \in T
      BY <1>1, <3>1
    <3> QED
      BY <3>1, <3>2, <3>3
  <2> QED
    BY <2>2, <2>3
<1>2. SUBSET S \subseteq T
  <2> HIDE DEF T
  <2> QED
    BY <1>1, Descida
<1> QED
  BY <1>2
=============================================================================
