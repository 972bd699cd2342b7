----------------------------- MODULE FoldLemmas -----------------------------
(***************************************************************************)
(* Lemmas about data: sums over finite sets and folds over sequences, as   *)
(* the models use them, and the inductions they rest on.                   *)
(*                                                                         *)
(* An induction is stated for membership in a set, T, instead of for an    *)
(* operator, and proved by looking at a least counterexample.  A recursive *)
(* definition is a CHOOSE of the function that satisfies its equation; it  *)
(* says something once such a function is known to exist.                  *)
(***************************************************************************)
EXTENDS Integers, FiniteSets, FiniteSetsExt, SequencesExt,
        FiniteSetTheorems, WellFoundedInduction, TLAPS

(* Of finite sets, some are minimal: the least counterexample that stands  *)
(* in for an induction over sets.                                          *)
LEMMA LeastSet ==
  ASSUME NEW C, \A S \in C : IsFiniteSet(S), C # {}
  PROVE  \E S \in C : \A R \in C : R \subseteq S => R = S
<1> DEFINE U == UNION C
<1>1. IsWellFoundedOn(StrictSubsetOrdering(U), FiniteSubsetsOf(U))
  BY FS_StrictSubsetOrderingWellFounded
<1>2. C \subseteq FiniteSubsetsOf(U)
  BY DEF FiniteSubsetsOf
<1>3. PICK S \in C : \A R \in C : ~(<<R, S>> \in StrictSubsetOrdering(U))
  BY <1>1, <1>2, WFMin
<1>4. ASSUME NEW R \in C, R \subseteq S, R # S
      PROVE  FALSE
  <2>1. R \in SUBSET U /\ S \in SUBSET U
    OBVIOUS
  <2>2. <<R, S>> \in (SUBSET U) \X (SUBSET U)
    BY <2>1
  <2>3. <<R, S>> \in StrictSubsetOrdering(U)
    BY <1>4, <2>2 DEF StrictSubsetOrdering
  <2> QED
    BY <1>3, <2>3
<1> QED
  BY <1>4

(* A set of naturals has a least element.                                  *)
LEMMA LeastNatural ==
  ASSUME NEW T, T \subseteq Nat, T # {}
  PROVE  \E n \in T : \A m \in T : n <= m
<1> DEFINE C == {0 .. n : n \in T}
<1>1. C # {} /\ \A S \in C : IsFiniteSet(S)
  <2>1. \A n \in T : IsFiniteSet(0 .. n)
    BY FS_Interval
  <2> QED
    BY <2>1
<1>2. PICK S \in C : \A R \in C : R \subseteq S => R = S
  <2> HIDE DEF C
  <2> QED
    BY <1>1, LeastSet
<1>3. PICK n \in T : S = 0 .. n
  OBVIOUS
<1>4. ASSUME NEW m \in T, ~(n <= m)
      PROVE  FALSE
  <2>1. 0 .. m \in C /\ 0 .. m \subseteq 0 .. n
    BY <1>4
  <2>2. 0 .. m = 0 .. n
    BY <1>2, <1>3, <2>1
  <2>3. n \in 0 .. n
    OBVIOUS
  <2> QED
    BY <1>4, <2>2, <2>3
<1> QED
  BY <1>4

(* Induction over the naturals, of membership in a set.                    *)
LEMMA NaturalInduction ==
  ASSUME NEW T, 0 \in T, \A n \in Nat : n \in T => n + 1 \in T
  PROVE  Nat \subseteq T
<1> SUFFICES ASSUME Nat \ T # {}
             PROVE  FALSE
  OBVIOUS
<1>1. PICK n \in Nat \ T : \A m \in Nat \ T : n <= m
  BY LeastNatural
<1>2. n - 1 \in Nat /\ n - 1 \in T
  BY <1>1
<1> QED
  BY <1>1, <1>2

(* Induction over the subsets of a finite set, likewise.                   *)
LEMMA SetInduction ==
  ASSUME NEW U, IsFiniteSet(U), NEW T, {} \in T,
         \A S \in SUBSET U : \A x \in U \ S : S \in T => S \cup {x} \in T
  PROVE  SUBSET U \subseteq T
<1> DEFINE C == (SUBSET U) \ T
<1> SUFFICES ASSUME C # {}
             PROVE  FALSE
  OBVIOUS
<1>1. \A S \in C : IsFiniteSet(S)
  BY FS_Subset
<1>2. PICK S \in C : \A R \in C : R \subseteq S => R = S
  <2> HIDE DEF C
  <2> QED
    BY <1>1, LeastSet
<1>3. PICK x \in S : TRUE
  OBVIOUS
<1>4. S \ {x} \in T
  BY <1>2, <1>3
<1>5. (S \ {x}) \cup {x} = S /\ x \in U \ (S \ {x})
  BY <1>3
<1> QED
  BY <1>4, <1>5

-----------------------------------------------------------------------------
(* Recursion over the subsets of a finite set: U the set, c the element a  *)
(* fold takes next, h what it does with it.                                *)
FoldsBy(g, s, base, c, h) ==
  \A t \in SUBSET s :
    g[t] = IF t = {} THEN base ELSE h[<<t, g[t \ {c[t]}]>>]

(* Two functions that satisfy the equation agree where both are defined.   *)
LEMMA FoldUnique ==
  ASSUME NEW U, IsFiniteSet(U), NEW base, NEW h, NEW c,
         \A t \in SUBSET U : t # {} => c[t] \in t,
         NEW s \in SUBSET U, NEW t \in SUBSET U,
         NEW f, NEW g, FoldsBy(f, s, base, c, h), FoldsBy(g, t, base, c, h),
         NEW u \in SUBSET s, u \subseteq t
  PROVE  f[u] = g[u]
<1> DEFINE C == {v \in SUBSET (s \cap t) : f[v] # g[v]}
<1> SUFFICES ASSUME C # {}
             PROVE  FALSE
  OBVIOUS
<1>1. \A v \in C : IsFiniteSet(v)
  BY FS_Subset
<1>2. PICK v \in C : \A w \in C : w \subseteq v => w = v
  <2> HIDE DEF C
  <2> QED
    BY <1>1, LeastSet
<1>3. v # {}
  BY DEF FoldsBy
<1>4. c[v] \in v
  BY <1>3
<1>5. f[v \ {c[v]}] = g[v \ {c[v]}]
  BY <1>2, <1>4
<1>6. f[v] = h[<<v, f[v \ {c[v]}]>>] /\ g[v] = h[<<v, g[v \ {c[v]}]>>]
  BY <1>3 DEF FoldsBy
<1> QED
  BY <1>5, <1>6

(* Some function satisfies it.                                             *)
LEMMA FoldExists ==
  ASSUME NEW U, IsFiniteSet(U), NEW V, NEW base \in V,
         NEW h, \A t \in SUBSET U : \A v \in V : h[<<t, v>>] \in V,
         NEW c, \A t \in SUBSET U : t # {} => c[t] \in t
  PROVE  \E g \in [SUBSET U -> V] : FoldsBy(g, U, base, c, h)
<1> DEFINE Has(s) == \E g \in [SUBSET s -> V] : FoldsBy(g, s, base, c, h)
           C == {s \in SUBSET U : ~Has(s)}
<1> SUFFICES ASSUME C # {}
             PROVE  FALSE
  OBVIOUS
<1>1. \A s \in C : IsFiniteSet(s)
  BY FS_Subset
<1>2. PICK s \in C : \A w \in C : w \subseteq s => w = s
  <2> HIDE DEF C
  <2> QED
    BY <1>1, LeastSet
<1> DEFINE G(u) == CHOOSE g : g \in [SUBSET u -> V] /\ FoldsBy(g, u, base, c, h)
           new == [u \in SUBSET s |->
                     IF u # s THEN G(u)[u]
                     ELSE IF s = {} THEN base ELSE h[<<s, G(s \ {c[s]})[s \ {c[s]}]>>]]
<1>3. ASSUME NEW u \in SUBSET s, u # s
      PROVE  G(u) \in [SUBSET u -> V] /\ FoldsBy(G(u), u, base, c, h)
  <2>1. Has(u)
    BY <1>2, <1>3
  <2> QED
    BY <2>1
<1> HIDE DEF G
<1>4. new \in [SUBSET s -> V]
  <2>1. ASSUME NEW u \in SUBSET s, u # s
        PROVE  G(u)[u] \in V
    <3>1. G(u) \in [SUBSET u -> V]
      BY <1>3, <2>1
    <3>2. u \in SUBSET u
      OBVIOUS
    <3> HIDE <1>3
    <3> QED
      BY <3>1, <3>2, Zenon
  <2>2. ASSUME s # {}
        PROVE  h[<<s, G(s \ {c[s]})[s \ {c[s]}]>>] \in V
    <3>1. s \ {c[s]} \in SUBSET s /\ s \ {c[s]} # s
      BY <2>2
    <3> QED
      BY <2>1, <3>1
  <2> QED
    BY <2>1, <2>2
<1>5. FoldsBy(new, s, base, c, h)
  <2> SUFFICES ASSUME NEW t \in SUBSET s
               PROVE  new[t] = IF t = {} THEN base ELSE h[<<t, new[t \ {c[t]}]>>]
    BY DEF FoldsBy
  <2>1. CASE t = s
    <3>1. CASE s = {}
      BY <2>1, <3>1
    <3>2. CASE s # {}
      <4>1. s \ {c[s]} \in SUBSET s /\ s \ {c[s]} # s
        BY <3>2
      <4> QED
        BY <2>1, <3>2, <4>1
    <3> QED
      BY <3>1, <3>2
  <2>2. CASE t # s
    <3>1. new[t] = G(t)[t]
      BY <2>2
    <3>2. G(t)[t] = IF t = {} THEN base ELSE h[<<t, G(t)[t \ {c[t]}]>>]
      BY <1>3, <2>2 DEF FoldsBy
    <3>3. ASSUME t # {}
          PROVE  new[t \ {c[t]}] = G(t)[t \ {c[t]}]
      <4> DEFINE w == t \ {c[t]}
      <4>1. w \in SUBSET s /\ w # s /\ w \subseteq t
        BY <2>2, <3>3
      <4>2. new[w] = G(w)[w]
        BY <4>1
      <4>3. FoldsBy(G(w), w, base, c, h) /\ FoldsBy(G(t), t, base, c, h)
        BY <1>3, <2>2, <4>1
      <4>4. w \in SUBSET U /\ t \in SUBSET U /\ w \in SUBSET w
        BY <4>1
      <4> HIDE DEF w
      <4>5. G(w)[w] = G(t)[w]
        BY <4>1, <4>3, <4>4, FoldUnique
      <4> QED
        BY <4>2, <4>5 DEF w
    <3> QED
      BY <3>1, <3>2, <3>3
  <2> QED
    BY <2>1, <2>2
<1> QED
  BY <1>4, <1>5
-----------------------------------------------------------------------------
(* The sum of f over S, the way the community modules define it.           *)
Total(f, S) == MapThenSumSet(LAMBDA x : f[x], S)

One(s) == CHOOSE x \in s : TRUE

SumsTo(F, f, S) ==
  F = [s \in SUBSET S |-> IF s = {} THEN 0 ELSE f[One(s)] + F[s \ {One(s)}]]

(* The element a sum takes next is one of the set.                         *)
LEMMA OneIn ==
  ASSUME NEW s, s # {} PROVE One(s) \in s
BY DEF One

(* The equation of a sum has a solution,                                   *)
LEMMA SumExists ==
  ASSUME NEW S, IsFiniteSet(S), NEW f, \A x \in S : f[x] \in Int
  PROVE  \E F \in [SUBSET S -> Int] : SumsTo(F, f, S)
<1> DEFINE c == [s \in SUBSET S |-> One(s)]
           h == [p \in (SUBSET S) \X Int |-> IF p[1] = {} THEN 0 ELSE f[One(p[1])] + p[2]]
<1>1. \A s \in SUBSET S : s # {} => c[s] \in s
  BY OneIn
<1>2. \A s \in SUBSET S : \A v \in Int :
        h[<<s, v>>] = IF s = {} THEN 0 ELSE f[One(s)] + v
  OBVIOUS
<1>3. \A s \in SUBSET S : \A v \in Int : h[<<s, v>>] \in Int
  <2> SUFFICES ASSUME NEW s \in SUBSET S, NEW v \in Int
               PROVE  h[<<s, v>>] \in Int
    OBVIOUS
  <2>1. h[<<s, v>>] = IF s = {} THEN 0 ELSE f[One(s)] + v
    BY <1>2
  <2>2. s # {} => f[One(s)] \in Int
    BY OneIn
  <2> HIDE DEF h
  <2> QED
    BY <2>1, <2>2
<1>4. PICK F \in [SUBSET S -> Int] : FoldsBy(F, S, 0, c, h)
  <2>1. 0 \in Int
    OBVIOUS
  <2> HIDE DEF c, h
  <2> QED
    BY <1>1, <1>3, <2>1, FoldExists
<1>5. ASSUME NEW s \in SUBSET S
      PROVE  F[s] = IF s = {} THEN 0 ELSE f[One(s)] + F[s \ {One(s)}]
  <2>1. F[s \ {One(s)}] \in Int
    OBVIOUS
  <2>2. c[s] = One(s)
    OBVIOUS
  <2> HIDE DEF c, h
  <2> QED
    BY <1>4, <1>2, <2>1, <2>2 DEF FoldsBy
<1> QED
  BY <1>5 DEF SumsTo

(* every solution of it is a function into the integers,                   *)
LEMMA SumType ==
  ASSUME NEW S, IsFiniteSet(S), NEW f, \A x \in S : f[x] \in Int,
         NEW F, SumsTo(F, f, S)
  PROVE  F \in [SUBSET S -> Int]
<1> DEFINE C == {s \in SUBSET S : F[s] \notin Int}
<1>1. ASSUME C # {}
      PROVE  FALSE
  <2>1. \A s \in C : IsFiniteSet(s)
    BY FS_Subset
  <2>2. PICK s \in C : \A r \in C : r \subseteq s => r = s
    <3> HIDE DEF C
    <3> QED
      BY <1>1, <2>1, LeastSet
  <2>3. F[s] = IF s = {} THEN 0 ELSE f[One(s)] + F[s \ {One(s)}]
    BY DEF SumsTo
  <2>4. s # {}
    BY <2>3
  <2>5. F[s \ {One(s)}] \in Int /\ f[One(s)] \in Int
    BY <2>2, <2>4, OneIn
  <2> QED
    BY <2>3, <2>4, <2>5
<1>2. \A s \in SUBSET S : F[s] \in Int
  BY <1>1
<1> QED
  BY <1>2 DEF SumsTo

(* and Total is the value of one of them,                                  *)
LEMMA TotalSums ==
  ASSUME NEW S, IsFiniteSet(S), NEW f, \A x \in S : f[x] \in Int
  PROVE  \E F \in [SUBSET S -> Int] : SumsTo(F, f, S) /\ Total(f, S) = F[S]
<1> DEFINE F == CHOOSE F : SumsTo(F, f, S)
<1>1. SumsTo(F, f, S)
  BY SumExists
<1>2. Total(f, S) = F[S]
  BY DEF Total, MapThenSumSet, MapThenFoldSet, SumsTo, One
<1> HIDE DEF F
<1>3. F \in [SUBSET S -> Int]
  BY <1>1, SumType
<1> QED
  BY <1>1, <1>2, <1>3

(* of whichever one, on every subset.                                      *)
LEMMA TotalPart ==
  ASSUME NEW S, IsFiniteSet(S), NEW f, \A x \in S : f[x] \in Int,
         NEW F, SumsTo(F, f, S), NEW T \in SUBSET S
  PROVE  F[T] = Total(f, T)
<1>1. IsFiniteSet(T)
  BY FS_Subset
<1>2. PICK G \in [SUBSET T -> Int] : SumsTo(G, f, T) /\ Total(f, T) = G[T]
  BY <1>1, TotalSums
<1> DEFINE C == {s \in SUBSET T : F[s] # G[s]}
<1>3. ASSUME C # {}
      PROVE  FALSE
  <2>1. \A s \in C : IsFiniteSet(s)
    BY <1>1, FS_Subset
  <2>2. PICK s \in C : \A r \in C : r \subseteq s => r = s
    <3> HIDE DEF C
    <3> QED
      BY <1>3, <2>1, LeastSet
  <2>3. F[s] = IF s = {} THEN 0 ELSE f[One(s)] + F[s \ {One(s)}]
    BY DEF SumsTo
  <2>4. G[s] = IF s = {} THEN 0 ELSE f[One(s)] + G[s \ {One(s)}]
    BY <1>2 DEF SumsTo
  <2>5. s # {}
    BY <2>3, <2>4
  <2>6. F[s \ {One(s)}] = G[s \ {One(s)}]
    BY <2>2, <2>5, OneIn
  <2> QED
    BY <2>3, <2>4, <2>5, <2>6
<1>4. T \notin C
  BY <1>3
<1> QED
  BY <1>2, <1>4

(* The sum over a set is an integer, and that over the rest plus one       *)
(* summand.                                                                *)
LEMMA TotalOne ==
  ASSUME NEW S, IsFiniteSet(S), NEW f, \A x \in S : f[x] \in Int
  PROVE  /\ Total(f, S) \in Int
         /\ Total(f, S) = IF S = {} THEN 0 ELSE f[One(S)] + Total(f, S \ {One(S)})
<1>1. PICK F \in [SUBSET S -> Int] : SumsTo(F, f, S) /\ Total(f, S) = F[S]
  BY TotalSums
<1>2. F[S] = IF S = {} THEN 0 ELSE f[One(S)] + F[S \ {One(S)}]
  BY <1>1 DEF SumsTo
<1>3. S \ {One(S)} \in SUBSET S /\ S \in SUBSET S
  OBVIOUS
<1>4. F[S \ {One(S)}] = Total(f, S \ {One(S)})
  BY <1>1, <1>3, TotalPart
<1> QED
  BY <1>1, <1>2, <1>3, <1>4

(* The summand can be any.                                                 *)
LEMMA TotalRemove ==
  ASSUME NEW S, IsFiniteSet(S), NEW f, \A x \in S : f[x] \in Int, NEW x \in S
  PROVE  Total(f, S) = f[x] + Total(f, S \ {x})
<1> DEFINE Bad(s) == \E y \in s : Total(f, s) # f[y] + Total(f, s \ {y})
           C == {s \in SUBSET S : Bad(s)}
<1>1. ASSUME C # {}
      PROVE  FALSE
  <2>1. \A s \in C : IsFiniteSet(s)
    BY FS_Subset
  <2>2. PICK s \in C : \A r \in C : r \subseteq s => r = s
    <3> HIDE DEF C
    <3> QED
      BY <1>1, <2>1, LeastSet
  <2>3. PICK y \in s : Total(f, s) # f[y] + Total(f, s \ {y})
    OBVIOUS
  <2> DEFINE z == One(s)
  <2>4. z \in s
    BY OneIn
  <2>5. \A r \in SUBSET s : Total(f, r) \in Int /\
          (r # {} => Total(f, r) = f[One(r)] + Total(f, r \ {One(r)}))
    BY <2>1, FS_Subset, TotalOne
  <2>6. Total(f, s) = f[z] + Total(f, s \ {z})
    BY <2>4, <2>5
  <2>7. z # y
    BY <2>3, <2>6
  <2> HIDE DEF z
  <2> DEFINE w == s \ {y, z}
  <2>8. ASSUME NEW r \in SUBSET s, r # s, NEW v \in r
        PROVE  Total(f, r) = f[v] + Total(f, r \ {v})
    <3>1. r \notin C
      <4> HIDE DEF C
      <4> QED
        BY <2>2, <2>8
    <3>2. r \in SUBSET S
      OBVIOUS
    <3> QED
      BY <3>1, <3>2, <2>8
  <2>9. Total(f, s \ {z}) = f[y] + Total(f, w)
    <3>1. (s \ {z}) \ {y} = w /\ y \in s \ {z} /\ s \ {z} # s
      BY <2>4, <2>7
    <3> QED
      BY <2>8, <3>1
  <2>10. Total(f, s \ {y}) = f[z] + Total(f, w)
    <3>1. (s \ {y}) \ {z} = w /\ z \in s \ {y} /\ s \ {y} # s
      BY <2>4, <2>7
    <3> QED
      BY <2>8, <3>1
  <2>11. f[y] \in Int /\ f[z] \in Int /\ Total(f, w) \in Int
    BY <2>4, <2>5
  <2> HIDE DEF w
  <2>12. Total(f, s) = f[z] + (f[y] + Total(f, w))
    BY <2>6, <2>9
  <2>13. Total(f, s) # f[y] + (f[z] + Total(f, w))
    BY <2>3, <2>10
  <2> QED
    BY <2>11, <2>12, <2>13
<1> QED
  BY <1>1

(* The sum over a set with one more element.                               *)
LEMMA TotalAdd ==
  ASSUME NEW S, IsFiniteSet(S), NEW x, x \notin S,
         NEW f, \A y \in S \cup {x} : f[y] \in Int
  PROVE  Total(f, S \cup {x}) = f[x] + Total(f, S)
<1>1. IsFiniteSet(S \cup {x}) /\ (S \cup {x}) \ {x} = S
  BY FS_AddElement
<1> QED
  BY <1>1, TotalRemove

(* A sum is monotone in its summands. *)
LEMMA TotalMonotone ==
  ASSUME NEW S, IsFiniteSet(S), NEW f, NEW g,
         \A x \in S : f[x] \in Int, \A x \in S : g[x] \in Int,
         \A x \in S : f[x] <= g[x]
  PROVE  Total(f, S) <= Total(g, S)
<1> DEFINE T == {s \in SUBSET S : Total(f, s) <= Total(g, s)}
<1>1. \A s \in SUBSET S : IsFiniteSet(s)
  BY FS_Subset
<1>2. \A s \in SUBSET S : Total(f, s) \in Int /\ Total(g, s) \in Int
  BY <1>1, TotalOne
<1>3. {} \in T
  <2>1. IsFiniteSet({})
    BY FS_EmptySet
  <2>2. Total(f, {}) = 0 /\ Total(g, {}) = 0
    BY <2>1, TotalOne
  <2> QED
    BY <2>2
<1>4. ASSUME NEW s \in SUBSET S, NEW x \in S \ s, s \in T
      PROVE  s \cup {x} \in T
  <2>1. Total(f, s \cup {x}) = f[x] + Total(f, s)
    BY <1>1, <1>4, TotalAdd
  <2>2. Total(g, s \cup {x}) = g[x] + Total(g, s)
    BY <1>1, <1>4, TotalAdd
  <2> QED
    BY <1>2, <1>4, <2>1, <2>2
<1> HIDE DEF T
<1>5. SUBSET S \subseteq T
  BY <1>3, <1>4, SetInduction
<1>6. S \in T
  BY <1>5
<1> QED
  BY <1>6 DEF T

(* It depends on the summands only.                                        *)
LEMMA TotalSame ==
  ASSUME NEW S, IsFiniteSet(S), NEW f, NEW g,
         \A x \in S : f[x] \in Int, \A x \in S : g[x] = f[x]
  PROVE  Total(g, S) = Total(f, S)
<1>1. /\ \A x \in S : g[x] \in Int
      /\ \A x \in S : f[x] <= g[x]
      /\ \A x \in S : g[x] <= f[x]
  OBVIOUS
<1>2. Total(f, S) <= Total(g, S) /\ Total(g, S) <= Total(f, S)
  BY <1>1, TotalMonotone
<1>3. Total(f, S) \in Int /\ Total(g, S) \in Int
  BY <1>1, TotalOne
<1> QED
  BY <1>2, <1>3

(* One summand changes. *)
LEMMA TotalChanged ==
  ASSUME NEW S, IsFiniteSet(S), NEW f, NEW g, NEW x \in S,
         \A y \in S : f[y] \in Int, \A y \in S : g[y] \in Int,
         \A y \in S \ {x} : g[y] = f[y]
  PROVE  Total(g, S) = Total(f, S) + (g[x] - f[x])
<1>1. IsFiniteSet(S \ {x})
  BY FS_Subset
<1>2. Total(g, S \ {x}) = Total(f, S \ {x}) /\ Total(f, S \ {x}) \in Int
  BY <1>1, TotalSame, TotalOne
<1>3. Total(f, S) = f[x] + Total(f, S \ {x}) /\ Total(g, S) = g[x] + Total(g, S \ {x})
  BY TotalRemove
<1> QED
  BY <1>2, <1>3

(* The same for summands given as a function into the integers. *)
LEMMA TotalType ==
  ASSUME NEW S, IsFiniteSet(S), NEW f \in [S -> Int]
  PROVE  Total(f, S) \in Int
<1>1. \A x \in S : f[x] \in Int
  OBVIOUS
<1> QED
  BY <1>1, TotalOne

(* How far a sum moves when one summand does.                              *)
LEMMA TotalMoves ==
  ASSUME NEW S, IsFiniteSet(S), NEW f \in [S -> Int], NEW g \in [S -> Int],
         NEW x \in S, \A y \in S \ {x} : g[y] = f[y]
  PROVE  Total(g, S) = Total(f, S) + (g[x] - f[x])
<1>1. \A y \in S : f[y] \in Int
  OBVIOUS
<1>2. \A y \in S : g[y] \in Int
  OBVIOUS
<1> QED
  BY <1>1, <1>2, TotalChanged

(* A sum of smaller summands is smaller.                                   *)
LEMMA TotalBelow ==
  ASSUME NEW S, IsFiniteSet(S), NEW f \in [S -> Int], NEW g \in [S -> Int],
         \A x \in S : f[x] <= g[x]
  PROVE  Total(f, S) <= Total(g, S)
<1>1. \A y \in S : f[y] \in Int
  OBVIOUS
<1>2. \A y \in S : g[y] \in Int
  OBVIOUS
<1> QED
  BY <1>1, <1>2, TotalMonotone

(* Nothing but zeros adds up to zero.                                      *)
LEMMA TotalZero ==
  ASSUME NEW S, IsFiniteSet(S), NEW f, \A x \in S : f[x] = 0
  PROVE  Total(f, S) = 0
<1> DEFINE T == {s \in SUBSET S : Total(f, s) = 0}
<1>1. {} \in T
  <2>1. IsFiniteSet({})
    BY FS_EmptySet
  <2> QED
    BY <2>1, TotalOne
<1>2. ASSUME NEW s \in SUBSET S, NEW x \in S \ s, s \in T
      PROVE  s \cup {x} \in T
  <2>1. IsFiniteSet(s) /\ \A y \in s \cup {x} : f[y] \in Int
    BY FS_Subset
  <2>2. Total(f, s \cup {x}) = f[x] + Total(f, s)
    BY <2>1, <1>2, TotalAdd
  <2> QED
    BY <1>2, <2>2
<1> HIDE DEF T
<1>3. SUBSET S \subseteq T
  BY <1>1, <1>2, SetInduction
<1>4. S \in T
  BY <1>3
<1> QED
  BY <1>4 DEF T

(* Some summands are replaced by a constant.                               *)
LEMMA TotalReplaced ==
  ASSUME NEW S, IsFiniteSet(S), NEW f \in [S -> Int], NEW c \in Int, NEW R \in SUBSET S
  PROVE  Total([x \in S |-> IF x \in R THEN c ELSE f[x]], S) + Total(f, R)
           = Total(f, S) + Cardinality(R) * c
<1> DEFINE g(r) == [x \in S |-> IF x \in r THEN c ELSE f[x]]
           T == {r \in SUBSET R :
                   Total(g(r), S) + Total(f, r) = Total(f, S) + Cardinality(r) * c}
<1>1. IsFiniteSet(R) /\ \A r \in SUBSET R : IsFiniteSet(r)
  BY FS_Subset
<1>2. \A r \in SUBSET R : g(r) \in [S -> Int]
  OBVIOUS
<1>3. \A x \in S : f[x] \in Int
  OBVIOUS
<1>4. /\ \A r \in SUBSET R : Total(g(r), S) \in Int /\ Cardinality(r) \in Nat
      /\ \A r \in SUBSET R : Total(f, r) \in Int
      /\ Total(f, S) \in Int
  <2>1. \A r \in SUBSET R : Total(g(r), S) \in Int
    <3> HIDE DEF g
    <3> QED
      BY <1>2, TotalType
  <2>2. \A r \in SUBSET R : Total(f, r) \in Int /\ Cardinality(r) \in Nat
    BY <1>1, <1>3, TotalOne, FS_CardinalityType
  <2> QED
    BY <2>1, <2>2, TotalType
<1>5. {} \in T
  <2>1. g({}) = f
    OBVIOUS
  <2>2. IsFiniteSet({}) /\ Cardinality({}) = 0
    BY FS_EmptySet
  <2>3. Total(f, {}) = 0
    BY <2>2, TotalOne
  <2>4. 0 * c = 0
    OBVIOUS
  <2> HIDE DEF g
  <2> QED
    BY <1>4, <2>1, <2>2, <2>3, <2>4
<1>6. ASSUME NEW r \in SUBSET R, NEW x \in R \ r, r \in T
      PROVE  r \cup {x} \in T
  <2> DEFINE q == r \cup {x}
  <2>1. q \in SUBSET R
    OBVIOUS
  <2>2. /\ g(q)[x] = c /\ g(r)[x] = f[x] /\ x \in S
        /\ \A y \in S \ {x} : g(q)[y] = g(r)[y]
    OBVIOUS
  <2>3. g(q) \in [S -> Int] /\ g(r) \in [S -> Int]
    BY <1>2
  <2>4. Total(g(q), S) = Total(g(r), S) + (c - f[x])
    <3> HIDE DEF g, q
    <3>1. Total(g(q), S) = Total(g(r), S) + (g(q)[x] - g(r)[x])
      BY <2>2, <2>3, TotalMoves
    <3> QED
      BY <2>2, <3>1
  <2>5. Total(f, q) = f[x] + Total(f, r)
    BY <1>1, <1>3, TotalAdd
  <2>6. Cardinality(q) = Cardinality(r) + 1
    BY <1>1, FS_AddElement
  <2>7. Total(g(r), S) + Total(f, r) = Total(f, S) + Cardinality(r) * c
    BY <1>6
  <2>8. f[x] \in Int
    OBVIOUS
  <2>9. \A n \in Nat : (n + 1) * c = n * c + c
    OBVIOUS
  <2>10. Total(g(q), S) + Total(f, q) = Total(f, S) + Cardinality(q) * c
    <3> DEFINE a == Total(g(r), S)
               b == Total(f, r)
               n == Cardinality(r)
               s == Total(f, S)
               m == n * c
    <3>1. a \in Int /\ b \in Int /\ n \in Nat /\ s \in Int /\ m \in Int
      BY <1>4
    <3>2. /\ Total(g(q), S) = a + (c - f[x]) /\ Total(f, q) = f[x] + b
          /\ Cardinality(q) * c = m + c
          /\ a + b = s + m
      BY <1>4, <2>4, <2>5, <2>6, <2>7, <2>9
    <3>3. Total(g(q), S) + Total(f, q) = s + Cardinality(q) * c
      <4> HIDE DEF a, b, n, m, s, g, q
      <4> QED
        BY <2>8, <3>1, <3>2
    <3> QED
      BY <3>3
  <2> QED
    BY <2>1, <2>10
<1> HIDE DEF T
<1>7. SUBSET R \subseteq T
  BY <1>1, <1>5, <1>6, SetInduction
<1>8. R \in T
  BY <1>7
<1> QED
  BY <1>8 DEF T

-----------------------------------------------------------------------------
(* Recursion over an interval: the values a loop goes through.  The        *)
(* function g starts at base, and h takes it from one index to the next.   *)
Trail(g, m, n, base, h) ==
  \A k \in m .. n : g[k] = IF k = m THEN base ELSE h[<<k, g[k - 1]>>]

Stepping(h, m, n, base, V) ==
  /\ m \in Int /\ n \in Int
  /\ base \in V
  /\ \A k \in m .. n : \A v \in V : h[<<k, v>>] \in V

(* Every step being defined, there is such a sequence of values.           *)
LEMMA TrailExists ==
  ASSUME NEW m, NEW n, NEW V, NEW base, NEW h, Stepping(h, m, n, base, V), m <= n
  PROVE  \E g \in [m .. n -> V] : Trail(g, m, n, base, h)
<1>0. /\ m \in Int /\ n \in Int /\ base \in V
      /\ \A k \in m .. n : \A v \in V : h[<<k, v>>] \in V
  BY DEF Stepping
<1> DEFINE T == {d \in Nat : m + d <= n =>
                   \E g \in [m .. m + d -> V] : Trail(g, m, m + d, base, h)}
<1>1. 0 \in T
  <2> DEFINE g == [k \in m .. m |-> base]
  <2>1. g \in [m .. m + 0 -> V] /\ Trail(g, m, m + 0, base, h)
    BY <1>0 DEF Trail
  <2> QED
    BY <2>1
<1>2. ASSUME NEW d \in Nat, d \in T
      PROVE  d + 1 \in T
  <2> SUFFICES ASSUME m + (d + 1) <= n
               PROVE  \E g \in [m .. m + (d + 1) -> V] : Trail(g, m, m + (d + 1), base, h)
    OBVIOUS
  <2>1. PICK f \in [m .. m + d -> V] : Trail(f, m, m + d, base, h)
    BY <1>0, <1>2
  <2> DEFINE e == m + (d + 1)
             g == [k \in m .. e |-> IF k = e THEN h[<<e, f[m + d]>>] ELSE f[k]]
  <2>2. e \in m .. n /\ e # m /\ e - 1 = m + d /\ m + d \in m .. m + d
        /\ \A k \in m .. e : k # e => k \in m .. m + d
    BY <1>0
  <2> HIDE DEF e
  <2>3. h[<<e, f[m + d]>>] \in V
    BY <1>0, <2>1, <2>2
  <2>4. g \in [m .. e -> V]
    BY <1>0, <2>2, <2>3
  <2>5. ASSUME NEW k \in m .. e
        PROVE  g[k] = IF k = m THEN base ELSE h[<<k, g[k - 1]>>]
    <3>1. CASE k = e
      <4>1. m + d \in m .. e /\ m + d # e
        BY <2>2
      <4> QED
        BY <1>0, <2>2, <3>1, <4>1
    <3>2. CASE k # e
      <4>1. k \in m .. m + d
        BY <1>0, <2>2, <3>2
      <4>2. f[k] = IF k = m THEN base ELSE h[<<k, f[k - 1]>>]
        BY <2>1, <4>1 DEF Trail
      <4>3. k # m => k - 1 \in m .. e /\ k - 1 # e
        BY <1>0, <2>2, <4>1
      <4> QED
        BY <3>2, <4>2, <4>3
    <3> QED
      BY <3>1, <3>2
  <2>6. Trail(g, m, e, base, h)
    BY <2>5 DEF Trail
  <2> QED
    BY <2>4, <2>6 DEF e
<1> HIDE DEF T
<1>3. Nat \subseteq T
  BY <1>1, <1>2, NaturalInduction
<1>4. n - m \in T /\ m + (n - m) = n
  BY <1>0, <1>3
<1> QED
  BY <1>0, <1>4 DEF T

(* The elements of a left fold are taken from the last index down. *)
LEMMA MaxIn ==
  ASSUME NEW n \in Nat, NEW s \in SUBSET (1 .. n), s # {}
  PROVE  Max(s) \in s /\ \A x \in s : x <= Max(s)
<1> DEFINE T == {n - x : x \in s}
<1>1. PICK d \in T : \A e \in T : d <= e
  <2>1. \A x \in s : n - x \in Nat
    OBVIOUS
  <2>2. T \subseteq Nat /\ T # {}
    BY <2>1
  <2> HIDE DEF T
  <2> QED
    BY <2>2, LeastNatural
<1>2. PICK x \in s : d = n - x
  OBVIOUS
<1>3. \A y \in s : x >= y
  <2> SUFFICES ASSUME NEW y \in s
               PROVE  x >= y
    OBVIOUS
  <2>1. n - y \in T
    OBVIOUS
  <2> HIDE DEF T
  <2> QED
    BY <1>1, <1>2, <2>1
<1>4. Max(s) \in s /\ \A y \in s : Max(s) >= y
  <2> HIDE DEF T
  <2> QED
    BY <1>3 DEF Max
<1> QED
  BY <1>4

(* The largest index is the last, and what remains is the shorter          *)
(* interval.                                                               *)
LEMMA MaxOfInterval ==
  ASSUME NEW n \in Nat, n # 0
  PROVE  Max(1 .. n) = n /\ (1 .. n) \ {Max(1 .. n)} = 1 .. n - 1
<1>1. Max(1 .. n) = n
  <2>1. 1 .. n # {} /\ n \in 1 .. n
    OBVIOUS
  <2>2. Max(1 .. n) \in 1 .. n /\ n <= Max(1 .. n)
    BY <2>1, MaxIn
  <2> QED
    BY <2>2
<1> QED
  BY <1>1

-----------------------------------------------------------------------------
(* Induction over sequences, of membership in a set.                       *)
LEMMA SequenceInduction ==
  ASSUME NEW S, NEW T, <<>> \in T,
         \A s \in Seq(S) : \A x \in S : s \in T => Append(s, x) \in T
  PROVE  Seq(S) \subseteq T
<1> DEFINE L == {n \in Nat : \A s \in Seq(S) : Len(s) = n => s \in T}
<1>1. 0 \in L
  <2>1. \A s \in Seq(S) : Len(s) = 0 => s = <<>>
    OBVIOUS
  <2> QED
    BY <2>1
<1>2. ASSUME NEW n \in Nat, n \in L
      PROVE  n + 1 \in L
  <2> SUFFICES ASSUME NEW s \in Seq(S), Len(s) = n + 1
               PROVE  s \in T
    OBVIOUS
  <2> DEFINE r == SubSeq(s, 1, n)
  <2>1. r \in Seq(S) /\ Len(r) = n /\ s[n + 1] \in S /\ s = Append(r, s[n + 1])
    OBVIOUS
  <2>2. r \in T
    BY <1>2, <2>1
  <2> HIDE DEF r
  <2> QED
    BY <2>1, <2>2
<1> HIDE DEF L
<1>3. Nat \subseteq L
  BY <1>1, <1>2, NaturalInduction
<1>4. ASSUME NEW s \in Seq(S)
      PROVE  s \in T
  <2>1. Len(s) \in L
    BY <1>3
  <2> QED
    BY <2>1 DEF L
<1> QED
  BY <1>4

(* What a left fold of h over a sequence comes to, the values written out. *)
Run(h, base, t) ==
  LET at[k \in 0 .. Len(t)] == IF k = 0 THEN base ELSE h[<<at[k - 1], t[k]>>]
  IN at[Len(t)]

(* F satisfies the equation of FoldLeft wherever h is defined.             *)
FoldsLeft(F, h, base, t, V) ==
  /\ F[{}] = base
  /\ \A s \in SUBSET (1 .. Len(t)) :
       s # {} /\ F[s \ {Max(s)}] \in V => F[s] = h[<<F[s \ {Max(s)}], t[Max(s)]>>]

(* The state is in V, the elements in S.                                   *)
Running(h, base, t, V, S) == base \in V /\ h \in [V \X S -> V] /\ t \in Seq(S)

(* The values written out exist, and are the ones Run goes through.        *)
LEMMA RunTrail ==
  ASSUME NEW V, NEW S, NEW base, NEW h, NEW t, Running(h, base, t, V, S)
  PROVE  \E g \in [0 .. Len(t) -> V] :
           /\ g[0] = base
           /\ \A k \in 1 .. Len(t) : g[k] = h[<<g[k - 1], t[k]>>]
           /\ Run(h, base, t) = g[Len(t)]
<1> DEFINE n == Len(t)
           H == [p \in (0 .. n) \X V |-> IF p[1] = 0 THEN base ELSE h[<<p[2], t[p[1]]>>]]
           Eq(g) == g = [k \in 0 .. n |-> IF k = 0 THEN base ELSE h[<<g[k - 1], t[k]>>]]
           at == CHOOSE g : Eq(g)
<1> USE DEF Running
<1>1. n \in Nat /\ base \in V /\ \A k \in 1 .. n : t[k] \in S
  OBVIOUS
<1>2. Stepping(H, 0, n, base, V)
  BY <1>1 DEF Stepping
<1>3. PICK g \in [0 .. n -> V] : Trail(g, 0, n, base, H)
  <2>1. 0 <= n
    BY <1>1
  <2> HIDE DEF H, n, Running
  <2> QED
    BY <1>2, <2>1, TrailExists
<1>4. \A k \in 0 .. n : g[k] = IF k = 0 THEN base ELSE h[<<g[k - 1], t[k]>>]
  <2> SUFFICES ASSUME NEW k \in 0 .. n
               PROVE  g[k] = IF k = 0 THEN base ELSE h[<<g[k - 1], t[k]>>]
    OBVIOUS
  <2>1. g[k] = IF k = 0 THEN base ELSE H[<<k, g[k - 1]>>]
    BY <1>3 DEF Trail
  <2>2. k # 0 => g[k - 1] \in V
    BY <1>1
  <2> QED
    BY <2>1, <2>2
<1>5. Eq(g)
  BY <1>4
<1>6. Eq(at)
  <2> HIDE DEF Eq
  <2> QED
    BY <1>5
<1>7. at[0] = base /\ \A k \in 1 .. n : at[k] = h[<<at[k - 1], t[k]>>]
  <2> HIDE DEF at
  <2> QED
    BY <1>1, <1>6
<1>8. Run(h, base, t) = at[n]
  BY DEF Run
<1>9. at \in [0 .. n -> V]
  <2> DEFINE T == {k \in Nat : k <= n => at[k] \in V}
  <2> HIDE DEF at
  <2>1. 0 \in T
    BY <1>7
  <2>2. ASSUME NEW k \in Nat, k \in T
        PROVE  k + 1 \in T
    <3> SUFFICES ASSUME k + 1 <= n
                 PROVE  at[k + 1] \in V
      OBVIOUS
    <3>1. k + 1 \in 1 .. n /\ at[k] \in V /\ (k + 1) - 1 = k
      BY <1>1, <2>2
    <3> QED
      BY <1>1, <1>7, <3>1
  <2> HIDE DEF T
  <2>3. Nat \subseteq T
    BY <2>1, <2>2, NaturalInduction
  <2>4. \A k \in 0 .. n : at[k] \in V
    BY <1>1, <2>3 DEF T
  <2> QED
    BY <1>6, <2>4
<1> HIDE DEF at, Eq
<1> QED
  BY <1>7, <1>8, <1>9

(* Whatever satisfies the equation of FoldLeft ends where Run does,        *)
LEMMA LeftFoldRuns ==
  ASSUME NEW V, NEW S, NEW base, NEW h, NEW t, Running(h, base, t, V, S),
         NEW F, FoldsLeft(F, h, base, t, V)
  PROVE  F[1 .. Len(t)] = Run(h, base, t)
<1> DEFINE n == Len(t)
<1>1. PICK g \in [0 .. n -> V] : /\ g[0] = base
                                 /\ \A k \in 1 .. n : g[k] = h[<<g[k - 1], t[k]>>]
                                 /\ Run(h, base, t) = g[n]
  BY RunTrail
<1>2. n \in Nat /\ Len(t) = n
  BY DEF Running
<1> HIDE DEF n
<1> DEFINE T == {k \in Nat : k <= n => F[1 .. k] = g[k]}
<1>3. 0 \in T
  <2>1. 1 .. 0 = {}
    OBVIOUS
  <2> QED
    BY <1>1, <2>1 DEF FoldsLeft
<1>4. ASSUME NEW k \in Nat, k \in T
      PROVE  k + 1 \in T
  <2> SUFFICES ASSUME k + 1 <= n
               PROVE  F[1 .. k + 1] = g[k + 1]
    OBVIOUS
  <2>1. F[1 .. k] = g[k] /\ g[k] \in V
    BY <1>2, <1>4
  <2>2. Max(1 .. k + 1) = k + 1 /\ (1 .. k + 1) \ {Max(1 .. k + 1)} = 1 .. k
    BY MaxOfInterval
  <2>3. 1 .. k + 1 \in SUBSET (1 .. Len(t)) /\ 1 .. k + 1 # {}
    <3>1. \A x \in 1 .. k + 1 : x \in 1 .. n
      BY <1>2
    <3>2. k + 1 \in 1 .. k + 1
      OBVIOUS
    <3> QED
      BY <1>2, <3>1, <3>2
  <2>4. F[1 .. k + 1] = h[<<F[1 .. k], t[k + 1]>>]
    BY <2>1, <2>2, <2>3 DEF FoldsLeft
  <2>5. g[k + 1] = h[<<g[k], t[k + 1]>>]
    BY <1>1, <1>2
  <2> QED
    BY <2>1, <2>4, <2>5
<1> HIDE DEF T
<1>5. n \in T
  BY <1>2, <1>3, <1>4, NaturalInduction
<1> QED
  BY <1>1, <1>2, <1>5 DEF T

(* and something does.                                                     *)
LeftFold(F, h, base, t, V) ==
  /\ F \in [SUBSET (1 .. Len(t)) -> V]
  /\ \A s \in SUBSET (1 .. Len(t)) :
       F[s] = IF s = {} THEN base ELSE h[<<F[s \ {Max(s)}], t[Max(s)]>>]

(* Of the states, if they stay among them: a solution to rely on.          *)
LEMMA LeftFoldSolved ==
  ASSUME NEW V, NEW S, NEW base, NEW h, NEW t, Running(h, base, t, V, S)
  PROVE  \E F : LeftFold(F, h, base, t, V)
<1> DEFINE U == 1 .. Len(t)
           c == [s \in SUBSET U |-> Max(s)]
           H == [p \in (SUBSET U) \X V |-> IF p[1] = {} THEN base ELSE h[<<p[2], t[Max(p[1])]>>]]
<1>1. /\ IsFiniteSet(U) /\ base \in V
      /\ \A k \in U : \A v \in V : h[<<v, t[k]>>] \in V
      /\ \A s \in SUBSET U : s # {} => Max(s) \in s
  <2>1. Len(t) \in Nat /\ U = 1 .. Len(t)
    BY DEF Running
  <2>2. \A s \in SUBSET U : s # {} => Max(s) \in s
    BY <2>1, MaxIn
  <2>3. base \in V /\ \A k \in U : \A v \in V : h[<<v, t[k]>>] \in V
    BY DEF Running
  <2>4. IsFiniteSet(U)
    <3> HIDE DEF U
    <3> QED
      BY <2>1, FS_Interval
  <2> QED
    BY <2>2, <2>3, <2>4
<1>2. \A s \in SUBSET U : \A v \in V :
        H[<<s, v>>] = IF s = {} THEN base ELSE h[<<v, t[Max(s)]>>]
  OBVIOUS
<1> HIDE DEF U
<1>3. \A s \in SUBSET U : s # {} => c[s] \in s
  BY <1>1
<1>4. \A s \in SUBSET U : \A v \in V : H[<<s, v>>] \in V
  <2> HIDE DEF H
  <2> QED
    BY <1>1, <1>2
<1>5. PICK F \in [SUBSET U -> V] : FoldsBy(F, U, base, c, H)
  <2> HIDE DEF c, H
  <2> QED
    BY <1>1, <1>3, <1>4, FoldExists
<1>6. ASSUME NEW s \in SUBSET U
      PROVE  F[s] = IF s = {} THEN base ELSE h[<<F[s \ {Max(s)}], t[Max(s)]>>]
  <2>1. F[s \ {Max(s)}] \in V /\ c[s] = Max(s)
    OBVIOUS
  <2> HIDE DEF c, H
  <2> QED
    BY <1>2, <1>5, <2>1, ZenonT(60) DEF FoldsBy
<1> QED
  BY <1>6 DEF U, LeftFold

(* The last of some elements is an element.                                *)
LEMMA ElementIn ==
  ASSUME NEW S, NEW t \in Seq(S), NEW s \in SUBSET (1 .. Len(t)), s # {}
  PROVE  t[Max(s)] \in S
<1>1. PICK n \in Nat : n = Len(t)
  OBVIOUS
<1>2. Max(s) \in 1 .. n
  BY <1>1, MaxIn
<1> QED
  BY <1>1, <1>2

(* A run starts at base, goes on with the last element, and stays in V.    *)
LEMMA RunStarts ==
  ASSUME NEW h, NEW base
  PROVE  Run(h, base, <<>>) = base
<1> DEFINE Eq(g) == g = [k \in 0 .. 0 |-> IF k = 0 THEN base ELSE h[<<g[k - 1], <<>>[k]>>]]
<1>1. Eq([k \in 0 .. 0 |-> base])
  OBVIOUS
<1>2. Eq(CHOOSE g : Eq(g))
  <2> HIDE DEF Eq
  <2> QED
    BY <1>1
<1>3. Len(<<>>) = 0
  OBVIOUS
<1>4. Run(h, base, <<>>) = (CHOOSE g : Eq(g))[0]
  BY <1>3 DEF Run
<1>5. 0 \in 0 .. 0
  OBVIOUS
<1> QED
  BY <1>2, <1>4, <1>5

(* A run ends in the set of its states,                                    *)
LEMMA RunType ==
  ASSUME NEW V, NEW S, NEW base, NEW h, NEW t, Running(h, base, t, V, S)
  PROVE  Run(h, base, t) \in V
<1>1. Len(t) \in 0 .. Len(t)
  BY DEF Running
<1> QED
  BY <1>1, RunTrail

(* and goes on by one step with one element more.                          *)
LEMMA RunGoesOn ==
  ASSUME NEW V, NEW S, NEW base, NEW h, NEW t, Running(h, base, t, V, S), NEW x \in S
  PROVE  Run(h, base, Append(t, x)) = h[<<Run(h, base, t), x>>]
<1> DEFINE n == Len(t)
           u == Append(t, x)
<1>1. /\ n \in Nat /\ Len(u) = n + 1
      /\ u[n + 1] = x /\ \A k \in 1 .. n : u[k] = t[k]
      /\ Running(h, base, u, V, S)
  BY DEF Running
<1> HIDE DEF u
<1>2. PICK f \in [0 .. Len(t) -> V] : /\ f[0] = base
                                      /\ \A k \in 1 .. Len(t) : f[k] = h[<<f[k - 1], t[k]>>]
                                      /\ Run(h, base, t) = f[Len(t)]
  BY RunTrail
<1>3. PICK g \in [0 .. Len(u) -> V] : /\ g[0] = base
                                      /\ \A k \in 1 .. Len(u) : g[k] = h[<<g[k - 1], u[k]>>]
                                      /\ Run(h, base, u) = g[Len(u)]
  BY <1>1, RunTrail
<1> DEFINE T == {k \in Nat : k <= n => f[k] = g[k]}
<1>4. 0 \in T
  BY <1>2, <1>3
<1>5. ASSUME NEW k \in Nat, k \in T
      PROVE  k + 1 \in T
  <2> SUFFICES ASSUME k + 1 <= n
               PROVE  f[k + 1] = g[k + 1]
    OBVIOUS
  <2>1. f[k] = g[k] /\ k + 1 \in 1 .. n /\ k + 1 \in 1 .. Len(u) /\ (k + 1) - 1 = k
    BY <1>1, <1>5
  <2>2. f[k + 1] = h[<<f[k], t[k + 1]>>]
    BY <1>2, <2>1
  <2>3. g[k + 1] = h[<<g[k], u[k + 1]>>]
    BY <1>3, <2>1
  <2> QED
    BY <1>1, <2>1, <2>2, <2>3
<1> HIDE DEF T
<1>6. n \in T
  BY <1>1, <1>4, <1>5, NaturalInduction
<1>7. f[n] = g[n]
  BY <1>1, <1>6 DEF T
<1>8. g[n + 1] = h[<<g[n], x>>]
  <2>1. n + 1 \in 1 .. n + 1 /\ (n + 1) - 1 = n
    BY <1>1
  <2> QED
    BY <1>1, <1>3, <2>1
<1> QED
  BY <1>1, <1>2, <1>3, <1>7, <1>8 DEF u

-----------------------------------------------------------------------------
(* FlattenSeq, from piece to piece: sequences of elements of A.            *)
FlattensIn(g, s, A) ==
  /\ g \in [1 .. Len(s) -> Seq(A)]
  /\ g[1] = s[1]
  /\ \A k \in 2 .. Len(s) : g[k] = g[k - 1] \o s[k]

(* FlattenSeq goes through such a sequence.                                *)
LEMMA FlattenSteps ==
  ASSUME NEW A, NEW s \in Seq(Seq(A)), s # <<>>
  PROVE  \E g : FlattensIn(g, s, A) /\ FlattenSeq(s) = g[Len(s)]
<1> DEFINE n == Len(s)
           V == Seq(A)
           Eq(g) == g = [i \in 1 .. n |-> IF i = 1 THEN s[i] ELSE g[i - 1] \o s[i]]
           G == CHOOSE g : Eq(g)
           h == [p \in (1 .. n) \X V |-> p[2] \o s[p[1]]]
<1>1. n \in Nat /\ n >= 1 /\ \A k \in 1 .. n : s[k] \in V
  OBVIOUS
<1>2. FlattenSeq(s) = G[n]
  BY <1>1 DEF FlattenSeq
<1>0. \A a, b \in V : a \o b \in V
  OBVIOUS
<1> HIDE DEF V, n
<1>3. Stepping(h, 1, n, s[1], V)
  <2>1. \A k \in 1 .. n : \A v \in V : h[<<k, v>>] = v \o s[k] /\ v \o s[k] \in V
    BY <1>0, <1>1
  <2>2. s[1] \in V
    BY <1>1
  <2> HIDE DEF h
  <2> QED
    <3>1. \A k \in 1 .. n : \A v \in V : h[<<k, v>>] \in V
      BY <2>1, Zenon
    <3>2. 1 \in Int /\ n \in Int
      BY <1>1
    <3> QED
      BY <2>2, <3>1, <3>2 DEF Stepping
<1>4. PICK g \in [1 .. n -> V] : Trail(g, 1, n, s[1], h)
  <2> HIDE DEF h
  <2> QED
    BY <1>1, <1>3, TrailExists
<1>5. Eq(g)
  <2>1. \A k \in 1 .. n : g[k] = IF k = 1 THEN s[1] ELSE h[<<k, g[k - 1]>>]
    BY <1>4 DEF Trail
  <2>2. \A k \in 1 .. n : k # 1 => h[<<k, g[k - 1]>>] = g[k - 1] \o s[k]
    <3>1. \A k \in 1 .. n : k # 1 => g[k - 1] \in V
      <4>1. \A k \in 1 .. n : k # 1 => k - 1 \in 1 .. n
        BY <1>1
      <4> QED
        BY <4>1
    <3> QED
      BY <3>1
  <2>3. \A k \in 1 .. n : g[k] = IF k = 1 THEN s[k] ELSE g[k - 1] \o s[k]
    BY <2>1, <2>2
  <2>4. g = [k \in 1 .. n |-> g[k]]
    OBVIOUS
  <2> QED
    BY <2>3, <2>4
<1>6. Eq(G)
  <2> HIDE DEF Eq
  <2> QED
    BY <1>5
<1> HIDE DEF G, h
<1>7. /\ DOMAIN G = 1 .. n
      /\ \A k \in 1 .. n : G[k] = IF k = 1 THEN s[k] ELSE G[k - 1] \o s[k]
  BY <1>6
<1>8. \A k \in 1 .. n : G[k] \in V
  <2> DEFINE T == {i \in Nat : i + 1 <= n => G[i + 1] \in V}
  <2>1. 0 \in T
    <3>1. 1 \in 1 .. n /\ 0 + 1 = 1
      BY <1>1
    <3>2. G[1] = s[1] /\ s[1] \in V
      BY <1>1, <1>7, <3>1
    <3> QED
      BY <3>1, <3>2
  <2>2. ASSUME NEW i \in Nat, i \in T
        PROVE  i + 1 \in T
    <3>1. ASSUME i + 2 <= n
          PROVE  G[i + 2] \in V
      <4>1. i + 2 \in 1 .. n /\ i + 2 # 1 /\ (i + 2) - 1 = i + 1
        BY <1>1, <3>1
      <4>2. G[i + 2] = G[i + 1] \o s[i + 2]
        BY <1>7, <4>1
      <4>3. G[i + 1] \in V /\ s[i + 2] \in V
        BY <1>1, <2>2, <3>1, <4>1
      <4> QED
        BY <1>0, <4>2, <4>3
    <3>2. (i + 1) + 1 = i + 2
      OBVIOUS
    <3> QED
      BY <3>1, <3>2
  <2> HIDE DEF T
  <2>3. Nat \subseteq T
    BY <2>1, <2>2, NaturalInduction
  <2>4. \A k \in 1 .. n : k - 1 \in T /\ (k - 1) + 1 = k
    BY <1>1, <2>3
  <2> QED
    BY <1>1, <2>4 DEF T
<1>9. G \in [1 .. n -> V]
  <2>1. G = [k \in 1 .. n |-> G[k]]
    BY <1>6
  <2> QED
    BY <1>8, <2>1
<1>10. FlattensIn(G, s, A)
  <2>1. 1 \in 1 .. n /\ \A k \in 2 .. n : k \in 1 .. n /\ k # 1
    BY <1>1
  <2>2. G[1] = s[1] /\ \A k \in 2 .. n : G[k] = G[k - 1] \o s[k]
    BY <1>7, <2>1
  <2> QED
    BY <1>9, <2>2 DEF FlattensIn, n, V
<1> QED
  BY <1>2, <1>10 DEF n

(* Two sequences of sequences of the same lengths, flattened, have their   *)
(* elements in the same places.                                            *)
SameShape(x, y) == Len(x) = Len(y) /\ \A k \in 1 .. Len(x) : Len(x[k]) = Len(y[k])

Together(u, v, x, y) ==
  /\ Len(u) = Len(v)
  /\ \A m \in 1 .. Len(u) :
       \E k \in 1 .. Len(x) : \E j \in 1 .. Len(x[k]) : u[m] = x[k][j] /\ v[m] = y[k][j]

(* The elements of a concatenation.                                        *)
Concatenated(u, w, uw) ==
  /\ Len(uw) = Len(u) + Len(w)
  /\ \A m \in 1 .. Len(uw) :
       \/ m \in 1 .. Len(u) /\ uw[m] = u[m]
       \/ m - Len(u) \in 1 .. Len(w) /\ uw[m] = w[m - Len(u)]

LEMMA ElementsConcatenated ==
  ASSUME NEW A, NEW u \in Seq(A), NEW w \in Seq(A)
  PROVE  Concatenated(u, w, u \o w)
<1>1. Len(u) \in Nat /\ Len(w) \in Nat /\ Len(u \o w) = Len(u) + Len(w)
  OBVIOUS
<1>2. ASSUME NEW m \in 1 .. Len(u \o w)
      PROVE  \/ m \in 1 .. Len(u) /\ (u \o w)[m] = u[m]
             \/ m - Len(u) \in 1 .. Len(w) /\ (u \o w)[m] = w[m - Len(u)]
  <2>1. (u \o w)[m] = IF m <= Len(u) THEN u[m] ELSE w[m - Len(u)]
    BY <1>1
  <2>2. m \in Nat /\ 1 <= m /\ m <= Len(u) + Len(w)
    BY <1>1
  <2>3. IF m <= Len(u) THEN m \in 1 .. Len(u) ELSE m - Len(u) \in 1 .. Len(w)
    BY <1>1, <2>2
  <2> QED
    BY <2>1, <2>3
<1> QED
  BY <1>1, <1>2 DEF Concatenated

(* A piece of each more, of the same length, keeps them together.          *)
LEMMA TogetherGoesOn ==
  ASSUME NEW A, NEW B, NEW x \in Seq(Seq(A)), NEW y \in Seq(Seq(B)), SameShape(x, y),
         NEW u \in Seq(A), NEW v \in Seq(B), Together(u, v, x, y),
         NEW i \in 1 .. Len(x)
  PROVE  Together(u \o x[i], v \o y[i], x, y)
<1>1. /\ x[i] \in Seq(A) /\ y[i] \in Seq(B)
      /\ Len(x[i]) = Len(y[i]) /\ Len(u) = Len(v)
  BY DEF SameShape, Together
<1>2. PICK ux, vy : ux = u \o x[i] /\ vy = v \o y[i]
  OBVIOUS
<1>3. Concatenated(u, x[i], ux) /\ Concatenated(v, y[i], vy)
  BY <1>1, <1>2, ElementsConcatenated
<1>4. Len(ux) = Len(vy)
  BY <1>1, <1>3 DEF Concatenated
<1>5. ASSUME NEW m \in 1 .. Len(ux)
      PROVE  \E k \in 1 .. Len(x) : \E j \in 1 .. Len(x[k]) : ux[m] = x[k][j] /\ vy[m] = y[k][j]
  <2>1. CASE m \in 1 .. Len(u) /\ ux[m] = u[m] /\ vy[m] = v[m]
    BY <2>1 DEF Together
  <2>2. CASE m - Len(u) \in 1 .. Len(x[i]) /\ ux[m] = x[i][m - Len(u)] /\ vy[m] = y[i][m - Len(u)]
    BY <2>2
  <2>3. \/ m \in 1 .. Len(u) /\ ux[m] = u[m]
        \/ m - Len(u) \in 1 .. Len(x[i]) /\ ux[m] = x[i][m - Len(u)]
    BY <1>3 DEF Concatenated
  <2>4. \/ m \in 1 .. Len(u) /\ vy[m] = v[m]
        \/ m - Len(u) \in 1 .. Len(x[i]) /\ vy[m] = y[i][m - Len(u)]
    BY <1>1, <1>3, <1>4 DEF Concatenated
  <2>5. ~(m \in 1 .. Len(u) /\ m - Len(u) \in 1 .. Len(x[i]))
    <3>1. Len(u) \in Nat /\ Len(x[i]) \in Nat
      BY <1>1
    <3> QED
      BY <3>1
  <2> QED
    BY <2>1, <2>2, <2>3, <2>4, <2>5
<1>6. Together(ux, vy, x, y)
  BY <1>4, <1>5 DEF Together
<1> QED
  BY <1>2, <1>6

(* So the flattened sequences keep together.                               *)
LEMMA FlattenTogether ==
  ASSUME NEW A, NEW B, NEW x \in Seq(Seq(A)), NEW y \in Seq(Seq(B)), SameShape(x, y)
  PROVE  /\ FlattenSeq(x) \in Seq(A) /\ FlattenSeq(y) \in Seq(B)
         /\ Together(FlattenSeq(x), FlattenSeq(y), x, y)
<1>1. CASE x = <<>>
  <2>1. y = <<>>
    BY <1>1 DEF SameShape
  <2>2. FlattenSeq(x) = <<>> /\ FlattenSeq(y) = <<>> /\ Len(<<>>) = 0
    BY <1>1, <2>1 DEF FlattenSeq
  <2>3. <<>> \in Seq(A) /\ <<>> \in Seq(B)
    OBVIOUS
  <2> QED
    BY <2>2, <2>3 DEF Together
<1>2. CASE x # <<>>
  <2>1. y # <<>>
    BY <1>2 DEF SameShape
  <2>2. PICK n \in Nat : n = Len(x) /\ n = Len(y) /\ n >= 1
    BY <1>2 DEF SameShape
  <2>3. PICK f : FlattensIn(f, x, A) /\ FlattenSeq(x) = f[n]
    BY <1>2, <2>2, FlattenSteps
  <2>4. PICK g : FlattensIn(g, y, B) /\ FlattenSeq(y) = g[n]
    BY <2>1, <2>2, FlattenSteps
  <2>5. /\ f \in [1 .. n -> Seq(A)] /\ f[1] = x[1] /\ \A k \in 2 .. n : f[k] = f[k - 1] \o x[k]
        /\ g \in [1 .. n -> Seq(B)] /\ g[1] = y[1] /\ \A k \in 2 .. n : g[k] = g[k - 1] \o y[k]
    BY <2>2, <2>3, <2>4 DEF FlattensIn
  <2> DEFINE T == {i \in Nat : i + 1 <= n => Together(f[i + 1], g[i + 1], x, y)}
  <2>6. 0 \in T
    <3>1. 1 \in 1 .. Len(x) /\ Len(x[1]) = Len(y[1])
      BY <2>2 DEF SameShape
    <3>2. Together(x[1], y[1], x, y)
      BY <3>1 DEF Together
    <3> QED
      BY <2>5, <3>2
  <2>7. ASSUME NEW i \in Nat, i \in T
        PROVE  i + 1 \in T
    <3>1. ASSUME i + 2 <= n
          PROVE  Together(f[i + 2], g[i + 2], x, y)
      <4>1. PICK a \in 1 .. n, b \in 2 .. n : a = i + 1 /\ b = i + 2 /\ b - 1 = a /\ b \in 1 .. Len(x)
        BY <2>2, <3>1
      <4>2. f[b] = f[a] \o x[b] /\ g[b] = g[a] \o y[b] /\ f[a] \in Seq(A) /\ g[a] \in Seq(B)
        BY <2>5, <4>1
      <4>3. Together(f[a], g[a], x, y)
        BY <2>7, <4>1
      <4>4. Together(f[a] \o x[b], g[a] \o y[b], x, y)
        BY <4>1, <4>2, <4>3, TogetherGoesOn
      <4> QED
        BY <4>1, <4>2, <4>4
    <3>2. (i + 1) + 1 = i + 2
      OBVIOUS
    <3> QED
      BY <3>1, <3>2
  <2> HIDE DEF T
  <2>8. n - 1 \in T /\ (n - 1) + 1 = n
    <3>1. Nat \subseteq T
      BY <2>6, <2>7, NaturalInduction
    <3> QED
      BY <2>2, <3>1
  <2>9. Together(f[n], g[n], x, y)
    BY <2>2, <2>8 DEF T
  <2>10. f[n] \in Seq(A) /\ g[n] \in Seq(B)
    <3>1. n \in 1 .. n
      BY <2>2
    <3> QED
      BY <2>5, <3>1
  <2> QED
    BY <2>3, <2>4, <2>9, <2>10
<1> QED
  BY <1>1, <1>2

(* Sequences of one element each flatten to the elements.                  *)
LEMMA FlattenSingletons ==
  ASSUME NEW A, NEW x \in Seq(Seq(A)), \A k \in 1 .. Len(x) : Len(x[k]) = 1
  PROVE  /\ Len(FlattenSeq(x)) = Len(x)
         /\ \A k \in 1 .. Len(x) : FlattenSeq(x)[k] = x[k][1]
<1>1. CASE x = <<>>
  <2>1. FlattenSeq(x) = <<>> /\ Len(x) = 0
    BY <1>1 DEF FlattenSeq
  <2> QED
    BY <2>1, <1>1
<1>2. CASE x # <<>>
  <2>1. PICK n \in Nat : n = Len(x) /\ n >= 1
    BY <1>2
  <2>2. PICK f : FlattensIn(f, x, A) /\ FlattenSeq(x) = f[n]
    BY <1>2, <2>1, FlattenSteps
  <2>3. f \in [1 .. n -> Seq(A)] /\ f[1] = x[1] /\ \A k \in 2 .. n : f[k] = f[k - 1] \o x[k]
    BY <2>1, <2>2 DEF FlattensIn
  <2> DEFINE Holds(i) == Len(f[i]) = i /\ \A k \in 1 .. i : f[i][k] = x[k][1]
             T == {i \in Nat : i + 1 <= n => Holds(i + 1)}
  <2>4. 0 \in T
    <3>1. 1 \in 1 .. Len(x) /\ Len(x[1]) = 1
      BY <2>1
    <3>2. Holds(1)
      <4>1. Len(f[1]) = 1 /\ f[1][1] = x[1][1]
        BY <2>3, <3>1
      <4>2. \A k \in 1 .. 1 : k = 1
        OBVIOUS
      <4> QED
        BY <4>1, <4>2
    <3> QED
      BY <3>2
  <2>5. ASSUME NEW i \in Nat, i \in T
        PROVE  i + 1 \in T
    <3>1. ASSUME i + 2 <= n
          PROVE  Holds(i + 2)
      <4>1. PICK a \in 1 .. n, b \in 2 .. n : a = i + 1 /\ b = i + 2 /\ b - 1 = a /\ b \in 1 .. Len(x)
        BY <2>1, <3>1
      <4>2. f[b] = f[a] \o x[b] /\ f[a] \in Seq(A) /\ x[b] \in Seq(A) /\ Len(x[b]) = 1
        <5>1. f[b] = f[a] \o x[b] /\ f[a] \in Seq(A)
          BY <2>3, <4>1
        <5>2. x[b] \in Seq(A) /\ Len(x[b]) = 1
          BY <4>1
        <5> QED
          BY <5>1, <5>2
      <4>3. Holds(a)
        BY <2>5, <4>1
      <4>4. Concatenated(f[a], x[b], f[b])
        BY <4>2, ElementsConcatenated
      <4>5. Len(f[b]) = b
        BY <4>1, <4>2, <4>3, <4>4 DEF Concatenated
      <4>6. ASSUME NEW k \in 1 .. b
            PROVE  f[b][k] = x[k][1]
        <5>1. \/ k \in 1 .. a /\ f[b][k] = f[a][k]
              \/ k - a \in 1 .. 1 /\ f[b][k] = x[b][k - a]
          BY <4>2, <4>3, <4>4, <4>5 DEF Concatenated
        <5>2. CASE k \in 1 .. a /\ f[b][k] = f[a][k]
          BY <4>3, <5>2
        <5>3. CASE k - a \in 1 .. 1 /\ f[b][k] = x[b][k - a]
          <6>1. k - a = 1 /\ k = b
            BY <4>1, <5>3
          <6> QED
            BY <5>3, <6>1
        <5> QED
          BY <5>1, <5>2, <5>3
      <4>7. Holds(b)
        BY <4>5, <4>6
      <4> QED
        BY <4>1, <4>7
    <3>2. (i + 1) + 1 = i + 2
      OBVIOUS
    <3> QED
      BY <3>1, <3>2
  <2> HIDE DEF T
  <2>6. n - 1 \in T /\ (n - 1) + 1 = n
    <3>1. Nat \subseteq T
      BY <2>4, <2>5, NaturalInduction
    <3> QED
      BY <2>1, <3>1
  <2>7. Holds(n)
    BY <2>1, <2>6 DEF T
  <2> QED
    BY <2>1, <2>2, <2>7
<1> QED
  BY <1>1, <1>2

=============================================================================
