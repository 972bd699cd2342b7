--------------------------- MODULE EncodingProofs ---------------------------
(***************************************************************************)
(* Proofs about Eligibility and ToonEncoder, for all JSON values there may *)
(* be: the ratio the classifier gives a value, and what of it the encoder  *)
(* writes.                                                                 *)
(***************************************************************************)
EXTENDS ToonEncoder, FoldLemmas

(* Products of naturals are as their factors are,                          *)
LEMMA ProductOrder ==
  ASSUME NEW a \in Nat, NEW b \in Nat, NEW c \in Nat, a <= b
  PROVE  a * c <= b * c /\ (c # 0 /\ a # b => a * c < b * c)
<1>1. PICK e \in Nat : b = a + e
  <2>1. b - a \in Nat /\ b = a + (b - a)
    OBVIOUS
  <2> QED
    BY <2>1
<1>2. b * c = a * c + e * c
  BY <1>1
<1>3. e * c \in Nat /\ a * c \in Nat
  OBVIOUS
<1>4. c # 0 /\ e # 0 => e * c # 0
  OBVIOUS
<1> QED
  BY <1>1, <1>2, <1>3, <1>4

(* and a product of ratios of at most 1 is 1 only if both of them are.     *)
LEMMA ProductOfParts ==
  ASSUME NEW a \in Nat, NEW b \in Nat, NEW c \in Nat, NEW d \in Nat, a <= b, c <= d
  PROVE  /\ a * c <= b * d
         /\ b # 0 /\ d # 0 => (a * c = b * d <=> a = b /\ c = d)
<1>1. a * c <= b * c /\ (c # 0 /\ a # b => a * c < b * c)
  BY ProductOrder
<1>2. c * b <= d * b /\ (b # 0 /\ c # d => c * b < d * b)
  BY ProductOrder
<1>3. c * b = b * c /\ d * b = b * d /\ a * c \in Nat /\ b * c \in Nat /\ b * d \in Nat
  OBVIOUS
<1>4. ASSUME b # 0, d # 0, a * c = b * d
      PROVE  a = b /\ c = d
  <2>1. a * c = b * c /\ b * c = b * d
    BY <1>1, <1>2, <1>3, <1>4
  <2>2. c = d
    BY <1>2, <1>3, <1>4, <2>1
  <2> QED
    BY <1>1, <1>4, <2>1, <2>2
<1> QED
  BY <1>1, <1>2, <1>3, <1>4

(* One score more in a sum of k: it stays at most k + 1, and reaches that  *)
(* only with a sum that was k and a score of 1.                            *)
LEMMA SumOfParts ==
  ASSUME NEW n \in Nat, NEW d \in Nat \ {0}, NEW a \in Nat, NEW b \in Nat \ {0}, NEW k \in Nat,
         n <= k * d, a <= b
  PROVE  /\ n * b + a * d <= (k + 1) * (d * b)
         /\ n * b + a * d = (k + 1) * (d * b) <=> n = k * d /\ a = b
<1>1. PICK m \in Nat : m = k * d
  OBVIOUS
<1>2. n * b <= m * b /\ (n # m => n * b < m * b)
  BY <1>1, ProductOrder
<1>3. a * d <= b * d /\ (a # b => a * d < b * d)
  BY ProductOrder
<1>4. (k + 1) * (d * b) = m * b + b * d
  <2>1. (k + 1) * (d * b) = (k * d) * b + b * d
    OBVIOUS
  <2> QED
    BY <1>1, <2>1
<1>5. n * b \in Nat /\ m * b \in Nat /\ a * d \in Nat /\ b * d \in Nat
  OBVIOUS
<1>6. n = m /\ a = b => n * b + a * d = m * b + b * d
  OBVIOUS
<1>7. PICK p \in Nat, q \in Nat, r \in Nat, s \in Nat :
        p = n * b /\ q = m * b /\ r = a * d /\ s = b * d
  BY <1>5
<1> QED
  BY <1>1, <1>2, <1>3, <1>4, <1>6, <1>7

(* The larger of two.                                                      *)
LEMMA PairMax ==
  ASSUME NEW a \in Int, NEW b \in Int
  PROVE  Max({a, b}) \in {a, b} /\ a <= Max({a, b}) /\ b <= Max({a, b})
<1>1. \E x \in {a, b} : \A y \in {a, b} : x >= y
  <2>1. CASE a >= b
    BY <2>1
  <2>2. CASE b >= a
    BY <2>2
  <2> QED
    BY <2>1, <2>2
<1>2. Max({a, b}) \in {a, b} /\ \A y \in {a, b} : Max({a, b}) >= y
  BY <1>1 DEF Max
<1> QED
  BY <1>2

-----------------------------------------------------------------------------
(* Ratios without and with 0 as their denominator.                         *)
Ratios == [n : Nat, d : Nat]
Proper(r) == r \in Ratios /\ r.d # 0
UpToOne(r) == Proper(r) /\ r.n <= r.d

(* The score of a set of fields is a ratio of at most 1, and 1 exactly for *)
(* the reference itself, if there is any field.                            *)
LEMMA AgreementUpToOne ==
  ASSUME NEW R, NEW F, IsFiniteSet(R), IsFiniteSet(F)
  PROVE  /\ UpToOne(Agreement(R, F))
         /\ IsOne(Agreement(R, F)) <=> R = F /\ R # {}
<1> DEFINE a == Agreement(R, F)
<1>1. CASE R \cup F = {}
  <2>1. a = [n |-> 0, d |-> 1]
    BY <1>1 DEF Agreement, Zero, Ratio
  <2> QED
    BY <1>1, <2>1 DEF UpToOne, Proper, Ratios, IsOne
<1>2. CASE R \cup F # {}
  <2>1. PICK c \in Nat, r \in Nat, f \in Nat :
          c = Cardinality(R \cap F) /\ r = Cardinality(R) /\ f = Cardinality(F)
    <3>1. IsFiniteSet(R \cap F)
      BY FS_Intersection
    <3> QED
      BY <3>1, FS_CardinalityType
  <2>2. c <= r /\ (c = r => R \cap F = R)
    <3>1. R \cap F \in SUBSET R
      OBVIOUS
    <3> QED
      BY <2>1, <3>1, FS_Subset
  <2>3. c <= f /\ (c = f => R \cap F = F)
    <3>1. R \cap F \in SUBSET F
      OBVIOUS
    <3> QED
      BY <2>1, <3>1, FS_Subset
  <2>4. r # 0 \/ f # 0
    BY <1>2, <2>1, FS_EmptySet
  <2>5. PICK m \in {r, f} : m = Max({r, f}) /\ r <= m /\ f <= m
    BY PairMax
  <2>6. a = [n |-> c, d |-> m]
    BY <1>2, <2>1, <2>5 DEF Agreement, Ratio
  <2>7. m \in Nat \ {0} /\ c <= m
    BY <2>2, <2>4, <2>5
  <2>8. c = m <=> R = F
    <3>1. c = m => c = r /\ c = f
      BY <2>2, <2>3, <2>5
    <3>2. R = F => c = r /\ r = f
      BY <2>1
    <3> QED
      BY <2>2, <2>3, <2>5, <3>1, <3>2
  <2> QED
    BY <1>2, <2>6, <2>7, <2>8 DEF UpToOne, Proper, Ratios, IsOne, IsNaN
<1> QED
  BY <1>1, <1>2

-----------------------------------------------------------------------------
(* The sum of the scores, and one more of them as a function.              *)
FiniteObjects(O) == \A o \in O : IsObject(o) /\ IsFiniteSet(FieldsOf(o))

Scored(R, t) == FoldLeft(LAMBDA r, o : Plus(r, Agreement(R, FieldsOf(o))), Zero, t)

(* A sum of ratios is one.                                                 *)
LEMMA PlusType ==
  ASSUME NEW r, NEW s, Proper(r), Proper(s)
  PROVE  /\ Plus(r, s) = [n |-> r.n * s.d + s.n * r.d, d |-> r.d * s.d]
         /\ Proper(Plus(r, s))
<1>1. /\ Plus(r, s) = [n |-> r.n * s.d + s.n * r.d, d |-> r.d * s.d]
      /\ r.n \in Nat /\ r.d \in Nat \ {0} /\ s.n \in Nat /\ s.d \in Nat \ {0}
  BY DEF Plus, Ratio, Proper, Ratios
<1>2. PICK a \in Nat, b \in Nat \ {0}, c \in Nat, d \in Nat \ {0} :
        a = r.n /\ b = r.d /\ c = s.n /\ d = s.d
  BY <1>1
<1>3. a * d + c * b \in Nat /\ b * d \in Nat /\ b * d # 0
  OBVIOUS
<1> QED
  BY <1>1, <1>2, <1>3 DEF Proper, Ratios

(* The scores are taken one object after the other.                        *)
ProperRatios == {r \in Ratios : r.d # 0}
LEMMA ScoreRun ==
  ASSUME NEW O, FiniteObjects(O), NEW R, IsFiniteSet(R), NEW t \in Seq(O)
  PROVE  \E g \in [0 .. Len(t) -> ProperRatios] :
           /\ g[0] = Zero
           /\ \A k \in 1 .. Len(t) : g[k] = Plus(g[k - 1], Agreement(R, FieldsOf(t[k])))
           /\ Scored(R, t) = g[Len(t)]
<1> DEFINE h == [p \in ProperRatios \X O |-> Plus(p[1], Agreement(R, FieldsOf(p[2])))]
           Eq(F) == F = [s \in SUBSET (1 .. Len(t)) |->
                           IF s = {} THEN Zero
                           ELSE Plus(F[s \ {Max(s)}], Agreement(R, FieldsOf(t[Max(s)])))]
           G == CHOOSE F : Eq(F)
<1>1. Scored(R, t) = G[1 .. Len(t)]
  <2>1. DOMAIN t = 1 .. Len(t)
    OBVIOUS
  <2> QED
    BY <2>1 DEF Scored, FoldLeft, MapThenFoldSet
<1>2. \A v \in ProperRatios : \A x \in O :
        /\ h[<<v, x>>] = Plus(v, Agreement(R, FieldsOf(x)))
        /\ h[<<v, x>>] \in ProperRatios
  <2> SUFFICES ASSUME NEW v \in ProperRatios, NEW x \in O
               PROVE  /\ h[<<v, x>>] = Plus(v, Agreement(R, FieldsOf(x)))
                      /\ h[<<v, x>>] \in ProperRatios
    OBVIOUS
  <2>1. Proper(Agreement(R, FieldsOf(x))) /\ Proper(v)
    BY AgreementUpToOne DEF FiniteObjects, UpToOne, ProperRatios, Proper
  <2>2. Plus(v, Agreement(R, FieldsOf(x))) \in ProperRatios
    BY <2>1, PlusType DEF ProperRatios, Proper
  <2> QED
    BY <2>2
<1>3. Running(h, Zero, t, ProperRatios, O)
  <2>1. Zero \in ProperRatios
    BY DEF Zero, Ratio, ProperRatios, Ratios
  <2>2. h \in [ProperRatios \X O -> ProperRatios]
    <3>1. \A p \in ProperRatios \X O : Plus(p[1], Agreement(R, FieldsOf(p[2]))) \in ProperRatios
      BY <1>2
    <3> QED
      BY <3>1
  <2> QED
    BY <2>1, <2>2 DEF Running
<1> HIDE DEF h
<1>4. PICK F : LeftFold(F, h, Zero, t, ProperRatios)
  BY <1>3, LeftFoldSolved
<1>5. \A s \in SUBSET (1 .. Len(t)) : s # {} => t[Max(s)] \in O
  BY ElementIn
<1>6. Eq(F)
  <2>1. \A s \in SUBSET (1 .. Len(t)) : F[s \ {Max(s)}] \in ProperRatios
    BY <1>4 DEF LeftFold
  <2>2. \A s \in SUBSET (1 .. Len(t)) :
          F[s] = IF s = {} THEN Zero
                 ELSE Plus(F[s \ {Max(s)}], Agreement(R, FieldsOf(t[Max(s)])))
    BY <1>2, <1>4, <1>5, <2>1 DEF LeftFold
  <2>3. F = [s \in SUBSET (1 .. Len(t)) |-> F[s]]
    BY <1>4 DEF LeftFold
  <2> QED
    BY <2>2, <2>3
<1>7. Eq(G)
  <2> HIDE DEF Eq
  <2> QED
    BY <1>6
<1> HIDE DEF G
<1>8. FoldsLeft(G, h, Zero, t, ProperRatios)
  <2>1. G[{}] = Zero
    <3>1. {} \in SUBSET (1 .. Len(t))
      OBVIOUS
    <3> QED
      BY <1>7, <3>1
  <2>2. ASSUME NEW s \in SUBSET (1 .. Len(t)), s # {}, G[s \ {Max(s)}] \in ProperRatios
        PROVE  G[s] = h[<<G[s \ {Max(s)}], t[Max(s)]>>]
    <3>1. G[s] = Plus(G[s \ {Max(s)}], Agreement(R, FieldsOf(t[Max(s)])))
      BY <1>7, <2>2
    <3> QED
      BY <1>2, <1>5, <2>2, <3>1
  <2> QED
    BY <2>1, <2>2 DEF FoldsLeft
<1>9. Scored(R, t) = Run(h, Zero, t)
  BY <1>1, <1>3, <1>8, LeftFoldRuns
<1>10. PICK g \in [0 .. Len(t) -> ProperRatios] :
         /\ g[0] = Zero
         /\ \A k \in 1 .. Len(t) : g[k] = h[<<g[k - 1], t[k]>>]
         /\ Run(h, Zero, t) = g[Len(t)]
  BY <1>3, RunTrail
<1>11. ASSUME NEW k \in 1 .. Len(t)
       PROVE  g[k] = Plus(g[k - 1], Agreement(R, FieldsOf(t[k])))
  <2>1. g[k - 1] \in ProperRatios /\ t[k] \in O
    <3>1. k - 1 \in 0 .. Len(t)
      OBVIOUS
    <3> QED
      BY <3>1
  <2> QED
    BY <1>2, <1>10, <2>1
<1> QED
  BY <1>9, <1>10, <1>11

(* The sum of k scores is at most k, and k only if each of them is 1.      *)
LEMMA ScoresUpToOne ==
  ASSUME NEW O, FiniteObjects(O), NEW R, IsFiniteSet(R), NEW t \in Seq(O)
  PROVE  /\ Proper(Scored(R, t))
         /\ Scored(R, t).n <= Len(t) * Scored(R, t).d
         /\ Scored(R, t).n = Len(t) * Scored(R, t).d
              <=> \A k \in 1 .. Len(t) : IsOne(Agreement(R, FieldsOf(t[k])))
<1>1. PICK g \in [0 .. Len(t) -> ProperRatios] :
        /\ g[0] = Zero
        /\ \A k \in 1 .. Len(t) : g[k] = Plus(g[k - 1], Agreement(R, FieldsOf(t[k])))
        /\ Scored(R, t) = g[Len(t)]
  BY ScoreRun
<1>2. PICK l \in Nat : l = Len(t)
  OBVIOUS
<1> DEFINE Holds(k) == /\ g[k].n <= k * g[k].d
                       /\ g[k].n = k * g[k].d <=> \A j \in 1 .. k : IsOne(Agreement(R, FieldsOf(t[j])))
           T == {k \in Nat : k <= l => Holds(k)}
<1>3. 0 \in T
  BY <1>1 DEF Zero, Ratio
<1>4. ASSUME NEW k \in Nat, k \in T
      PROVE  k + 1 \in T
  <2> SUFFICES ASSUME k + 1 <= l
               PROVE  Holds(k + 1)
    OBVIOUS
  <2>1. k \in 0 .. Len(t) /\ k + 1 \in 1 .. Len(t) /\ (k + 1) - 1 = k
    BY <1>2
  <2> DEFINE a == Agreement(R, FieldsOf(t[k + 1]))
  <2>2. UpToOne(a)
    <3>1. IsFiniteSet(FieldsOf(t[k + 1]))
      BY <2>1 DEF FiniteObjects
    <3> QED
      BY <3>1, AgreementUpToOne
  <2>3. g[k] \in ProperRatios /\ g[k + 1] = Plus(g[k], a)
    BY <1>1, <2>1
  <2>4. g[k + 1] = [n |-> g[k].n * a.d + a.n * g[k].d, d |-> g[k].d * a.d]
    BY <2>2, <2>3, PlusType DEF UpToOne, ProperRatios, Proper
  <2>5. PICK n \in Nat, d \in Nat \ {0}, c \in Nat, b \in Nat \ {0} :
          n = g[k].n /\ d = g[k].d /\ c = a.n /\ b = a.d
    BY <2>2, <2>3 DEF UpToOne, ProperRatios, Proper, Ratios
  <2>6. c <= b /\ (c = b <=> IsOne(Agreement(R, FieldsOf(t[k + 1]))))
    BY <2>2, <2>5 DEF UpToOne, Proper, IsOne, IsNaN
  <2>7. n <= k * d /\ (n = k * d <=> \A j \in 1 .. k : IsOne(Agreement(R, FieldsOf(t[j]))))
    BY <1>2, <1>4, <2>1, <2>5
  <2>8. g[k + 1].n = n * b + c * d /\ g[k + 1].d = d * b
    BY <2>4, <2>5
  <2> HIDE DEF a
  <2>9. /\ n * b + c * d <= (k + 1) * (d * b)
        /\ n * b + c * d = (k + 1) * (d * b) <=> n = k * d /\ c = b
    BY <2>6, <2>7, SumOfParts
  <2>10. (\A j \in 1 .. k + 1 : IsOne(Agreement(R, FieldsOf(t[j]))))
           <=> (\A j \in 1 .. k : IsOne(Agreement(R, FieldsOf(t[j])))) /\ IsOne(Agreement(R, FieldsOf(t[k + 1])))
    <3>1. \A j : j \in 1 .. k + 1 <=> j \in 1 .. k \/ j = k + 1
      OBVIOUS
    <3> QED
      BY <3>1
  <2> QED
    BY <2>6, <2>7, <2>8, <2>9, <2>10
<1> HIDE DEF T
<1>5. l \in T
  BY <1>3, <1>4, NaturalInduction
<1>6. g[l] \in ProperRatios
  BY <1>2
<1> QED
  BY <1>1, <1>2, <1>5, <1>6 DEF T, Proper, ProperRatios

-----------------------------------------------------------------------------
(* The mean of the scores of all objects but the first: 0 / 0 for one      *)
(* object, and otherwise at most 1, which it is if all have the fields of  *)
(* the first one.                                                          *)
LEMMA UniformityUpToOne ==
  ASSUME NEW O, FiniteObjects(O), NEW objects \in Seq(O), objects # <<>>
  PROVE  /\ Uniformity(objects) \in Ratios
         /\ Len(objects) = 1 => IsNaN(Uniformity(objects))
         /\ Len(objects) # 1 =>
              /\ UpToOne(Uniformity(objects))
              /\ IsOne(Uniformity(objects))
                   <=> \A k \in 2 .. Len(objects) :
                         IsOne(Agreement(FieldsOf(objects[1]), FieldsOf(objects[k])))
<1>1. PICK l \in Nat : l = Len(objects) - 1
  OBVIOUS
<1>2. PICK R : R = FieldsOf(objects[1])
  OBVIOUS
<1>3. IsFiniteSet(R)
  BY <1>2 DEF FiniteObjects
<1>4. PICK t \in Seq(O) : t = Tail(objects)
  <2>1. Len(objects) # 0
    OBVIOUS
  <2>2. Tail(objects) \in Seq(O)
    BY <2>1
  <2> QED
    BY <2>2
<1>5. Len(t) = l /\ \A k \in 1 .. l : t[k] = objects[k + 1]
  BY <1>1, <1>4
<1>6. PICK s : s = Scored(R, t)
  OBVIOUS
<1>7. Proper(s) /\ s.n <= l * s.d /\ (s.n = l * s.d
        <=> \A k \in 1 .. l : IsOne(Agreement(R, FieldsOf(t[k]))))
  BY <1>3, <1>5, <1>6, ScoresUpToOne
<1>8. PICK n \in Nat, d \in Nat \ {0} : n = s.n /\ d = s.d
  BY <1>7 DEF Proper, Ratios
<1>9. Uniformity(objects) = [n |-> n, d |-> d * l]
  <2>1. Uniformity(objects)
          = Over(Scored(FieldsOf(objects[1]), Tail(objects)), Len(objects) - 1)
    BY DEF Uniformity, Scored
  <2>2. Uniformity(objects) = Over(s, l)
    BY <1>1, <1>2, <1>4, <1>6, <2>1
  <2> QED
    BY <1>8, <2>2 DEF Over, Ratio
<1>10. d * l = l * d /\ d * l \in Nat /\ (l = 0 => d * l = 0) /\ (l # 0 => d * l # 0)
  OBVIOUS
<1>11. (\A k \in 1 .. l : IsOne(Agreement(R, FieldsOf(t[k]))))
         <=> \A k \in 2 .. Len(objects) : IsOne(Agreement(R, FieldsOf(objects[k])))
  <2>1. ASSUME \A k \in 1 .. l : IsOne(Agreement(R, FieldsOf(t[k]))), NEW k \in 2 .. Len(objects)
        PROVE  IsOne(Agreement(R, FieldsOf(objects[k])))
    <3>1. k - 1 \in 1 .. l /\ (k - 1) + 1 = k
      BY <1>1
    <3> QED
      BY <1>5, <2>1, <3>1
  <2>2. ASSUME \A k \in 2 .. Len(objects) : IsOne(Agreement(R, FieldsOf(objects[k]))),
               NEW k \in 1 .. l
        PROVE  IsOne(Agreement(R, FieldsOf(t[k])))
    <3>1. k + 1 \in 2 .. Len(objects)
      BY <1>1
    <3> QED
      BY <1>5, <2>2, <3>1
  <2> QED
    BY <2>1, <2>2
<1>12. PICK m \in Nat : m = d * l
  BY <1>10
<1>13. Uniformity(objects) = [n |-> n, d |-> m]
  BY <1>9, <1>12
<1>14. /\ n <= m /\ (l = 0 <=> m = 0)
       /\ n = m <=> \A k \in 2 .. Len(objects) : IsOne(Agreement(R, FieldsOf(objects[k])))
  BY <1>7, <1>8, <1>10, <1>11, <1>12
<1>15. Len(objects) = 1 <=> l = 0
  BY <1>1
<1> HIDE <1>9
<1> QED
  BY <1>2, <1>13, <1>14, <1>15 DEF UpToOne, Proper, Ratios, IsOne, IsNaN

(* The share of scalars among the values: 1 if there are values, and       *)
(* scalars only.                                                           *)
LEMMA PrimitiveUpToOne ==
  ASSUME NEW O, FiniteObjects(O), NEW objects \in Seq(O)
  PROVE  /\ UpToOne(CheckPrimitiveValues(objects))
         /\ IsOne(CheckPrimitiveValues(objects))
              <=> /\ \E i \in DOMAIN objects : FieldsOf(objects[i]) # {}
                  /\ \A i \in DOMAIN objects : \A f \in FieldsOf(objects[i]) :
                       IsScalar(objects[i].fields[f])
<1> DEFINE I == DOMAIN objects
           places(i) == {<<i, f>> : f \in FieldsOf(objects[i])}
           cells == UNION {places(i) : i \in I}
           primitive == {c \in cells : IsScalar(objects[c[1]].fields[c[2]])}
<1>1. IsFiniteSet(cells)
  <2>1. IsFiniteSet(I)
    BY FS_Interval
  <2>2. ASSUME NEW i \in I
        PROVE  IsFiniteSet(places(i))
    <3>1. objects[i] \in O
      OBVIOUS
    <3>2. IsFiniteSet(FieldsOf(objects[i]))
      BY <3>1 DEF FiniteObjects
    <3> DEFINE h == [f \in FieldsOf(objects[i]) |-> <<i, f>>]
    <3>3. h \in Surjection(FieldsOf(objects[i]), places(i))
      BY DEF Surjection
    <3> QED
      BY <3>2, <3>3, FS_Surjection
  <2>3. IsFiniteSet({places(i) : i \in I})
    <3> DEFINE h == [i \in I |-> places(i)]
    <3>1. h \in Surjection(I, {places(i) : i \in I})
      BY DEF Surjection
    <3> QED
      BY <2>1, <3>1, FS_Surjection
  <2>4. \A T \in {places(i) : i \in I} : IsFiniteSet(T)
    BY <2>2
  <2> QED
    BY <2>3, <2>4, FS_UNION
<1>2. \A c : c \in cells <=> \E i \in I : \E f \in FieldsOf(objects[i]) : c = <<i, f>>
  OBVIOUS
<1>3. CheckPrimitiveValues(objects)
        = IF cells = {} THEN Zero ELSE Ratio(Cardinality(primitive), Cardinality(cells))
  BY DEF CheckPrimitiveValues
<1> HIDE DEF cells
<1>4. primitive \in SUBSET cells
  OBVIOUS
<1>5. cells # {} <=> \E i \in I : FieldsOf(objects[i]) # {}
  BY <1>2
<1>6. primitive = cells
        <=> \A i \in I : \A f \in FieldsOf(objects[i]) : IsScalar(objects[i].fields[f])
  <2>1. primitive = cells <=> \A c \in cells : IsScalar(objects[c[1]].fields[c[2]])
    OBVIOUS
  <2>2. ASSUME \A c \in cells : IsScalar(objects[c[1]].fields[c[2]]),
               NEW i \in I, NEW f \in FieldsOf(objects[i])
        PROVE  IsScalar(objects[i].fields[f])
    <3>1. <<i, f>> \in cells
      BY <1>2
    <3>2. <<i, f>>[1] = i /\ <<i, f>>[2] = f
      OBVIOUS
    <3> QED
      BY <2>2, <3>1, <3>2
  <2>3. ASSUME \A i \in I : \A f \in FieldsOf(objects[i]) : IsScalar(objects[i].fields[f]),
               NEW c \in cells
        PROVE  IsScalar(objects[c[1]].fields[c[2]])
    <3>1. PICK i \in I : \E f \in FieldsOf(objects[i]) : c = <<i, f>>
      BY <1>2
    <3>2. PICK f \in FieldsOf(objects[i]) : c = <<i, f>>
      BY <3>1
    <3>3. c[1] = i /\ c[2] = f
      BY <3>2
    <3> QED
      BY <2>3, <3>3
  <2> QED
    BY <2>1, <2>2, <2>3
<1>7. PICK p \in Nat, v \in Nat : p = Cardinality(primitive) /\ v = Cardinality(cells)
  BY <1>1, <1>4, FS_Subset, FS_CardinalityType
<1>8. p <= v /\ (p = v <=> primitive = cells) /\ (v = 0 <=> cells = {})
  BY <1>1, <1>4, <1>7, FS_Subset, FS_EmptySet
<1> HIDE DEF primitive, I
<1>9. CASE cells = {}
  <2>1. CheckPrimitiveValues(objects) = [n |-> 0, d |-> 1]
    BY <1>3, <1>9 DEF Zero, Ratio
  <2> QED
    BY <1>5, <1>9, <2>1 DEF UpToOne, Proper, Ratios, IsOne, I
<1>10. CASE cells # {}
  <2>1. CheckPrimitiveValues(objects) = [n |-> p, d |-> v]
    BY <1>3, <1>7, <1>10 DEF Ratio
  <2>2. UpToOne(CheckPrimitiveValues(objects)) /\ (IsOne(CheckPrimitiveValues(objects)) <=> p = v)
    BY <1>8, <1>10, <2>1 DEF UpToOne, Proper, Ratios, IsOne, IsNaN
  <2> QED
    BY <1>5, <1>6, <1>8, <1>10, <2>2 DEF I
<1> QED
  BY <1>9, <1>10

-----------------------------------------------------------------------------
(* The objects of an array, in their order: all of it if there is nothing  *)
(* else in it.                                                             *)
ObjectsIn(V) == {v \in V : IsObject(v)}

LEMMA ObjectsRun ==
  ASSUME NEW V, NEW t \in Seq(V)
  PROVE  \E g \in [0 .. Len(t) -> Seq(ObjectsIn(V))] :
           /\ g[0] = <<>>
           /\ \A k \in 1 .. Len(t) :
                g[k] = IF IsObject(t[k]) THEN Append(g[k - 1], t[k]) ELSE g[k - 1]
           /\ Objects(t) = g[Len(t)]
<1> DEFINE O == Seq(ObjectsIn(V))
           Next1(v, x) == IF IsObject(x) THEN Append(v, x) ELSE v
           h == [p \in O \X V |-> Next1(p[1], p[2])]
           Eq(F) == F = [s \in SUBSET (1 .. Len(t)) |->
                           IF s = {} THEN <<>> ELSE Next1(F[s \ {Max(s)}], t[Max(s)])]
           G == CHOOSE F : Eq(F)
<1>1. Objects(t) = G[1 .. Len(t)]
  <2>1. DOMAIN t = 1 .. Len(t)
    OBVIOUS
  <2> QED
    BY <2>1 DEF Objects, FoldLeft, MapThenFoldSet
<1>2. \A v \in O : \A x \in V : h[<<v, x>>] = Next1(v, x) /\ h[<<v, x>>] \in O
  BY DEF ObjectsIn
<1>3. Running(h, <<>>, t, O, V)
  <2>1. <<>> \in O
    OBVIOUS
  <2>2. h \in [O \X V -> O]
    <3>1. \A p \in O \X V : Next1(p[1], p[2]) \in O
      BY <1>2
    <3> QED
      BY <3>1
  <2> QED
    BY <2>1, <2>2 DEF Running
<1> HIDE DEF h, O
<1>4. PICK F : LeftFold(F, h, <<>>, t, O)
  BY <1>3, LeftFoldSolved
<1>5. \A s \in SUBSET (1 .. Len(t)) : s # {} => t[Max(s)] \in V
  BY ElementIn
<1> HIDE DEF Next1
<1>6. Eq(F)
  <2>1. \A s \in SUBSET (1 .. Len(t)) : F[s \ {Max(s)}] \in O
    BY <1>4 DEF LeftFold
  <2>2. \A s \in SUBSET (1 .. Len(t)) :
          F[s] = IF s = {} THEN <<>> ELSE Next1(F[s \ {Max(s)}], t[Max(s)])
    BY <1>2, <1>4, <1>5, <2>1 DEF LeftFold
  <2>3. F = [s \in SUBSET (1 .. Len(t)) |-> F[s]]
    BY <1>4 DEF LeftFold
  <2> QED
    BY <2>2, <2>3
<1>7. Eq(G)
  <2> HIDE DEF Eq
  <2> QED
    BY <1>6
<1> HIDE DEF G
<1>8. FoldsLeft(G, h, <<>>, t, O)
  BY <1>2, <1>5, <1>7 DEF FoldsLeft
<1>9. Objects(t) = Run(h, <<>>, t)
  BY <1>1, <1>3, <1>8, LeftFoldRuns
<1>10. PICK g \in [0 .. Len(t) -> O] :
         /\ g[0] = <<>>
         /\ \A k \in 1 .. Len(t) : g[k] = h[<<g[k - 1], t[k]>>]
         /\ Run(h, <<>>, t) = g[Len(t)]
  BY <1>3, RunTrail
<1>11. ASSUME NEW k \in 1 .. Len(t)
       PROVE  g[k] = Next1(g[k - 1], t[k])
  <2>1. k - 1 \in 0 .. Len(t)
    OBVIOUS
  <2>2. g[k - 1] \in O /\ t[k] \in V
    BY <2>1
  <2> QED
    BY <1>2, <1>10, <2>2
<1> QED
  BY <1>9, <1>10, <1>11 DEF O, Next1

LEMMA ObjectsOf ==
  ASSUME NEW V, NEW t \in Seq(V)
  PROVE  /\ Objects(t) \in Seq(ObjectsIn(V))
         /\ Len(Objects(t)) <= Len(t)
         /\ Objects(t) # <<>> => \E k \in DOMAIN t : IsObject(t[k])
         /\ (\A k \in DOMAIN t : IsObject(t[k])) => Objects(t) = t
<1>1. PICK g \in [0 .. Len(t) -> Seq(ObjectsIn(V))] :
        /\ g[0] = <<>>
        /\ \A k \in 1 .. Len(t) :
             g[k] = IF IsObject(t[k]) THEN Append(g[k - 1], t[k]) ELSE g[k - 1]
        /\ Objects(t) = g[Len(t)]
  BY ObjectsRun
<1>2. PICK l \in Nat : l = Len(t)
  OBVIOUS
<1> DEFINE Holds(k) == /\ Len(g[k]) <= k
                       /\ g[k] # <<>> => \E j \in DOMAIN t : IsObject(t[j])
                       /\ (\A j \in DOMAIN t : IsObject(t[j])) => g[k] = SubSeq(t, 1, k)
           T == {k \in Nat : k <= l => Holds(k)}
<1>3. 0 \in T
  <2>1. SubSeq(t, 1, 0) = <<>> /\ Len(<<>>) = 0
    OBVIOUS
  <2> QED
    BY <1>1, <2>1
<1>4. ASSUME NEW k \in Nat, k \in T
      PROVE  k + 1 \in T
  <2> SUFFICES ASSUME k + 1 <= l
               PROVE  Holds(k + 1)
    OBVIOUS
  <2>1. k \in 0 .. Len(t) /\ k + 1 \in 1 .. Len(t) /\ (k + 1) - 1 = k /\ k + 1 \in DOMAIN t
    BY <1>2
  <2>2. g[k] \in Seq(ObjectsIn(V)) /\ Holds(k)
    BY <1>2, <1>4, <2>1
  <2>3. g[k + 1] = IF IsObject(t[k + 1]) THEN Append(g[k], t[k + 1]) ELSE g[k]
    BY <1>1, <2>1
  <2>4. CASE IsObject(t[k + 1])
    <3>1. t[k + 1] \in ObjectsIn(V)
      BY <2>1, <2>4 DEF ObjectsIn
    <3>2. g[k + 1] = Append(g[k], t[k + 1]) /\ Len(g[k + 1]) = Len(g[k]) + 1
      BY <2>2, <2>3, <2>4, <3>1
    <3>3. g[k] = SubSeq(t, 1, k) => g[k + 1] = SubSeq(t, 1, k + 1)
      <4>1. SubSeq(t, 1, k + 1) = Append(SubSeq(t, 1, k), t[k + 1])
        BY <2>1
      <4> QED
        BY <3>2, <4>1
    <3>4. Len(g[k]) \in Nat
      BY <2>2
    <3>5. Len(g[k + 1]) <= k + 1
      BY <2>2, <3>2, <3>4
    <3> HIDE DEF T
    <3> QED
      BY <2>1, <2>2, <2>4, <3>3, <3>5
  <2>5. CASE ~IsObject(t[k + 1])
    <3>1. g[k + 1] = g[k] /\ Len(g[k]) \in Nat
      BY <2>2, <2>3, <2>5
    <3> HIDE DEF T
    <3> QED
      BY <2>1, <2>2, <2>5, <3>1
  <2> QED
    BY <2>4, <2>5
<1> HIDE DEF T
<1>5. l \in T
  BY <1>3, <1>4, NaturalInduction
<1>6. g[l] \in Seq(ObjectsIn(V)) /\ SubSeq(t, 1, l) = t
  BY <1>2
<1>7. Holds(l)
  BY <1>5 DEF T
<1>8. Objects(t) = g[l]
  BY <1>1, <1>2
<1> QED
  BY <1>2, <1>6, <1>7, <1>8

(* An array's eligibility: undefined for one object alone, if that is long *)
(* enough, and otherwise at most 1.                                        *)
Defined(v, minArray) ==
  LET r == AnalyzeArray(v, minArray)
  IN /\ r \in Ratios
     /\ IF IsNaN(r) THEN Len(v) = 1 /\ IsObject(v[1]) /\ minArray <= 1
        ELSE r.n <= r.d

LEMMA ArrayInRange ==
  ASSUME NEW V, FiniteObjects(ObjectsIn(V)), NEW arr \in Seq(V), NEW minArray \in Int
  PROVE  Defined(arr, minArray)
<1>1. PICK objects : objects = Objects(arr)
  OBVIOUS
<1>2. /\ objects \in Seq(ObjectsIn(V)) /\ Len(objects) <= Len(arr)
      /\ objects # <<>> => \E k \in DOMAIN arr : IsObject(arr[k])
  BY <1>1, ObjectsOf
<1> DEFINE scored == Len(arr) >= minArray /\ objects # <<>> /\ MostlyObjects(arr)
           u == Uniformity(objects)
           p == CheckPrimitiveValues(objects)
<1>3. AnalyzeArray(arr, minArray) = IF scored THEN Times(u, p) ELSE Zero
  BY <1>1 DEF AnalyzeArray
<1>4. CASE ~scored
  <2>1. AnalyzeArray(arr, minArray) = [n |-> 0, d |-> 1]
    BY <1>3, <1>4 DEF Zero, Ratio
  <2> QED
    BY <2>1 DEF Defined, Ratios, IsNaN
<1>5. CASE scored
  <2>1. u \in Ratios /\ UpToOne(p)
    BY <1>2, <1>5, UniformityUpToOne, PrimitiveUpToOne
  <2>2. AnalyzeArray(arr, minArray) = [n |-> u.n * p.n, d |-> u.d * p.d]
    BY <1>3, <1>5 DEF Times, Ratio
  <2>3. PICK a \in Nat, b \in Nat, c \in Nat, d \in Nat \ {0} :
          a = u.n /\ b = u.d /\ c = p.n /\ d = p.d /\ c <= d
    BY <2>1 DEF UpToOne, Proper, Ratios
  <2>4. PICK n \in Nat, m \in Nat : n = a * c /\ m = b * d
    OBVIOUS
  <2>5. AnalyzeArray(arr, minArray) = [n |-> n, d |-> m]
    BY <2>2, <2>3, <2>4
  <2>6. CASE Len(objects) = 1
    <3>1. Len(arr) = 1
      <4>1. 10 * Len(objects) >= 8 * Len(arr)
        BY <1>1, <1>5 DEF MostlyObjects
      <4>2. Len(arr) \in Nat
        OBVIOUS
      <4> QED
        BY <1>2, <2>6, <4>1, <4>2
    <3>2. IsObject(arr[1])
      <4>1. PICK k \in DOMAIN arr : IsObject(arr[k])
        BY <1>2, <1>5
      <4> QED
        BY <3>1, <4>1
    <3>3. m = 0
      <4>1. b = 0
        BY <1>2, <1>5, <2>3, <2>6, UniformityUpToOne DEF IsNaN
      <4> QED
        BY <2>4, <4>1
    <3>4. minArray <= 1
      BY <1>5, <3>1
    <3> QED
      BY <2>5, <3>1, <3>2, <3>3, <3>4 DEF Defined, Ratios, IsNaN
  <2>7. CASE Len(objects) # 1
    <3>1. a <= b /\ b # 0
      BY <1>2, <1>5, <2>3, <2>7, UniformityUpToOne DEF UpToOne, Proper
    <3>2. n <= m
      BY <2>3, <2>4, <3>1, ProductOfParts
    <3>3. m # 0
      BY <2>4, <3>1
    <3> QED
      BY <2>5, <3>2, <3>3 DEF Defined, Ratios, IsNaN
  <2> QED
    BY <2>6, <2>7
<1> QED
  BY <1>4, <1>5

-----------------------------------------------------------------------------
(* The sum over the arrays of an object stays at most their number.        *)
Share(fields, minArray, f) == AnalyzeArray(fields[f].items, minArray)
ShareTotal(fields, minArray, S) ==
  FoldSet(LAMBDA f, r : Plus(r, AnalyzeArray(fields[f].items, minArray)), Zero, S)

LEMMA SharesUpToOne ==
  ASSUME NEW S, IsFiniteSet(S), NEW fields, NEW minArray,
         \A f \in S : UpToOne(Share(fields, minArray, f))
  PROVE  /\ Proper(ShareTotal(fields, minArray, S))
         /\ ShareTotal(fields, minArray, S).n <= Cardinality(S) * ShareTotal(fields, minArray, S).d
<1> DEFINE share(f) == Share(fields, minArray, f)
           c == [s \in SUBSET S |-> One(s)]
           h == [p \in (SUBSET S) \X ProperRatios |->
                   IF p[1] = {} THEN Zero ELSE Plus(p[2], share(One(p[1])))]
           Eq(F) == F = [s \in SUBSET S |-> IF s = {} THEN Zero
                                            ELSE Plus(F[s \ {One(s)}], share(One(s)))]
           G == CHOOSE F : Eq(F)
<1>1. ShareTotal(fields, minArray, S) = G[S]
  BY DEF ShareTotal, Share, FoldSet, MapThenFoldSet, One
<1>2. \A s \in SUBSET S : s # {} => c[s] = One(s) /\ One(s) \in s
  BY OneIn
<1>3. \A s \in SUBSET S : \A v \in ProperRatios :
        h[<<s, v>>] = IF s = {} THEN Zero ELSE Plus(v, share(One(s)))
  OBVIOUS
<1>4. Zero \in ProperRatios
  BY DEF Zero, Ratio, ProperRatios, Ratios
<1>5. \A s \in SUBSET S : \A v \in ProperRatios : h[<<s, v>>] \in ProperRatios
  <2> SUFFICES ASSUME NEW s \in SUBSET S, NEW v \in ProperRatios
               PROVE  h[<<s, v>>] \in ProperRatios
    OBVIOUS
  <2>1. CASE s = {}
    BY <1>3, <1>4, <2>1
  <2>2. CASE s # {}
    <3>1. Proper(v) /\ Proper(share(One(s)))
      BY <1>2, <2>2 DEF ProperRatios, Proper, UpToOne
    <3>2. Plus(v, share(One(s))) \in ProperRatios
      <4> HIDE DEF share
      <4> QED
        BY <3>1, PlusType DEF ProperRatios, Proper
    <3> QED
      BY <1>3, <2>2, <3>2
  <2> QED
    BY <2>1, <2>2
<1>6. \A s \in SUBSET S : s # {} => c[s] \in s
  BY <1>2
<1>7. PICK F \in [SUBSET S -> ProperRatios] : FoldsBy(F, S, Zero, c, h)
  <2> HIDE DEF c, h
  <2> QED
    BY <1>4, <1>5, <1>6, FoldExists
<1>8. Eq(F)
  <2>1. ASSUME NEW s \in SUBSET S
        PROVE  F[s] = IF s = {} THEN Zero ELSE Plus(F[s \ {One(s)}], share(One(s)))
    <3>1. F[s \ {One(s)}] \in ProperRatios /\ c[s] = One(s)
      OBVIOUS
    <3> HIDE DEF c, h, share
    <3> QED
      BY <1>3, <1>7, <3>1 DEF FoldsBy
  <2>2. F = [s \in SUBSET S |-> F[s]]
    OBVIOUS
  <2> QED
    BY <2>1, <2>2
<1>9. Eq(G)
  <2> HIDE DEF Eq
  <2> QED
    BY <1>8
<1> HIDE DEF G, share, c, h
<1>10. \A s \in SUBSET S : G[s] = IF s = {} THEN Zero ELSE Plus(G[s \ {One(s)}], share(One(s)))
  BY <1>9
<1> DEFINE Holds(s) == Proper(G[s]) /\ G[s].n <= Cardinality(s) * G[s].d
           C == {s \in SUBSET S : ~Holds(s)}
<1>11. ASSUME C # {}
       PROVE  FALSE
  <2>1. \A s \in C : IsFiniteSet(s)
    BY FS_Subset
  <2>2. PICK s \in C : \A r \in C : r \subseteq s => r = s
    <3> HIDE DEF C
    <3> QED
      BY <1>11, <2>1, LeastSet
  <2>3. CASE s = {}
    <3>1. G[s] = [n |-> 0, d |-> 1] /\ Cardinality(s) = 0
      BY <1>10, <2>3, FS_EmptySet DEF Zero, Ratio
    <3> QED
      BY <3>1 DEF Proper, Ratios
  <2>4. CASE s # {}
    <3> DEFINE r == s \ {One(s)}
    <3>1. One(s) \in s /\ r \in SUBSET S /\ r # s
      BY <1>2, <2>4
    <3>2. Holds(r)
      BY <2>2, <3>1
    <3>3. PICK k \in Nat : k = Cardinality(r) /\ Cardinality(s) = k + 1
      <4>1. IsFiniteSet(s)
        BY <2>1
      <4>2. Cardinality(r) = Cardinality(s) - 1 /\ Cardinality(s) \in Nat /\ Cardinality(r) \in Nat
        BY <3>1, <4>1, FS_RemoveElement, FS_CardinalityType
      <4> HIDE DEF r
      <4> QED
        BY <4>2
    <3>4. G[s] = Plus(G[r], share(One(s)))
      BY <1>10, <2>4
    <3>5. UpToOne(share(One(s)))
      BY <3>1 DEF share
    <3> HIDE DEF r
    <3>6. G[s] = [n |-> G[r].n * share(One(s)).d + share(One(s)).n * G[r].d,
                  d |-> G[r].d * share(One(s)).d] /\ Proper(G[s])
      BY <3>2, <3>4, <3>5, PlusType DEF UpToOne
    <3>7. PICK n \in Nat, d \in Nat \ {0}, a \in Nat, b \in Nat \ {0} :
            n = G[r].n /\ d = G[r].d /\ a = share(One(s)).n /\ b = share(One(s)).d /\ a <= b
      BY <3>2, <3>5 DEF UpToOne, Proper, Ratios
    <3>8. n <= k * d
      BY <3>2, <3>3, <3>7
    <3>9. n * b + a * d <= (k + 1) * (d * b)
      <4>1. /\ n \in Nat /\ d \in Nat \ {0} /\ a \in Nat /\ b \in Nat \ {0} /\ k \in Nat
            /\ n <= k * d /\ a <= b
        BY <3>7, <3>8
      <4> HIDE <3>3, <3>7
      <4> QED
        BY <4>1, SumOfParts
    <3>10. G[s].n = n * b + a * d /\ G[s].d = d * b
      BY <3>6, <3>7
    <3>11. Holds(s)
      BY <3>3, <3>6, <3>9, <3>10
    <3> QED
      BY <3>11
  <2> QED
    BY <2>3, <2>4
<1>12. Holds(S)
  BY <1>11
<1> QED
  BY <1>1, <1>12

(* An object's eligibility is the mean over its arrays, times the share of *)
(* its fields that hold one: both at most 1.                               *)
LEMMA ObjectInRange ==
  ASSUME NEW V, FiniteObjects(ObjectsIn(V)), NEW fields, IsFiniteSet(DOMAIN fields),
         \A f \in DOMAIN fields : fields[f].kind = "array" => fields[f].items \in Seq(V),
         NEW minArray \in Int
  PROVE  UpToOne(AnalyzeObject(fields, minArray))
<1> DEFINE r == AnalyzeObject(fields, minArray)
           share(f) == Share(fields, minArray, f)
           E == {f \in DOMAIN fields :
                   fields[f].kind = "array" /\ share(f).n > 0 /\ ~IsNaN(share(f))}
           total == ShareTotal(fields, minArray, E)
<1>1. r = IF E = {} THEN Zero
          ELSE Times(Over(total, Cardinality(E)), Ratio(Cardinality(E), Cardinality(DOMAIN fields)))
  BY DEF AnalyzeObject, Share, ShareTotal
<1>2. CASE E = {}
  <2>1. r = [n |-> 0, d |-> 1]
    BY <1>1, <1>2 DEF Zero, Ratio
  <2> QED
    BY <2>1 DEF UpToOne, Proper, Ratios
<1>3. CASE E # {}
  <2>1. IsFiniteSet(E) /\ E \in SUBSET DOMAIN fields
    BY FS_Subset
  <2>2. PICK e \in Nat, d \in Nat :
          e = Cardinality(E) /\ d = Cardinality(DOMAIN fields) /\ e <= d /\ e # 0
    BY <1>3, <2>1, FS_CardinalityType, FS_Subset, FS_EmptySet
  <2>3. ASSUME NEW f \in E
        PROVE  UpToOne(Share(fields, minArray, f))
    <3>1. Defined(fields[f].items, minArray)
      BY ArrayInRange
    <3> QED
      BY <3>1 DEF Defined, Share, UpToOne, Proper, IsNaN
  <2>4. Proper(total) /\ total.n <= e * total.d
    <3> HIDE DEF E
    <3> QED
      BY <2>1, <2>2, <2>3, SharesUpToOne
  <2>5. PICK n \in Nat, m \in Nat \ {0} : n = total.n /\ m = total.d /\ n <= e * m
    BY <2>4 DEF Proper, Ratios
  <2>6. r = [n |-> n * e, d |-> (m * e) * d]
    <3>1. r = Times(Over(total, e), Ratio(e, d))
      BY <1>1, <1>3, <2>2
    <3> QED
      BY <2>5, <3>1 DEF Times, Over, Ratio
  <2>7. PICK q \in Nat : q = m * e /\ q # 0 /\ n <= q
    <3>1. m * e = e * m /\ m * e \in Nat /\ m * e # 0
      BY <2>2
    <3> QED
      BY <2>5, <3>1
  <2>8. n * e \in Nat /\ q * d \in Nat /\ n * e <= q * d
    BY <2>2, <2>7, ProductOfParts
  <2>9. q * d # 0
    BY <2>2, <2>7
  <2>10. PICK x \in Nat, y \in Nat : x = n * e /\ y = q * d /\ x <= y /\ y # 0
    BY <2>8, <2>9
  <2>11. r = [n |-> x, d |-> y]
    BY <2>6, <2>7, <2>10
  <2> HIDE DEF r
  <2>12. UpToOne(r)
    BY <2>10, <2>11 DEF UpToOne, Proper, Ratios
  <2> QED
    BY <2>12 DEF r
<1> QED
  BY <1>2, <1>3

-----------------------------------------------------------------------------
(* The values of a text are JSON values, and no step changes them.         *)
ValuesInv == config \in Configs /\ values \in [json -> Values]

(* What the parser answers is among the values there are.                  *)
LEMMA InitialValues == TextInit => ValuesInv
<1> SUFFICES ASSUME TextInit PROVE ValuesInv
  OBVIOUS
<1>1. text \in Texts
  BY DEF TextInit, ScanInit
<1>2. ParsesTo(text) \subseteq Values
  BY <1>1, ValuesAssumption
<1> QED
  BY <1>2 DEF TextInit, ValuesInv

(* What a text parses to is looked at and never written.                   *)
LEMMA ValuesKept ==
  ASSUME [TextNext]_textVars
  PROVE  UNCHANGED <<json, config, values>>
BY DEF TextNext, textVars, TooLarge, EncodeWhole, CompactWhole, KeepWhole, StartScan, ScanOn,
       StripPlain, KeepPlain, StartMixed, KeepMixed, ReplaceBlob, FinishMixed, Finish,
       scanVars, Scan, PassBy, Reject, Find, NotEncoded

(* The values stay among those there are.                                  *)
THEOREM ValuesKeptByText == TextSpec => []ValuesInv
<1>1. ValuesInv /\ [TextNext]_textVars => ValuesInv'
  BY ValuesKept DEF ValuesInv
<1> QED
  BY InitialValues, <1>1, PTL DEF TextSpec

(* Objects have finitely many fields.                                      *)
LEMMA ValuesFinite == FiniteObjects(ObjectsIn(Values))
BY ValuesAssumption DEF Documents, FiniteObjects, ObjectsIn, IsObject, FieldsOf

(* min_array_length is a number.                                           *)
LEMMA MinArrayLengthType ==
  ASSUME ValuesInv
  PROVE  MinArrayLength(config) \in Int
BY TextAssumption DEF ValuesInv, MinArrayLength

(* Each kind of value has an eligibility from 0 to 1, or is the array of   *)
(* one object.                                                             *)
LEMMA EligibilityHolds == ValuesInv => EligibilityInRange
<1> SUFFICES ASSUME ValuesInv, NEW b \in json
             PROVE  IF IsNaN(TabularEligibility(b))
                    THEN values[b].kind = "array" /\ Len(values[b].items) = 1
                           /\ IsObject(values[b].items[1]) /\ MinArrayLength(config) <= 1
                    ELSE TabularEligibility(b).n <= TabularEligibility(b).d
  BY DEF EligibilityInRange
<1> DEFINE v == values[b]
           minArray == MinArrayLength(config)
<1>1. v \in Values /\ minArray \in Int
  BY MinArrayLengthType DEF ValuesInv
<1>2. TabularEligibility(b) = AnalyzeValue(v, minArray)
  BY DEF TabularEligibility
<1> HIDE DEF v, minArray
<1>3. CASE v.kind = "scalar"
  <2>1. AnalyzeValue(v, minArray) = [n |-> 0, d |-> 1]
    BY <1>3 DEF AnalyzeValue, Zero, Ratio
  <2> QED
    BY <1>2, <2>1 DEF IsNaN
<1>4. CASE v.kind = "array" /\ v.items \in Seq(Values)
  <2>1. AnalyzeValue(v, minArray) = AnalyzeArray(v.items, minArray)
    BY <1>4 DEF AnalyzeValue
  <2>2. Defined(v.items, minArray)
    BY <1>1, <1>4, ValuesFinite, ArrayInRange
  <2> QED
    BY <1>2, <1>4, <2>1, <2>2 DEF Defined, v, minArray
<1>5. CASE v.kind = "object" /\ IsFiniteSet(DOMAIN v.fields) /\ v.fields \in [DOMAIN v.fields -> Values]
  <2>1. AnalyzeValue(v, minArray) = AnalyzeObject(v.fields, minArray)
    BY <1>5 DEF AnalyzeValue
  <2>2. ASSUME NEW f \in DOMAIN v.fields, v.fields[f].kind = "array"
        PROVE  v.fields[f].items \in Seq(Values)
    BY <1>5, <2>2, ValuesAssumption DEF Documents
  <2>3. UpToOne(AnalyzeObject(v.fields, minArray))
    BY <1>1, <1>5, <2>2, ValuesFinite, ObjectInRange
  <2> QED
    BY <1>2, <2>1, <2>3 DEF UpToOne, Proper, IsNaN
<1> QED
  BY <1>1, <1>3, <1>4, <1>5, ValuesAssumption DEF Documents

(* The eligibility of a value is a number from 0 to 1, or it is that of an *)
(* array of one object, which min_array_length lets through: the mean over *)
(* the objects after the first is 0 / 0 (analyzeArray).                    *)
THEOREM EligibilityIsInRange == TextSpec => []EligibilityInRange
BY ValuesKeptByText, EligibilityHolds, PTL

-----------------------------------------------------------------------------
(* Two objects have the same fields as getUniformFields compares them.     *)
LEMMA SameFieldsMeansEqual ==
  ASSUME NEW o, NEW first, IsFiniteSet(FieldsOf(o)), IsFiniteSet(FieldsOf(first))
  PROVE  SameFields(o, first) <=> FieldsOf(o) = FieldsOf(first)
<1>1. FieldsOf(first) \subseteq FieldsOf(o) /\ Cardinality(FieldsOf(o)) = Cardinality(FieldsOf(first))
        => FieldsOf(first) = FieldsOf(o)
  BY FS_Subset
<1> QED
  BY <1>1 DEF SameFields

(* The array is all objects, each of them with fields, and long enough.    *)
Scorable(arr, minArray) ==
  /\ Len(arr) >= 2 /\ Len(arr) >= minArray
  /\ \A k \in DOMAIN arr : IsObject(arr[k]) /\ FieldsOf(arr[k]) # {}

(* Scored 1 means as many fields, the same, and scalars in all of them:    *)
(* what the encoder asks of a table, but for the values of the first row.  *)
LEMMA OneIsATable ==
  ASSUME NEW V, FiniteObjects(ObjectsIn(V)), NEW arr \in Seq(V), NEW minArray \in Int,
         Scorable(arr, minArray)
  PROVE  IsOne(AnalyzeArray(arr, minArray)) <=> HasUniformFields(arr) /\ AllScalars(arr[1])
<1>1. PICK l \in Nat : l = Len(arr) /\ l >= 2 /\ DOMAIN arr = 1 .. l
  BY DEF Scorable
<1>2. Objects(arr) = arr /\ arr \in Seq(ObjectsIn(V)) /\ arr # <<>> /\ Len(arr) # 1
  <2>1. \A k \in DOMAIN arr : IsObject(arr[k])
    BY DEF Scorable
  <2>2. Objects(arr) = arr
    BY <2>1, ObjectsOf
  <2>3. Objects(arr) \in Seq(ObjectsIn(V))
    BY ObjectsOf
  <2> QED
    BY <1>1, <2>2, <2>3
<1> DEFINE u == Uniformity(arr)
           p == CheckPrimitiveValues(arr)
           same == \A k \in 2 .. l : FieldsOf(arr[k]) = FieldsOf(arr[1])
           scalars == \A k \in 1 .. l : AllScalars(arr[k])
<1>3. AnalyzeArray(arr, minArray) = [n |-> u.n * p.n, d |-> u.d * p.d]
  <2>1. 10 * l >= 8 * l
    OBVIOUS
  <2>2. MostlyObjects(arr)
    BY <1>1, <1>2, <2>1 DEF MostlyObjects
  <2>3. AnalyzeArray(arr, minArray) = Times(u, p)
    BY <1>2, <2>2 DEF AnalyzeArray, Scorable
  <2> QED
    BY <2>3 DEF Times, Ratio
<1>4. /\ UpToOne(u)
      /\ IsOne(u) <=> \A k \in 2 .. l : IsOne(Agreement(FieldsOf(arr[1]), FieldsOf(arr[k])))
  BY <1>1, <1>2, UniformityUpToOne
<1>5. \A k \in 1 .. l : IsFiniteSet(FieldsOf(arr[k])) /\ FieldsOf(arr[k]) # {} /\ IsObject(arr[k])
  BY <1>1, <1>2 DEF FiniteObjects, Scorable
<1>6. IsOne(u) <=> same
  <2>1. ASSUME NEW k \in 2 .. l
        PROVE  IsOne(Agreement(FieldsOf(arr[1]), FieldsOf(arr[k]))) <=> FieldsOf(arr[k]) = FieldsOf(arr[1])
    <3>1. 1 \in 1 .. l /\ k \in 1 .. l
      BY <1>1
    <3> QED
      BY <1>5, <3>1, AgreementUpToOne
  <2> QED
    BY <1>4, <2>1
<1>7. UpToOne(p) /\ (IsOne(p) <=> scalars)
  <2>1. 1 \in DOMAIN arr
    BY <1>1
  <2>2. \E i \in DOMAIN arr : FieldsOf(arr[i]) # {}
    BY <2>1 DEF Scorable
  <2>3. /\ UpToOne(p)
        /\ IsOne(p) <=> \A i \in DOMAIN arr : \A f \in FieldsOf(arr[i]) : IsScalar(arr[i].fields[f])
    BY <1>2, <2>2, PrimitiveUpToOne
  <2> QED
    BY <1>1, <2>3 DEF AllScalars
<1>8. IsOne(AnalyzeArray(arr, minArray)) <=> same /\ scalars
  <2>1. PICK a \in Nat, b \in Nat \ {0}, c \in Nat, d \in Nat \ {0} :
          a = u.n /\ b = u.d /\ c = p.n /\ d = p.d /\ a <= b /\ c <= d
    BY <1>4, <1>7 DEF UpToOne, Proper, Ratios
  <2>2. (IsOne(u) <=> a = b) /\ (IsOne(p) <=> c = d)
    BY <2>1 DEF IsOne, IsNaN
  <2>3. a * c = b * d <=> a = b /\ c = d
    <3>1. a \in Nat /\ b \in Nat /\ c \in Nat /\ d \in Nat /\ b # 0 /\ d # 0 /\ a <= b /\ c <= d
      BY <2>1
    <3> HIDE <2>1, <2>2
    <3> QED
      BY <3>1, ProductOfParts
  <2>4. b * d # 0
    OBVIOUS
  <2>5. PICK x \in Nat, y \in Nat : x = a * c /\ y = b * d
    OBVIOUS
  <2>6. AnalyzeArray(arr, minArray) = [n |-> x, d |-> y]
    BY <1>3, <2>1, <2>5
  <2>7. IsOne(AnalyzeArray(arr, minArray)) <=> x = y
    BY <2>4, <2>5, <2>6 DEF IsOne, IsNaN
  <2> HIDE DEF u, p, same, scalars
  <2> QED
    BY <1>6, <1>7, <2>2, <2>3, <2>5, <2>7
<1>9. HasUniformFields(arr) /\ AllScalars(arr[1]) <=> same /\ scalars
  <2>1. ASSUME NEW k \in 2 .. l
        PROVE  SameFields(arr[k], arr[1]) <=> FieldsOf(arr[k]) = FieldsOf(arr[1])
    <3>1. 1 \in 1 .. l /\ k \in 1 .. l
      BY <1>1
    <3> QED
      BY <1>5, <3>1, SameFieldsMeansEqual
  <2>2. HasUniformFields(arr)
          <=> same /\ \A k \in 2 .. l : \A f \in FieldsOf(arr[1]) : IsScalar(arr[k].fields[f])
    BY <1>1, <1>5, <2>1 DEF HasUniformFields
  <2>3. same => ((\A k \in 2 .. l : \A f \in FieldsOf(arr[1]) : IsScalar(arr[k].fields[f]))
                  <=> \A k \in 2 .. l : AllScalars(arr[k]))
    BY DEF AllScalars
  <2>4. scalars <=> AllScalars(arr[1]) /\ \A k \in 2 .. l : AllScalars(arr[k])
    <3>1. \A k : k \in 1 .. l <=> k = 1 \/ k \in 2 .. l
      BY <1>1
    <3> HIDE DEF AllScalars
    <3> QED
      BY <3>1
  <2> HIDE DEF same, scalars
  <2> QED
    BY <2>2, <2>3, <2>4
<1> QED
  BY <1>8, <1>9

(* The two judgments are one, text by text.                                *)
LEMMA AgreementHolds == ValuesInv => ClassifierAndEncoderAgree
<1> SUFFICES ASSUME ValuesInv, NEW b \in json,
                    values[b].kind = "array",
                    Len(values[b].items) >= Max({2, MinArrayLength(config)}),
                    \A k \in DOMAIN values[b].items :
                      IsObject(values[b].items[k]) /\ FieldsOf(values[b].items[k]) # {}
             PROVE  IsOne(TabularEligibility(b))
                      <=> HasUniformFields(values[b].items) /\ AllScalars(values[b].items[1])
  BY DEF ClassifierAndEncoderAgree
<1> DEFINE v == values[b]
           arr == v.items
           minArray == MinArrayLength(config)
<1>1. v \in Values /\ minArray \in Int
  BY MinArrayLengthType DEF ValuesInv
<1>2. arr \in Seq(Values)
  BY <1>1, ValuesAssumption DEF Documents
<1>3. TabularEligibility(b) = AnalyzeArray(arr, minArray)
  BY DEF TabularEligibility, AnalyzeValue
<1>4. Scorable(arr, minArray)
  <2>1. PICK m \in Int : m = Max({2, minArray}) /\ 2 <= m /\ minArray <= m
    <3> HIDE DEF minArray
    <3>1. 2 \in Int /\ minArray \in Int
      BY <1>1
    <3>2. /\ Max({2, minArray}) \in {2, minArray}
          /\ 2 <= Max({2, minArray}) /\ minArray <= Max({2, minArray})
      BY <3>1, PairMax
    <3> QED
      BY <3>1, <3>2
  <2>2. PICK l \in Nat : l = Len(arr)
    BY <1>2
  <2>3. l >= m
    BY <2>1, <2>2
  <2>4. l >= 2 /\ l >= minArray
    <3> HIDE DEF minArray, arr
    <3> QED
      BY <1>1, <2>1, <2>3
  <2> QED
    BY <2>2, <2>4 DEF Scorable
<1> HIDE DEF arr, minArray
<1>5. IsOne(AnalyzeArray(arr, minArray)) <=> HasUniformFields(arr) /\ AllScalars(arr[1])
  BY <1>1, <1>2, <1>4, ValuesFinite, OneIsATable
<1> QED
  BY <1>3, <1>5 DEF arr

(* "TOON tabular format requires primitive values" (classifier.go): among  *)
(* arrays of objects with fields, long enough, the classifier gives 1      *)
(* exactly to those that getUniformFields has the encoder write as a table *)
(* of scalars.                                                             *)
THEOREM ClassifierAgreesWithEncoder == TextSpec => []ClassifierAndEncoderAgree
BY ValuesKeptByText, AgreementHolds, PTL

-----------------------------------------------------------------------------
(* An order of a finite set has each of its elements once.                 *)
LEMMA OrdersOf ==
  ASSUME NEW S, IsFiniteSet(S), NEW o \in Orders(S)
  PROVE  o \in Seq(S) /\ Range(o) = S
<1> DEFINE D == 1 .. Cardinality(S)
<1>1. Cardinality(S) \in Nat
  BY FS_CardinalityType
<1>2. o \in [D -> S] /\ \A i, j \in D : i # j => o[i] # o[j]
  BY DEF Orders, SetToSeqs
<1>3. o \in Injection(D, S)
  BY <1>2 DEF Injection, IsInjective
<1>4. IsFiniteSet(D) /\ Cardinality(D) = Cardinality(S)
  BY <1>1, FS_Interval
<1>5. o \in Surjection(D, S)
  BY <1>3, <1>4, FS_Injection
<1>6. Range(o) = S
  BY <1>5 DEF Surjection, Range
<1> QED
  BY <1>1, <1>2, <1>6

-----------------------------------------------------------------------------
(* The body of MinimalTOONEncode, for any function in its own place.       *)
EncodingBy(F, v) ==
  CASE v.kind = "object" ->
         EncodeTOONObject([f \in FieldsOf(v) |-> F[v.fields[f]]])
    [] v.kind = "array" ->
         EncodeTOONArray(v.items, [k \in DOMAIN v.items |->
                                     IF IsObject(v.items[k]) THEN F[v.items[k]]
                                     ELSE {Cell(v.items[k])}])
    [] v.kind = "scalar" -> {Cell(v)}

(* The values nested less than n deep, and functions that are the same on  *)
(* what is nested less deep than a value.                                  *)
Level(n) == {v \in Values : Depth[v] < n}
Below(v) == Level(Depth[v])
SameBelow(F, G, v) == \A w \in Below(v) : F[w] = G[w]

(* The parts of a value are below it.                                      *)
LEMMA PartsBelow ==
  ASSUME NEW v \in Values
  PROVE  /\ v.kind \in {"scalar", "array", "object"}
         /\ v.kind = "array" => /\ v.items \in Seq(Values)
                                /\ \A k \in DOMAIN v.items : v.items[k] \in Below(v)
         /\ v.kind = "object" => /\ IsFiniteSet(FieldsOf(v))
                                 /\ \A f \in FieldsOf(v) : v.fields[f] \in Below(v)
<1>1. DOMAIN Depth = Values
  BY DepthAssumption
<1>2. v.kind = "array" => \A k \in DOMAIN v.items : Depth[v.items[k]] < Depth[v]
  BY <1>1, DepthAssumption DEF IsDepth
<1>3. v.kind = "object" => \A f \in FieldsOf(v) : Depth[v.fields[f]] < Depth[v]
  BY <1>1, DepthAssumption DEF IsDepth
<1>4. \/ v.kind = "scalar"
      \/ v.kind = "array" /\ v.items \in Seq(Values)
      \/ /\ v.kind = "object"
         /\ IsFiniteSet(DOMAIN v.fields)
         /\ v.fields \in [DOMAIN v.fields -> Values]
  BY ValuesAssumption DEF Documents
<1>5. CASE v.kind = "scalar"
  BY <1>5
<1>6. CASE v.kind = "array" /\ v.items \in Seq(Values)
  BY <1>2, <1>6 DEF Below, Level
<1>7. CASE /\ v.kind = "object"
           /\ IsFiniteSet(DOMAIN v.fields)
           /\ v.fields \in [DOMAIN v.fields -> Values]
  BY <1>3, <1>7 DEF Below, Level, FieldsOf
<1> QED
  BY <1>4, <1>5, <1>6, <1>7

(* An encoding depends on those of the parts only.                         *)
LEMMA EncodingFromParts ==
  ASSUME NEW F, NEW G, NEW v \in Values, SameBelow(F, G, v)
  PROVE  EncodingBy(F, v) = EncodingBy(G, v)
<1>1. CASE v.kind = "object"
  <2>1. \A f \in FieldsOf(v) : F[v.fields[f]] = G[v.fields[f]]
    BY <1>1, PartsBelow DEF SameBelow
  <2>2. [f \in FieldsOf(v) |-> F[v.fields[f]]] = [f \in FieldsOf(v) |-> G[v.fields[f]]]
    BY <2>1
  <2>3. /\ EncodingBy(F, v) = EncodeTOONObject([f \in FieldsOf(v) |-> F[v.fields[f]]])
        /\ EncodingBy(G, v) = EncodeTOONObject([f \in FieldsOf(v) |-> G[v.fields[f]]])
    BY <1>1 DEF EncodingBy
  <2> QED
    BY <2>2, <2>3
<1>2. CASE v.kind = "array"
  <2> DEFINE docs(E) == [k \in DOMAIN v.items |->
                           IF IsObject(v.items[k]) THEN E[v.items[k]] ELSE {Cell(v.items[k])}]
  <2>1. \A k \in DOMAIN v.items : F[v.items[k]] = G[v.items[k]]
    BY <1>2, PartsBelow DEF SameBelow
  <2>2. docs(F) = docs(G)
    BY <2>1
  <2>3. EncodingBy(F, v) = EncodeTOONArray(v.items, docs(F))
    BY <1>2 DEF EncodingBy
  <2>4. EncodingBy(G, v) = EncodeTOONArray(v.items, docs(G))
    BY <1>2 DEF EncodingBy
  <2> QED
    BY <2>2, <2>3, <2>4
<1>3. CASE v.kind = "scalar"
  BY <1>3 DEF EncodingBy
<1> QED
  BY <1>1, <1>2, <1>3, PartsBelow

-----------------------------------------------------------------------------
(* What an object has of each field, and the lines there are of them.      *)
ContentsOf(o, v) ==
  [k \in DOMAIN o |->
     IF IsDashed(v.fields[o[k]])
     THEN [j \in DOMAIN v.fields[o[k]].items |-> Dashed(v.fields[o[k]].items[j])]
     ELSE <<Named(o[k], v.fields[o[k]])>>]

LinesOf(v, X) == [line : {"named", "dashed"}, name : FieldsOf(v) \cup {""}, of : X]

(* What is on the lines is below the object.                               *)
LEMMA ContentsBelow ==
  ASSUME NEW v \in Values, IsObject(v), NEW o \in Orders(FieldsOf(v))
  PROVE  /\ Contents(o, v) = FlattenSeq(ContentsOf(o, v))
         /\ ContentsOf(o, v) \in Seq(Seq(LinesOf(v, Below(v))))
         /\ Len(ContentsOf(o, v)) = Len(o)
         /\ Contents(o, v) \in Seq(LinesOf(v, Below(v)))
<1> DEFINE L == LinesOf(v, Below(v))
           y == ContentsOf(o, v)
<1>1. o \in Seq(FieldsOf(v)) /\ \A f \in FieldsOf(v) : v.fields[f] \in Below(v)
  BY PartsBelow, OrdersOf DEF IsObject
<1>2. ASSUME NEW k \in DOMAIN o
      PROVE  y[k] \in Seq(L)
  <2>1. PICK f \in FieldsOf(v) : f = o[k]
    BY <1>1
  <2>2. PICK w \in Below(v) : w = v.fields[f]
    BY <1>1, <2>1
  <2>3. CASE IsDashed(w)
    <3>1. w \in Values /\ w.kind = "array"
      BY <2>3 DEF IsDashed, Below, Level
    <3>2. w.items \in Seq(Values) /\ \A j \in DOMAIN w.items : w.items[j] \in Below(w)
      BY <3>1, PartsBelow
    <3>3. Below(w) \subseteq Below(v)
      <4>1. Depth \in [Values -> Nat]
        BY DepthAssumption
      <4> QED
        BY <3>1, <4>1 DEF Below, Level
    <3>4. \A j \in DOMAIN w.items : Dashed(w.items[j]) \in L
      BY <3>2, <3>3 DEF Dashed, LinesOf
    <3>5. Len(w.items) \in Nat /\ DOMAIN w.items = 1 .. Len(w.items)
      BY <3>2
    <3>6. y[k] = [j \in 1 .. Len(w.items) |-> Dashed(w.items[j])]
      BY <2>1, <2>2, <2>3, <3>5 DEF ContentsOf
    <3> HIDE DEF L, y
    <3> QED
      BY <3>4, <3>5, <3>6
  <2>4. CASE ~IsDashed(w)
    <3>1. Named(f, w) \in L
      BY <2>1, <2>2 DEF Named, LinesOf
    <3>2. y[k] = <<Named(f, w)>>
      BY <2>1, <2>2, <2>4 DEF ContentsOf
    <3> HIDE DEF L, y
    <3> QED
      BY <3>1, <3>2
  <2> QED
    BY <2>3, <2>4
<1>3. DOMAIN o = 1 .. Len(o) /\ Len(o) \in Nat
  BY <1>1
<1>4. y \in Seq(Seq(L)) /\ Len(y) = Len(o)
  <2>1. y = [k \in 1 .. Len(o) |-> y[k]]
    BY <1>3 DEF ContentsOf
  <2> HIDE DEF L, y
  <2> QED
    BY <1>2, <1>3, <2>1
<1>5. Contents(o, v) = FlattenSeq(y)
  BY DEF Contents, ContentsOf
<1>6. FlattenSeq(y) \in Seq(L)
  <2> HIDE DEF L, y
  <2>1. SameShape(y, y)
    BY DEF SameShape
  <2> QED
    BY <1>4, <2>1, FlattenTogether
<1> QED
  BY <1>4, <1>5, <1>6

(* The body of CarriedBy, for any function in its own place.               *)
Carries(F, v, doc) ==
  /\ doc.form = "cell" => IsScalar(v) /\ v.shown = doc.shown
  /\ doc.form = "composite" => doc.words = Printed[v]
  /\ doc.form = "empty" => v.kind = "array" /\ v.items = <<>>
  /\ doc.form = "object" =>
       /\ IsObject(v)
       /\ \E o \in Orders(FieldsOf(v)) :
            LET contents == Contents(o, v)
            IN /\ Len(doc.entries) = Len(contents)
               /\ \A k \in DOMAIN contents :
                    /\ doc.entries[k].line = contents[k].line
                    /\ doc.entries[k].name = contents[k].name
                    /\ F[contents[k].of][doc.entries[k].of]
  /\ doc.form \in {"list", "dashed"} =>
       /\ v.kind = "array" /\ Len(v.items) = Len(doc.items)
       /\ \A k \in DOMAIN v.items : F[v.items[k]][doc.items[k]]
  /\ doc.form = "table" =>
       /\ v.kind = "array" /\ Len(v.items) = Len(doc.rows)
       /\ \A k \in DOMAIN v.items :
            /\ IsObject(v.items[k])
            /\ FieldsOf(v.items[k]) = Range(doc.header)
            /\ \A c \in DOMAIN doc.header :
                 F[v.items[k].fields[doc.header[c]]][doc.rows[k][c]]

CarryingBy(F, v) == [doc \in TOONDocuments |-> Carries(F, v, doc)]

(* Whether a document carries a value depends on what carries its parts.   *)
LEMMA CarryingFromParts ==
  ASSUME NEW F, NEW G, NEW v \in Values, SameBelow(F, G, v)
  PROVE  CarryingBy(F, v) = CarryingBy(G, v)
<1>1. ASSUME NEW H, NEW K, SameBelow(H, K, v), NEW doc \in TOONDocuments, Carries(H, v, doc)
      PROVE  Carries(K, v, doc)
  <2>1. ASSUME doc.form = "object"
        PROVE  /\ IsObject(v)
               /\ \E o \in Orders(FieldsOf(v)) :
                    LET contents == Contents(o, v)
                    IN /\ Len(doc.entries) = Len(contents)
                       /\ \A k \in DOMAIN contents :
                            /\ doc.entries[k].line = contents[k].line
                            /\ doc.entries[k].name = contents[k].name
                            /\ K[contents[k].of][doc.entries[k].of]
    <3>1. PICK o \in Orders(FieldsOf(v)) :
            /\ Len(doc.entries) = Len(Contents(o, v))
            /\ \A k \in DOMAIN Contents(o, v) :
                 /\ doc.entries[k].line = Contents(o, v)[k].line
                 /\ doc.entries[k].name = Contents(o, v)[k].name
                 /\ H[Contents(o, v)[k].of][doc.entries[k].of]
      BY <1>1, <2>1 DEF Carries
    <3>2. IsObject(v)
      BY <1>1, <2>1 DEF Carries
    <3>3. PICK contents \in Seq(LinesOf(v, Below(v))) : contents = Contents(o, v)
      BY <3>2, ContentsBelow
    <3>4. \A k \in DOMAIN contents : contents[k].of \in Below(v)
      <4>1. \A k \in DOMAIN contents : contents[k] \in LinesOf(v, Below(v))
        OBVIOUS
      <4> QED
        BY <4>1 DEF LinesOf
    <3>5. \A k \in DOMAIN contents : H[contents[k].of] = K[contents[k].of]
      BY <1>1, <3>4 DEF SameBelow
    <3> QED
      BY <3>1, <3>2, <3>3, <3>5
  <2>2. ASSUME doc.form \in {"list", "dashed"}
        PROVE  /\ v.kind = "array" /\ Len(v.items) = Len(doc.items)
               /\ \A k \in DOMAIN v.items : K[v.items[k]][doc.items[k]]
    <3>1. /\ v.kind = "array" /\ Len(v.items) = Len(doc.items)
          /\ \A k \in DOMAIN v.items : H[v.items[k]][doc.items[k]]
      BY <1>1, <2>2 DEF Carries
    <3>2. \A k \in DOMAIN v.items : H[v.items[k]] = K[v.items[k]]
      BY <1>1, <3>1, PartsBelow DEF SameBelow
    <3> QED
      BY <3>1, <3>2
  <2>3. ASSUME doc.form = "table"
        PROVE  /\ v.kind = "array" /\ Len(v.items) = Len(doc.rows)
               /\ \A k \in DOMAIN v.items :
                    /\ IsObject(v.items[k])
                    /\ FieldsOf(v.items[k]) = Range(doc.header)
                    /\ \A c \in DOMAIN doc.header :
                         K[v.items[k].fields[doc.header[c]]][doc.rows[k][c]]
    <3>1. /\ v.kind = "array" /\ Len(v.items) = Len(doc.rows)
          /\ \A k \in DOMAIN v.items :
               /\ IsObject(v.items[k])
               /\ FieldsOf(v.items[k]) = Range(doc.header)
               /\ \A c \in DOMAIN doc.header :
                    H[v.items[k].fields[doc.header[c]]][doc.rows[k][c]]
      BY <1>1, <2>3 DEF Carries
    <3>2. ASSUME NEW k \in DOMAIN v.items, NEW c \in DOMAIN doc.header
          PROVE  K[v.items[k].fields[doc.header[c]]][doc.rows[k][c]]
      <4>1. v.items[k] \in Below(v) /\ v.items[k].kind = "object"
        BY <3>1, PartsBelow DEF IsObject
      <4>2. doc.header[c] \in FieldsOf(v.items[k])
        BY <3>1 DEF Range
      <4>3. v.items[k].fields[doc.header[c]] \in Below(v)
        <5>1. PICK w \in Below(v) : w = v.items[k]
          BY <4>1
        <5>2. w \in Values /\ w.fields[doc.header[c]] \in Below(w)
          BY <4>1, <4>2, <5>1, PartsBelow DEF Below, Level
        <5>3. Depth \in [Values -> Nat]
          BY DepthAssumption
        <5> QED
          BY <5>1, <5>2, <5>3 DEF Below, Level
      <4> QED
        BY <1>1, <3>1, <4>3 DEF SameBelow
    <3> QED
      BY <3>1, <3>2
  <2>4. /\ doc.form = "cell" => IsScalar(v) /\ v.shown = doc.shown
        /\ doc.form = "composite" => doc.words = Printed[v]
        /\ doc.form = "empty" => v.kind = "array" /\ v.items = <<>>
    BY <1>1 DEF Carries
  <2> QED
    BY <2>1, <2>2, <2>3, <2>4 DEF Carries
<1>2. SameBelow(G, F, v)
  BY DEF SameBelow
<1>3. \A doc \in TOONDocuments : Carries(F, v, doc) <=> Carries(G, v, doc)
  BY <1>1, <1>2
<1>4. \A doc \in TOONDocuments : Carries(F, v, doc) = Carries(G, v, doc)
  <2>1. ASSUME NEW doc \in TOONDocuments
        PROVE  Carries(F, v, doc) \in BOOLEAN /\ Carries(G, v, doc) \in BOOLEAN
    BY Zenon DEF Carries
  <2> QED
    BY <1>3, <2>1
<1> QED
  BY <1>4 DEF CarryingBy

-----------------------------------------------------------------------------
(* Both functions have a body that looks below a value only, and there is  *)
(* a function that satisfies such an equation.                             *)
BodyBy(R, F, v) == IF R = "encoding" THEN EncodingBy(F, v) ELSE CarryingBy(F, v)
Solves(R, F, S) == F = [v \in S |-> BodyBy(R, F, v)]

LEMMA BodyFromParts ==
  ASSUME NEW R, NEW F, NEW G, NEW v \in Values, SameBelow(F, G, v)
  PROVE  BodyBy(R, F, v) = BodyBy(R, G, v)
BY EncodingFromParts, CarryingFromParts DEF BodyBy

(* The depths are naturals, so below is below a level.                     *)
LEMMA Levels ==
  ASSUME NEW n \in Nat, NEW v \in Level(n)
  PROVE  /\ v \in Values /\ Depth[v] \in Nat /\ Depth[v] < n
         /\ Below(v) \subseteq Level(n)
         /\ \A w \in Below(v) : w \in Values /\ Depth[w] \in Nat /\ Depth[w] < Depth[v]
<1>1. Depth \in [Values -> Nat]
  BY DepthAssumption
<1> QED
  BY <1>1 DEF Level, Below

(* Two solutions agree as far as both of them go.                          *)
LEMMA SolutionsAgree ==
  ASSUME NEW R, NEW F, NEW G, NEW m \in Nat, NEW n \in Nat,
         Solves(R, F, Level(m)), Solves(R, G, Level(n)),
         NEW v \in Level(m), v \in Level(n)
  PROVE  F[v] = G[v]
<1> DEFINE T == {d \in Nat : \A w \in Level(m) : w \in Level(n) /\ Depth[w] < d => F[w] = G[w]}
<1>1. 0 \in T
  BY Levels
<1>2. ASSUME NEW d \in Nat, d \in T
      PROVE  d + 1 \in T
  <2>1. ASSUME NEW w \in Level(m), w \in Level(n), Depth[w] < d + 1
        PROVE  F[w] = G[w]
    <3>1. /\ w \in Values /\ Below(w) \subseteq Level(m) /\ Below(w) \subseteq Level(n)
          /\ \A u \in Below(w) : Depth[u] \in Nat /\ Depth[u] < Depth[w]
          /\ Depth[w] \in Nat
      BY <2>1, Levels
    <3>2. \A u \in Below(w) : Depth[u] < d
      BY <2>1, <3>1
    <3>3. \A u \in Below(w) : F[u] = G[u]
      BY <1>2, <3>1, <3>2
    <3>4. SameBelow(F, G, w)
      BY <3>3 DEF SameBelow
    <3>5. F[w] = BodyBy(R, F, w) /\ G[w] = BodyBy(R, G, w)
      BY <2>1 DEF Solves
    <3> QED
      BY <3>1, <3>4, <3>5, BodyFromParts
  <2> QED
    BY <2>1
<1> HIDE DEF T
<1>3. m \in T
  BY <1>1, <1>2, NaturalInduction
<1> QED
  BY <1>3, Levels DEF T

(* At each level there is one,                                             *)
LEMMA LevelSolved ==
  ASSUME NEW R, NEW n \in Nat
  PROVE  \E F : Solves(R, F, Level(n))
<1> DEFINE T == {d \in Nat : \E F : Solves(R, F, Level(d))}
<1>1. 0 \in T
  <2> DEFINE F == [v \in Level(0) |-> {}]
  <2>1. \A v \in Level(0) : FALSE
    BY Levels
  <2>2. F = [v \in Level(0) |-> BodyBy(R, F, v)]
    BY <2>1
  <2> HIDE DEF F
  <2> QED
    BY <2>2 DEF Solves
<1>2. ASSUME NEW d \in Nat, d \in T
      PROVE  d + 1 \in T
  <2>1. PICK F : Solves(R, F, Level(d))
    BY <1>2
  <2> DEFINE G == [v \in Level(d + 1) |-> BodyBy(R, F, v)]
  <2>2. ASSUME NEW v \in Level(d + 1)
        PROVE  G[v] = BodyBy(R, G, v)
    <3>1. ASSUME NEW w \in Below(v)
          PROVE  w \in Level(d) /\ w \in Level(d + 1)
      <4>1. /\ d + 1 \in Nat /\ Depth[v] \in Nat /\ Depth[v] < d + 1
            /\ w \in Values /\ Depth[w] \in Nat /\ Depth[w] < Depth[v]
        BY <2>2, <3>1, Levels
      <4>2. Depth[w] < d /\ Depth[w] < d + 1
        BY <4>1
      <4> QED
        BY <4>1, <4>2 DEF Level
    <3>2. \A w \in Below(v) : F[w] = G[w]
      BY <2>1, <3>1 DEF Solves
    <3> HIDE DEF G
    <3>3. SameBelow(F, G, v) /\ v \in Values
      BY <3>2 DEF SameBelow, Level
    <3>4. BodyBy(R, F, v) = BodyBy(R, G, v)
      BY <3>3, BodyFromParts
    <3> QED
      BY <3>4 DEF G
  <2>3. G = [v \in Level(d + 1) |-> BodyBy(R, G, v)]
    BY <2>2
  <2> HIDE DEF G
  <2> QED
    BY <2>3 DEF Solves
<1> HIDE DEF T
<1>3. n \in T
  BY <1>1, <1>2, NaturalInduction
<1> QED
  BY <1>3 DEF T

(* and together they are one for all values.                               *)
LEMMA AllSolved ==
  ASSUME NEW R
  PROVE  \E F : Solves(R, F, Values)
<1> DEFINE At(n) == CHOOSE F : Solves(R, F, Level(n))
           All == [v \in Values |-> At(Depth[v] + 1)[v]]
<1>1. \A n \in Nat : Solves(R, At(n), Level(n))
  BY LevelSolved
<1> HIDE DEF At
<1>2. ASSUME NEW v \in Values
      PROVE  All[v] = BodyBy(R, All, v)
  <2>1. PICK n \in Nat : n = Depth[v] + 1 /\ v \in Level(n)
    <3>1. Depth[v] \in Nat
      BY DepthAssumption
    <3> QED
      BY <3>1 DEF Level
  <2>2. ASSUME NEW w \in Below(v)
        PROVE  At(n)[w] = All[w]
    <3>1. PICK m \in Nat : m = Depth[w] + 1 /\ w \in Level(m) /\ w \in Level(n) /\ w \in Values
      <4>1. w \in Level(n) /\ w \in Values /\ Depth[w] \in Nat
        BY <2>1, <2>2, Levels
      <4> QED
        BY <4>1 DEF Level
    <3>2. Solves(R, At(m), Level(m)) /\ Solves(R, At(n), Level(n))
      BY <1>1
    <3>3. At(n)[w] = At(m)[w]
      BY <3>1, <3>2, SolutionsAgree
    <3> QED
      BY <3>1, <3>3
  <2>3. At(n)[v] = BodyBy(R, At(n), v)
    BY <1>1, <2>1 DEF Solves
  <2>4. All[v] = At(n)[v]
    BY <2>1
  <2> HIDE DEF All
  <2>5. SameBelow(At(n), All, v)
    BY <2>2 DEF SameBelow
  <2>6. BodyBy(R, At(n), v) = BodyBy(R, All, v)
    BY <2>5, BodyFromParts
  <2> QED
    BY <2>3, <2>4, <2>6
<1>3. All = [v \in Values |-> BodyBy(R, All, v)]
  BY <1>2
<1> HIDE DEF All
<1> QED
  BY <1>3 DEF Solves

(* So minimalTOONEncode is what its body says,                             *)
LEMMA EncodingIs ==
  MinimalTOONEncode = [v \in Values |-> EncodingBy(MinimalTOONEncode, v)]
<1> DEFINE Is(F) == F = [v \in Values |-> EncodingBy(F, v)]
<1>1. MinimalTOONEncode = CHOOSE F : Is(F)
  BY DEF MinimalTOONEncode, EncodingBy
<1>2. PICK F : Solves("encoding", F, Values)
  BY AllSolved
<1>3. Is(F)
  <2>1. \A v \in Values : F[v] = EncodingBy(F, v)
    BY <1>2 DEF Solves, BodyBy
  <2>2. F = [v \in Values |-> F[v]]
    BY <1>2 DEF Solves
  <2>3. F = [v \in Values |-> EncodingBy(F, v)]
    BY <2>1, <2>2
  <2> QED
    BY <2>3
<1> HIDE DEF Is
<1>4. Is(MinimalTOONEncode)
  BY <1>1, <1>3
<1> QED
  BY <1>4 DEF Is

(* and so is what carries a value.                                         *)
LEMMA CarryingIs ==
  CarriedBy = [v \in Values |-> CarryingBy(CarriedBy, v)]
<1> DEFINE Is(F) == F = [v \in Values |-> CarryingBy(F, v)]
<1>1. CarriedBy = CHOOSE F : Is(F)
  BY DEF CarriedBy, CarryingBy, Carries
<1>2. PICK F : Solves("carrying", F, Values)
  BY AllSolved
<1>3. Is(F)
  <2>1. \A v \in Values : F[v] = CarryingBy(F, v)
    BY <1>2 DEF Solves, BodyBy
  <2>2. F = [v \in Values |-> F[v]]
    BY <1>2 DEF Solves
  <2>3. F = [v \in Values |-> CarryingBy(F, v)]
    BY <2>1, <2>2
  <2> QED
    BY <2>3
<1> HIDE DEF Is
<1>4. Is(CarriedBy)
  BY <1>1, <1>3
<1> QED
  BY <1>4 DEF Is

-----------------------------------------------------------------------------
(* A value's documents, and it as a cell, are among all documents.         *)
LEMMA DocumentsOf ==
  ASSUME NEW v \in Values
  PROVE  /\ Cell(v) \in TOONDocuments
         /\ MinimalTOONEncode[v] \subseteq TOONDocuments
         /\ MinimalTOONEncode[v] = EncodingBy(MinimalTOONEncode, v)
<1>1. MinimalTOONEncode[v] = EncodingBy(MinimalTOONEncode, v)
  BY EncodingIs
<1> QED
  BY <1>1 DEF TOONDocuments

(* Whether a document carries a value is said by the body of CarriedBy.    *)
LEMMA CarriedMeans ==
  ASSUME NEW v \in Values, NEW doc \in TOONDocuments
  PROVE  CarriedBy[v][doc] <=> Carries(CarriedBy, v, doc)
<1>1. CarriedBy[v] = CarryingBy(CarriedBy, v)
  BY CarryingIs
<1>2. CarriedBy[v][doc] = Carries(CarriedBy, v, doc)
  BY <1>1 DEF CarryingBy
<1> QED
  BY <1>2

(* A cell carries its value.                                               *)
LEMMA CellsCarry ==
  ASSUME NEW v \in Values
  PROVE  Cell(v) \in TOONDocuments /\ CarriedBy[v][Cell(v)]
<1>1. Carries(CarriedBy, v, Cell(v))
  BY DEF Carries, Cell
<1> QED
  BY <1>1, DocumentsOf, CarriedMeans

(* What is written of a part: a document of it, or it in a cell.           *)
Part(v, doc) == doc \in TOONDocuments /\ (doc \in MinimalTOONEncode[v] \/ doc = Cell(v))

(* The documents of an array, by their forms.                              *)
ArrayDocument(v, doc) ==
  \/ v.items = <<>> /\ doc = [form |-> "empty"]
  \/ /\ HasUniformFields(v.items)
     /\ \E h \in Orders(FieldsOf(v.items[1])) : doc = Table(v.items, h)
  \/ /\ IsDashed(v) /\ v.items # <<>>
     /\ doc.form = "dashed" /\ doc.items \in Seq(TOONDocuments)
     /\ Len(doc.items) = Len(v.items)
     /\ \A k \in DOMAIN v.items : Part(v.items[k], doc.items[k])
  \/ /\ ~IsDashed(v) /\ v.items # <<>> /\ ~HasUniformFields(v.items)
     /\ doc = [form |-> "list", items |-> [k \in DOMAIN v.items |-> Cell(v.items[k])]]

LEMMA ArrayDocuments ==
  ASSUME NEW v \in Values, v.kind = "array", NEW doc \in MinimalTOONEncode[v]
  PROVE  ArrayDocument(v, doc)
<1> DEFINE docs == [k \in DOMAIN v.items |->
                      IF IsObject(v.items[k]) THEN MinimalTOONEncode[v.items[k]]
                      ELSE {Cell(v.items[k])}]
<1>1. doc \in EncodeTOONArray(v.items, docs)
  <2>1. EncodingBy(MinimalTOONEncode, v) = EncodeTOONArray(v.items, docs)
    BY DEF EncodingBy
  <2> QED
    BY <2>1, DocumentsOf
<1>2. v.items \in Seq(Values)
  BY PartsBelow
<1>3. IsDashed(Array(v.items)) <=> IsDashed(v)
  BY DEF IsDashed, Array
<1>4. CASE v.items = <<>>
  <2> HIDE DEF docs
  <2>1. ~HasUniformFields(v.items) /\ ~IsDashed(Array(v.items))
    <3>1. ~HasUniformFields(v.items)
      <4>1. ~(Len(<<>>) >= 2)
        OBVIOUS
      <4> QED
        BY <1>4, <4>1 DEF HasUniformFields
    <3> QED
      BY <1>3, <1>4, <3>1 DEF IsDashed
  <2>2. doc = [form |-> "empty"]
    BY <1>1, <1>4, <2>1 DEF EncodeTOONArray
  <2> QED
    BY <1>4, <2>2 DEF ArrayDocument
<1>5. CASE v.items # <<>> /\ HasUniformFields(v.items)
  <2> HIDE DEF docs
  <2>1. \E h \in Orders(FieldsOf(v.items[1])) : doc = Table(v.items, h)
    <3>1. ~IsDashed(Array(v.items))
      BY <1>3, <1>5 DEF IsDashed
    <3> QED
      BY <1>1, <1>5, <3>1 DEF EncodeTOONArray
  <2> QED
    BY <1>5, <2>1 DEF ArrayDocument
<1>6. CASE v.items # <<>> /\ ~HasUniformFields(v.items) /\ IsDashed(v)
  <2>1. PICK s \in Selections(docs) : doc = [form |-> "dashed", items |-> s]
    <3> HIDE DEF docs
    <3> QED
      BY <1>1, <1>3, <1>6 DEF EncodeTOONArray
  <2>2. DOMAIN docs = 1 .. Len(v.items) /\ DOMAIN v.items = 1 .. Len(v.items) /\ Len(v.items) \in Nat
    BY <1>2
  <2>3. ASSUME NEW k \in DOMAIN v.items
        PROVE  Part(v.items[k], s[k])
    <3>1. s[k] \in docs[k]
      <4> HIDE DEF docs
      <4> QED
        BY <2>2, <2>3 DEF Selections
    <3>2. v.items[k] \in Values
      BY <1>2, <2>3
    <3> QED
      BY <2>3, <3>1, <3>2, DocumentsOf DEF Part
  <2>4. s \in Seq(TOONDocuments) /\ Len(s) = Len(v.items)
    <3>1. s = [k \in 1 .. Len(v.items) |-> s[k]]
      <4> HIDE DEF docs
      <4> QED
        BY <2>2 DEF Selections
    <3>2. \A k \in 1 .. Len(v.items) : s[k] \in TOONDocuments
      BY <2>2, <2>3 DEF Part
    <3> QED
      BY <2>2, <3>1, <3>2
  <2>5. doc.form = "dashed" /\ doc.items = s
    BY <2>1
  <2> QED
    BY <1>6, <2>3, <2>4, <2>5 DEF ArrayDocument
<1>7. CASE v.items # <<>> /\ ~HasUniformFields(v.items) /\ ~IsDashed(v)
  <2> HIDE DEF docs
  <2> QED
    BY <1>1, <1>3, <1>7 DEF EncodeTOONArray, ArrayDocument
<1> QED
  BY <1>4, <1>5, <1>6, <1>7

(* The documents of an object: its lines in an order of the fields.        *)
EntriesOf(o, s) == [k \in DOMAIN o |-> Entries(o[k], s[k])]

ObjectDocument(v, doc) ==
  \E o \in Orders(FieldsOf(v)) : \E s :
    /\ \A k \in DOMAIN o : s[k] \in MinimalTOONEncode[v.fields[o[k]]]
    /\ doc = [form |-> "object", entries |-> FlattenSeq(EntriesOf(o, s))]

LEMMA ObjectDocuments ==
  ASSUME NEW v \in Values, v.kind = "object", NEW doc \in MinimalTOONEncode[v]
  PROVE  ObjectDocument(v, doc)
<1> DEFINE docs == [f \in FieldsOf(v) |-> MinimalTOONEncode[v.fields[f]]]
<1>1. doc \in EncodeTOONObject(docs) /\ DOMAIN docs = FieldsOf(v)
  <2>1. EncodingBy(MinimalTOONEncode, v) = EncodeTOONObject(docs)
    BY DEF EncodingBy
  <2> QED
    BY <2>1, DocumentsOf
<1>2. ASSUME NEW f \in FieldsOf(v)
      PROVE  docs[f] = MinimalTOONEncode[v.fields[f]]
  BY <1>2
<1> HIDE DEF docs
<1>3. PICK o \in Orders(FieldsOf(v)) : \E s \in Selections([k \in DOMAIN o |-> docs[o[k]]]) :
        doc = [form |-> "object", entries |-> FlattenSeq([k \in DOMAIN o |-> Entries(o[k], s[k])])]
  BY <1>1 DEF EncodeTOONObject
<1>4. PICK s \in Selections([k \in DOMAIN o |-> docs[o[k]]]) :
        doc = [form |-> "object", entries |-> FlattenSeq([k \in DOMAIN o |-> Entries(o[k], s[k])])]
  BY <1>3
<1>5. ASSUME NEW k \in DOMAIN o
      PROVE  s[k] \in MinimalTOONEncode[v.fields[o[k]]]
  <2>1. s[k] \in docs[o[k]]
    BY <1>5 DEF Selections
  <2>2. o[k] \in FieldsOf(v)
    BY <1>5, PartsBelow, OrdersOf DEF Range
  <2> QED
    BY <1>2, <2>1, <2>2
<1>6. doc = [form |-> "object", entries |-> FlattenSeq(EntriesOf(o, s))]
  BY <1>4 DEF EntriesOf
<1> QED
  BY <1>5, <1>6 DEF ObjectDocument

(* Behind dashes is what is a dashed array, and nothing else.              *)
LEMMA DashedForm ==
  ASSUME NEW v \in Values, NEW doc \in MinimalTOONEncode[v]
  PROVE  doc.form = "dashed" <=> IsDashed(v)
<1>1. CASE v.kind = "array"
  <2>1. ArrayDocument(v, doc)
    BY <1>1, ArrayDocuments
  <2>2. CASE v.items = <<>> /\ doc = [form |-> "empty"]
    BY <2>2 DEF IsDashed
  <2>3. CASE HasUniformFields(v.items) /\ \E h \in Orders(FieldsOf(v.items[1])) : doc = Table(v.items, h)
    BY <2>3 DEF IsDashed, Table
  <2>4. CASE IsDashed(v) /\ doc.form = "dashed"
    BY <2>4
  <2>5. CASE ~IsDashed(v) /\ doc = [form |-> "list", items |-> [k \in DOMAIN v.items |-> Cell(v.items[k])]]
    BY <2>5
  <2> QED
    BY <2>1, <2>2, <2>3, <2>4, <2>5 DEF ArrayDocument
<1>2. CASE v.kind = "object"
  <2>1. doc.form = "object"
    BY <1>2, ObjectDocuments DEF ObjectDocument
  <2> QED
    BY <1>2, <2>1 DEF IsDashed
<1>3. CASE v.kind = "scalar"
  <2>1. doc = Cell(v)
    BY <1>3, DocumentsOf DEF EncodingBy
  <2> QED
    BY <1>3, <2>1 DEF Cell, IsDashed
<1> QED
  BY <1>1, <1>2, <1>3, PartsBelow

-----------------------------------------------------------------------------
(* All documents of a value carry it.                                      *)
Carried(v) == \A doc \in MinimalTOONEncode[v] : CarriedBy[v][doc]

(* The table of an array that is one: every row has the fields of the      *)
(* header, each in a cell, and after the first row they are scalars.       *)
LEMMA TableOf ==
  ASSUME NEW v \in Values, v.kind = "array", HasUniformFields(v.items),
         NEW h \in Orders(FieldsOf(v.items[1])), NEW k \in DOMAIN v.items
  PROVE  /\ v.items[k] \in Values /\ IsObject(v.items[k])
         /\ FieldsOf(v.items[k]) = Range(h)
         /\ \A c \in DOMAIN h :
              /\ Table(v.items, h).rows[k][c] = Cell(v.items[k].fields[h[c]])
              /\ v.items[k].fields[h[c]] \in Values
              /\ k > 1 => IsScalar(v.items[k].fields[h[c]])
<1>1. /\ v.items \in Seq(Values) /\ Len(v.items) \in Nat /\ Len(v.items) >= 2
      /\ DOMAIN v.items = 1 .. Len(v.items) /\ 1 \in DOMAIN v.items
  <2>1. v.items \in Seq(Values)
    BY PartsBelow
  <2>2. Len(v.items) >= 2
    BY DEF HasUniformFields
  <2> QED
    BY <2>1, <2>2
<1>2. \A j \in DOMAIN v.items :
        /\ v.items[j] \in Values /\ IsObject(v.items[j]) /\ IsFiniteSet(FieldsOf(v.items[j]))
        /\ \A f \in FieldsOf(v.items[j]) : v.items[j].fields[f] \in Values
  <2>1. ASSUME NEW j \in DOMAIN v.items
        PROVE  /\ v.items[j] \in Values /\ IsObject(v.items[j]) /\ IsFiniteSet(FieldsOf(v.items[j]))
               /\ \A f \in FieldsOf(v.items[j]) : v.items[j].fields[f] \in Values
    <3>1. v.items[j] \in Values /\ IsObject(v.items[j])
      BY <1>1, <2>1 DEF HasUniformFields
    <3>2. PICK w \in Values : w = v.items[j] /\ w.kind = "object"
      BY <3>1 DEF IsObject
    <3>3. IsFiniteSet(FieldsOf(w)) /\ \A f \in FieldsOf(w) : w.fields[f] \in Values
      BY <3>2, PartsBelow DEF Below, Level
    <3> QED
      BY <3>1, <3>2, <3>3
  <2> QED
    BY <2>1
<1>3. Range(h) = FieldsOf(v.items[1])
  BY <1>1, <1>2, OrdersOf
<1>4. FieldsOf(v.items[k]) = FieldsOf(v.items[1])
  <2>1. CASE k = 1
    BY <2>1
  <2>2. CASE k # 1
    <3>1. k \in 2 .. Len(v.items)
      BY <1>1, <2>2
    <3>2. SameFields(v.items[k], v.items[1])
      BY <3>1 DEF HasUniformFields
    <3> QED
      BY <1>1, <1>2, <3>2, SameFieldsMeansEqual
  <2> QED
    BY <2>1, <2>2
<1>5. ASSUME NEW c \in DOMAIN h
      PROVE  /\ Table(v.items, h).rows[k][c] = Cell(v.items[k].fields[h[c]])
             /\ v.items[k].fields[h[c]] \in Values
             /\ k > 1 => IsScalar(v.items[k].fields[h[c]])
  <2>1. h[c] \in FieldsOf(v.items[k]) /\ h[c] \in FieldsOf(v.items[1])
    BY <1>3, <1>4, <1>5 DEF Range
  <2>2. Table(v.items, h).rows[k][c] = Cell(FieldOf(v.items[k], h[c]))
    BY <1>5 DEF Table
  <2>3. FieldOf(v.items[k], h[c]) = v.items[k].fields[h[c]]
    BY <2>1 DEF FieldOf
  <2>4. ASSUME k > 1
        PROVE  IsScalar(v.items[k].fields[h[c]])
    <3>1. k \in 2 .. Len(v.items)
      BY <1>1, <2>4
    <3> QED
      BY <2>1, <3>1 DEF HasUniformFields
  <2> QED
    BY <1>2, <2>1, <2>2, <2>3, <2>4
<1> QED
  BY <1>2, <1>3, <1>4, <1>5

(* An array is carried by its documents if the items are by theirs.        *)
LEMMA ArrayCarried ==
  ASSUME NEW v \in Values, v.kind = "array", \A w \in Below(v) : Carried(w)
  PROVE  Carried(v)
<1> SUFFICES ASSUME NEW doc \in MinimalTOONEncode[v]
             PROVE  CarriedBy[v][doc]
  BY DEF Carried
<1>1. ArrayDocument(v, doc) /\ doc \in TOONDocuments
  BY ArrayDocuments, DocumentsOf
<1>2. v.items \in Seq(Values) /\ \A k \in DOMAIN v.items : v.items[k] \in Values /\ Carried(v.items[k])
  BY PartsBelow DEF Below, Level
<1>3. CASE v.items = <<>> /\ doc = [form |-> "empty"]
  <2>1. Carries(CarriedBy, v, doc)
    BY <1>3 DEF Carries
  <2> QED
    BY <1>1, <2>1, CarriedMeans
<1>4. CASE /\ HasUniformFields(v.items)
           /\ \E h \in Orders(FieldsOf(v.items[1])) : doc = Table(v.items, h)
  <2>1. PICK h \in Orders(FieldsOf(v.items[1])) : doc = Table(v.items, h)
    BY <1>4
  <2>2. doc.form = "table" /\ doc.header = h
    BY <2>1 DEF Table
  <2>3. Len(v.items) = Len(doc.rows)
    <3>1. doc.rows = [k \in DOMAIN v.items |-> doc.rows[k]]
      BY <2>1 DEF Table
    <3>2. DOMAIN v.items = 1 .. Len(v.items) /\ Len(v.items) \in Nat
      BY <1>2
    <3> QED
      BY <3>1, <3>2
  <2>4. ASSUME NEW k \in DOMAIN v.items
        PROVE  /\ IsObject(v.items[k])
               /\ FieldsOf(v.items[k]) = Range(doc.header)
               /\ \A c \in DOMAIN doc.header :
                    CarriedBy[v.items[k].fields[doc.header[c]]][doc.rows[k][c]]
    <3>1. /\ v.items[k] \in Values /\ IsObject(v.items[k])
          /\ FieldsOf(v.items[k]) = Range(h)
          /\ \A c \in DOMAIN h :
               /\ Table(v.items, h).rows[k][c] = Cell(v.items[k].fields[h[c]])
               /\ v.items[k].fields[h[c]] \in Values
      BY <1>4, TableOf
    <3>2. ASSUME NEW c \in DOMAIN h
          PROVE  CarriedBy[v.items[k].fields[h[c]]][doc.rows[k][c]]
      <4>1. PICK w \in Values : w = v.items[k].fields[h[c]]
        BY <3>1, <3>2
      <4>2. doc.rows[k][c] = Cell(w)
        BY <2>1, <3>1, <3>2, <4>1
      <4> QED
        BY <4>1, <4>2, CellsCarry
    <3> QED
      BY <2>2, <3>1, <3>2
  <2>5. Carries(CarriedBy, v, doc)
    BY <2>2, <2>3, <2>4 DEF Carries
  <2> QED
    BY <1>1, <2>5, CarriedMeans
<1>5. CASE /\ doc.form = "dashed" /\ Len(doc.items) = Len(v.items)
           /\ \A k \in DOMAIN v.items : Part(v.items[k], doc.items[k])
  <2>1. ASSUME NEW k \in DOMAIN v.items
        PROVE  CarriedBy[v.items[k]][doc.items[k]]
    <3>1. PICK w \in Values : w = v.items[k] /\ Carried(w)
      BY <1>2, <2>1
    <3>2. doc.items[k] \in MinimalTOONEncode[w] \/ doc.items[k] = Cell(w)
      BY <1>5, <2>1, <3>1 DEF Part
    <3> QED
      BY <3>1, <3>2, CellsCarry DEF Carried
  <2>2. Carries(CarriedBy, v, doc)
    BY <1>5, <2>1 DEF Carries
  <2> QED
    BY <1>1, <2>2, CarriedMeans
<1>6. CASE doc = [form |-> "list", items |-> [k \in DOMAIN v.items |-> Cell(v.items[k])]]
  <2>1. \A k \in DOMAIN v.items : CarriedBy[v.items[k]][doc.items[k]]
    BY <1>2, <1>6, CellsCarry
  <2>2. Len(v.items) = Len(doc.items)
    <3>1. doc.items = [k \in DOMAIN v.items |-> Cell(v.items[k])]
      BY <1>6
    <3>2. DOMAIN v.items = 1 .. Len(v.items) /\ Len(v.items) \in Nat
      BY <1>2
    <3> QED
      BY <3>1, <3>2
  <2>3. Carries(CarriedBy, v, doc)
    <3>1. doc.form = "list"
      BY <1>6
    <3> QED
      BY <2>1, <2>2, <3>1 DEF Carries
  <2> QED
    BY <1>1, <2>3, CarriedMeans
<1> QED
  BY <1>1, <1>3, <1>4, <1>5, <1>6 DEF ArrayDocument

(* Lines that match: the same places, and each carries what is there.      *)
Matching(x, y) ==
  /\ Len(x) = Len(y)
  /\ \A j \in 1 .. Len(x) :
       /\ x[j].line = y[j].line /\ x[j].name = y[j].name
       /\ CarriedBy[y[j].of][x[j].of]

(* The lines of a field whose value is carried match what it has.          *)
LEMMA EntriesMatch ==
  ASSUME NEW v \in Values, IsObject(v), \A w \in Below(v) : Carried(w),
         NEW o \in Orders(FieldsOf(v)), NEW k \in DOMAIN o,
         NEW doc \in MinimalTOONEncode[v.fields[o[k]]]
  PROVE  /\ Entries(o[k], doc) \in Seq(LinesOf(v, TOONDocuments))
         /\ Matching(Entries(o[k], doc), ContentsOf(o, v)[k])
<1>1. /\ IsFiniteSet(FieldsOf(v))
      /\ \A f \in FieldsOf(v) : v.fields[f] \in Below(v)
  BY PartsBelow DEF IsObject
<1>2. PICK f \in FieldsOf(v) : f = o[k]
  BY <1>1, OrdersOf DEF Range
<1>3. PICK w \in Values : w = v.fields[f] /\ Carried(w)
  BY <1>1 DEF Below, Level
<1>4. /\ doc \in MinimalTOONEncode[w] /\ doc \in TOONDocuments
      /\ CarriedBy[w][doc]
      /\ doc.form = "dashed" <=> IsDashed(w)
  BY <1>2, <1>3, DocumentsOf, DashedForm DEF Carried
<1>5. ContentsOf(o, v)[k] = IF IsDashed(w) THEN [j \in DOMAIN w.items |-> Dashed(w.items[j])]
                            ELSE <<Named(f, w)>>
  BY <1>2, <1>3 DEF ContentsOf
<1>6. CASE ~IsDashed(w)
  <2>1. Entries(f, doc) = <<Named(f, doc)>> /\ ContentsOf(o, v)[k] = <<Named(f, w)>>
    BY <1>4, <1>5, <1>6 DEF Entries
  <2>2. Named(f, doc) \in LinesOf(v, TOONDocuments)
    BY <1>4 DEF Named, LinesOf
  <2>3. Matching(<<Named(f, doc)>>, <<Named(f, w)>>)
    BY <1>4 DEF Matching, Named
  <2> QED
    BY <1>2, <2>1, <2>2, <2>3
<1>7. CASE IsDashed(w)
  <2>1. w.kind = "array" /\ w.items \in Seq(Values) /\ ~HasUniformFields(w.items) /\ w.items # <<>>
    <3>1. w.kind = "array" /\ ~HasUniformFields(w.items) /\ w.items # <<>>
      BY <1>7 DEF IsDashed
    <3> QED
      BY <3>1, PartsBelow
  <2>2. doc.items \in Seq(TOONDocuments) /\ Len(doc.items) = Len(w.items)
    BY <1>4, <1>7, <2>1, ArrayDocuments DEF ArrayDocument
  <2>3. PICK n \in Nat : n = Len(w.items) /\ DOMAIN w.items = 1 .. n /\ DOMAIN doc.items = 1 .. n
    BY <2>1, <2>2
  <2>4. \A j \in 1 .. n : CarriedBy[w.items[j]][doc.items[j]]
    <3>1. Carries(CarriedBy, w, doc)
      BY <1>4, CarriedMeans
    <3>2. doc.form = "dashed"
      BY <1>4, <1>7
    <3>3. \A j \in DOMAIN w.items : CarriedBy[w.items[j]][doc.items[j]]
      BY <3>1, <3>2 DEF Carries
    <3> QED
      BY <2>3, <3>3
  <2>5. /\ Entries(f, doc) = [j \in 1 .. n |-> Dashed(doc.items[j])]
        /\ ContentsOf(o, v)[k] = [j \in 1 .. n |-> Dashed(w.items[j])]
    BY <1>4, <1>5, <1>7, <2>3 DEF Entries
  <2>6. \A j \in 1 .. n : Dashed(doc.items[j]) \in LinesOf(v, TOONDocuments)
    BY <2>2, <2>3 DEF Dashed, LinesOf
  <2>7. [j \in 1 .. n |-> Dashed(doc.items[j])] \in Seq(LinesOf(v, TOONDocuments))
    BY <2>6
  <2>8. Matching([j \in 1 .. n |-> Dashed(doc.items[j])], [j \in 1 .. n |-> Dashed(w.items[j])])
    <3>1. PICK x : x = [j \in 1 .. n |-> Dashed(doc.items[j])]
      OBVIOUS
    <3>2. PICK y : y = [j \in 1 .. n |-> Dashed(w.items[j])]
      OBVIOUS
    <3>3. Len(x) = n /\ Len(y) = n
      BY <3>1, <3>2
    <3>4. ASSUME NEW j \in 1 .. n
          PROVE  x[j].line = y[j].line /\ x[j].name = y[j].name /\ CarriedBy[y[j].of][x[j].of]
      <4>1. x[j] = Dashed(doc.items[j]) /\ y[j] = Dashed(w.items[j])
        BY <3>1, <3>2
      <4>2. \A a : Dashed(a).line = "dashed" /\ Dashed(a).name = "" /\ Dashed(a).of = a
        BY DEF Dashed
      <4>3. /\ x[j].line = y[j].line /\ x[j].name = y[j].name
            /\ x[j].of = doc.items[j] /\ y[j].of = w.items[j]
        BY <4>1, <4>2
      <4>4. CarriedBy[w.items[j]][doc.items[j]]
        BY <2>4
      <4> QED
        BY <4>3, <4>4
    <3>5. Matching(x, y)
      BY <3>3, <3>4 DEF Matching
    <3> QED
      BY <3>1, <3>2, <3>5
  <2> QED
    BY <1>2, <2>5, <2>7, <2>8
<1> QED
  BY <1>6, <1>7

(* An object is carried by its documents if its fields' values are.        *)
LEMMA ObjectCarried ==
  ASSUME NEW v \in Values, v.kind = "object", \A w \in Below(v) : Carried(w)
  PROVE  Carried(v)
<1> SUFFICES ASSUME NEW doc \in MinimalTOONEncode[v]
             PROVE  CarriedBy[v][doc]
  BY DEF Carried
<1>1. PICK o \in Orders(FieldsOf(v)) : \E s :
        /\ \A k \in DOMAIN o : s[k] \in MinimalTOONEncode[v.fields[o[k]]]
        /\ doc = [form |-> "object", entries |-> FlattenSeq(EntriesOf(o, s))]
  BY ObjectDocuments DEF ObjectDocument
<1>2. PICK s : /\ \A k \in DOMAIN o : s[k] \in MinimalTOONEncode[v.fields[o[k]]]
               /\ doc = [form |-> "object", entries |-> FlattenSeq(EntriesOf(o, s))]
  BY <1>1
<1>3. IsObject(v) /\ o \in Seq(FieldsOf(v)) /\ DOMAIN o = 1 .. Len(o) /\ Len(o) \in Nat
  <2>1. o \in Seq(FieldsOf(v))
    BY PartsBelow, OrdersOf
  <2> QED
    BY <2>1 DEF IsObject
<1>4. PICK x : x = EntriesOf(o, s)
  OBVIOUS
<1>5. PICK y : y = ContentsOf(o, v)
  OBVIOUS
<1>6. \A k \in DOMAIN o : x[k] \in Seq(LinesOf(v, TOONDocuments)) /\ Matching(x[k], y[k])
  BY <1>2, <1>3, <1>4, <1>5, EntriesMatch DEF EntriesOf
<1>7. x \in Seq(Seq(LinesOf(v, TOONDocuments))) /\ Len(x) = Len(o)
  <2>1. x = [k \in 1 .. Len(o) |-> x[k]]
    BY <1>3, <1>4 DEF EntriesOf
  <2> QED
    BY <1>3, <1>6, <2>1
<1>8. /\ y \in Seq(Seq(LinesOf(v, Below(v)))) /\ Len(y) = Len(o)
      /\ Contents(o, v) = FlattenSeq(y) /\ Contents(o, v) \in Seq(LinesOf(v, Below(v)))
  BY <1>3, <1>5, ContentsBelow
<1>9. SameShape(x, y)
  BY <1>3, <1>6, <1>7, <1>8 DEF SameShape, Matching
<1>10. Together(FlattenSeq(x), FlattenSeq(y), x, y)
  BY <1>7, <1>8, <1>9, FlattenTogether
<1>11. doc.form = "object" /\ doc.entries = FlattenSeq(x)
  BY <1>2, <1>4
<1>12. Matching(FlattenSeq(x), FlattenSeq(y))
  <2>1. ASSUME NEW m \in 1 .. Len(FlattenSeq(x))
        PROVE  /\ FlattenSeq(x)[m].line = FlattenSeq(y)[m].line
               /\ FlattenSeq(x)[m].name = FlattenSeq(y)[m].name
               /\ CarriedBy[FlattenSeq(y)[m].of][FlattenSeq(x)[m].of]
    <3>1. PICK k \in 1 .. Len(x) : \E j \in 1 .. Len(x[k]) :
            FlattenSeq(x)[m] = x[k][j] /\ FlattenSeq(y)[m] = y[k][j]
      BY <1>10, <2>1 DEF Together
    <3>2. PICK j \in 1 .. Len(x[k]) : FlattenSeq(x)[m] = x[k][j] /\ FlattenSeq(y)[m] = y[k][j]
      BY <3>1
    <3>3. Matching(x[k], y[k])
      BY <1>3, <1>6, <1>7, <3>1
    <3> QED
      BY <3>2, <3>3 DEF Matching
  <2>2. Len(FlattenSeq(x)) = Len(FlattenSeq(y))
    BY <1>10 DEF Together
  <2> QED
    BY <2>1, <2>2 DEF Matching
<1>13. Carries(CarriedBy, v, doc)
  <2>1. PICK contents \in Seq(LinesOf(v, Below(v))) : contents = Contents(o, v)
    BY <1>8
  <2>2. Matching(doc.entries, contents)
    BY <1>8, <1>11, <1>12, <2>1
  <2>3. DOMAIN contents = 1 .. Len(contents)
    BY <2>1
  <2>4. /\ Len(doc.entries) = Len(contents)
        /\ \A k \in DOMAIN contents :
             /\ doc.entries[k].line = contents[k].line
             /\ doc.entries[k].name = contents[k].name
             /\ CarriedBy[contents[k].of][doc.entries[k].of]
    BY <2>2, <2>3 DEF Matching
  <2> QED
    BY <1>3, <1>11, <2>1, <2>4 DEF Carries
<1> QED
  BY <1>13, DocumentsOf, CarriedMeans

(* So every document that minimalTOONEncode may make of a value, in        *)
(* whatever order it walks the maps, carries it, in the sense of CarriedBy *)
(* (word for word where %v prints it): by induction on how deep the value  *)
(* is nested.                                                              *)
THEOREM EveryValueIsCarried == \A v \in Values : Carried(v)
<1> DEFINE T == {n \in Nat : \A v \in Level(n) : Carried(v)}
<1>1. 0 \in T
  BY Levels
<1>2. ASSUME NEW n \in Nat, n \in T
      PROVE  n + 1 \in T
  <2>1. ASSUME NEW v \in Level(n + 1)
        PROVE  Carried(v)
    <3>1. v \in Values /\ \A w \in Below(v) : Carried(w)
      <4>1. /\ v \in Values /\ Depth[v] \in Nat /\ Depth[v] < n + 1
            /\ \A w \in Below(v) : w \in Values /\ Depth[w] \in Nat /\ Depth[w] < Depth[v]
        BY <2>1, Levels
      <4>2. \A w \in Below(v) : w \in Level(n)
        BY <4>1 DEF Level
      <4> QED
        BY <1>2, <4>1, <4>2
    <3>2. CASE v.kind = "scalar"
      <4>1. \A doc \in MinimalTOONEncode[v] : doc = Cell(v)
        BY <3>1, <3>2, DocumentsOf DEF EncodingBy
      <4> QED
        BY <3>1, <4>1, CellsCarry DEF Carried
    <3> QED
      BY <3>1, <3>2, PartsBelow, ArrayCarried, ObjectCarried
  <2> QED
    BY <2>1
<1> HIDE DEF T
<1>3. Nat \subseteq T
  BY <1>1, <1>2, NaturalInduction
<1>4. ASSUME NEW v \in Values
      PROVE  Carried(v)
  <2>1. Depth[v] \in Nat
    BY DepthAssumption
  <2>2. Depth[v] + 1 \in T /\ v \in Level(Depth[v] + 1)
    BY <1>3, <2>1 DEF Level
  <2> QED
    BY <2>2 DEF T
<1> QED
  BY <1>4

(* What is a table has its rows after the first in cells of scalars.       *)
LEMMA TablesOfCells ==
  ASSUME NEW v \in Values, NEW doc \in MinimalTOONEncode[v], doc.form = "table",
         NEW k \in 2 .. Len(doc.rows), NEW c \in DOMAIN doc.header
  PROVE  doc.rows[k][c].form = "cell"
<1>1. v.kind = "array"
  <2>1. v.kind # "object"
    BY ObjectDocuments DEF ObjectDocument
  <2>2. v.kind # "scalar"
    <3>1. v.kind = "scalar" => doc = Cell(v)
      BY DocumentsOf DEF EncodingBy
    <3> QED
      BY <3>1 DEF Cell
  <2> QED
    BY <2>1, <2>2, PartsBelow
<1>2. /\ HasUniformFields(v.items)
      /\ \E h \in Orders(FieldsOf(v.items[1])) : doc = Table(v.items, h)
  BY <1>1, ArrayDocuments DEF ArrayDocument
<1>3. PICK h \in Orders(FieldsOf(v.items[1])) : doc = Table(v.items, h)
  BY <1>2
<1>4. k \in DOMAIN v.items /\ k > 1 /\ c \in DOMAIN h
  <2>1. doc.header = h /\ doc.rows = [j \in DOMAIN v.items |-> doc.rows[j]]
    BY <1>3 DEF Table
  <2>2. v.items \in Seq(Values)
    BY <1>1, PartsBelow
  <2>3. DOMAIN v.items = 1 .. Len(v.items) /\ Len(v.items) \in Nat
    BY <2>2
  <2>4. Len(doc.rows) = Len(v.items)
    BY <2>1, <2>3
  <2> QED
    BY <2>1, <2>3, <2>4
<1>5. doc.rows[k][c] = Cell(v.items[k].fields[h[c]]) /\ IsScalar(v.items[k].fields[h[c]])
  BY <1>1, <1>2, <1>3, <1>4, TableOf
<1> QED
  BY <1>5 DEF Cell

(* The values a text parses to are values.                                 *)
LEMMA CarryingHolds == ValuesInv => DocumentsCarryValues
<1> SUFFICES ASSUME ValuesInv, NEW b \in json, NEW doc \in MinimalTOONEncode[values[b]]
             PROVE  /\ CarriedBy[values[b]][doc]
                    /\ doc.form = "table" =>
                         \A k \in 2 .. Len(doc.rows), c \in DOMAIN doc.header :
                           doc.rows[k][c].form = "cell"
  BY DEF DocumentsCarryValues
<1>1. PICK v \in Values : v = values[b]
  BY DEF ValuesInv
<1> QED
  BY <1>1, EveryValueIsCarried, TablesOfCells DEF Carried

(* "Converts uniform JSON arrays to compact tabular format" (README.md):   *)
(* in whatever order minimalTOONEncode walks the maps, and however deep    *)
(* the value is nested, its document has every element, field and scalar   *)
(* of it in place, but for the names of fields that hold a dashed array,   *)
(* and the structure of what is left to %v: of that it has the words.  A   *)
(* table's rows after the first have scalars only.                         *)
THEOREM DocumentsCarryTheirValues == TextSpec => []DocumentsCarryValues
BY ValuesKeptByText, CarryingHolds, PTL

-----------------------------------------------------------------------------
(* The values the encoder is made for: each array in them is a table of    *)
(* scalars or a list of scalars, at any depth of objects.                  *)
Tabular(P) ==
  /\ P \subseteq Values /\ Documents(P)
  /\ \A v \in P : /\ ~IsDashed(v)
                  /\ v.kind = "array" /\ HasUniformFields(v.items) => AllScalars(v.items[1])

LEMMA TabularValues ==
  ASSUME NEW P, Tabular(P), NEW v \in P
  PROVE  /\ v \in Values /\ ~IsDashed(v)
         /\ v.kind \in {"scalar", "array", "object"}
         /\ v.kind = "scalar" => v = Scalar(v.shown)
         /\ v.kind = "array" => /\ v = Array(v.items) /\ v.items \in Seq(P)
                                /\ HasUniformFields(v.items) => AllScalars(v.items[1])
         /\ v.kind = "object" => /\ v = Object(v.fields) /\ v.fields \in [FieldsOf(v) -> P]
                                 /\ IsFiniteSet(FieldsOf(v))
<1>1. \/ v.kind = "scalar" /\ v = Scalar(v.shown)
      \/ v.kind = "array" /\ v = Array(v.items) /\ v.items \in Seq(P)
      \/ /\ v.kind = "object" /\ v = Object(v.fields)
         /\ IsFiniteSet(DOMAIN v.fields)
         /\ v.fields \in [DOMAIN v.fields -> P]
  BY DEF Tabular, Documents
<1>2. /\ v \in Values /\ ~IsDashed(v)
      /\ v.kind = "array" /\ HasUniformFields(v.items) => AllScalars(v.items[1])
  BY DEF Tabular
<1>3. CASE v.kind = "scalar" /\ v = Scalar(v.shown)
  BY <1>2, <1>3
<1>4. CASE v.kind = "array" /\ v = Array(v.items) /\ v.items \in Seq(P)
  BY <1>2, <1>4
<1>5. CASE /\ v.kind = "object" /\ v = Object(v.fields)
           /\ IsFiniteSet(DOMAIN v.fields)
           /\ v.fields \in [DOMAIN v.fields -> P]
  BY <1>2, <1>5 DEF FieldsOf
<1> QED
  BY <1>1, <1>3, <1>4, <1>5

(* Two scalars in the same cell are the same.                              *)
LEMMA SameCell ==
  ASSUME NEW P, Tabular(P), NEW v \in P, NEW w \in P, IsScalar(v), IsScalar(w), Cell(v) = Cell(w)
  PROVE  v = w
<1>1. v = Scalar(v.shown) /\ w = Scalar(w.shown)
  BY TabularValues DEF IsScalar
<1>2. v.shown = w.shown
  <2>1. Cell(v).shown = v.shown /\ Cell(w).shown = w.shown
    BY DEF Cell
  <2> QED
    BY <2>1
<1> QED
  BY <1>1, <1>2

(* A scalar's only document is its cell.                                   *)
LEMMA ScalarDocument ==
  ASSUME NEW v \in Values, v.kind = "scalar", NEW doc \in MinimalTOONEncode[v]
  PROVE  doc = Cell(v)
BY DocumentsOf DEF EncodingBy

(* The form of a document says of what kind the value is.                  *)
LEMMA FormOfKind ==
  ASSUME NEW P, Tabular(P), NEW v \in P, NEW doc \in MinimalTOONEncode[v]
  PROVE  v.kind = IF doc.form = "cell" THEN "scalar" ELSE IF doc.form = "object" THEN "object" ELSE "array"
<1>1. CASE v.kind = "scalar"
  <2>1. v \in Values
    BY TabularValues
  <2>2. doc = Cell(v)
    BY <1>1, <2>1, ScalarDocument
  <2>3. doc.form = "cell"
    BY <1>1, <2>2 DEF Cell, IsScalar
  <2> QED
    BY <1>1, <2>3
<1>2. CASE v.kind = "object"
  <2>1. doc.form = "object"
    BY <1>2, TabularValues, ObjectDocuments DEF ObjectDocument
  <2> QED
    BY <1>2, <2>1
<1>3. CASE v.kind = "array"
  <2>1. doc.form \in {"empty", "table", "dashed", "list"}
    <3>1. ArrayDocument(v, doc)
      BY <1>3, TabularValues, ArrayDocuments
    <3>2. CASE doc = [form |-> "empty"]
      BY <3>2
    <3>3. CASE \E h \in Orders(FieldsOf(v.items[1])) : doc = Table(v.items, h)
      BY <3>3 DEF Table
    <3>4. CASE doc.form = "dashed"
      BY <3>4
    <3>5. CASE doc = [form |-> "list", items |-> [k \in DOMAIN v.items |-> Cell(v.items[k])]]
      BY <3>5
    <3> QED
      BY <3>1, <3>2, <3>3, <3>4, <3>5 DEF ArrayDocument
  <2> QED
    BY <1>3, <2>1
<1> QED
  BY <1>1, <1>2, <1>3, TabularValues

(* A table of scalars is the table of one array only.                      *)
LEMMA SameTable ==
  ASSUME NEW P, Tabular(P), NEW v \in P, NEW w \in P, v.kind = "array", w.kind = "array",
         HasUniformFields(v.items), HasUniformFields(w.items),
         NEW h \in Orders(FieldsOf(v.items[1])), NEW i \in Orders(FieldsOf(w.items[1])),
         Table(v.items, h) = Table(w.items, i)
  PROVE  v.items = w.items
<1>1. /\ v.items \in Seq(P) /\ AllScalars(v.items[1]) /\ v \in Values
      /\ w.items \in Seq(P) /\ AllScalars(w.items[1]) /\ w \in Values
  BY TabularValues
<1>2. h = i
  <2>1. Table(v.items, h).header = h /\ Table(w.items, i).header = i
    BY DEF Table
  <2> QED
    BY <2>1
<1>3. DOMAIN v.items = DOMAIN w.items
  <2>1. /\ DOMAIN Table(v.items, h).rows = DOMAIN v.items
        /\ DOMAIN Table(w.items, i).rows = DOMAIN w.items
    BY DEF Table
  <2> QED
    BY <2>1
<1>4. ASSUME NEW k \in DOMAIN v.items
      PROVE  v.items[k] = w.items[k]
  <2>1. PICK x \in P, y \in P : x = v.items[k] /\ y = w.items[k]
    BY <1>1, <1>3
  <2>2. /\ IsObject(x) /\ FieldsOf(x) = Range(h)
        /\ IsObject(y) /\ FieldsOf(y) = Range(h)
        /\ \A c \in DOMAIN h : /\ Table(v.items, h).rows[k][c] = Cell(x.fields[h[c]])
                               /\ Table(w.items, i).rows[k][c] = Cell(y.fields[h[c]])
                               /\ k > 1 => IsScalar(x.fields[h[c]]) /\ IsScalar(y.fields[h[c]])
    BY <1>1, <1>2, <1>3, <2>1, TableOf
  <2>3. ASSUME NEW f \in Range(h)
        PROVE  x.fields[f] = y.fields[f]
    <3>1. PICK c \in DOMAIN h : h[c] = f
      BY DEF Range
    <3>2. Cell(x.fields[f]) = Cell(y.fields[f])
      BY <2>2, <3>1
    <3>3. IsScalar(x.fields[f]) /\ IsScalar(y.fields[f])
      <4>1. CASE k > 1
        BY <2>2, <3>1, <4>1
      <4>2. CASE ~(k > 1)
        <5>1. k = 1
          <6>1. k \in Nat \ {0}
            BY <1>1
          <6> QED
            BY <4>2, <6>1
        <5> QED
          BY <1>1, <2>1, <2>2, <5>1 DEF AllScalars
      <4> QED
        BY <4>1, <4>2
    <3>4. x.fields[f] \in P /\ y.fields[f] \in P
      BY <2>2, TabularValues DEF IsObject
    <3> QED
      BY <3>2, <3>3, <3>4, SameCell
  <2>4. x.fields = y.fields
    <3>1. x.fields \in [Range(h) -> P] /\ y.fields \in [Range(h) -> P]
      BY <2>2, TabularValues DEF IsObject
    <3> QED
      BY <2>3, <3>1
  <2>5. x = Object(x.fields) /\ y = Object(y.fields)
    BY <2>2, TabularValues DEF IsObject
  <2> QED
    BY <2>1, <2>4, <2>5
<1>5. v.items = [k \in DOMAIN v.items |-> v.items[k]] /\ w.items = [k \in DOMAIN w.items |-> w.items[k]]
  BY <1>1
<1> QED
  BY <1>3, <1>4, <1>5

(* So an array that has neither dashes nor "%v" is told by its document,   *)
LEMMA SameArray ==
  ASSUME NEW P, Tabular(P), NEW v \in P, NEW w \in P, v.kind = "array", w.kind = "array",
         NEW doc \in MinimalTOONEncode[v], doc \in MinimalTOONEncode[w]
  PROVE  v = w
<1>1. /\ ~IsDashed(v) /\ v \in Values /\ v.items \in Seq(P) /\ v = Array(v.items)
      /\ ~IsDashed(w) /\ w \in Values /\ w.items \in Seq(P) /\ w = Array(w.items)
  BY TabularValues
<1>2. ArrayDocument(v, doc) /\ ArrayDocument(w, doc)
  BY <1>1, ArrayDocuments
<1> DEFINE Empty(u) == u.items = <<>> /\ doc.form = "empty"
           Tables(u) == /\ HasUniformFields(u.items) /\ doc.form = "table"
                        /\ \E h \in Orders(FieldsOf(u.items[1])) : doc = Table(u.items, h)
           List(u) == /\ ~HasUniformFields(u.items) /\ doc.form = "list"
                      /\ doc.items = [k \in DOMAIN u.items |-> Cell(u.items[k])]
<1>3. ASSUME NEW u, ArrayDocument(u, doc), ~IsDashed(u)
      PROVE  Empty(u) \/ Tables(u) \/ List(u)
  <2>1. \/ u.items = <<>> /\ doc = [form |-> "empty"]
        \/ /\ HasUniformFields(u.items)
           /\ \E h \in Orders(FieldsOf(u.items[1])) : doc = Table(u.items, h)
        \/ /\ ~HasUniformFields(u.items)
           /\ doc = [form |-> "list", items |-> [k \in DOMAIN u.items |-> Cell(u.items[k])]]
    BY <1>3 DEF ArrayDocument
  <2>2. CASE u.items = <<>> /\ doc = [form |-> "empty"]
    BY <2>2
  <2>3. CASE /\ HasUniformFields(u.items)
             /\ \E h \in Orders(FieldsOf(u.items[1])) : doc = Table(u.items, h)
    <3>1. \A h : Table(u.items, h).form = "table"
      BY DEF Table
    <3> QED
      BY <2>3, <3>1
  <2>4. CASE /\ ~HasUniformFields(u.items)
             /\ doc = [form |-> "list", items |-> [k \in DOMAIN u.items |-> Cell(u.items[k])]]
    BY <2>4
  <2> HIDE DEF Empty, Tables, List
  <2> QED
    BY <2>1, <2>2, <2>3, <2>4
<1>4. v.items = w.items
  <2>1. CASE Empty(v) /\ Empty(w)
    BY <2>1
  <2>2. CASE Tables(v) /\ Tables(w)
    <3>1. PICK h \in Orders(FieldsOf(v.items[1])) : doc = Table(v.items, h)
      BY <2>2
    <3>2. PICK i \in Orders(FieldsOf(w.items[1])) : doc = Table(w.items, i)
      BY <2>2
    <3> QED
      BY <2>2, <3>1, <3>2, SameTable
  <2>3. CASE List(v) /\ List(w)
    <3>1. DOMAIN v.items = DOMAIN w.items
      BY <2>3
    <3>2. ASSUME NEW k \in DOMAIN v.items
          PROVE  v.items[k] = w.items[k]
      <4>1. Cell(v.items[k]) = Cell(w.items[k])
        BY <2>3, <3>1, <3>2
      <4>2. IsScalar(v.items[k]) /\ IsScalar(w.items[k])
        BY <1>1, <2>3, <3>1 DEF IsDashed
      <4>3. v.items[k] \in P /\ w.items[k] \in P
        BY <1>1, <3>1
      <4> QED
        BY <4>1, <4>2, <4>3, SameCell
    <3>3. v.items = [k \in DOMAIN v.items |-> v.items[k]] /\ w.items = [k \in DOMAIN w.items |-> w.items[k]]
      BY <1>1
    <3> QED
      BY <3>1, <3>2, <3>3
  <2>4. Empty(v) \/ Tables(v) \/ List(v)
    BY <1>1, <1>2, <1>3
  <2>5. Empty(w) \/ Tables(w) \/ List(w)
    BY <1>1, <1>2, <1>3
  <2>6. (doc.form = "empty" /\ Empty(v) /\ Empty(w)) \/ (Tables(v) /\ Tables(w)) \/ (List(v) /\ List(w))
    BY <2>4, <2>5
  <2> HIDE DEF Empty, Tables, List
  <2> QED
    BY <2>1, <2>2, <2>3, <2>6
<1> QED
  BY <1>1, <1>4

(* and so is an object, if the values of its fields are by theirs.         *)
LEMMA SameObject ==
  ASSUME NEW P, Tabular(P), NEW v \in P, NEW w \in P, v.kind = "object", w.kind = "object",
         NEW doc \in MinimalTOONEncode[v], doc \in MinimalTOONEncode[w],
         \A f \in FieldsOf(v) : \A u \in P : \A d \in MinimalTOONEncode[v.fields[f]] :
           d \in MinimalTOONEncode[u] => v.fields[f] = u
  PROVE  v = w
<1>1. ASSUME NEW u \in P, u.kind = "object", doc \in MinimalTOONEncode[u]
      PROVE  \E o \in Seq(FieldsOf(u)) : \E s :
               /\ Range(o) = FieldsOf(u)
               /\ \A k \in DOMAIN o : s[k] \in MinimalTOONEncode[u.fields[o[k]]]
               /\ Len(doc.entries) = Len(o)
               /\ \A k \in DOMAIN o : doc.entries[k] = Named(o[k], s[k])
  <2>1. u \in Values /\ u.fields \in [FieldsOf(u) -> P] /\ IsFiniteSet(FieldsOf(u))
    BY <1>1, TabularValues
  <2>2. PICK o \in Orders(FieldsOf(u)) : \E s :
          /\ \A k \in DOMAIN o : s[k] \in MinimalTOONEncode[u.fields[o[k]]]
          /\ doc = [form |-> "object", entries |-> FlattenSeq(EntriesOf(o, s))]
    <3>1. u \in Values /\ u.kind = "object" /\ doc \in MinimalTOONEncode[u]
      BY <1>1, <2>1
    <3>2. ObjectDocument(u, doc)
      BY <3>1, ObjectDocuments
    <3> QED
      BY <3>2 DEF ObjectDocument
  <2>3. PICK s : /\ \A k \in DOMAIN o : s[k] \in MinimalTOONEncode[u.fields[o[k]]]
                 /\ doc = [form |-> "object", entries |-> FlattenSeq(EntriesOf(o, s))]
    BY <2>2
  <2>4. o \in Seq(FieldsOf(u)) /\ Range(o) = FieldsOf(u)
    BY <2>1, OrdersOf
  <2>5. PICK n \in Nat : n = Len(o) /\ DOMAIN o = 1 .. n
    BY <2>4
  <2>6. PICK x : x = EntriesOf(o, s)
    OBVIOUS
  <2>7. ASSUME NEW k \in 1 .. n
        PROVE  x[k] = <<Named(o[k], s[k])>>
    <3>1. o[k] \in FieldsOf(u)
      BY <2>4, <2>5, <2>7
    <3>2. PICK y \in P : y = u.fields[o[k]]
      BY <2>1, <3>1
    <3>3. y \in Values /\ ~IsDashed(y) /\ s[k] \in MinimalTOONEncode[y]
      BY <2>3, <2>5, <2>7, <3>2, TabularValues
    <3>4. s[k].form # "dashed"
      BY <3>3, DashedForm
    <3>5. x[k] = Entries(o[k], s[k])
      BY <2>5, <2>6, <2>7 DEF EntriesOf
    <3> QED
      BY <3>4, <3>5 DEF Entries
  <2> DEFINE A == {Named(o[k], s[k]) : k \in 1 .. n}
  <2>8. x \in Seq(Seq(A)) /\ Len(x) = n /\ \A k \in 1 .. n : Len(x[k]) = 1 /\ x[k][1] = Named(o[k], s[k])
    <3>1. \A k \in 1 .. n : Named(o[k], s[k]) \in A
      OBVIOUS
    <3> HIDE DEF A
    <3>2. x = [k \in 1 .. n |-> x[k]]
      BY <2>5, <2>6 DEF EntriesOf
    <3>3. ASSUME NEW k \in 1 .. n
          PROVE  x[k] \in Seq(A) /\ Len(x[k]) = 1 /\ x[k][1] = Named(o[k], s[k])
      <4>1. PICK e : e = Named(o[k], s[k])
        OBVIOUS
      <4>2. e \in A /\ x[k] = <<e>>
        BY <2>7, <3>1, <4>1
      <4> QED
        BY <4>1, <4>2
    <3> QED
      BY <3>2, <3>3
  <2>9. Len(FlattenSeq(x)) = n /\ \A k \in 1 .. n : FlattenSeq(x)[k] = Named(o[k], s[k])
    <3> HIDE DEF A
    <3> QED
      BY <2>8, FlattenSingletons
  <2>10. doc.entries = FlattenSeq(x)
    BY <2>3, <2>6
  <2> HIDE DEF A
  <2>11. /\ Len(doc.entries) = Len(o)
         /\ \A k \in DOMAIN o : doc.entries[k] = Named(o[k], s[k])
    BY <2>5, <2>9, <2>10
  <2>12. \A k \in DOMAIN o : s[k] \in MinimalTOONEncode[u.fields[o[k]]]
    BY <2>3
  <2> QED
    BY <2>4, <2>11, <2>12
<1>2. PICK o \in Seq(FieldsOf(v)) : \E s :
        /\ Range(o) = FieldsOf(v)
        /\ \A k \in DOMAIN o : s[k] \in MinimalTOONEncode[v.fields[o[k]]]
        /\ Len(doc.entries) = Len(o)
        /\ \A k \in DOMAIN o : doc.entries[k] = Named(o[k], s[k])
  BY <1>1
<1>3. PICK s : /\ Range(o) = FieldsOf(v)
               /\ \A k \in DOMAIN o : s[k] \in MinimalTOONEncode[v.fields[o[k]]]
               /\ Len(doc.entries) = Len(o)
               /\ \A k \in DOMAIN o : doc.entries[k] = Named(o[k], s[k])
  BY <1>2
<1>4. PICK p \in Seq(FieldsOf(w)) : \E r :
        /\ Range(p) = FieldsOf(w)
        /\ \A k \in DOMAIN p : r[k] \in MinimalTOONEncode[w.fields[p[k]]]
        /\ Len(doc.entries) = Len(p)
        /\ \A k \in DOMAIN p : doc.entries[k] = Named(p[k], r[k])
  BY <1>1
<1>5. PICK r : /\ Range(p) = FieldsOf(w)
               /\ \A k \in DOMAIN p : r[k] \in MinimalTOONEncode[w.fields[p[k]]]
               /\ Len(doc.entries) = Len(p)
               /\ \A k \in DOMAIN p : doc.entries[k] = Named(p[k], r[k])
  BY <1>4
<1>6. PICK n \in Nat : DOMAIN o = 1 .. n /\ DOMAIN p = 1 .. n
  <2>1. Len(o) \in Nat /\ DOMAIN o = 1 .. Len(o) /\ DOMAIN p = 1 .. Len(p)
    OBVIOUS
  <2>2. Len(o) = Len(p)
    BY <1>3, <1>5
  <2> QED
    BY <2>1, <2>2
<1>7. \A k \in 1 .. n : o[k] = p[k] /\ s[k] = r[k]
  <2>1. \A a, b : Named(a, b).name = a /\ Named(a, b).of = b
    BY DEF Named
  <2>2. \A k \in 1 .. n : Named(o[k], s[k]) = Named(p[k], r[k])
    BY <1>3, <1>5, <1>6
  <2> QED
    BY <2>1, <2>2
<1>8. FieldsOf(v) = FieldsOf(w)
  <2>1. Range(o) = Range(p)
    BY <1>6, <1>7 DEF Range
  <2> QED
    BY <1>3, <1>5, <2>1
<1>9. /\ v.fields \in [FieldsOf(v) -> P] /\ v = Object(v.fields)
      /\ w.fields \in [FieldsOf(w) -> P] /\ w = Object(w.fields)
  BY TabularValues
<1>10. ASSUME NEW f \in FieldsOf(v)
       PROVE  v.fields[f] = w.fields[f]
  <2>1. PICK k \in 1 .. n : o[k] = f
    BY <1>3, <1>6 DEF Range
  <2>2. s[k] \in MinimalTOONEncode[v.fields[f]] /\ s[k] \in MinimalTOONEncode[w.fields[f]]
    BY <1>3, <1>5, <1>6, <1>7, <2>1
  <2>3. w.fields[f] \in P
    BY <1>8, <1>9
  <2> QED
    BY <2>2, <2>3
<1>11. v.fields = w.fields
  BY <1>8, <1>9, <1>10
<1> QED
  BY <1>9, <1>11

(* Where minimalTOONEncode writes neither dashes nor "%v" it loses no      *)
(* structure: two different values never have a document in common, in     *)
(* whatever order their maps are walked.  (README.md: "Converts uniform    *)
(* JSON arrays to compact tabular format".)  A scalar is what formatValue  *)
(* shows of it, so 1 and "1" are the same value here, and a document is    *)
(* its structure, not yet its lines of text.                               *)
THEOREM TabularEncodingIsInjective ==
  ASSUME NEW P, Tabular(P), NEW v \in P, NEW w \in P,
         MinimalTOONEncode[v] \cap MinimalTOONEncode[w] # {}
  PROVE  v = w
<1> DEFINE Told(u) == \A x \in P : \A d \in MinimalTOONEncode[u] : d \in MinimalTOONEncode[x] => u = x
           T == {n \in Nat : \A u \in P : u \in Level(n) => Told(u)}
<1>1. 0 \in T
  BY Levels
<1>2. ASSUME NEW n \in Nat, n \in T
      PROVE  n + 1 \in T
  <2>1. ASSUME NEW u \in P, u \in Level(n + 1),
               NEW x \in P, NEW d \in MinimalTOONEncode[u], d \in MinimalTOONEncode[x]
        PROVE  u = x
    <3>1. u.kind = x.kind /\ u.kind \in {"scalar", "array", "object"}
      BY <2>1, FormOfKind, TabularValues
    <3>2. CASE u.kind = "scalar"
      <4>1. d = Cell(u) /\ d = Cell(x)
        <5>1. u \in Values /\ x \in Values /\ x.kind = "scalar"
          BY <3>1, <3>2, TabularValues
        <5> QED
          BY <2>1, <3>2, <5>1, ScalarDocument
      <4> QED
        BY <2>1, <3>1, <3>2, <4>1, SameCell DEF IsScalar
    <3>3. CASE u.kind = "array"
      BY <2>1, <3>1, <3>3, SameArray
    <3>4. CASE u.kind = "object"
      <4>1. ASSUME NEW f \in FieldsOf(u)
            PROVE  Told(u.fields[f])
        <5>1. u \in Values /\ u.fields[f] \in P
          BY <3>4, TabularValues
        <5>2. u.fields[f] \in Below(u)
          BY <3>4, <5>1, PartsBelow
        <5>3. u.fields[f] \in Level(n)
          <6>1. /\ Depth[u] \in Nat /\ Depth[u] < n + 1
                /\ \A y \in Below(u) : y \in Values /\ Depth[y] \in Nat /\ Depth[y] < Depth[u]
            BY <2>1, Levels
          <6>2. PICK y : y = u.fields[f] /\ y \in Values /\ Depth[y] \in Nat /\ Depth[y] < Depth[u]
            BY <5>2, <6>1
          <6>3. Depth[y] < n
            BY <6>1, <6>2
          <6> QED
            BY <6>2, <6>3 DEF Level
        <5> QED
          BY <1>2, <5>1, <5>3
      <4>2. \A f \in FieldsOf(u) : \A y \in P : \A e \in MinimalTOONEncode[u.fields[f]] :
              e \in MinimalTOONEncode[y] => u.fields[f] = y
        BY <4>1
      <4>3. u.kind = "object" /\ x.kind = "object"
        BY <3>1, <3>4
      <4> HIDE DEF Told
      <4> QED
        BY <2>1, <4>2, <4>3, SameObject
    <3> QED
      BY <3>1, <3>2, <3>3, <3>4
  <2> QED
    BY <2>1
<1> HIDE DEF T
<1>3. Nat \subseteq T
  BY <1>1, <1>2, NaturalInduction
<1>4. v \in Values /\ Depth[v] \in Nat
  BY DepthAssumption DEF Tabular
<1>5. Depth[v] + 1 \in T /\ v \in Level(Depth[v] + 1)
  BY <1>3, <1>4 DEF Level
<1>6. Told(v)
  BY <1>5 DEF T
<1>7. PICK d : d \in MinimalTOONEncode[v] /\ d \in MinimalTOONEncode[w]
  OBVIOUS
<1> QED
  BY <1>6, <1>7

=============================================================================
