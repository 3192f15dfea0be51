----------------------------- MODULE SumsProofs -----------------------------
(***************************************************************************)
(* What the proofs know of finite sets of numbers: their greatest and least*)
(* ones, and their sums, whatever the order they are added up in.  An      *)
(* induction over finite sets is an argument about a smallest set a        *)
(* statement fails for.                                                    *)
(***************************************************************************)
EXTENDS Sums, FiniteSets, FiniteSetTheorems, WellFoundedInduction, TLAPS

(* A set of numbers that is not empty has a least one.                     *)
LEMMA LeastNumber ==
  ASSUME NEW S \in SUBSET Nat, S # {}
  PROVE  \E n \in S : \A m \in S : n <= m
<1> DEFINE below == {p \in Nat \X Nat : p[1] < p[2]}
<1>1. IsWellFoundedOn(below, Nat) BY NatLessThanWellFounded, Zenon DEF OpToRel
<1>2. \E n \in S : \A m \in S : ~ (<<m, n>> \in below)
  <2> HIDE DEF below
  <2> QED BY <1>1, WFMin
<1>3. \A m, n \in Nat : <<m, n>> \in below <=> m < n OBVIOUS
<1> HIDE DEF below
<1>4. PICK n \in S : \A m \in S : ~ (<<m, n>> \in below) BY <1>2
<1>5. ASSUME NEW m \in S PROVE n <= m
  <2>1. m \in Nat /\ n \in Nat OBVIOUS
  <2>2. ~ (m < n) BY <1>3, <1>4, <2>1, Zenon
  <2> QED BY <2>1, <2>2
<1> QED BY <1>5

(* Among subsets of a finite set there is one no other of them is inside.  *)
LEMMA SmallestSet ==
  ASSUME NEW U, IsFiniteSet(U), NEW Bad \in SUBSET SUBSET U, Bad # {}
  PROVE  \E s \in Bad : \A t \in SUBSET s : t # s => t \notin Bad
<1> DEFINE sizes == {Cardinality(s) : s \in Bad}
<1>1. \A s \in SUBSET U : IsFiniteSet(s) /\ Cardinality(s) \in Nat BY FS_Subset, FS_CardinalityType
<1>2. sizes \in SUBSET Nat /\ sizes # {} BY <1>1
<1>3. PICK n \in sizes : \A m \in sizes : n <= m BY <1>2, LeastNumber
<1>4. PICK s \in Bad : Cardinality(s) = n BY <1>3
<1>5. ASSUME NEW t \in SUBSET s, t # s PROVE t \notin Bad
  <2>1. Cardinality(t) < Cardinality(s) BY <1>1, <1>5, FS_Subset
  <2>2. Cardinality(t) \in Nat /\ Cardinality(s) \in Nat BY <1>1
  <2>3. t \in Bad => Cardinality(s) <= Cardinality(t) BY <1>3, <1>4
  <2> QED BY <2>1, <2>2, <2>3
<1> QED BY <1>5

LEMMA ImageFinite == ASSUME NEW S, IsFiniteSet(S), NEW f PROVE IsFiniteSet({f[x] : x \in S})
<1> DEFINE g == [x \in S |-> f[x]]
<1>1. g \in Surjection(S, {f[x] : x \in S}) BY DEF Surjection
<1> QED BY <1>1, FS_Surjection

(* A finite set of numbers has a greatest and a least one.                 *)
LEMMA MaxIs ==
  ASSUME NEW S, IsFiniteSet(S), S # {}, \A x \in S : x \in Int
  PROVE  Max(S) \in S /\ \A y \in S : y <= Max(S)
<1> DEFINE Has(s) == \E x \in s : \A y \in s : x >= y
           Bad == {s \in SUBSET S : s # {} /\ ~ Has(s)}
<1>1. Has(S)
  <2> SUFFICES ASSUME S \in Bad PROVE FALSE OBVIOUS
  <2>1. PICK s \in Bad : \A t \in SUBSET s : t # s => t \notin Bad
    <3>1. Bad \in SUBSET SUBSET S /\ Bad # {} OBVIOUS
    <3> HIDE DEF Bad
    <3> QED BY <3>1, SmallestSet
  <2>2. PICK x \in s : TRUE OBVIOUS
  <2>3. s \ {x} = {} \/ Has(s \ {x}) BY <2>1, <2>2
  <2>4. CASE s \ {x} = {} BY <2>4
  <2>5. CASE Has(s \ {x})
    <3>1. PICK z \in s \ {x} : \A y \in s \ {x} : z >= y BY <2>5
    <3>2. \A y \in s : y \in Int OBVIOUS
    <3>3. \A y \in s : (IF x >= z THEN x ELSE z) >= y BY <3>1, <3>2
    <3> QED BY <3>1, <3>3
  <2> QED BY <2>3, <2>4, <2>5
<1>2. Max(S) \in S /\ \A y \in S : Max(S) >= y BY <1>1 DEF Max
<1> QED BY <1>2

LEMMA MinIs ==
  ASSUME NEW S, IsFiniteSet(S), S # {}, \A x \in S : x \in Int
  PROVE  Min(S) \in S /\ \A y \in S : Min(S) <= y
<1> DEFINE T == {0 - x : x \in S}
<1> DEFINE f == [x \in S |-> 0 - x]
<1>0. T = {f[x] : x \in S} OBVIOUS
<1>1. IsFiniteSet(T) /\ T # {} /\ \A x \in T : x \in Int
  <2>1. IsFiniteSet({f[x] : x \in S})
    <3> HIDE DEF f
    <3> QED BY ImageFinite
  <2>2. T # {} /\ \A x \in T : x \in Int OBVIOUS
  <2> HIDE DEF f, T
  <2> QED BY <1>0, <2>1, <2>2
<1>2. PICK m \in T : \A y \in T : y <= m
  <2> HIDE DEF T
  <2> QED BY <1>1, MaxIs
<1>3. PICK x \in S : m = 0 - x BY <1>2
<1>4. \A y \in S : 0 - y <= 0 - x BY <1>2, <1>3
<1>5. \A y \in S : x <= y BY <1>4
<1> QED BY <1>3, <1>5 DEF Min

LEMMA PairLeast ==
  ASSUME NEW a \in Int, NEW b \in Int
  PROVE  Min({a, b}) = IF a <= b THEN a ELSE b
<1> DEFINE pair == {a, b}
<1>1. pair = ({} \cup {a}) \cup {b} OBVIOUS
<1>2. IsFiniteSet({} \cup {a}) BY FS_AddElement, FS_EmptySet
<1>3. IsFiniteSet(pair)
  <2> HIDE DEF pair
  <2> QED BY <1>1, <1>2, FS_AddElement
<1>4. pair # {} /\ \A x \in pair : x \in Int OBVIOUS
<1>5. Min(pair) \in pair /\ \A y \in pair : Min(pair) <= y
  <2> HIDE DEF pair
  <2> QED BY <1>3, <1>4, MinIs
<1> QED BY <1>5

-----------------------------------------------------------------------------
(* The library's fold.                                                     *)

Some(s) == CHOOSE x \in s : TRUE
Adds(S, f, g) == g = [s \in SUBSET S |-> IF s = {} THEN 0 ELSE f[Some(s)] + g[s \ {Some(s)}]]
Adder(S, f) == CHOOSE g : Adds(S, f, g)

LEMMA SumIsFold == ASSUME NEW S, NEW f PROVE SumOf(S, f) = Adder(S, f)[S]
BY DEF SumOf, MapThenSumSet, MapThenFoldSet, Adder, Adds, Some

(* There is such a function: one right for the sets of up to n elements    *)
(* gives one right for one element more.                                   *)
LEMMA AdderExists ==
  ASSUME NEW S, IsFiniteSet(S), NEW f, \A x \in S : f[x] \in Int
  PROVE  \E g \in [SUBSET S -> Int] : Adds(S, f, g)
<1> DEFINE Right(g, s) == g[s] = IF s = {} THEN 0 ELSE f[Some(s)] + g[s \ {Some(s)}]
           Upto(n) == \E g \in [SUBSET S -> Int] : \A s \in SUBSET S : Cardinality(s) <= n => Right(g, s)
<1>1. \A s \in SUBSET S : IsFiniteSet(s) /\ Cardinality(s) \in Nat BY FS_Subset, FS_CardinalityType
<1>2. \A s \in SUBSET S : s # {} =>
        /\ Some(s) \in s /\ f[Some(s)] \in Int /\ s \ {Some(s)} \in SUBSET S
        /\ Cardinality(s \ {Some(s)}) = Cardinality(s) - 1
  <2> SUFFICES ASSUME NEW s \in SUBSET S, s # {}
               PROVE  /\ Some(s) \in s /\ f[Some(s)] \in Int /\ s \ {Some(s)} \in SUBSET S
                      /\ Cardinality(s \ {Some(s)}) = Cardinality(s) - 1
    OBVIOUS
  <2>1. Some(s) \in s BY DEF Some
  <2> QED BY <1>1, <2>1, FS_RemoveElement
<1>3. Upto(0)
  <2> DEFINE g == [s \in SUBSET S |-> 0]
  <2>1. ASSUME NEW s \in SUBSET S, Cardinality(s) <= 0 PROVE Right(g, s)
    <3>1. s = {} BY <1>1, <2>1, FS_EmptySet
    <3> QED BY <3>1
  <2>2. g \in [SUBSET S -> Int] OBVIOUS
  <2> HIDE DEF g
  <2> QED BY <2>1, <2>2
<1>4. ASSUME NEW n \in Nat, Upto(n) PROVE Upto(n + 1)
  <2>1. PICK g \in [SUBSET S -> Int] : \A s \in SUBSET S : Cardinality(s) <= n => Right(g, s) BY <1>4
  <2> DEFINE h == [s \in SUBSET S |-> IF Cardinality(s) <= n THEN g[s]
                                      ELSE IF s = {} THEN 0 ELSE f[Some(s)] + g[s \ {Some(s)}]]
  <2>2. h \in [SUBSET S -> Int] BY <1>2
  <2>3. ASSUME NEW s \in SUBSET S, Cardinality(s) <= n + 1 PROVE Right(h, s)
    <3>1. CASE s = {}
      <4>1. Cardinality(s) = 0 BY <3>1, FS_EmptySet
      <4> QED BY <2>1, <3>1, <4>1
    <3>2. CASE s # {}
      <4>1. Cardinality(s \ {Some(s)}) = Cardinality(s) - 1 /\ Cardinality(s) \in Nat /\ s \ {Some(s)} \in SUBSET S
        BY <1>1, <1>2, <3>2
      <4>2. h[s \ {Some(s)}] = g[s \ {Some(s)}] BY <2>3, <4>1
      <4>3. h[s] = f[Some(s)] + g[s \ {Some(s)}] BY <2>1, <3>2
      <4> QED BY <3>2, <4>2, <4>3
    <3> QED BY <3>1, <3>2
  <2> HIDE DEF h
  <2> QED BY <2>2, <2>3
<1> HIDE DEF Upto
<1>5. \A n \in Nat : Upto(n)
  <2> SUFFICES ASSUME NEW k \in Nat, ~ Upto(k) PROVE FALSE OBVIOUS
  <2> DEFINE Bad == {m \in Nat : ~ Upto(m)}
  <2>1. PICK m \in Bad : \A j \in Bad : m <= j
    <3>1. Bad \in SUBSET Nat /\ Bad # {} OBVIOUS
    <3> HIDE DEF Bad
    <3> QED BY <3>1, LeastNumber
  <2>2. m \in Nat /\ m # 0 BY <1>3
  <2>3. m - 1 \in Nat /\ m - 1 \notin Bad BY <2>1, <2>2
  <2>4. Upto((m - 1) + 1) BY <1>4, <2>3
  <2>5. (m - 1) + 1 = m BY <2>2
  <2> QED BY <2>1, <2>4, <2>5
<1>6. Upto(Cardinality(S)) BY <1>1, <1>5
<1>7. PICK g \in [SUBSET S -> Int] : \A s \in SUBSET S : Cardinality(s) <= Cardinality(S) => Right(g, s)
  BY <1>6 DEF Upto
<1>8. \A s \in SUBSET S : Cardinality(s) <= Cardinality(S) BY <1>1, FS_Subset
<1>9. \A s \in SUBSET S : g[s] = IF s = {} THEN 0 ELSE f[Some(s)] + g[s \ {Some(s)}] BY <1>7, <1>8
<1>10. g = [s \in SUBSET S |-> g[s]] OBVIOUS
<1> QED BY <1>9, <1>10 DEF Adds

(* And only one, which does not depend on the set it is defined over.      *)
LEMMA AddersAgree ==
  ASSUME NEW T, IsFiniteSet(T), NEW S \in SUBSET T, NEW f, NEW e, \A x \in S : f[x] = e[x],
         NEW g, Adds(T, f, g), NEW h, Adds(S, e, h)
  PROVE  g[S] = h[S]
<1> DEFINE Bad == {s \in SUBSET S : g[s] # h[s]}
<1> SUFFICES ASSUME S \in Bad PROVE FALSE OBVIOUS
<1>1. PICK s \in Bad : \A t \in SUBSET s : t # s => t \notin Bad
  <2>1. Bad \in SUBSET SUBSET T /\ Bad # {} OBVIOUS
  <2> HIDE DEF Bad
  <2> QED BY <2>1, SmallestSet
<1>2. s \in SUBSET S /\ s \in SUBSET T OBVIOUS
<1>3. g[s] = (IF s = {} THEN 0 ELSE f[Some(s)] + g[s \ {Some(s)}]) BY <1>2 DEF Adds
<1>4. h[s] = (IF s = {} THEN 0 ELSE e[Some(s)] + h[s \ {Some(s)}]) BY <1>2 DEF Adds
<1>5. s # {} BY <1>3, <1>4
<1>6. Some(s) \in s BY <1>5 DEF Some
<1>7. g[s \ {Some(s)}] = h[s \ {Some(s)}] BY <1>1, <1>6
<1>8. f[Some(s)] = e[Some(s)] BY <1>2, <1>6
<1> QED BY <1>3, <1>4, <1>5, <1>7, <1>8

LEMMA AdderAdds ==
  ASSUME NEW S, IsFiniteSet(S), NEW f, \A x \in S : f[x] \in Int
  PROVE  Adds(S, f, Adder(S, f)) /\ Adder(S, f) \in [SUBSET S -> Int]
<1>1. PICK g \in [SUBSET S -> Int] : Adds(S, f, g) BY AdderExists
<1>2. Adds(S, f, Adder(S, f)) BY <1>1 DEF Adder
<1>3. ASSUME NEW s \in SUBSET S PROVE Adder(S, f)[s] \in Int
  <2> DEFINE part == [t \in SUBSET s |-> g[t]]
  <2>1. Adds(s, f, part)
    <3>1. \A t \in SUBSET s : part[t] = IF t = {} THEN 0 ELSE f[Some(t)] + part[t \ {Some(t)}]
      <4> SUFFICES ASSUME NEW t \in SUBSET s PROVE part[t] = IF t = {} THEN 0 ELSE f[Some(t)] + part[t \ {Some(t)}]
        OBVIOUS
      <4>1. g[t] = IF t = {} THEN 0 ELSE f[Some(t)] + g[t \ {Some(t)}] BY <1>1 DEF Adds
      <4> QED BY <4>1
    <3>2. part = [t \in SUBSET s |-> part[t]] OBVIOUS
    <3> HIDE DEF part
    <3> QED BY <3>1, <3>2 DEF Adds
  <2>2. Adder(S, f)[s] = part[s]
    <3> HIDE DEF part
    <3> QED BY <1>2, <2>1, AddersAgree
  <2> QED BY <2>2
<1>4. Adder(S, f) = [s \in SUBSET S |-> Adder(S, f)[s]] BY <1>2 DEF Adds
<1> HIDE DEF Adder
<1> QED BY <1>2, <1>3, <1>4

-----------------------------------------------------------------------------
(* What the proofs cite.                                                   *)

LEMMA SumInt ==
  ASSUME NEW S, IsFiniteSet(S), NEW f, \A x \in S : f[x] \in Int
  PROVE  SumOf(S, f) \in Int
<1>1. Adder(S, f) \in [SUBSET S -> Int] BY AdderAdds
<1>2. Adder(S, f)[S] \in Int BY <1>1
<1> QED BY <1>2, SumIsFold

LEMMA SumEmpty == ASSUME NEW f PROVE SumOf({}, f) = 0
<1>1. Adds({}, f, Adder({}, f)) BY AdderAdds, FS_EmptySet
<1>2. Adder({}, f)[{}] = 0 BY <1>1 DEF Adds
<1> QED BY <1>2, SumIsFold

LEMMA SumSame ==
  ASSUME NEW S, IsFiniteSet(S), NEW f, NEW e, \A x \in S : f[x] \in Int /\ f[x] = e[x]
  PROVE  SumOf(S, f) = SumOf(S, e)
<1>1. Adds(S, f, Adder(S, f)) /\ Adds(S, e, Adder(S, e)) BY AdderAdds
<1> QED BY <1>1, AddersAgree, SumIsFold

(* The element the fold takes first ...                                    *)
LEMMA SumFirst ==
  ASSUME NEW S, IsFiniteSet(S), S # {}, NEW f, \A x \in S : f[x] \in Int
  PROVE  Some(S) \in S /\ SumOf(S, f) = f[Some(S)] + SumOf(S \ {Some(S)}, f)
<1> DEFINE R == S \ {Some(S)}
<1>1. Some(S) \in S BY DEF Some
<1>2. IsFiniteSet(R) /\ R \in SUBSET S BY FS_Subset
<1>3. Adds(S, f, Adder(S, f)) BY AdderAdds
<1>4. Adds(R, f, Adder(R, f)) BY <1>2, AdderAdds
<1>5. Adder(S, f)[R] = Adder(R, f)[R]
  <2> HIDE DEF R
  <2> QED BY <1>2, <1>3, <1>4, AddersAgree
<1>6. Adder(S, f)[S] = f[Some(S)] + Adder(S, f)[R] BY <1>3 DEF Adds
<1> HIDE DEF R
<1>7. SumOf(S, f) = f[Some(S)] + SumOf(R, f) BY <1>5, <1>6, SumIsFold
<1> QED BY <1>1, <1>7 DEF R

(* ... may be any of them.                                                 *)
LEMMA SumTake ==
  ASSUME NEW S, IsFiniteSet(S), NEW x \in S, NEW f, \A y \in S : f[y] \in Int
  PROVE  SumOf(S, f) = f[x] + SumOf(S \ {x}, f)
<1> DEFINE Holds(s) == \A y \in s : SumOf(s, f) = f[y] + SumOf(s \ {y}, f)
           Bad == {s \in SUBSET S : ~ Holds(s)}
<1> SUFFICES ASSUME S \in Bad PROVE FALSE OBVIOUS
<1>1. PICK s \in Bad : \A t \in SUBSET s : t # s => t \notin Bad
  <2>1. Bad \in SUBSET SUBSET S /\ Bad # {} OBVIOUS
  <2> HIDE DEF Bad
  <2> QED BY <2>1, SmallestSet
<1>2. s \in SUBSET S /\ \A t \in SUBSET s : t # s => Holds(t) BY <1>1
<1>3. PICK y \in s : SumOf(s, f) # f[y] + SumOf(s \ {y}, f) BY <1>1
<1> HIDE DEF Bad
<1> DEFINE z == Some(s)
<1>4. \A t \in SUBSET s : IsFiniteSet(t) /\ \A w \in t : f[w] \in Int BY <1>2, FS_Subset
<1>5. z \in s /\ SumOf(s, f) = f[z] + SumOf(s \ {z}, f) BY <1>3, <1>4, SumFirst
<1>6. y # z BY <1>3, <1>5
<1> HIDE DEF z
<1>7. SumOf(s \ {z}, f) = f[y] + SumOf((s \ {z}) \ {y}, f) BY <1>2, <1>5, <1>6
<1>8. SumOf(s \ {y}, f) = f[z] + SumOf((s \ {y}) \ {z}, f) BY <1>2, <1>3, <1>5, <1>6
<1>9. (s \ {z}) \ {y} = (s \ {y}) \ {z} OBVIOUS
<1>10. SumOf((s \ {z}) \ {y}, f) \in Int BY <1>4, SumInt
<1>11. f[y] \in Int /\ f[z] \in Int BY <1>4, <1>5
<1>12. f[z] + (f[y] + SumOf((s \ {z}) \ {y}, f)) = f[y] + (f[z] + SumOf((s \ {z}) \ {y}, f)) BY <1>10, <1>11
<1> QED BY <1>3, <1>5, <1>7, <1>8, <1>9, <1>12

LEMMA SumAdd ==
  ASSUME NEW S, IsFiniteSet(S), NEW x, x \notin S, NEW f, \A y \in S \cup {x} : f[y] \in Int
  PROVE  SumOf(S \cup {x}, f) = SumOf(S, f) + f[x]
<1>1. IsFiniteSet(S \cup {x}) BY FS_AddElement
<1>2. (S \cup {x}) \ {x} = S OBVIOUS
<1>3. SumOf(S \cup {x}, f) = f[x] + SumOf(S, f) BY <1>1, <1>2, SumTake
<1>4. SumOf(S, f) \in Int BY SumInt
<1> QED BY <1>3, <1>4

LEMMA SumNat ==
  ASSUME NEW S, IsFiniteSet(S), NEW f, \A x \in S : f[x] \in Nat
  PROVE  SumOf(S, f) \in Nat
<1> DEFINE Bad == {s \in SUBSET S : SumOf(s, f) \notin Nat}
<1> SUFFICES ASSUME S \in Bad PROVE FALSE OBVIOUS
<1>1. PICK s \in Bad : \A t \in SUBSET s : t # s => t \notin Bad
  <2>1. Bad \in SUBSET SUBSET S /\ Bad # {} OBVIOUS
  <2> HIDE DEF Bad
  <2> QED BY <2>1, SmallestSet
<1>2. s # {} BY SumEmpty
<1>3. IsFiniteSet(s) /\ \A x \in s : f[x] \in Int /\ f[x] \in Nat BY FS_Subset
<1>4. Some(s) \in s /\ SumOf(s, f) = f[Some(s)] + SumOf(s \ {Some(s)}, f) BY <1>2, <1>3, SumFirst
<1>5. SumOf(s \ {Some(s)}, f) \in Nat BY <1>1, <1>4
<1> QED BY <1>3, <1>4, <1>5

LEMMA SumZero ==
  ASSUME NEW S, IsFiniteSet(S), NEW f, \A x \in S : f[x] = 0
  PROVE  SumOf(S, f) = 0
<1> DEFINE Bad == {s \in SUBSET S : SumOf(s, f) # 0}
<1> SUFFICES ASSUME S \in Bad PROVE FALSE OBVIOUS
<1>1. PICK s \in Bad : \A t \in SUBSET s : t # s => t \notin Bad
  <2>1. Bad \in SUBSET SUBSET S /\ Bad # {} OBVIOUS
  <2> HIDE DEF Bad
  <2> QED BY <2>1, SmallestSet
<1>2. s # {} BY SumEmpty
<1>3. IsFiniteSet(s) /\ \A x \in s : f[x] \in Int /\ f[x] = 0 BY FS_Subset
<1>4. Some(s) \in s /\ SumOf(s, f) = f[Some(s)] + SumOf(s \ {Some(s)}, f) BY <1>2, <1>3, SumFirst
<1>5. SumOf(s \ {Some(s)}, f) = 0 BY <1>1, <1>4
<1> QED BY <1>3, <1>4, <1>5

(* Parts that are not negative add up to no more than the whole.           *)
LEMMA SumPart ==
  ASSUME NEW S, IsFiniteSet(S), NEW R \in SUBSET S, NEW f, \A x \in S : f[x] \in Nat
  PROVE  SumOf(R, f) <= SumOf(S, f)
<1> DEFINE Bad == {s \in SUBSET S : R \subseteq s /\ ~ (SumOf(R, f) <= SumOf(s, f))}
<1> SUFFICES ASSUME S \in Bad PROVE FALSE OBVIOUS
<1>1. PICK s \in Bad : \A t \in SUBSET s : t # s => t \notin Bad
  <2>1. Bad \in SUBSET SUBSET S /\ Bad # {} OBVIOUS
  <2> HIDE DEF Bad
  <2> QED BY <2>1, SmallestSet
<1>2. \A t \in SUBSET S : IsFiniteSet(t) /\ SumOf(t, f) \in Nat
  <2> SUFFICES ASSUME NEW t \in SUBSET S PROVE IsFiniteSet(t) /\ SumOf(t, f) \in Nat OBVIOUS
  <2>1. IsFiniteSet(t) BY FS_Subset
  <2> QED BY <2>1, SumNat
<1>3. s # R BY <1>2
<1>4. PICK x \in s : x \notin R BY <1>3
<1>5. s \ {x} \in SUBSET s /\ s \ {x} # s /\ R \subseteq s \ {x} BY <1>4
<1>6. SumOf(R, f) <= SumOf(s \ {x}, f) BY <1>1, <1>5
<1>7. SumOf(s, f) = f[x] + SumOf(s \ {x}, f)
  <2>1. \A y \in s : f[y] \in Int OBVIOUS
  <2> QED BY <1>2, <2>1, SumTake
<1>8. f[x] \in Nat /\ SumOf(s \ {x}, f) \in Nat /\ SumOf(R, f) \in Nat BY <1>2
<1> QED BY <1>6, <1>7, <1>8

-----------------------------------------------------------------------------
(* Sums of sums.                                                           *)
LEMMA SumPlus ==
  ASSUME NEW S, IsFiniteSet(S), NEW f, NEW g, \A x \in S : f[x] \in Int /\ g[x] \in Int
  PROVE  SumOf(S, [x \in S |-> f[x] + g[x]]) = SumOf(S, f) + SumOf(S, g)
<1> DEFINE h == [x \in S |-> f[x] + g[x]]
           Bad == {s \in SUBSET S : SumOf(s, h) # SumOf(s, f) + SumOf(s, g)}
<1> SUFFICES ASSUME S \in Bad PROVE FALSE OBVIOUS
<1>1. PICK s \in Bad : \A t \in SUBSET s : t # s => t \notin Bad
  <2>1. Bad \in SUBSET SUBSET S /\ Bad # {} OBVIOUS
  <2> HIDE DEF Bad
  <2> QED BY <2>1, SmallestSet
<1>2. \A x \in S : h[x] = f[x] + g[x] OBVIOUS
<1>3. \A x \in S : h[x] \in Int OBVIOUS
<1> HIDE DEF h
<1>4. s # {} BY SumEmpty
<1>5. IsFiniteSet(s) /\ (\A x \in s : f[x] \in Int) /\ (\A x \in s : g[x] \in Int) /\ (\A x \in s : h[x] \in Int)
  BY <1>3, FS_Subset
<1>6. Some(s) \in s /\ SumOf(s, f) = f[Some(s)] + SumOf(s \ {Some(s)}, f) BY <1>4, <1>5, SumFirst
<1>7. SumOf(s, g) = g[Some(s)] + SumOf(s \ {Some(s)}, g) BY <1>4, <1>5, SumFirst
<1>8. SumOf(s, h) = h[Some(s)] + SumOf(s \ {Some(s)}, h) BY <1>4, <1>5, SumFirst
<1> DEFINE r == s \ {Some(s)}
<1>9. SumOf(r, h) = SumOf(r, f) + SumOf(r, g) BY <1>1, <1>6
<1>10. IsFiniteSet(r) BY <1>5, FS_Subset
<1>11. SumOf(r, f) \in Int /\ SumOf(r, g) \in Int
  <2> HIDE DEF r
  <2>1. r \in SUBSET s BY DEF r
  <2>2. SumOf(r, f) \in Int BY <1>5, <1>10, <2>1, SumInt
  <2>3. SumOf(r, g) \in Int BY <1>5, <1>10, <2>1, SumInt
  <2> QED BY <2>2, <2>3
<1>12. SumOf(s, h) # SumOf(s, f) + SumOf(s, g) OBVIOUS
<1>13. f[Some(s)] \in Int /\ g[Some(s)] \in Int /\ h[Some(s)] = f[Some(s)] + g[Some(s)] BY <1>2, <1>5, <1>6
<1> HIDE DEF Bad
<1> QED BY <1>6, <1>7, <1>8, <1>9, <1>11, <1>12, <1>13

LEMMA SumMinus ==
  ASSUME NEW S, IsFiniteSet(S), NEW f, NEW g, \A x \in S : f[x] \in Int /\ g[x] \in Int
  PROVE  SumOf(S, [x \in S |-> f[x] - g[x]]) = SumOf(S, f) - SumOf(S, g)
<1> DEFINE d == [x \in S |-> f[x] - g[x]]
           u == [x \in S |-> d[x] + g[x]]
<1>1. \A x \in S : d[x] \in Int /\ g[x] \in Int OBVIOUS
<1>2. \A x \in S : u[x] \in Int /\ u[x] = f[x] OBVIOUS
<1>3. SumOf(S, u) = SumOf(S, d) + SumOf(S, g)
  <2> HIDE DEF d
  <2> QED BY <1>1, SumPlus
<1> HIDE DEF u, d
<1>4. SumOf(S, u) = SumOf(S, f) BY <1>2, SumSame
<1>5. SumOf(S, d) \in Int BY <1>1, SumInt
<1>6. SumOf(S, g) \in Int BY <1>1, SumInt
<1>7. SumOf(S, d) = SumOf(S, f) - SumOf(S, g) BY <1>3, <1>4, <1>5, <1>6
<1> QED BY <1>7 DEF d

LEMMA SumTimes ==
  ASSUME NEW S, IsFiniteSet(S), NEW c \in Int, NEW f, \A x \in S : f[x] \in Int
  PROVE  SumOf(S, [x \in S |-> c * f[x]]) = c * SumOf(S, f)
<1> DEFINE h == [x \in S |-> c * f[x]]
           Bad == {s \in SUBSET S : SumOf(s, h) # c * SumOf(s, f)}
<1> SUFFICES ASSUME S \in Bad PROVE FALSE OBVIOUS
<1>1. PICK s \in Bad : \A t \in SUBSET s : t # s => t \notin Bad
  <2>1. Bad \in SUBSET SUBSET S /\ Bad # {} OBVIOUS
  <2> HIDE DEF Bad
  <2> QED BY <2>1, SmallestSet
<1>2. \A x \in S : h[x] = c * f[x] OBVIOUS
<1>3. \A x \in S : h[x] \in Int OBVIOUS
<1> HIDE DEF h
<1>4. s # {}
  <2> SUFFICES ASSUME s = {} PROVE FALSE OBVIOUS
  <2>1. SumOf({}, h) = 0 /\ SumOf({}, f) = 0 BY SumEmpty
  <2>2. c * 0 = 0 OBVIOUS
  <2> QED BY <2>1, <2>2
<1>5. IsFiniteSet(s) /\ (\A x \in s : f[x] \in Int) /\ (\A x \in s : h[x] \in Int)
  BY <1>3, FS_Subset
<1>6. Some(s) \in s /\ SumOf(s, f) = f[Some(s)] + SumOf(s \ {Some(s)}, f) BY <1>4, <1>5, SumFirst
<1>8. SumOf(s, h) = h[Some(s)] + SumOf(s \ {Some(s)}, h) BY <1>4, <1>5, SumFirst
<1> DEFINE r == s \ {Some(s)}
<1>9. SumOf(r, h) = c * SumOf(r, f) BY <1>1, <1>6
<1>11. SumOf(r, f) \in Int
  <2>1. IsFiniteSet(r) BY <1>5, FS_Subset
  <2>2. \A x \in r : f[x] \in Int BY <1>5
  <2> HIDE DEF r
  <2> QED BY <2>1, <2>2, SumInt
<1>12. SumOf(s, h) # c * SumOf(s, f) OBVIOUS
<1>13. f[Some(s)] \in Int /\ h[Some(s)] = c * f[Some(s)] BY <1>2, <1>5, <1>6
<1> HIDE DEF Bad, r
<1>14. ASSUME NEW a \in Int, NEW b \in Int PROVE c * (a + b) = c * a + c * b OBVIOUS
<1>15. c * (f[Some(s)] + SumOf(r, f)) = c * f[Some(s)] + c * SumOf(r, f) BY <1>11, <1>13, <1>14
<1>16. SumOf(s, h) = c * SumOf(s, f) BY <1>6, <1>8, <1>9, <1>13, <1>15 DEF r
<1> QED BY <1>12, <1>16

LEMMA SumUpTo ==
  ASSUME NEW S, IsFiniteSet(S), NEW f, NEW g, \A x \in S : f[x] \in Int /\ g[x] \in Int /\ f[x] <= g[x]
  PROVE  SumOf(S, f) <= SumOf(S, g)
<1> DEFINE d == [x \in S |-> g[x] - f[x]]
<1>1. \A x \in S : d[x] \in Nat OBVIOUS
<1>2. SumOf(S, d) = SumOf(S, g) - SumOf(S, f) BY SumMinus
<1> HIDE DEF d
<1>3. SumOf(S, d) \in Nat BY <1>1, SumNat
<1>4. SumOf(S, f) \in Int BY SumInt
<1>5. SumOf(S, g) \in Int BY SumInt
<1> QED BY <1>2, <1>3, <1>4, <1>5

(* Of a function that differs in one value.                                *)
LEMMA SumOneMore ==
  ASSUME NEW S, IsFiniteSet(S), NEW x \in S, NEW d \in Int, NEW f, NEW g, \A y \in S : f[y] \in Int,
         \A y \in S \ {x} : g[y] = f[y], g[x] = f[x] + d
  PROVE  SumOf(S, g) = SumOf(S, f) + d
<1>1. \A y \in S : g[y] \in Int OBVIOUS
<1>2. SumOf(S, f) = f[x] + SumOf(S \ {x}, f) BY SumTake
<1>3. SumOf(S, g) = g[x] + SumOf(S \ {x}, g) BY <1>1, SumTake
<1>4. IsFiniteSet(S \ {x}) BY FS_Subset
<1>5. SumOf(S \ {x}, f) = SumOf(S \ {x}, g) BY <1>4, SumSame
<1>6. SumOf(S \ {x}, f) \in Int BY <1>4, SumInt
<1> QED BY <1>2, <1>3, <1>5, <1>6

(* Put into groups, the groups' sums add up to the whole.                  *)
LEMMA SumGroups ==
  ASSUME NEW S, IsFiniteSet(S), NEW f, \A x \in S : f[x] \in Int,
         NEW K, IsFiniteSet(K), NEW key, \A x \in S : key[x] \in K
  PROVE  SumOf(K, [k \in K |-> SumOf({x \in S : key[x] = k}, f)]) = SumOf(S, f)
<1> DEFINE Group(s, k) == {x \in s : key[x] = k}
           Groups(s) == [k \in K |-> SumOf(Group(s, k), f)]
           Bad == {s \in SUBSET S : SumOf(K, Groups(s)) # SumOf(s, f)}
<1> SUFFICES ASSUME S \in Bad PROVE FALSE OBVIOUS
<1>1. PICK s \in Bad : \A t \in SUBSET s : t # s => t \notin Bad
  <2>1. Bad \in SUBSET SUBSET S /\ Bad # {} OBVIOUS
  <2> HIDE DEF Bad
  <2> QED BY <2>1, SmallestSet
<1>2. s \in SUBSET S /\ SumOf(K, Groups(s)) # SumOf(s, f) BY <1>1
<1>3. \A t \in SUBSET s : t # s => SumOf(K, Groups(t)) = SumOf(t, f) BY <1>1
<1> HIDE DEF Bad
<1>4. \A t \in SUBSET S : IsFiniteSet(t) /\ (\A x \in t : f[x] \in Int) BY FS_Subset
<1>5. \A t \in SUBSET S : SumOf(t, f) \in Int BY <1>4, SumInt
<1>6. \A t \in SUBSET S : \A k \in K : Groups(t)[k] = SumOf(Group(t, k), f) /\ Groups(t)[k] \in Int
  <2> SUFFICES ASSUME NEW t \in SUBSET S, NEW k \in K
               PROVE  Groups(t)[k] = SumOf(Group(t, k), f) /\ Groups(t)[k] \in Int
    OBVIOUS
  <2>1. Groups(t)[k] = SumOf(Group(t, k), f) OBVIOUS
  <2>2. Group(t, k) \in SUBSET S OBVIOUS
  <2> HIDE DEF Groups, Group
  <2> QED BY <1>5, <2>1, <2>2
<1>7. \A t \in SUBSET S : \A k \in K : Group(t, k) = {x \in t : key[x] = k} OBVIOUS
<1> HIDE DEF Groups, Group
<1>8. s # {}
  <2> SUFFICES ASSUME s = {} PROVE FALSE OBVIOUS
  <2>1. \A k \in K : Group({}, k) = {} BY <1>7
  <2>2. \A k \in K : Groups({})[k] = 0 BY <1>6, <2>1, SumEmpty
  <2>3. SumOf(K, Groups({})) = 0 BY <2>2, SumZero
  <2> QED BY <1>2, <2>3, SumEmpty
<1>9. PICK x \in s : TRUE BY <1>8
<1> DEFINE r == s \ {x}
<1>10. r \in SUBSET s /\ r # s /\ r \in SUBSET S BY <1>2, <1>9
<1>11. SumOf(s, f) = f[x] + SumOf(r, f) BY <1>2, <1>4, <1>9, SumTake
<1>12. key[x] \in K /\ f[x] \in Int BY <1>2, <1>9
<1>13. Group(s, key[x]) \in SUBSET S /\ x \in Group(s, key[x]) BY <1>2, <1>7, <1>9, <1>12
<1>14. Group(s, key[x]) \ {x} = Group(r, key[x]) BY <1>2, <1>7, <1>10, <1>12
<1>15. Groups(s)[key[x]] = Groups(r)[key[x]] + f[x]
  <2>0. \A t \in SUBSET S : \A z \in t : SumOf(t, f) = f[z] + SumOf(t \ {z}, f) BY <1>4, SumTake, ZenonT(60)
  <2>1. SumOf(Group(s, key[x]), f) = f[x] + SumOf(Group(r, key[x]), f) BY <1>13, <1>14, <2>0, Zenon
  <2> HIDE DEF r
  <2> QED BY <1>2, <1>6, <1>10, <1>12, <2>1
<1>16. \A k \in K \ {key[x]} : Groups(s)[k] = Groups(r)[k]
  <2>1. ASSUME NEW k \in K \ {key[x]} PROVE Group(s, k) = Group(r, k)
    <3>1. Group(s, k) = {y \in s : key[y] = k} BY <1>2, <1>7
    <3>2. Group(r, k) = {y \in r : key[y] = k} BY <1>7, <1>10, Zenon
    <3> QED BY <3>1, <3>2
  <2> HIDE DEF r
  <2> QED BY <1>2, <1>6, <1>10, <2>1
<1> HIDE DEF r
<1>17. SumOf(K, Groups(s)) = SumOf(K, Groups(r)) + f[x]
  <2>1. \A k \in K : Groups(r)[k] \in Int BY <1>6, <1>10
  <2> QED BY <1>12, <1>15, <1>16, <2>1, SumOneMore
<1>18. SumOf(K, Groups(r)) = SumOf(r, f) BY <1>3, <1>10
<1>19. SumOf(r, f) \in Int BY <1>5, <1>10
<1> QED BY <1>2, <1>11, <1>12, <1>17, <1>18, <1>19

(* Rows first or columns first.                                            *)
LEMMA SumTable ==
  ASSUME NEW S, IsFiniteSet(S), NEW K, IsFiniteSet(K), NEW f, \A x \in S : \A k \in K : f[x][k] \in Int
  PROVE  SumOf(K, [k \in K |-> SumOf(S, [x \in S |-> f[x][k]])]) = SumOf(S, [x \in S |-> SumOf(K, f[x])])
<1> DEFINE Column(k) == [x \in S |-> f[x][k]]
           Columns(s) == [k \in K |-> SumOf(s, Column(k))]
           across == [x \in S |-> SumOf(K, f[x])]
           Bad == {s \in SUBSET S : SumOf(K, Columns(s)) # SumOf(s, across)}
<1> SUFFICES ASSUME S \in Bad PROVE FALSE OBVIOUS
<1>1. PICK s \in Bad : \A t \in SUBSET s : t # s => t \notin Bad
  <2>1. Bad \in SUBSET SUBSET S /\ Bad # {} OBVIOUS
  <2> HIDE DEF Bad
  <2> QED BY <2>1, SmallestSet
<1>2. s \in SUBSET S /\ SumOf(K, Columns(s)) # SumOf(s, across) BY <1>1
<1>3. \A t \in SUBSET s : t # s => SumOf(K, Columns(t)) = SumOf(t, across) BY <1>1
<1> HIDE DEF Bad
<1>4. \A t \in SUBSET S : IsFiniteSet(t) BY FS_Subset
<1>5. \A x \in S : across[x] = SumOf(K, f[x]) /\ across[x] \in Int
  <2>1. \A x \in S : SumOf(K, f[x]) \in Int BY SumInt
  <2> QED BY <2>1
<1>6. \A k \in K : \A x \in S : Column(k)[x] = f[x][k] /\ Column(k)[x] \in Int OBVIOUS
<1> HIDE DEF Column, across
<1>7. \A t \in SUBSET S : \A k \in K : Columns(t)[k] = SumOf(t, Column(k)) /\ Columns(t)[k] \in Int
  <2> SUFFICES ASSUME NEW t \in SUBSET S, NEW k \in K
               PROVE  Columns(t)[k] = SumOf(t, Column(k)) /\ Columns(t)[k] \in Int
    OBVIOUS
  <2>1. Columns(t)[k] = SumOf(t, Column(k)) OBVIOUS
  <2> HIDE DEF Columns
  <2>2. IsFiniteSet(t) /\ \A x \in t : Column(k)[x] \in Int BY <1>4, <1>6
  <2>3. SumOf(t, Column(k)) \in Int BY <2>2, SumInt
  <2> QED BY <2>1, <2>3
<1> HIDE DEF Columns
<1>8. s # {}
  <2> SUFFICES ASSUME s = {} PROVE FALSE OBVIOUS
  <2>1. \A k \in K : Columns({})[k] = 0 BY <1>7, SumEmpty
  <2>2. SumOf(K, Columns({})) = 0 BY <2>1, SumZero
  <2> QED BY <1>2, <2>2, SumEmpty
<1>9. PICK x \in s : TRUE BY <1>8
<1> DEFINE r == s \ {x}
<1>10. r \in SUBSET s /\ r # s /\ r \in SUBSET S /\ x \in S BY <1>2, <1>9
<1>11. SumOf(s, across) = across[x] + SumOf(r, across) BY <1>2, <1>4, <1>5, <1>9, SumTake
<1>12. \A k \in K : Columns(s)[k] = Columns(r)[k] + f[x][k]
  <2> SUFFICES ASSUME NEW k \in K PROVE Columns(s)[k] = Columns(r)[k] + f[x][k] OBVIOUS
  <2>1. SumOf(s, Column(k)) = Column(k)[x] + SumOf(r, Column(k)) BY <1>2, <1>4, <1>6, <1>9, SumTake
  <2>2. Columns(s)[k] = SumOf(s, Column(k)) /\ Columns(r)[k] = SumOf(r, Column(k)) /\ Columns(r)[k] \in Int BY <1>2, <1>7, <1>10
  <2>3. Column(k)[x] = f[x][k] /\ f[x][k] \in Int BY <1>6, <1>10
  <2> QED BY <2>1, <2>2, <2>3
<1> DEFINE both == [k \in K |-> Columns(r)[k] + f[x][k]]
<1> HIDE DEF r
<1>13. \A k \in K : Columns(r)[k] \in Int /\ f[x][k] \in Int BY <1>6, <1>7, <1>10
<1>14. SumOf(K, both) = SumOf(K, Columns(r)) + SumOf(K, f[x]) BY <1>13, SumPlus
<1>15. SumOf(K, Columns(s)) = SumOf(K, both)
  <2>1. \A k \in K : Columns(s)[k] \in Int /\ Columns(s)[k] = both[k] BY <1>2, <1>7, <1>12
  <2> HIDE DEF both
  <2> QED BY <2>1, SumSame
<1> HIDE DEF both
<1>16. SumOf(K, Columns(r)) = SumOf(r, across) BY <1>3, <1>10
<1>17. SumOf(r, across) \in Int
  <2>1. IsFiniteSet(r) /\ \A y \in r : across[y] \in Int BY <1>4, <1>5, <1>10
  <2> QED BY <2>1, SumInt
<1>18. across[x] \in Int /\ across[x] = SumOf(K, f[x]) BY <1>5, <1>10
<1> QED BY <1>2, <1>11, <1>14, <1>15, <1>16, <1>17, <1>18
=============================================================================
