---------------------------------- MODULE Sums ----------------------------------
(***************************************************************************)
(* Lemmas about sums of natural numbers, over finite sets and sequences.   *)
(* The library's folds are recursive functions over the subsets of a set;  *)
(* that they are what they should be follows from a smallest subset for    *)
(* which they would not be, without induction.                             *)
(***************************************************************************)
EXTENDS FiniteSetsExt, SequencesExt, Functions, FiniteSetTheorems, SequenceTheorems, WellFoundedInduction, TLAPS

\* A family of subsets of a finite set has a smallest member: taking anything
\* out of it leaves the family.
LEMMA SmallestSet ==
    ASSUME NEW S, IsFiniteSet(S), NEW family \in SUBSET SUBSET S, family # {}
    PROVE  \E s \in family : \A x \in s : s \ {x} \notin family
<1>1. IsWellFoundedOn(StrictSubsetOrdering(S), SUBSET S)
  BY FS_StrictSubsetOrderingWellFounded, FS_FiniteSubsetsOfFinite
<1>2. PICK s \in family : \A r \in family : <<r, s>> \notin StrictSubsetOrdering(S)
  BY <1>1, WFMin
<1>3. ASSUME NEW x \in s PROVE s \ {x} \notin family
  <2>1. s \ {x} \subseteq s /\ s \ {x} # s /\ s \in SUBSET S /\ s \ {x} \in SUBSET S
    OBVIOUS
  <2>2. <<s \ {x}, s>> \in StrictSubsetOrdering(S)
    BY <2>1 DEF StrictSubsetOrdering
  <2> QED BY <1>2, <2>2
<1> QED BY <1>3

\* f[x] things for every x of s: as many as the sum of f over s
Tally(f, s) == UNION {{x} \X (1 .. f[x]) : x \in s}

LEMMA TallyOfOne ==
    ASSUME NEW f, NEW s, NEW x \in s, f[x] \in Nat
    PROVE  /\ Tally(f, s) = Tally(f, s \ {x}) \cup ({x} \X (1 .. f[x]))
           /\ Tally(f, s \ {x}) \cap ({x} \X (1 .. f[x])) = {}
           /\ IsFiniteSet({x} \X (1 .. f[x])) /\ Cardinality({x} \X (1 .. f[x])) = f[x]
<1>1. IsFiniteSet(1 .. f[x]) /\ Cardinality(1 .. f[x]) = f[x]
  BY FS_Interval, SMTT(30)
<1>2. IsFiniteSet({x}) /\ Cardinality({x}) = 1
  BY FS_Singleton
<1>3. IsFiniteSet({x} \X (1 .. f[x])) /\ Cardinality({x} \X (1 .. f[x])) = 1 * f[x]
  BY <1>1, <1>2, FS_Product
<1> QED BY <1>3 DEF Tally

LEMMA TallyFinite ==
    ASSUME NEW S, IsFiniteSet(S), NEW f \in [S -> Nat], NEW s \in SUBSET S
    PROVE  IsFiniteSet(Tally(f, s)) /\ Cardinality(Tally(f, s)) \in Nat
<1> DEFINE family == {r \in SUBSET S : ~ IsFiniteSet(Tally(f, r))}
<1>1. ASSUME family # {} PROVE FALSE
  <2>1. PICK r \in family : \A x \in r : r \ {x} \notin family
    BY <1>1, SmallestSet
  <2>2. r # {}
    <3>1. Tally(f, {}) = {} BY DEF Tally
    <3> QED BY <3>1, FS_EmptySet
  <2>3. PICK x \in r : TRUE BY <2>2
  <2>4. IsFiniteSet(Tally(f, r \ {x}))
    BY <2>1
  <2>5. f[x] \in Nat OBVIOUS
  <2>6. IsFiniteSet(Tally(f, r))
    <3> DEFINE rest == Tally(f, r \ {x})
               one == {x} \X (1 .. f[x])
    <3>1. Tally(f, r) = rest \cup one /\ IsFiniteSet(one) /\ IsFiniteSet(rest)
      <4>1. Tally(f, r) = rest \cup one BY <2>5, TallyOfOne
      <4>2. IsFiniteSet(one) BY <2>5, TallyOfOne
      <4> QED BY <2>4, <4>1, <4>2
    <3> HIDE DEF rest, one
    <3>2. IsFiniteSet(rest \cup one)
      BY <3>1, FS_Union
    <3> QED BY <3>1, <3>2
  <2> QED BY <2>6
<1>2. IsFiniteSet(Tally(f, s)) BY <1>1
<1> QED BY <1>2, FS_CardinalityType

LEMMA CountTally ==
    ASSUME NEW S, IsFiniteSet(S), NEW f \in [S -> Nat], NEW s \in SUBSET S, NEW x \in s
    PROVE  Cardinality(Tally(f, s)) = f[x] + Cardinality(Tally(f, s \ {x}))
<1> DEFINE rest == Tally(f, s \ {x})
           one == {x} \X (1 .. f[x])
<1>1. f[x] \in Nat OBVIOUS
<1>2. /\ Tally(f, s) = rest \cup one /\ rest \cap one = {}
      /\ IsFiniteSet(one) /\ Cardinality(one) = f[x]
  BY <1>1, TallyOfOne
<1>3. IsFiniteSet(rest) /\ Cardinality(rest) \in Nat
  <2>1. s \ {x} \in SUBSET S OBVIOUS
  <2> QED BY <2>1, TallyFinite
<1> HIDE DEF rest, one
<1>4. Cardinality(rest \cup one) = Cardinality(rest) + Cardinality(one) - Cardinality({})
  BY <1>2, <1>3, FS_Union
<1>5. Cardinality(rest \cup one) = Cardinality(rest) + f[x]
  BY <1>1, <1>2, <1>3, <1>4, FS_EmptySet
<1>6. Cardinality(Tally(f, s)) = f[x] + Cardinality(rest)
  BY <1>1, <1>2, <1>3, <1>5
<1> QED BY <1>6 DEF rest

\* The folds choose one element after the other.
Picked(s) == CHOOSE x \in s : TRUE
IsSum(g, f, S) ==
    g = [s \in SUBSET S |-> IF s = {} THEN 0 ELSE f[Picked(s)] + g[s \ {Picked(s)}]]
TheSum(f, S) == CHOOSE g : IsSum(g, f, S)

LEMMA SumIsTally ==
    ASSUME NEW S, IsFiniteSet(S), NEW f \in [S -> Nat]
    PROVE  TheSum(f, S)[S] = Cardinality(Tally(f, S))
<1> DEFINE tally == [s \in SUBSET S |-> Cardinality(Tally(f, s))]
<1>1. \A s \in SUBSET S : s # {} => Picked(s) \in s /\ s \ {Picked(s)} \in SUBSET S
  BY DEF Picked
<1>2. Cardinality(Tally(f, {})) = 0
  BY FS_EmptySet DEF Tally
<1>3. \A s \in SUBSET S : tally[s] = IF s = {} THEN 0 ELSE f[Picked(s)] + tally[s \ {Picked(s)}]
  <2>1. TAKE s \in SUBSET S
  <2>2. CASE s = {} BY <1>2, <2>2
  <2>3. CASE s # {}
    <3>1. Picked(s) \in s /\ s \ {Picked(s)} \in SUBSET S
      BY <1>1, <2>3
    <3>2. Cardinality(Tally(f, s)) = f[Picked(s)] + Cardinality(Tally(f, s \ {Picked(s)}))
      BY <3>1, CountTally
    <3> QED BY <2>3, <3>1, <3>2
  <2> QED BY <2>2, <2>3
<1>4. IsSum(tally, f, S)
  BY <1>3 DEF IsSum
<1>5. IsSum(TheSum(f, S), f, S)
  BY <1>4 DEF TheSum
<1> DEFINE sum == TheSum(f, S)
           family == {s \in SUBSET S : sum[s] # tally[s]}
<1>6. \A s \in SUBSET S : sum[s] = IF s = {} THEN 0 ELSE f[Picked(s)] + sum[s \ {Picked(s)}]
  BY <1>5 DEF IsSum
<1>7. ASSUME family # {} PROVE FALSE
  <2>1. PICK s \in family : \A x \in s : s \ {x} \notin family
    BY <1>7, SmallestSet
  <2>2. CASE s = {}
    <3>1. sum[s] = 0 /\ tally[s] = 0
      BY <1>3, <1>6, <2>2
    <3> QED BY <2>1, <3>1
  <2>3. CASE s # {}
    <3>1. sum[s \ {Picked(s)}] = tally[s \ {Picked(s)}]
      BY <1>1, <2>1, <2>3
    <3>2. sum[s] = tally[s]
      BY <1>3, <1>6, <2>3, <3>1
    <3> QED BY <2>1, <3>2
  <2> QED BY <2>2, <2>3
<1>8. sum[S] = tally[S] BY <1>7
<1> QED BY <1>8

\* The sum as it is reasoned about, and the two ways in which models write it
Total(f, S) == Cardinality(Tally(f, S))

LEMMA MapSum ==
    ASSUME NEW S, IsFiniteSet(S), NEW f \in [S -> Nat]
    PROVE  MapThenSumSet(LAMBDA x : f[x], S) = Total(f, S)
<1>1. MapThenSumSet(LAMBDA x : f[x], S) = TheSum(f, S)[S]
  BY DEF MapThenSumSet, MapThenFoldSet, TheSum, IsSum, Picked
<1> QED BY <1>1, SumIsTally DEF Total

LEMMA FunctionSum ==
    ASSUME NEW S, IsFiniteSet(S), NEW f \in [S -> Nat]
    PROVE  SumFunction(f) = Total(f, S)
<1>1. SumFunction(f) = TheSum(f, DOMAIN f)[DOMAIN f]
  BY DEF SumFunction, SumFunctionOnSet, FoldFunctionOnSet, MapThenFoldSet, TheSum, IsSum, Picked
<1>2. DOMAIN f = S OBVIOUS
<1> QED BY <1>1, <1>2, SumIsTally DEF Total

\* A sum of natural numbers is one, it is zero when all are, and it changes as
\* they do.
LEMMA TotalNat ==
    ASSUME NEW S, IsFiniteSet(S), NEW f \in [S -> Nat]
    PROVE  Total(f, S) \in Nat /\ \A x \in S : f[x] =< Total(f, S)
<1>1. Total(f, S) \in Nat
  BY TallyFinite DEF Total
<1>2. ASSUME NEW x \in S PROVE f[x] =< Total(f, S)
  <2>1. Cardinality(Tally(f, S \ {x})) \in Nat
    BY TallyFinite
  <2>2. Cardinality(Tally(f, S)) = f[x] + Cardinality(Tally(f, S \ {x}))
    BY CountTally
  <2> QED BY <2>1, <2>2 DEF Total
<1> QED BY <1>1, <1>2

LEMMA TotalZero ==
    ASSUME NEW S, NEW f, \A x \in S : f[x] = 0
    PROVE  Total(f, S) = 0
<1>1. \A x \in S : 1 .. f[x] = {}
  OBVIOUS
<1>2. Tally(f, S) = {} BY <1>1 DEF Tally
<1> QED BY <1>2, FS_EmptySet DEF Total

LEMMA TotalMove ==
    ASSUME NEW S, IsFiniteSet(S), NEW f \in [S -> Nat], NEW g \in [S -> Nat],
           NEW a \in S, \A x \in S : x # a => g[x] = f[x]
    PROVE  Total(g, S) = Total(f, S) - f[a] + g[a]
<1>1. Tally(g, S \ {a}) = Tally(f, S \ {a})
  BY DEF Tally
<1>2. Cardinality(Tally(f, S \ {a})) \in Nat
  BY TallyFinite
<1>3. /\ Cardinality(Tally(f, S)) = f[a] + Cardinality(Tally(f, S \ {a}))
      /\ Cardinality(Tally(g, S)) = g[a] + Cardinality(Tally(g, S \ {a}))
  BY CountTally
<1>4. f[a] \in Nat /\ g[a] \in Nat OBVIOUS
<1> QED BY <1>1, <1>2, <1>3, <1>4 DEF Total

-----------------------------------------------------------------------------
(* Sums over sequences.                                                    *)

LEMMA SumNat ==
    ASSUME NEW g \in Seq(Nat)
    PROVE  /\ SumFunction(g) = Total(g, 1 .. Len(g)) /\ SumFunction(g) \in Nat
           /\ IsFiniteSet(1 .. Len(g)) /\ g \in [1 .. Len(g) -> Nat]
<1>1. g \in [1 .. Len(g) -> Nat] /\ Len(g) \in Nat
  BY LenProperties
<1>2. IsFiniteSet(1 .. Len(g)) BY <1>1, FS_Interval
<1>3. SumFunction(g) = Total(g, 1 .. Len(g)) BY <1>1, <1>2, FunctionSum
<1>4. Total(g, 1 .. Len(g)) \in Nat BY <1>1, <1>2, TotalNat
<1> QED BY <1>1, <1>2, <1>3, <1>4

LEMMA SumEmpty == SumFunction(<<>>) = 0
<1>1. <<>> \in Seq(Nat) /\ Len(<<>>) = 0 OBVIOUS
<1>2. SumFunction(<<>>) = Total(<<>>, 1 .. 0) BY <1>1, SumNat
<1>3. 1 .. 0 = {} OBVIOUS
<1> QED BY <1>2, <1>3, TotalZero

LEMMA SumAppend ==
    ASSUME NEW g \in Seq(Nat), NEW n \in Nat
    PROVE  SumFunction(Append(g, n)) = SumFunction(g) + n
<1> DEFINE h == Append(g, n)
           s == 1 .. Len(g)
           l == Len(g) + 1
<1>1. /\ h \in Seq(Nat) /\ Len(h) = l /\ h[l] = n
      /\ \A k \in s : h[k] = g[k]
      /\ l \in Nat /\ 1 .. l = s \cup {l} /\ l \notin s /\ Len(g) \in Nat
  BY AppendProperties, LenProperties
<1>2. SumFunction(h) = Total(h, 1 .. l) /\ IsFiniteSet(1 .. l) /\ h \in [1 .. l -> Nat]
  BY <1>1, SumNat
<1>3. SumFunction(g) = Total(g, s) BY SumNat
<1> HIDE DEF h, s, l
<1>4. l \in 1 .. l /\ (1 .. l) \ {l} = s BY <1>1
<1>5. Cardinality(Tally(h, 1 .. l)) = h[l] + Cardinality(Tally(h, s))
  <2>1. Cardinality(Tally(h, 1 .. l)) = h[l] + Cardinality(Tally(h, (1 .. l) \ {l}))
    BY <1>2, <1>4, CountTally
  <2> QED BY <1>4, <2>1
<1>6. Tally(h, s) = Tally(g, s)
  BY <1>1 DEF Tally
<1>7. Total(g, s) \in Nat BY <1>3, SumNat
<1>8. SumFunction(h) = SumFunction(g) + n
  BY <1>1, <1>2, <1>3, <1>5, <1>6, <1>7 DEF Total
<1> QED BY <1>8 DEF h

\* A sequence is its front with its last element appended.
LEMMA FrontLast ==
    ASSUME NEW S, NEW s \in Seq(S), s # <<>>
    PROVE  /\ Front(s) \in Seq(S) /\ Last(s) \in S /\ Len(Front(s)) = Len(s) - 1
           /\ s = Append(Front(s), Last(s))
<1>1. Len(s) \in Nat /\ Len(s) # 0 /\ Len(s) \in 1 .. Len(s)
  BY EmptySeq, LenProperties
<1>2. \A k \in 1 .. Len(s) - 1 : k \in 1 .. Len(s) /\ s[k] \in S
  BY <1>1, ElementOfSeq
<1>3. Last(s) = s[Len(s)] /\ Last(s) \in S
  BY <1>1, ElementOfSeq DEF Last
<1> DEFINE n == Len(s) - 1
           front == SubSeq(s, 1, n)
<1>4. /\ front \in Seq(S) /\ Len(front) = n
      /\ \A k \in 1 .. n : front[k] = s[k]
  <2>1. 1 \in Int /\ n \in Int /\ n \in Nat BY <1>1
  <2>2. /\ front \in Seq(S) /\ Len(front) = IF 1 =< n THEN n - 1 + 1 ELSE 0
        /\ \A k \in 1 .. n - 1 + 1 : front[k] = s[1 + k - 1]
    BY <1>2, <2>1, SubSeqProperties
  <2> HIDE DEF n, front
  <2>3. n - 1 + 1 = n /\ \A k \in 1 .. n : 1 + k - 1 = k BY <2>1
  <2>4. Len(front) = n BY <2>1, <2>2
  <2> QED BY <2>2, <2>3, <2>4
<1>5. Front(s) = front BY DEF Front
<1> DEFINE h == Append(front, Last(s))
<1>6. /\ h \in Seq(S) /\ Len(h) = n + 1
      /\ h[n + 1] = Last(s) /\ \A k \in 1 .. n : h[k] = s[k]
  <2> HIDE DEF n, front
  <2> QED BY <1>3, <1>4, AppendProperties
<1>7. n + 1 = Len(s) /\ \A k \in 1 .. Len(s) : k = Len(s) \/ k \in 1 .. n
  BY <1>1
<1> HIDE DEF n, front, h
<1>8. \A k \in 1 .. Len(h) : h[k] = s[k]
  BY <1>3, <1>6, <1>7
<1>9. h = s BY <1>6, <1>7, <1>8, SeqEqual
<1>10. Front(s) \in Seq(S) /\ Len(Front(s)) = Len(s) - 1
  BY <1>4, <1>5 DEF n
<1> QED BY <1>3, <1>5, <1>9, <1>10 DEF h

LEMMA SumFront ==
    ASSUME NEW g \in Seq(Nat), g # <<>>
    PROVE  /\ Front(g) \in Seq(Nat) /\ Last(g) \in Nat
           /\ SumFunction(g) = SumFunction(Front(g)) + Last(g)
  BY FrontLast, SumAppend

\* Things may be counted under other names.
Renames(name, f, S, g, T) == name \in Bijection(S, T) /\ \A x \in S : g[name[x]] = f[x]

LEMMA TotalRenamed ==
    ASSUME NEW S, NEW f, NEW T, NEW g, NEW name, Renames(name, f, S, g, T),
           IsFiniteSet(S), f \in [S -> Nat], g \in [T -> Nat]
    PROVE  Total(g, T) = Total(f, S)
<1> DEFINE rename == [e \in Tally(f, S) |-> <<name[e[1]], e[2]>>]
<1>1. /\ name \in [S -> T] /\ \A x, y \in S : name[x] = name[y] => x = y
      /\ \A y \in T : \E x \in S : name[x] = y
      /\ \A x \in S : g[name[x]] = f[x]
  BY DEF Renames, Bijection, Injection, Surjection, IsInjective
<1>2. \A e : e \in Tally(f, S) <=> \E x \in S : \E k \in 1 .. f[x] : e = <<x, k>>
  BY DEF Tally
<1>3. \A e : e \in Tally(g, T) <=> \E y \in T : \E k \in 1 .. g[y] : e = <<y, k>>
  BY DEF Tally
<1>4. rename \in [Tally(f, S) -> Tally(g, T)]
  <2> SUFFICES ASSUME NEW e \in Tally(f, S) PROVE <<name[e[1]], e[2]>> \in Tally(g, T)
    OBVIOUS
  <2>1. PICK x \in S : \E k \in 1 .. f[x] : e = <<x, k>> BY <1>2
  <2>1a. PICK k \in 1 .. f[x] : e = <<x, k>> BY <2>1
  <2>2. name[x] \in T /\ k \in 1 .. g[name[x]] BY <1>1, <2>1a
  <2> QED BY <1>3, <2>1a, <2>2
<1>5. \A d, e \in Tally(f, S) : rename[d] = rename[e] => d = e
  <2> SUFFICES ASSUME NEW d \in Tally(f, S), NEW e \in Tally(f, S), rename[d] = rename[e]
               PROVE  d = e
    OBVIOUS
  <2>1. PICK x \in S : \E k \in 1 .. f[x] : d = <<x, k>> BY <1>2
  <2>1a. PICK k \in 1 .. f[x] : d = <<x, k>> BY <2>1
  <2>2. PICK y \in S : \E l \in 1 .. f[y] : e = <<y, l>> BY <1>2
  <2>2a. PICK l \in 1 .. f[y] : e = <<y, l>> BY <2>2
  <2>3. rename[d] = <<name[x], k>> /\ rename[e] = <<name[y], l>>
    BY <2>1a, <2>2a
  <2>4. name[x] = name[y] /\ k = l BY <2>3
  <2> QED BY <1>1, <2>1a, <2>2a, <2>4
<1>6. \A d \in Tally(g, T) : \E e \in Tally(f, S) : rename[e] = d
  <2> SUFFICES ASSUME NEW d \in Tally(g, T) PROVE \E e \in Tally(f, S) : rename[e] = d
    OBVIOUS
  <2>1. PICK y \in T : \E k \in 1 .. g[y] : d = <<y, k>> BY <1>3
  <2>1a. PICK k \in 1 .. g[y] : d = <<y, k>> BY <2>1
  <2>2. PICK x \in S : name[x] = y BY <1>1
  <2>3. k \in 1 .. f[x] BY <1>1, <2>1a, <2>2
  <2>4. <<x, k>> \in Tally(f, S) BY <1>2, <2>3
  <2>5. rename[<<x, k>>] = d BY <2>1a, <2>2, <2>4
  <2> QED BY <2>4, <2>5
<1> HIDE DEF rename
<1>7. rename \in Bijection(Tally(f, S), Tally(g, T))
  BY <1>4, <1>5, <1>6 DEF Bijection, Injection, Surjection, IsInjective
<1>8. IsFiniteSet(Tally(f, S)) BY TallyFinite
<1> QED BY <1>7, <1>8, FS_Bijection DEF Total, ExistsBijection

LEMMA SumTail ==
    ASSUME NEW g \in Seq(Nat), g # <<>>
    PROVE  /\ Tail(g) \in Seq(Nat) /\ Head(g) \in Nat
           /\ SumFunction(g) = Head(g) + SumFunction(Tail(g))
<1> DEFINE n == Len(g)
           rest == [k \in 2 .. n |-> g[k]]
           name == [k \in 1 .. n - 1 |-> k + 1]
<1>1. n \in Nat /\ n # 0 /\ g \in [1 .. n -> Nat]
  BY EmptySeq, LenProperties
<1>2. /\ Tail(g) \in Seq(Nat) /\ Len(Tail(g)) = n - 1 /\ Head(g) = g[1] /\ Head(g) \in Nat
      /\ \A k \in 1 .. n - 1 : Tail(g)[k] = g[k + 1]
  BY <1>1, HeadTailProperties
<1>3. SumFunction(g) = Total(g, 1 .. n) /\ IsFiniteSet(1 .. n)
  BY SumNat
<1>4. /\ SumFunction(Tail(g)) = Total(Tail(g), 1 .. n - 1) /\ IsFiniteSet(1 .. n - 1)
      /\ Tail(g) \in [1 .. n - 1 -> Nat] /\ SumFunction(Tail(g)) \in Nat
  BY <1>2, SumNat
<1>5. rest \in [2 .. n -> Nat]
  <2>1. \A k \in 2 .. n : k \in 1 .. n BY <1>1
  <2> QED BY <1>1, <2>1
<1>6. name \in Bijection(1 .. n - 1, 2 .. n)
  <2>1. name \in [1 .. n - 1 -> 2 .. n] BY <1>1
  <2>2. \A j, k \in 1 .. n - 1 : name[j] = name[k] => j = k BY <1>1
  <2>3. \A l \in 2 .. n : \E k \in 1 .. n - 1 : name[k] = l
    <3>1. TAKE l \in 2 .. n
    <3>2. l - 1 \in 1 .. n - 1 /\ name[l - 1] = l BY <1>1
    <3> QED BY <3>2
  <2> HIDE DEF name
  <2> QED BY <2>1, <2>2, <2>3 DEF Bijection, Injection, Surjection, IsInjective
<1>7. \A k \in 1 .. n - 1 : rest[name[k]] = Tail(g)[k]
  BY <1>1, <1>2
<1>8. (1 .. n) \ {1} = 2 .. n /\ 1 \in 1 .. n BY <1>1
<1>9. Tally(g, 2 .. n) = Tally(rest, 2 .. n) BY DEF Tally
<1> HIDE DEF n, rest, name
<1>10. Total(rest, 2 .. n) = Total(Tail(g), 1 .. n - 1)
  <2> DEFINE A == 1 .. n - 1
             B == 2 .. n
             tail == Tail(g)
  <2>1. /\ IsFiniteSet(A) /\ tail \in [A -> Nat] /\ rest \in [B -> Nat]
        /\ Renames(name, tail, A, rest, B)
    BY <1>4, <1>5, <1>6, <1>7 DEF Renames
  <2> HIDE DEF A, B, tail
  <2>2. Total(rest, B) = Total(tail, A)
    BY <2>1, TotalRenamed
  <2> QED BY <2>2 DEF A, B, tail
<1>11. Cardinality(Tally(g, 1 .. n)) = g[1] + Cardinality(Tally(g, (1 .. n) \ {1}))
  BY <1>1, <1>3, <1>8, CountTally
<1> QED BY <1>2, <1>3, <1>4, <1>8, <1>9, <1>10, <1>11 DEF Total
-----------------------------------------------------------------------------
(* Sums of a weight over the elements of a sequence.                       *)

Weighed(f, s) == [k \in DOMAIN s |-> f[s[k]]]
SumOf(f, s) == SumFunction(Weighed(f, s))

LEMMA SumOfNat ==
    ASSUME NEW S, NEW f, NEW s, f \in [S -> Nat], s \in Seq(S)
    PROVE  /\ Weighed(f, s) \in Seq(Nat) /\ Len(Weighed(f, s)) = Len(s)
           /\ \A k \in 1 .. Len(s) : Weighed(f, s)[k] = f[s[k]]
           /\ SumOf(f, s) \in Nat
<1>1. Len(s) \in Nat /\ DOMAIN s = 1 .. Len(s) /\ \A k \in 1 .. Len(s) : s[k] \in S
  BY LenProperties, ElementOfSeq
<1>2. Weighed(f, s) = [k \in 1 .. Len(s) |-> f[s[k]]]
  BY <1>1 DEF Weighed
<1>3. Weighed(f, s) \in Seq(Nat) /\ Len(Weighed(f, s)) = Len(s)
  BY <1>1, <1>2
<1>4. SumOf(f, s) \in Nat
  BY <1>3, SumNat DEF SumOf
<1> QED BY <1>2, <1>3, <1>4

LEMMA SumOfEmpty == ASSUME NEW f PROVE SumOf(f, <<>>) = 0
<1>1. Weighed(f, <<>>) = <<>> BY DEF Weighed
<1> QED BY <1>1, SumEmpty DEF SumOf

LEMMA SumOfAppend ==
    ASSUME NEW S, NEW f, NEW s, NEW e, f \in [S -> Nat], s \in Seq(S), e \in S
    PROVE  SumOf(f, Append(s, e)) = SumOf(f, s) + f[e]
<1>1. /\ Append(s, e) \in Seq(S) /\ Len(Append(s, e)) = Len(s) + 1
      /\ \A k \in 1 .. Len(s) : Append(s, e)[k] = s[k]
      /\ Append(s, e)[Len(s) + 1] = e /\ Len(s) \in Nat
  BY AppendProperties, LenProperties
<1> DEFINE r == Append(s, e)
           g == Weighed(f, s)
           h == Weighed(f, r)
<1>2. /\ g \in Seq(Nat) /\ Len(g) = Len(s) /\ \A k \in 1 .. Len(s) : g[k] = f[s[k]]
      /\ SumOf(f, s) = SumFunction(g)
  BY SumOfNat DEF SumOf
<1>2a. r \in Seq(S) /\ Len(r) = Len(s) + 1 BY <1>1
<1> HIDE DEF r
<1>3. /\ h \in Seq(Nat) /\ Len(h) = Len(s) + 1
      /\ \A k \in 1 .. Len(s) + 1 : h[k] = f[r[k]]
      /\ SumOf(f, r) = SumFunction(h)
  BY <1>2a, SumOfNat DEF SumOf
<1> HIDE DEF g, h
<1>4. f[e] \in Nat OBVIOUS
<1>5. /\ Append(g, f[e]) \in Seq(Nat) /\ Len(Append(g, f[e])) = Len(s) + 1
      /\ \A k \in 1 .. Len(s) : Append(g, f[e])[k] = g[k]
      /\ Append(g, f[e])[Len(s) + 1] = f[e]
  BY <1>2, <1>4, AppendProperties
<1>6. \A k \in 1 .. Len(s) + 1 : k \in 1 .. Len(s) \/ k = Len(s) + 1
  BY <1>1
<1>7. \A k \in 1 .. Len(h) : h[k] = Append(g, f[e])[k]
  BY <1>1, <1>2, <1>3, <1>5, <1>6 DEF r
<1>8. h = Append(g, f[e])
  BY <1>3, <1>5, <1>7, SeqEqual
<1> QED BY <1>2, <1>3, <1>4, <1>8, SumAppend DEF r

LEMMA SumOfFront ==
    ASSUME NEW S, NEW f, NEW s, f \in [S -> Nat], s \in Seq(S), s # <<>>
    PROVE  /\ Front(s) \in Seq(S) /\ Last(s) \in S
           /\ SumOf(f, s) = SumOf(f, Front(s)) + f[Last(s)]
<1>1. Front(s) \in Seq(S) /\ Last(s) \in S /\ s = Append(Front(s), Last(s))
  BY FrontLast
<1>2. SumOf(f, Append(Front(s), Last(s))) = SumOf(f, Front(s)) + f[Last(s)]
  BY <1>1, SumOfAppend
<1> QED BY <1>1, <1>2

LEMMA SumOfTail ==
    ASSUME NEW S, NEW f, NEW s, f \in [S -> Nat], s \in Seq(S), s # <<>>
    PROVE  /\ Tail(s) \in Seq(S) /\ Head(s) \in S
           /\ SumOf(f, s) = f[Head(s)] + SumOf(f, Tail(s))
<1>1. /\ Len(s) \in Nat /\ Len(s) # 0 /\ 1 \in 1 .. Len(s)
      /\ Tail(s) \in Seq(S) /\ Head(s) \in S /\ Head(s) = s[1]
      /\ Len(Tail(s)) = Len(s) - 1 /\ \A k \in 1 .. Len(s) - 1 : Tail(s)[k] = s[k + 1]
  BY EmptySeq, LenProperties, HeadTailProperties
<1> DEFINE r == Tail(s)
           g == Weighed(f, s)
           h == Weighed(f, r)
<1>2. /\ g \in Seq(Nat) /\ Len(g) = Len(s) /\ \A k \in 1 .. Len(s) : g[k] = f[s[k]]
      /\ SumOf(f, s) = SumFunction(g)
  BY SumOfNat DEF SumOf
<1>2a. r \in Seq(S) /\ Len(r) = Len(s) - 1 BY <1>1
<1> HIDE DEF r, g, h
<1>3. /\ h \in Seq(Nat) /\ Len(h) = Len(s) - 1
      /\ \A k \in 1 .. Len(s) - 1 : h[k] = f[r[k]]
      /\ SumOf(f, r) = SumFunction(h)
  <2>1. /\ h \in Seq(Nat) /\ Len(h) = Len(r) /\ SumOf(f, r) = SumFunction(h)
        /\ \A k \in 1 .. Len(r) : h[k] = f[r[k]]
    <3>1. f \in [S -> Nat] /\ r \in Seq(S) BY <1>2a
    <3>2. /\ Weighed(f, r) \in Seq(Nat) /\ Len(Weighed(f, r)) = Len(r)
          /\ \A k \in 1 .. Len(r) : Weighed(f, r)[k] = f[r[k]]
      BY ONLY <3>1, SumOfNat
    <3> QED BY <3>2 DEF SumOf, h
  <2> QED BY <1>2a, <2>1
<1>4. g # <<>> BY <1>1, <1>2
<1>5. /\ Tail(g) \in Seq(Nat) /\ Head(g) = g[1] /\ Len(Tail(g)) = Len(s) - 1
      /\ \A k \in 1 .. Len(s) - 1 : Tail(g)[k] = g[k + 1]
  BY <1>1, <1>2, <1>4, HeadTailProperties
<1>6. \A k \in 1 .. Len(s) - 1 : k + 1 \in 1 .. Len(s)
  BY <1>1
<1>7. \A k \in 1 .. Len(h) : h[k] = Tail(g)[k]
  BY <1>1, <1>2, <1>3, <1>5, <1>6 DEF r
<1>8. h = Tail(g)
  BY <1>3, <1>5, <1>7, SeqEqual
<1> QED BY <1>1, <1>2, <1>3, <1>4, <1>5, <1>8, SumTail DEF r

LEMMA SumOfAsTotal ==
    ASSUME NEW S, NEW f, NEW s, NEW n, f \in [S -> Nat], s \in Seq(S), Len(s) = n
    PROVE  /\ n \in Nat /\ IsFiniteSet(1 .. n)
           /\ Weighed(f, s) \in [1 .. n -> Nat]
           /\ \A j \in 1 .. n : Weighed(f, s)[j] = f[s[j]]
           /\ SumOf(f, s) = Total(Weighed(f, s), 1 .. n)
<1> DEFINE g == Weighed(f, s)
<1>1. /\ g \in Seq(Nat) /\ Len(g) = n /\ \A j \in 1 .. n : g[j] = f[s[j]]
      /\ SumOf(f, s) = SumFunction(g)
  BY SumOfNat DEF SumOf
<1> HIDE DEF g
<1>2. /\ SumFunction(g) = Total(g, 1 .. Len(g)) /\ IsFiniteSet(1 .. Len(g))
      /\ g \in [1 .. Len(g) -> Nat]
  BY <1>1, SumNat
<1>3. n \in Nat BY LenProperties
<1> QED BY <1>1, <1>2, <1>3 DEF g

\* The sum over a sequence with one element replaced, with one removed, and
\* over its beginning
LEMMA SumOfReplace ==
    ASSUME NEW S, NEW f, NEW s, NEW k, NEW e,
           f \in [S -> Nat], s \in Seq(S), k \in 1 .. Len(s), e \in S
    PROVE  /\ [s EXCEPT ![k] = e] \in Seq(S)
           /\ SumOf(f, [s EXCEPT ![k] = e]) = SumOf(f, s) - f[s[k]] + f[e]
<1> DEFINE n == Len(s)
           r == [s EXCEPT ![k] = e]
           g == Weighed(f, s)
           h == Weighed(f, r)
<1>1. /\ r \in Seq(S) /\ Len(r) = n /\ r[k] = e
      /\ \A j \in 1 .. n : j # k => r[j] = s[j]
  BY ExceptSeq
<1>2. /\ g \in [1 .. n -> Nat] /\ \A j \in 1 .. n : g[j] = f[s[j]]
      /\ SumOf(f, s) = Total(g, 1 .. n) /\ IsFiniteSet(1 .. n)
  BY SumOfAsTotal
<1> HIDE DEF r
<1>3. /\ h \in [1 .. n -> Nat] /\ \A j \in 1 .. n : h[j] = f[r[j]]
      /\ SumOf(f, r) = Total(h, 1 .. n)
  <2>1. f \in [S -> Nat] /\ r \in Seq(S) /\ Len(r) = n BY <1>1
  <2> QED BY ONLY <2>1, SumOfAsTotal DEF h
<1> HIDE DEF g, h
<1>3a. k \in 1 .. n OBVIOUS
<1> HIDE DEF n
<1>4. h[k] = f[e] /\ g[k] = f[s[k]] /\ \A j \in 1 .. n : j # k => h[j] = g[j]
  <2>1. h[k] = f[r[k]] /\ g[k] = f[s[k]] BY <1>2, <1>3, <1>3a
  <2>2. ASSUME NEW j \in 1 .. n, j # k PROVE h[j] = g[j]
    <3>1. h[j] = f[r[j]] /\ g[j] = f[s[j]] BY <1>2, <1>3
    <3>2. r[j] = s[j] BY <1>1, <2>2
    <3> QED BY <3>1, <3>2
  <2>3. r[k] = e BY <1>1
  <2> QED BY <2>1, <2>2, <2>3
<1>5. Total(h, 1 .. n) = Total(g, 1 .. n) - g[k] + h[k]
  <2> DEFINE N == 1 .. n
  <2>1. /\ IsFiniteSet(N) /\ g \in [N -> Nat] /\ h \in [N -> Nat] /\ k \in N
        /\ \A j \in N : j # k => h[j] = g[j]
    BY <1>2, <1>3, <1>3a, <1>4
  <2> HIDE DEF N
  <2>2. Total(h, N) = Total(g, N) - g[k] + h[k] BY ONLY <2>1, TotalMove
  <2> QED BY <2>2 DEF N
<1> QED BY <1>1, <1>2, <1>3, <1>4, <1>5 DEF r

LEMMA RemoveAtIndex ==
    ASSUME NEW S, NEW s, NEW k, s \in Seq(S), k \in 1 .. Len(s)
    PROVE  /\ RemoveAt(s, k) \in Seq(S) /\ Len(RemoveAt(s, k)) = Len(s) - 1
           /\ \A j \in 1 .. Len(s) - 1 :
                RemoveAt(s, k)[j] = s[IF j < k THEN j ELSE j + 1]
<1> DEFINE n == Len(s)
           a == SubSeq(s, 1, k - 1)
           b == SubSeq(s, k + 1, n)
<1>1. n \in Nat /\ k \in Int /\ 1 =< k /\ k =< n BY LenProperties
<1>2. /\ a \in Seq(S) /\ Len(a) = k - 1 /\ \A j \in 1 .. k - 1 : a[j] = s[j]
  <2>1. \A j \in 1 .. k - 1 : s[j] \in S BY <1>1, ElementOfSeq
  <2> QED BY <1>1, <2>1, SubSeqProperties
<1>3. /\ b \in Seq(S) /\ Len(b) = n - k /\ \A j \in 1 .. n - k : b[j] = s[k + j]
  <2>1. \A j \in k + 1 .. n : s[j] \in S BY <1>1, ElementOfSeq
  <2> QED BY <1>1, <2>1, SubSeqProperties
<1>4. /\ a \o b \in Seq(S) /\ Len(a \o b) = n - 1
      /\ \A j \in 1 .. n - 1 : (a \o b)[j] = IF j =< k - 1 THEN a[j] ELSE b[j - (k - 1)]
  <2> DEFINE c == a \o b
  <2> HIDE DEF n, a, b
  <2>1. /\ c \in Seq(S) /\ Len(c) = Len(a) + Len(b)
        /\ \A j \in 1 .. Len(a) + Len(b) : c[j] = IF j =< Len(a) THEN a[j] ELSE b[j - Len(a)]
    BY <1>2, <1>3, ConcatProperties
  <2> HIDE DEF c
  <2>2. Len(a) + Len(b) = n - 1 BY <1>1, <1>2, <1>3
  <2>3. Len(c) = n - 1 /\ \A j \in 1 .. n - 1 : c[j] = IF j =< k - 1 THEN a[j] ELSE b[j - (k - 1)]
    BY <1>2, <2>1, <2>2
  <2> QED BY <2>1, <2>3 DEF c
<1> HIDE DEF n, a, b
<1>5. ASSUME NEW j \in 1 .. n - 1 PROVE (a \o b)[j] = s[IF j < k THEN j ELSE j + 1]
  <2>1. CASE j < k BY <1>1, <1>2, <1>4, <2>1
  <2>2. CASE ~ j < k
    <3>1. j - (k - 1) \in 1 .. n - k /\ k + (j - (k - 1)) = j + 1 BY <1>1, <2>2
    <3> QED BY <1>1, <1>3, <1>4, <2>2, <3>1, SMTT(30)
  <2> QED BY <2>1, <2>2
<1>6. RemoveAt(s, k) = a \o b BY DEF RemoveAt, a, b, n
<1> QED BY <1>4, <1>5, <1>6 DEF n

LEMMA SumOfRemoveAt ==
    ASSUME NEW S, NEW f, NEW s, NEW k, f \in [S -> Nat], s \in Seq(S), k \in 1 .. Len(s)
    PROVE  /\ RemoveAt(s, k) \in Seq(S)
           /\ SumOf(f, RemoveAt(s, k)) = SumOf(f, s) - f[s[k]]
<1> DEFINE n == Len(s)
           r == RemoveAt(s, k)
           g == Weighed(f, s)
           h == Weighed(f, r)
           rest == (1 .. n) \ {k}
           name == [j \in 1 .. n - 1 |-> IF j < k THEN j ELSE j + 1]
           part == [j \in rest |-> g[j]]
<1>1. n \in Nat /\ k \in 1 .. n BY LenProperties
<1>2. /\ r \in Seq(S) /\ Len(r) = n - 1
      /\ \A j \in 1 .. n - 1 : r[j] = s[name[j]]
  <2>1. /\ r \in Seq(S) /\ Len(r) = n - 1
        /\ \A j \in 1 .. n - 1 : r[j] = s[IF j < k THEN j ELSE j + 1]
    BY ONLY RemoveAtIndex, s \in Seq(S), k \in 1 .. Len(s)
  <2>2. \A j \in 1 .. n - 1 : name[j] = IF j < k THEN j ELSE j + 1 OBVIOUS
  <2> HIDE DEF r, name
  <2> QED BY <2>1, <2>2
<1>3. /\ g \in [1 .. n -> Nat] /\ \A j \in 1 .. n : g[j] = f[s[j]]
      /\ SumOf(f, s) = Total(g, 1 .. n) /\ IsFiniteSet(1 .. n)
  BY SumOfAsTotal
<1> HIDE DEF r
<1>4. /\ h \in [1 .. n - 1 -> Nat] /\ \A j \in 1 .. n - 1 : h[j] = f[r[j]]
      /\ SumOf(f, r) = Total(h, 1 .. n - 1) /\ IsFiniteSet(1 .. n - 1)
  <2> DEFINE m == n - 1
  <2>1. f \in [S -> Nat] /\ r \in Seq(S) /\ Len(r) = m BY <1>2
  <2> HIDE DEF m, h
  <2>2. /\ IsFiniteSet(1 .. m) /\ h \in [1 .. m -> Nat]
        /\ \A j \in 1 .. m : h[j] = f[r[j]]
        /\ SumOf(f, r) = Total(h, 1 .. m)
    BY ONLY <2>1, SumOfAsTotal DEF h
  <2> QED BY <2>2 DEF m
<1>5. name \in Bijection(1 .. n - 1, rest)
  <2>1. name \in [1 .. n - 1 -> rest] BY <1>1
  <2>2. \A i, j \in 1 .. n - 1 : name[i] = name[j] => i = j BY <1>1
  <2>3. \A l \in rest : \E j \in 1 .. n - 1 : name[j] = l
    <3>1. TAKE l \in rest
    <3>2. CASE l < k
      <4>1. l \in 1 .. n - 1 /\ name[l] = l BY <1>1, <3>2
      <4> QED BY <4>1
    <3>3. CASE ~ l < k
      <4>1. l - 1 \in 1 .. n - 1 /\ name[l - 1] = l BY <1>1, <3>3
      <4> QED BY <4>1
    <3> QED BY <3>2, <3>3
  <2> HIDE DEF name, rest
  <2> QED BY <2>1, <2>2, <2>3 DEF Bijection, Injection, Surjection, IsInjective
<1>6. \A j \in 1 .. n - 1 : name[j] \in rest /\ name[j] \in 1 .. n BY <1>1
<1>7. part \in [rest -> Nat] /\ \A j \in rest : part[j] = g[j] BY <1>3
<1> HIDE DEF g, h, n, name, part, rest
<1>8. Renames(name, h, 1 .. n - 1, part, rest)
  BY <1>2, <1>3, <1>4, <1>5, <1>6, <1>7, SMTT(30) DEF Renames
<1>9. Total(part, rest) = Total(h, 1 .. n - 1)
  <2> DEFINE A == 1 .. n - 1
  <2>1. IsFiniteSet(A) /\ h \in [A -> Nat] /\ part \in [rest -> Nat] /\ Renames(name, h, A, part, rest)
    BY <1>4, <1>7, <1>8
  <2> HIDE DEF A
  <2>2. Total(part, rest) = Total(h, A) BY <2>1, TotalRenamed
  <2> QED BY <2>2 DEF A
<1>10. Tally(part, rest) = Tally(g, rest)
  <2>1. \A j \in rest : {j} \X (1 .. part[j]) = {j} \X (1 .. g[j]) BY <1>7
  <2> QED BY <2>1 DEF Tally
<1>11. /\ Cardinality(Tally(g, 1 .. n)) = g[k] + Cardinality(Tally(g, rest))
       /\ Cardinality(Tally(g, rest)) \in Nat
  <2> DEFINE N == 1 .. n
  <2>1. k \in N /\ IsFiniteSet(N) /\ g \in [N -> Nat] /\ rest \in SUBSET N /\ N \in SUBSET N
    BY <1>1, <1>3 DEF rest
  <2>2. rest = N \ {k} BY DEF rest
  <2> HIDE DEF N
  <2>3. Cardinality(Tally(g, rest)) \in Nat
    BY ONLY <2>1, TallyFinite
  <2>4. Cardinality(Tally(g, N)) = g[k] + Cardinality(Tally(g, N \ {k}))
    BY ONLY <2>1, CountTally
  <2> QED BY <2>2, <2>3, <2>4 DEF N
<1>12. g[k] \in Nat /\ g[k] = f[s[k]] BY <1>1, <1>3
<1> QED BY <1>2, <1>3, <1>4, <1>9, <1>10, <1>11, <1>12 DEF Total, r

LEMMA SumOfPrefix ==
    ASSUME NEW S, NEW f, NEW s, NEW m, f \in [S -> Nat], s \in Seq(S), m \in 0 .. Len(s)
    PROVE  /\ SubSeq(s, 1, m) \in Seq(S) /\ Len(SubSeq(s, 1, m)) = m
           /\ SumOf(f, SubSeq(s, 1, m)) =< SumOf(f, s)
           /\ m = Len(s) => SubSeq(s, 1, m) = s
<1> DEFINE n == Len(s)
           r == SubSeq(s, 1, m)
           g == Weighed(f, s)
           h == Weighed(f, r)
<1>1. n \in Nat /\ m \in Nat /\ m =< n BY LenProperties
<1>2. r \in Seq(S) /\ Len(r) = m /\ \A j \in 1 .. m : r[j] = s[j]
  <2>1. \A j \in 1 .. m : s[j] \in S BY <1>1, ElementOfSeq
  <2> QED BY <1>1, <2>1, SubSeqProperties
<1> HIDE DEF r
<1>3. /\ g \in [1 .. n -> Nat] /\ \A j \in 1 .. n : g[j] = f[s[j]]
      /\ SumOf(f, s) = Total(g, 1 .. n) /\ IsFiniteSet(1 .. n)
  BY SumOfAsTotal, SMTT(30)
<1>4. /\ h \in [1 .. m -> Nat] /\ \A j \in 1 .. m : h[j] = f[r[j]]
      /\ SumOf(f, r) = Total(h, 1 .. m)
  <2>1. f \in [S -> Nat] /\ r \in Seq(S) /\ Len(r) = m BY <1>2
  <2> QED BY ONLY <2>1, SumOfAsTotal DEF h
<1> HIDE DEF g, h
<1>5. 1 .. m \in SUBSET (1 .. n) BY <1>1
<1>6. \A j \in 1 .. m : h[j] = g[j] BY <1>2, <1>3, <1>4, <1>5
<1>7. Tally(h, 1 .. m) \subseteq Tally(g, 1 .. n) BY <1>5, <1>6 DEF Tally
<1>8. IsFiniteSet(Tally(g, 1 .. n))
  <2> DEFINE N == 1 .. n
  <2>1. IsFiniteSet(N) /\ g \in [N -> Nat] /\ N \in SUBSET N BY <1>3
  <2> HIDE DEF N
  <2> QED BY <2>1, TallyFinite DEF N
<1>9. SumOf(f, r) =< SumOf(f, s)
  BY <1>3, <1>4, <1>7, <1>8, FS_Subset DEF Total
<1>10. ASSUME m = n PROVE r = s
  BY <1>2, <1>10, SeqEqual
<1> QED BY <1>2, <1>9, <1>10 DEF r
-----------------------------------------------------------------------------
(* How often something occurs in a sequence.                               *)

Occurrences(x, s) == Cardinality({k \in DOMAIN s : s[k] = x})
OneOf(S, x) == [y \in S |-> IF y = x THEN 1 ELSE 0]

LEMMA OccurrencesAreASum ==
    ASSUME NEW S, NEW x, NEW s, s \in Seq(S) PROVE Occurrences(x, s) = SumOf(OneOf(S, x), s)
<1> DEFINE n == Len(s)
           f == OneOf(S, x)
           g == Weighed(f, s)
           at == {k \in 1 .. n : s[k] = x}
<1>1. n \in Nat /\ DOMAIN s = 1 .. n /\ \A k \in 1 .. n : s[k] \in S
  BY LenProperties, ElementOfSeq
<1>2. f \in [S -> Nat] BY DEF OneOf
<1> HIDE DEF f
<1>3. /\ g \in Seq(Nat) /\ Len(g) = n /\ \A k \in 1 .. n : g[k] = f[s[k]]
      /\ SumOf(f, s) = SumFunction(g)
  BY <1>2, SumOfNat DEF SumOf
<1> HIDE DEF g, n
<1>4. SumFunction(g) = Cardinality(Tally(g, 1 .. n))
  BY <1>3, SumNat DEF Total
<1>5. ASSUME NEW k \in 1 .. n
      PROVE  (k \in at /\ 1 .. g[k] = {1}) \/ (k \notin at /\ 1 .. g[k] = {})
  <2>1. CASE s[k] = x
    <3>1. g[k] = 1 BY <1>1, <1>3, <2>1 DEF f, OneOf
    <3>2. 1 .. 1 = {1} OBVIOUS
    <3> QED BY <2>1, <3>1, <3>2
  <2>2. CASE s[k] # x
    <3>1. g[k] = 0 BY <1>1, <1>3, <2>2 DEF f, OneOf
    <3>2. 1 .. 0 = {} OBVIOUS
    <3> QED BY <2>2, <3>1, <3>2
  <2> QED BY <2>1, <2>2
<1> HIDE DEF at
<1>6. Tally(g, 1 .. n) = at \X {1}
  <2>1. at \subseteq 1 .. n BY DEF at
  <2>2. ASSUME NEW e \in Tally(g, 1 .. n) PROVE e \in at \X {1}
    <3>1. PICK k \in 1 .. n : e \in {k} \X (1 .. g[k]) BY DEF Tally
    <3> QED BY <1>5, <3>1
  <2>3. ASSUME NEW e \in at \X {1} PROVE e \in Tally(g, 1 .. n)
    <3>1. PICK k \in at : e = <<k, 1>> OBVIOUS
    <3>2. k \in 1 .. n /\ e \in {k} \X (1 .. g[k]) BY <1>5, <2>1, <3>1
    <3> QED BY <3>2 DEF Tally
  <2> QED BY <2>2, <2>3
<1>7. IsFiniteSet(at) /\ Cardinality(at) \in Nat
  <2>1. IsFiniteSet(1 .. n) /\ at \subseteq 1 .. n BY <1>1, FS_Interval DEF at
  <2> QED BY <2>1, FS_Subset, FS_CardinalityType
<1>8. Cardinality(at \X {1}) = Cardinality(at)
  <2>1. IsFiniteSet({1}) /\ Cardinality({1}) = 1 BY FS_Singleton
  <2>2. Cardinality(at \X {1}) = Cardinality(at) * 1 BY <1>7, <2>1, FS_Product
  <2> QED BY <1>7, <2>2
<1>9. Cardinality(at) = Occurrences(x, s) BY <1>1 DEF Occurrences, at
<1> QED BY <1>3, <1>4, <1>6, <1>8, <1>9 DEF f

LEMMA OccurrencesNat ==
    ASSUME NEW S, NEW x, NEW s, s \in Seq(S) PROVE Occurrences(x, s) \in Nat
<1>1. OneOf(S, x) \in [S -> Nat] BY DEF OneOf
<1> QED BY <1>1, OccurrencesAreASum, SumOfNat

LEMMA OccurrencesEmpty == ASSUME NEW x PROVE Occurrences(x, <<>>) = 0
<1>1. <<>> \in Seq({}) OBVIOUS
<1>2. Occurrences(x, <<>>) = SumOf(OneOf({}, x), <<>>) BY <1>1, OccurrencesAreASum
<1> QED BY <1>2, SumOfEmpty

LEMMA OccurrencesAppend ==
    ASSUME NEW S, NEW x, NEW s, NEW e, s \in Seq(S), e \in S
    PROVE  Occurrences(x, Append(s, e)) = Occurrences(x, s) + (IF e = x THEN 1 ELSE 0)
<1>1. OneOf(S, x) \in [S -> Nat] /\ OneOf(S, x)[e] = IF e = x THEN 1 ELSE 0 BY DEF OneOf
<1>2. Append(s, e) \in Seq(S) BY AppendProperties
<1>3. SumOf(OneOf(S, x), Append(s, e)) = SumOf(OneOf(S, x), s) + OneOf(S, x)[e]
  BY <1>1, SumOfAppend
<1> QED BY <1>1, <1>2, <1>3, OccurrencesAreASum

LEMMA OccurrencesTail ==
    ASSUME NEW S, NEW x, NEW s, s \in Seq(S), s # <<>>
    PROVE  /\ Tail(s) \in Seq(S) /\ Head(s) \in S
           /\ Occurrences(x, s) = (IF Head(s) = x THEN 1 ELSE 0) + Occurrences(x, Tail(s))
<1>1. OneOf(S, x) \in [S -> Nat] BY DEF OneOf
<1>2. /\ Tail(s) \in Seq(S) /\ Head(s) \in S
      /\ SumOf(OneOf(S, x), s) = OneOf(S, x)[Head(s)] + SumOf(OneOf(S, x), Tail(s))
  BY <1>1, SumOfTail
<1>3. OneOf(S, x)[Head(s)] = IF Head(s) = x THEN 1 ELSE 0 BY <1>2 DEF OneOf
<1> QED BY <1>2, <1>3, OccurrencesAreASum
-----------------------------------------------------------------------------
(* A fold over a finite set, with the step as a function: it exists, and    *)
(* stays in any set V that the step stays in.  The folds of the library     *)
(* choose a function of this kind.                                          *)

IsFold(g, base, step, pick, S) ==
    \A s \in SUBSET S :
        g[s] = IF s = {} THEN base ELSE step[<<pick[s], g[s \ {pick[s]}]>>]

\* The pairs of a subset and its value, as any set that is closed under the step
\* has them
Closed(R, base, step, pick, S, V) ==
    /\ <<{}, base>> \in R
    /\ \A s \in SUBSET S : s # {} =>
          \A v \in V : <<s \ {pick[s]}, v>> \in R => <<s, step[<<pick[s], v>>]>> \in R

LEMMA FoldExists ==
    ASSUME NEW S, IsFiniteSet(S), NEW V, NEW base \in V, NEW step \in [S \X V -> V],
           NEW pick, \A s \in SUBSET S : s # {} => pick[s] \in s
    PROVE  \E g \in [SUBSET S -> V] : IsFold(g, base, step, pick, S)
<1> DEFINE Pairs == (SUBSET S) \X V
           IsClosed(R) == Closed(R, base, step, pick, S, V)
           G == {p \in Pairs : \A R \in SUBSET Pairs : IsClosed(R) => p \in R}
           Rest(s) == s \ {pick[s]}
           Next(s, v) == step[<<pick[s], v>>]
<1>1. \A s \in SUBSET S : s # {} => Rest(s) \in SUBSET S /\ \A v \in V : Next(s, v) \in V
  <2>1. TAKE s \in SUBSET S
  <2>2. HAVE s # {}
  <2>3. pick[s] \in S BY <2>2
  <2>4. ASSUME NEW v \in V PROVE Next(s, v) \in V
    <3>1. <<pick[s], v>> \in S \X V BY <2>3
    <3> QED BY <3>1
  <2> QED BY <2>4
<1>2. \A R : IsClosed(R) <=> (/\ <<{}, base>> \in R
                             /\ \A s \in SUBSET S : s # {} =>
                                  \A v \in V : <<Rest(s), v>> \in R => <<s, Next(s, v)>> \in R)
  BY DEF Closed
<1> HIDE DEF Rest, Next, IsClosed
<1>3. IsClosed(G)
  <2>1. <<{}, base>> \in G
    <3>1. <<{}, base>> \in Pairs OBVIOUS
    <3>2. \A R \in SUBSET Pairs : IsClosed(R) => <<{}, base>> \in R BY <1>2
    <3> QED BY <3>1, <3>2
  <2>2. ASSUME NEW s \in SUBSET S, s # {}, NEW v \in V, <<Rest(s), v>> \in G
        PROVE  <<s, Next(s, v)>> \in G
    <3>1. <<s, Next(s, v)>> \in Pairs BY <1>1, <2>2
    <3>2. ASSUME NEW R \in SUBSET Pairs, IsClosed(R) PROVE <<s, Next(s, v)>> \in R
      <4>1. <<Rest(s), v>> \in R BY <2>2, <3>2
      <4> QED BY <1>2, <2>2, <3>2, <4>1
    <3> QED BY <3>1, <3>2
  <2> QED BY <1>2, <2>1, <2>2
<1> DEFINE Single(s) == \E v \in V : <<s, v>> \in G /\ \A w \in V : <<s, w>> \in G => w = v
           family == {s \in SUBSET S : ~ Single(s)}
<1>4. Single({})
  <2>1. <<{}, base>> \in G BY <1>2, <1>3
  <2>2. ASSUME NEW w \in V, <<{}, w>> \in G, w # base PROVE FALSE
    <3> DEFINE R == G \ {<<{}, w>>}
    <3>1. R \in SUBSET Pairs OBVIOUS
    <3>2. <<{}, base>> \in R BY <2>1, <2>2
    <3>3. ASSUME NEW s \in SUBSET S, s # {}, NEW v \in V, <<Rest(s), v>> \in R
          PROVE  <<s, Next(s, v)>> \in R
      <4>1. <<s, Next(s, v)>> \in G BY <1>2, <1>3, <3>3
      <4> QED BY <3>3, <4>1
    <3> HIDE DEF R
    <3>4. IsClosed(R) BY <1>2, <3>2, <3>3
    <3>5. <<{}, w>> \in R BY <2>2, <3>1, <3>4
    <3> QED BY <3>5 DEF R
  <2> QED BY <2>1, <2>2
<1>5. ASSUME NEW s \in SUBSET S, s # {}, Single(Rest(s)) PROVE Single(s)
  <2>1. PICK v \in V : <<Rest(s), v>> \in G /\ \A w \in V : <<Rest(s), w>> \in G => w = v
    BY <1>5
  <2>2. <<s, Next(s, v)>> \in G BY <1>2, <1>3, <1>5, <2>1
  <2>3. Next(s, v) \in V BY <1>1, <1>5
  <2>4. ASSUME NEW w \in V, <<s, w>> \in G, w # Next(s, v) PROVE FALSE
    <3> DEFINE R == G \ {<<s, w>>}
    <3>1. R \in SUBSET Pairs OBVIOUS
    <3>2. <<{}, base>> \in R
      <4>1. <<{}, base>> \in G BY <1>2, <1>3
      <4> QED BY <1>5, <4>1
    <3>3. ASSUME NEW r \in SUBSET S, r # {}, NEW u \in V, <<Rest(r), u>> \in R
          PROVE  <<r, Next(r, u)>> \in R
      <4>1. <<Rest(r), u>> \in G BY <3>3
      <4>2. <<r, Next(r, u)>> \in G BY <1>2, <1>3, <3>3, <4>1
      <4>3. CASE r = s
        <5>1. u = v BY <2>1, <4>1, <4>3
        <5> QED BY <2>4, <4>2, <4>3, <5>1
      <4>4. CASE r # s BY <4>2, <4>4
      <4> QED BY <4>3, <4>4
    <3> HIDE DEF R
    <3>4. IsClosed(R) BY <1>2, <3>2, <3>3
    <3>5. <<s, w>> \in R BY <2>4, <3>1, <3>4
    <3> QED BY <3>5 DEF R
  <2> QED BY <2>2, <2>3, <2>4
<1>6. family = {}
  <2> SUFFICES ASSUME family # {} PROVE FALSE OBVIOUS
  <2>1. family \in SUBSET SUBSET S OBVIOUS
  <2> HIDE DEF Single
  <2>2. PICK s \in family : \A x \in s : s \ {x} \notin family
    BY <2>1, SmallestSet
  <2>3. s # {} BY <1>4
  <2>4. pick[s] \in s BY <2>3
  <2>5. s \ {pick[s]} \notin family BY <2>2, <2>4
  <2>6. Single(Rest(s)) BY <1>1, <2>3, <2>5 DEF Rest
  <2> QED BY <1>5, <2>3, <2>6
<1> DEFINE g == [s \in SUBSET S |-> CHOOSE v \in V : <<s, v>> \in G]
<1>7. \A s \in SUBSET S : g[s] \in V /\ <<s, g[s]>> \in G /\ \A w \in V : <<s, w>> \in G => w = g[s]
  <2>1. TAKE s \in SUBSET S
  <2>2. Single(s) BY <1>6
  <2>3. g[s] = CHOOSE v \in V : <<s, v>> \in G OBVIOUS
  <2> HIDE DEF g, G
  <2> QED BY <2>2, <2>3
<1>8. g \in [SUBSET S -> V]
  <2>1. \A s \in SUBSET S : g[s] \in V BY <1>7
  <2> QED BY <2>1
<1> HIDE DEF g, G
<1>9. ASSUME NEW s \in SUBSET S
      PROVE  g[s] = IF s = {} THEN base ELSE step[<<pick[s], g[s \ {pick[s]}]>>]
  <2>1. CASE s = {}
    <3>1. <<{}, base>> \in G BY <1>2, <1>3
    <3> QED BY <1>7, <2>1, <3>1
  <2>2. CASE s # {}
    <3>1. Rest(s) \in SUBSET S BY <1>1, <2>2
    <3>2. g[Rest(s)] \in V /\ <<Rest(s), g[Rest(s)]>> \in G BY <1>7, <3>1
    <3>3. <<s, Next(s, g[Rest(s)])>> \in G BY <1>2, <1>3, <2>2, <3>2
    <3>4. Next(s, g[Rest(s)]) \in V BY <1>1, <2>2, <3>2
    <3>5. g[s] = Next(s, g[Rest(s)]) BY <1>7, <3>3, <3>4
    <3> QED BY <2>2, <3>5 DEF Rest, Next
  <2> QED BY <2>1, <2>2
<1> QED BY <1>8, <1>9 DEF IsFold

\* Sets of natural numbers have a smallest element, and finite ones a largest.
LEMMA LeastNatural ==
    ASSUME NEW T \in SUBSET Nat, T # {}
    PROVE  \E n \in T : \A m \in T : n =< m
<1>1. PICK n \in T : \A m \in T : <<m, n>> \notin OpToRel(<, Nat)
  BY NatLessThanWellFounded, WFMin
<1>2. ASSUME NEW m \in T PROVE n =< m
  <2>1. <<m, n>> \notin OpToRel(<, Nat) BY <1>1
  <2>2. m \in Nat /\ n \in Nat OBVIOUS
  <2>3. ~ (m < n) BY <2>1, <2>2 DEF OpToRel
  <2> QED BY <2>2, <2>3
<1> QED BY <1>2

LEMMA MinOf ==
    ASSUME NEW N \in Nat, NEW s \in SUBSET (1 .. N), s # {}
    PROVE  Min(s) \in s /\ \A x \in s : Min(s) =< x
<1>1. \E n \in s : \A m \in s : n =< m
  <2>1. s \in SUBSET Nat OBVIOUS
  <2> QED BY <2>1, LeastNatural
<1> QED BY <1>1 DEF Min

LEMMA MaxOf ==
    ASSUME NEW N \in Nat, NEW s \in SUBSET (1 .. N), s # {}
    PROVE  Max(s) \in s /\ \A x \in s : x =< Max(s)
<1> DEFINE T == {N - x : x \in s}
<1>1. T \in SUBSET Nat /\ T # {}
  OBVIOUS
<1> HIDE DEF T
<1>2. PICK n \in T : \A m \in T : n =< m
  BY <1>1, LeastNatural
<1>3. PICK z \in s : n = N - z
  BY <1>2 DEF T
<1>4. ASSUME NEW x \in s PROVE z >= x
  <2>1. N - x \in T BY DEF T
  <2>2. N - z =< N - x BY <1>2, <1>3, <2>1
  <2>3. x \in Int /\ z \in Int OBVIOUS
  <2> QED BY <2>2, <2>3
<1>5. Max(s) \in s /\ \A x \in s : Max(s) >= x
  BY <1>4 DEF Max
<1>6. ASSUME NEW x \in s PROVE x =< Max(s)
  <2>1. Max(s) >= x /\ Max(s) \in s BY <1>5
  <2>2. \A y \in s : y \in Int OBVIOUS
  <2> QED BY <2>1, <2>2
<1> QED BY <1>5, <1>6

\* What a fold over 1 .. N chooses, if its step stays in V on values of V ...
LeftIter(iter, base, step, N, V) ==
    /\ iter[{}] = base
    /\ \A s \in SUBSET (1 .. N) : s # {} =>
          (iter[s \ {Max(s)}] \in V => iter[s] = step[<<Max(s), iter[s \ {Max(s)}]>>])
RightIter(iter, base, step, N, V) ==
    /\ iter[{}] = base
    /\ \A s \in SUBSET (1 .. N) : s # {} =>
          (iter[s \ {Min(s)}] \in V => iter[s] = step[<<Min(s), iter[s \ {Min(s)}]>>])

\* ... goes through states of V: from the left, taking the largest index off ...
LeftStates(q, base, step, N, V, end) ==
    /\ q \in [0 .. N -> V] /\ q[0] = base /\ q[N] = end
    /\ \A k \in 1 .. N : q[k] = step[<<k, q[k - 1]>>]
RightStates(q, base, step, N, V, end) ==
    /\ q \in [1 .. N + 1 -> V] /\ q[N + 1] = base /\ q[1] = end
    /\ \A k \in 1 .. N : q[k] = step[<<k, q[k + 1]>>]

LEMMA LeftFoldStates ==
    ASSUME NEW N \in Nat, NEW V, NEW base \in V, NEW step \in [(1 .. N) \X V -> V],
           NEW iter, LeftIter(iter, base, step, N, V)
    PROVE  \E q : LeftStates(q, base, step, N, V, iter[1 .. N])
<1> DEFINE q == [k \in 0 .. N |-> iter[1 .. k]]
           bad == {k \in 0 .. N : iter[1 .. k] \notin V}
<1>1. iter[1 .. 0] = base
  <2>1. 1 .. 0 = {} OBVIOUS
  <2> QED BY <2>1 DEF LeftIter
<1>2. ASSUME NEW k \in 1 .. N, iter[1 .. (k - 1)] \in V
      PROVE  iter[1 .. k] = step[<<k, iter[1 .. (k - 1)]>>] /\ iter[1 .. k] \in V
  <2> DEFINE s == 1 .. k
  <2>1. s \in SUBSET (1 .. N) /\ s # {} /\ k \in s OBVIOUS
  <2>2. Max(s) \in s /\ \A x \in s : x =< Max(s)
    BY <2>1, MaxOf
  <2>3. Max(s) = k BY <2>1, <2>2
  <2>4. s \ {k} = 1 .. (k - 1) OBVIOUS
  <2> HIDE DEF s
  <2>5. iter[s] = step[<<k, iter[s \ {k}]>>] BY <1>2, <2>1, <2>3, <2>4 DEF LeftIter
  <2>6. <<k, iter[1 .. (k - 1)]>> \in (1 .. N) \X V BY <1>2
  <2>7. step[<<k, iter[1 .. (k - 1)]>>] \in V BY <2>6
  <2>8. iter[s] = step[<<k, iter[1 .. (k - 1)]>>] BY <2>4, <2>5
  <2> QED BY <2>7, <2>8 DEF s
<1>3. bad = {}
  <2> SUFFICES ASSUME bad # {} PROVE FALSE OBVIOUS
  <2>1. bad \in SUBSET Nat OBVIOUS
  <2>2. PICK k \in bad : \A m \in bad : k =< m BY <2>1, LeastNatural
  <2>3. k # 0 BY <1>1
  <2>4. k \in 1 .. N /\ k - 1 \in 0 .. N /\ k - 1 \notin bad BY <2>2, <2>3
  <2>5. iter[1 .. (k - 1)] \in V BY <2>4
  <2>6. iter[1 .. k] \in V BY <1>2, <2>4, <2>5
  <2> QED BY <2>6
<1>4. \A k \in 0 .. N : iter[1 .. k] \in V BY <1>3
<1>5. q \in [0 .. N -> V] BY <1>4
<1>6. q[0] = base /\ q[N] = iter[1 .. N] BY <1>1
<1>7. ASSUME NEW k \in 1 .. N PROVE q[k] = step[<<k, q[k - 1]>>]
  <2>1. k - 1 \in 0 .. N /\ k \in 0 .. N OBVIOUS
  <2>2. iter[1 .. (k - 1)] \in V BY <1>4, <2>1
  <2>3. iter[1 .. k] = step[<<k, iter[1 .. (k - 1)]>>] BY <1>2, <2>2
  <2> QED BY <2>1, <2>3
<1> HIDE DEF q
<1> QED BY <1>5, <1>6, <1>7 DEF LeftStates

\* ... and from the right, taking the smallest off.
LEMMA RightFoldStates ==
    ASSUME NEW N \in Nat, NEW V, NEW base \in V, NEW step \in [(1 .. N) \X V -> V],
           NEW iter, RightIter(iter, base, step, N, V)
    PROVE  \E q : RightStates(q, base, step, N, V, iter[1 .. N])
<1> DEFINE q == [k \in 1 .. N + 1 |-> iter[k .. N]]
           bad == {k \in 0 .. N : iter[(N + 1 - k) .. N] \notin V}
<1>1. iter[(N + 1) .. N] = base
  <2>1. (N + 1) .. N = {} OBVIOUS
  <2> QED BY <2>1 DEF RightIter
<1>2. ASSUME NEW k \in 1 .. N, iter[(k + 1) .. N] \in V
      PROVE  iter[k .. N] = step[<<k, iter[(k + 1) .. N]>>] /\ iter[k .. N] \in V
  <2> DEFINE s == k .. N
  <2>1. s \in SUBSET (1 .. N) /\ s # {} /\ k \in s OBVIOUS
  <2>2. Min(s) \in s /\ \A x \in s : Min(s) =< x
    BY <2>1, MinOf
  <2>3. Min(s) = k BY <2>1, <2>2
  <2>4. s \ {k} = (k + 1) .. N OBVIOUS
  <2> HIDE DEF s
  <2>5. iter[s] = step[<<k, iter[s \ {k}]>>] BY <1>2, <2>1, <2>3, <2>4 DEF RightIter
  <2>6. <<k, iter[(k + 1) .. N]>> \in (1 .. N) \X V BY <1>2
  <2>7. step[<<k, iter[(k + 1) .. N]>>] \in V BY <2>6
  <2>8. iter[s] = step[<<k, iter[(k + 1) .. N]>>] BY <2>4, <2>5
  <2> QED BY <2>7, <2>8 DEF s
<1>3. bad = {}
  <2> SUFFICES ASSUME bad # {} PROVE FALSE OBVIOUS
  <2>1. bad \in SUBSET Nat OBVIOUS
  <2>2. PICK k \in bad : \A m \in bad : k =< m BY <2>1, LeastNatural
  <2>3. k # 0
    <3>1. N + 1 - 0 = N + 1 OBVIOUS
    <3> QED BY <1>1, <3>1
  <2>4. k \in 1 .. N /\ k - 1 \in 0 .. N /\ k - 1 \notin bad BY <2>2, <2>3, SMTT(30)
  <2> DEFINE j == N + 1 - k
  <2>5. j \in 1 .. N /\ j + 1 = N + 1 - (k - 1) BY <2>4
  <2>6. iter[(N + 1 - (k - 1)) .. N] \in V BY <2>4
  <2>7. iter[(j + 1) .. N] \in V BY <2>5, <2>6
  <2> HIDE DEF j
  <2>8. iter[j .. N] \in V BY <1>2, <2>5, <2>7
  <2> QED BY <2>8 DEF j
<1>4. \A k \in 1 .. N + 1 : iter[k .. N] \in V
  <2>1. TAKE k \in 1 .. N + 1
  <2>2. N + 1 - k \in 0 .. N /\ N + 1 - (N + 1 - k) = k OBVIOUS
  <2>3. N + 1 - k \notin bad BY <1>3
  <2> DEFINE j == N + 1 - k
  <2>4. j \in 0 .. N /\ j \notin bad /\ N + 1 - j = k BY <2>2, <2>3
  <2> HIDE DEF j
  <2>5. iter[(N + 1 - j) .. N] \in V BY <2>4
  <2> QED BY <2>4, <2>5
<1>5. q \in [1 .. N + 1 -> V] BY <1>4
<1>6. q[N + 1] = base /\ q[1] = iter[1 .. N] BY <1>1
<1>7. ASSUME NEW k \in 1 .. N PROVE q[k] = step[<<k, q[k + 1]>>]
  <2>1. k + 1 \in 1 .. N + 1 /\ k \in 1 .. N + 1 OBVIOUS
  <2>2. iter[(k + 1) .. N] \in V BY <1>4, <2>1
  <2>3. iter[k .. N] = step[<<k, iter[(k + 1) .. N]>>] BY <1>2, <2>2
  <2> QED BY <2>1, <2>3
<1> HIDE DEF q
<1> QED BY <1>5, <1>6, <1>7 DEF RightStates
=============================================================================
