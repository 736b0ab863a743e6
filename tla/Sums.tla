-------------------------------- MODULE Sums --------------------------------
(***************************************************************************)
(* What has to be known of SumFunctionOnSet and SumFunction to reason      *)
(* about totals.  The community modules define a sum by recursion over the *)
(* subsets of a set; here that function is shown to exist, and the laws of *)
(* the sum follow by looking at a smallest set that breaks them.           *)
(***************************************************************************)
EXTENDS Integers, Functions, FiniteSetTheorems, TLAPS

\* What the sum over s takes first, and what is left then.
pick(s) == CHOOSE x \in s : TRUE
others(s) == s \ {pick(s)}

isSumming(g, fun, S) ==
  g = [s \in SUBSET S |-> IF s = {} THEN 0 ELSE fun[pick(s)] + g[others(s)]]

-----------------------------------------------------------------------------
(* Induction over the subsets of a finite set. *)

\* A set of subsets of a finite set that is not empty has a smallest member.
LEMMA SmallestSubset ==
  ASSUME NEW S, IsFiniteSet(S), NEW Bad \in SUBSET SUBSET S, Bad # {}
  PROVE  \E s \in Bad : \A t \in Bad : t \subseteq s => t = s
<1>1. IsWellFoundedOn(StrictSubsetOrdering(S), SUBSET S)
  BY FS_StrictSubsetOrderingWellFounded, FS_FiniteSubsetsOfFinite
<1>2. PICK s \in Bad : \A t \in Bad : <<t, s>> \notin StrictSubsetOrdering(S)
  BY <1>1, WFMin
<1>3. ASSUME NEW t \in Bad, t \subseteq s, t # s PROVE FALSE
  BY <1>2, <1>3 DEF StrictSubsetOrdering
<1>4. QED
  BY <1>3

\* What a set loses when one element is taken from it.
LEMMA PickIsIn ==
  ASSUME NEW s, s # {}
  PROVE  pick(s) \in s /\ others(s) \subseteq s /\ others(s) # s
BY DEF pick, others

\* Two sums of one function agree where both are defined.
LEMMA SummingIsUnique ==
  ASSUME NEW S, IsFiniteSet(S), NEW T, NEW fun, NEW g, NEW h,
         isSumming(g, fun, S), isSumming(h, fun, T)
  PROVE  \A s \in SUBSET S : s \subseteq T => g[s] = h[s]
<1> DEFINE Bad == {s \in SUBSET S : s \subseteq T /\ g[s] # h[s]}
<1>1. SUFFICES ASSUME Bad # {} PROVE FALSE
  OBVIOUS
<1>2. PICK s \in Bad : \A t \in Bad : t \subseteq s => t = s
  <2>1. Bad \in SUBSET SUBSET S
    OBVIOUS
  <2> HIDE DEF Bad
  <2>2. QED
    BY <1>1, <2>1, SmallestSubset
<1>3. /\ g[s] = IF s = {} THEN 0 ELSE fun[pick(s)] + g[others(s)]
      /\ h[s] = IF s = {} THEN 0 ELSE fun[pick(s)] + h[others(s)]
  BY DEF isSumming
<1>4. s # {}
  BY <1>3
<1>5. others(s) \notin Bad /\ others(s) \subseteq s
  BY <1>2, <1>4, PickIsIn
<1>6. g[others(s)] = h[others(s)]
  BY <1>5
<1>7. QED
  BY <1>3, <1>4, <1>6

\* There is such a function: a smallest set without one has one, put together from
\* those of its parts.
LEMMA SummingExists ==
  ASSUME NEW S, IsFiniteSet(S), NEW fun
  PROVE  \E g : isSumming(g, fun, S)
<1> DEFINE Bad == {s \in SUBSET S : ~\E g : isSumming(g, fun, s)}
<1>1. SUFFICES ASSUME Bad # {} PROVE FALSE
  OBVIOUS
<1>2. PICK s \in Bad : \A t \in Bad : t \subseteq s => t = s
  <2>1. Bad \in SUBSET SUBSET S
    OBVIOUS
  <2> HIDE DEF Bad
  <2>2. QED
    BY <1>1, <2>1, SmallestSubset
<1> DEFINE part(t) == CHOOSE g : isSumming(g, fun, t)
           value(t) == IF t = {} THEN 0 ELSE fun[pick(t)] + part(others(t))[others(t)]
<1>3. ASSUME NEW t \in SUBSET s, t # s PROVE isSumming(part(t), fun, t)
  <2>1. \E g : isSumming(g, fun, t)
    BY <1>2, <1>3
  <2>2. QED
    BY <2>1
<1> HIDE DEF part
<1>4. PICK whole : whole = [t \in SUBSET s |-> value(t)]
  OBVIOUS
<1>5. ASSUME NEW t \in SUBSET s, t # {} PROVE whole[others(t)] = part(others(t))[others(t)]
  <2>1. PICK r : r = others(t)
    OBVIOUS
  <2>2. r \in SUBSET s /\ r # s /\ IsFiniteSet(r)
    BY <1>5, <2>1, PickIsIn, FS_Subset
  <2>3. part(r)[r] = IF r = {} THEN 0 ELSE fun[pick(r)] + part(r)[others(r)]
    <3>1. isSumming(part(r), fun, r)
      BY <1>3, <2>2
    <3>2. QED
      BY <3>1 DEF isSumming
  <2>4. whole[r] = IF r = {} THEN 0 ELSE fun[pick(r)] + part(others(r))[others(r)]
    BY <1>4, <2>2
  <2>5. ASSUME r # {} PROVE part(r)[others(r)] = part(others(r))[others(r)]
    <3>1. others(r) \in SUBSET s /\ others(r) # s /\ others(r) \subseteq r
      BY <2>2, <2>5, PickIsIn
    <3>2. isSumming(part(r), fun, r) /\ isSumming(part(others(r)), fun, others(r))
      BY <1>3, <2>2, <3>1
    <3>3. QED
      BY <2>2, <3>1, <3>2, SummingIsUnique
  <2>6. QED
    BY <2>1, <2>3, <2>4, <2>5
<1>6. ASSUME NEW t \in SUBSET s
      PROVE  value(t) = IF t = {} THEN 0 ELSE fun[pick(t)] + whole[others(t)]
  BY <1>5
<1> HIDE DEF value
<1>7. isSumming(whole, fun, s)
  BY <1>4, <1>6 DEF isSumming
<1>8. QED
  BY <1>2, <1>7

\* The sum is what such a function says of the whole set.
LEMMA SumIsSumming ==
  ASSUME NEW fun, NEW S
  PROVE  SumFunctionOnSet(fun, S) = (CHOOSE g : isSumming(g, fun, S))[S]
BY DEF SumFunctionOnSet, FoldFunctionOnSet, MapThenFoldSet, isSumming, pick, others

\* The sum, element by element, in the order in which it takes them.
LEMMA SumUnfolds ==
  ASSUME NEW fun, NEW S, IsFiniteSet(S)
  PROVE  SumFunctionOnSet(fun, S) =
           IF S = {} THEN 0 ELSE fun[pick(S)] + SumFunctionOnSet(fun, others(S))
<1> DEFINE sum(T) == CHOOSE g : isSumming(g, fun, T)
<1>1. isSumming(sum(S), fun, S)
  BY SummingExists
<1>2. sum(S)[S] = IF S = {} THEN 0 ELSE fun[pick(S)] + sum(S)[others(S)]
  BY <1>1 DEF isSumming
<1>3. ASSUME S # {} PROVE sum(S)[others(S)] = sum(others(S))[others(S)]
  <2>1. others(S) \subseteq S /\ IsFiniteSet(others(S))
    BY <1>3, PickIsIn, FS_Subset
  <2>2. isSumming(sum(others(S)), fun, others(S))
    BY <2>1, SummingExists
  <2>3. QED
    BY <1>1, <2>1, <2>2, SummingIsUnique
<1>4. QED
  BY <1>2, <1>3, SumIsSumming

-----------------------------------------------------------------------------
(* The laws of the sum. *)

\* What holds of a set whenever it holds of its smaller subsets holds of all subsets.
LEMMA SubsetInduction ==
  ASSUME NEW S, IsFiniteSet(S), NEW Good,
         \A s \in SUBSET S : (\A t \in SUBSET s : t # s => t \in Good) => s \in Good
  PROVE  SUBSET S \subseteq Good
<1>1. PICK Bad : Bad = (SUBSET S) \ Good
  OBVIOUS
<1>2. SUFFICES ASSUME Bad # {} PROVE FALSE
  BY <1>1
<1>3. PICK s \in Bad : \A t \in Bad : t \subseteq s => t = s
  <2>1. Bad \in SUBSET SUBSET S
    BY <1>1
  <2>2. QED
    BY <1>2, <2>1, SmallestSubset
<1>4. s \in SUBSET S /\ s \notin Good
  BY <1>1, <1>3
<1>5. ASSUME NEW t \in SUBSET s, t # s PROVE t \in Good
  <2>1. t \in SUBSET S /\ t \notin Bad
    BY <1>3, <1>4, <1>5
  <2>2. QED
    BY <1>1, <2>1
<1>6. QED
  BY <1>4, <1>5

\* A sum of natural numbers is one.
LEMMA SumType ==
  ASSUME NEW fun, NEW S, IsFiniteSet(S), \A x \in S : fun[x] \in Nat
  PROVE  SumFunctionOnSet(fun, S) \in Nat
<1>1. PICK Good : Good = {s \in SUBSET S : SumFunctionOnSet(fun, s) \in Nat}
  OBVIOUS
<1>2. ASSUME NEW s \in SUBSET S, \A t \in SUBSET s : t # s => t \in Good PROVE s \in Good
  <2>1. IsFiniteSet(s)
    BY FS_Subset
  <2>2. SumFunctionOnSet(fun, s) =
          IF s = {} THEN 0 ELSE fun[pick(s)] + SumFunctionOnSet(fun, others(s))
    BY <2>1, SumUnfolds
  <2>3. s # {} => fun[pick(s)] \in Nat /\ SumFunctionOnSet(fun, others(s)) \in Nat
    BY <1>1, <1>2, PickIsIn
  <2>4. QED
    BY <1>1, <2>2, <2>3
<1>3. SUBSET S \subseteq Good
  BY <1>2, SubsetInduction
<1>4. QED
  BY <1>1, <1>3

\* An element may be taken from a sum in any order.
LEMMA SumRemove ==
  ASSUME NEW fun, NEW S, IsFiniteSet(S), \A x \in S : fun[x] \in Nat, NEW x \in S
  PROVE  SumFunctionOnSet(fun, S) = fun[x] + SumFunctionOnSet(fun, S \ {x})
<1>1. PICK Good : Good = {s \in SUBSET S : \A y \in s :
                            SumFunctionOnSet(fun, s) = fun[y] + SumFunctionOnSet(fun, s \ {y})}
  OBVIOUS
<1>2. ASSUME NEW s \in SUBSET S, \A t \in SUBSET s : t # s => t \in Good PROVE s \in Good
  <2>1. SUFFICES ASSUME NEW y \in s
                 PROVE  SumFunctionOnSet(fun, s) = fun[y] + SumFunctionOnSet(fun, s \ {y})
    BY <1>1
  <2>2. PICK c \in s : c = pick(s) /\ others(s) = s \ {c}
    BY PickIsIn DEF others
  <2>3. IsFiniteSet(s)
    BY FS_Subset
  <2>4. SumFunctionOnSet(fun, s) = fun[c] + SumFunctionOnSet(fun, s \ {c})
    BY <2>2, <2>3, SumUnfolds
  <2>5. CASE y = c
    BY <2>4, <2>5
  <2>6. CASE y # c
    <3>1. s \ {c} \in Good /\ s \ {y} \in Good
      BY <1>2, <2>2
    <3>2. (s \ {c}) \ {y} = (s \ {y}) \ {c} /\ y \in s \ {c} /\ c \in s \ {y}
      BY <2>6
    <3>3. PICK rest : rest = (s \ {c}) \ {y}
      OBVIOUS
    <3>4. /\ SumFunctionOnSet(fun, s \ {c}) = fun[y] + SumFunctionOnSet(fun, rest)
          /\ SumFunctionOnSet(fun, s \ {y}) = fun[c] + SumFunctionOnSet(fun, rest)
      BY <1>1, <3>1, <3>2, <3>3
    <3>5. IsFiniteSet(rest) /\ rest \subseteq S
      BY <2>3, <3>3, FS_Subset
    <3>6. SumFunctionOnSet(fun, rest) \in Nat /\ fun[y] \in Nat /\ fun[c] \in Nat
      BY <3>5, SumType
    <3>7. QED
      BY <2>4, <3>4, <3>6
  <2>7. QED
    BY <2>5, <2>6
<1>3. SUBSET S \subseteq Good
  BY <1>2, SubsetInduction
<1>4. QED
  BY <1>1, <1>3

\* Functions that agree on a set have the same sum over it.
LEMMA SumEqual ==
  ASSUME NEW fun, NEW gun, NEW S, IsFiniteSet(S), \A x \in S : fun[x] = gun[x]
  PROVE  SumFunctionOnSet(fun, S) = SumFunctionOnSet(gun, S)
<1>1. PICK Good : Good = {s \in SUBSET S : SumFunctionOnSet(fun, s) = SumFunctionOnSet(gun, s)}
  OBVIOUS
<1>2. ASSUME NEW s \in SUBSET S, \A t \in SUBSET s : t # s => t \in Good PROVE s \in Good
  <2>1. IsFiniteSet(s)
    BY FS_Subset
  <2>2. /\ SumFunctionOnSet(fun, s) =
             IF s = {} THEN 0 ELSE fun[pick(s)] + SumFunctionOnSet(fun, others(s))
        /\ SumFunctionOnSet(gun, s) =
             IF s = {} THEN 0 ELSE gun[pick(s)] + SumFunctionOnSet(gun, others(s))
    BY <2>1, SumUnfolds
  <2>3. s # {} => /\ fun[pick(s)] = gun[pick(s)]
                  /\ SumFunctionOnSet(fun, others(s)) = SumFunctionOnSet(gun, others(s))
    BY <1>1, <1>2, PickIsIn
  <2>4. QED
    BY <1>1, <2>2, <2>3
<1>3. SUBSET S \subseteq Good
  BY <1>2, SubsetInduction
<1>4. QED
  BY <1>1, <1>3

\* A sum grows with its set.
LEMMA SumOfSubset ==
  ASSUME NEW fun, NEW S, IsFiniteSet(S), \A x \in S : fun[x] \in Nat, NEW T \in SUBSET S
  PROVE  SumFunctionOnSet(fun, T) <= SumFunctionOnSet(fun, S)
<1>1. PICK Good : Good = {s \in SUBSET S :
                            T \subseteq s => SumFunctionOnSet(fun, T) <= SumFunctionOnSet(fun, s)}
  OBVIOUS
<1>2. IsFiniteSet(T) /\ SumFunctionOnSet(fun, T) \in Nat
  BY FS_Subset, SumType
<1>3. ASSUME NEW s \in SUBSET S, \A t \in SUBSET s : t # s => t \in Good PROVE s \in Good
  <2>1. SUFFICES ASSUME T \subseteq s, T # s
                 PROVE  SumFunctionOnSet(fun, T) <= SumFunctionOnSet(fun, s)
    BY <1>1, <1>2
  <2>2. PICK x \in s : x \notin T
    BY <2>1
  <2>3. IsFiniteSet(s) /\ IsFiniteSet(s \ {x})
    BY FS_Subset
  <2>4. SumFunctionOnSet(fun, s) = fun[x] + SumFunctionOnSet(fun, s \ {x})
    BY <2>3, SumRemove
  <2>5. SumFunctionOnSet(fun, s \ {x}) \in Nat /\ fun[x] \in Nat
    BY <2>3, SumType
  <2>6. SumFunctionOnSet(fun, T) <= SumFunctionOnSet(fun, s \ {x})
    BY <1>1, <1>3, <2>1, <2>2
  <2>7. QED
    BY <1>2, <2>4, <2>5, <2>6
<1>4. SUBSET S \subseteq Good
  BY <1>3, SubsetInduction
<1>5. QED
  BY <1>1, <1>4

\* A sum grows with its summands.
LEMMA SumMonotone ==
  ASSUME NEW fun, NEW gun, NEW S, IsFiniteSet(S),
         \A x \in S : fun[x] \in Nat /\ gun[x] \in Nat /\ fun[x] <= gun[x]
  PROVE  SumFunctionOnSet(fun, S) <= SumFunctionOnSet(gun, S)
<1>1. PICK Good : Good = {s \in SUBSET S : SumFunctionOnSet(fun, s) <= SumFunctionOnSet(gun, s)}
  OBVIOUS
<1>2. ASSUME NEW s \in SUBSET S, \A t \in SUBSET s : t # s => t \in Good PROVE s \in Good
  <2>1. IsFiniteSet(s)
    BY FS_Subset
  <2>2. /\ SumFunctionOnSet(fun, s) =
             IF s = {} THEN 0 ELSE fun[pick(s)] + SumFunctionOnSet(fun, others(s))
        /\ SumFunctionOnSet(gun, s) =
             IF s = {} THEN 0 ELSE gun[pick(s)] + SumFunctionOnSet(gun, others(s))
    BY <2>1, SumUnfolds
  <2>3. ASSUME s # {} PROVE SumFunctionOnSet(fun, s) <= SumFunctionOnSet(gun, s)
    <3>1. PICK x \in s : x = pick(s)
      BY <2>3, PickIsIn
    <3>2. PICK rest \in SUBSET s : rest = others(s) /\ rest # s
      BY <2>3, PickIsIn
    <3>3. SumFunctionOnSet(fun, rest) <= SumFunctionOnSet(gun, rest)
      BY <1>1, <1>2, <3>2
    <3>4. SumFunctionOnSet(fun, rest) \in Nat /\ SumFunctionOnSet(gun, rest) \in Nat
      <4>1. IsFiniteSet(rest)
        BY <2>1, FS_Subset
      <4>2. QED
        BY <4>1, SumType
    <3>5. /\ SumFunctionOnSet(fun, s) = fun[x] + SumFunctionOnSet(fun, rest)
          /\ SumFunctionOnSet(gun, s) = gun[x] + SumFunctionOnSet(gun, rest)
      BY <2>2, <2>3, <3>1, <3>2
    <3>6. QED
      BY <3>3, <3>4, <3>5
  <2>4. QED
    BY <1>1, <2>2, <2>3
<1>3. SUBSET S \subseteq Good
  BY <1>2, SubsetInduction
<1>4. QED
  BY <1>1, <1>3

\* The sum of what two functions add up to is the sum of their sums.
LEMMA SumOfSums ==
  ASSUME NEW fun, NEW gun, NEW hun, NEW S, IsFiniteSet(S),
         \A x \in S : fun[x] \in Nat /\ gun[x] \in Nat /\ hun[x] = fun[x] + gun[x]
  PROVE  SumFunctionOnSet(hun, S) = SumFunctionOnSet(fun, S) + SumFunctionOnSet(gun, S)
<1>1. PICK Good : Good = {s \in SUBSET S :
        SumFunctionOnSet(hun, s) = SumFunctionOnSet(fun, s) + SumFunctionOnSet(gun, s)}
  OBVIOUS
<1>2. ASSUME NEW s \in SUBSET S, \A t \in SUBSET s : t # s => t \in Good PROVE s \in Good
  <2>1. IsFiniteSet(s)
    BY FS_Subset
  <2>2. /\ SumFunctionOnSet(fun, s) =
             IF s = {} THEN 0 ELSE fun[pick(s)] + SumFunctionOnSet(fun, others(s))
        /\ SumFunctionOnSet(gun, s) =
             IF s = {} THEN 0 ELSE gun[pick(s)] + SumFunctionOnSet(gun, others(s))
        /\ SumFunctionOnSet(hun, s) =
             IF s = {} THEN 0 ELSE hun[pick(s)] + SumFunctionOnSet(hun, others(s))
    BY <2>1, SumUnfolds
  <2>3. CASE s = {}
    BY <1>1, <2>2, <2>3
  <2>4. CASE s # {}
    <3>1. PICK x \in s : x = pick(s)
      BY <2>4, PickIsIn
    <3>2. PICK rest \in SUBSET s : rest = others(s) /\ rest # s
      BY <2>4, PickIsIn
    <3>3. IsFiniteSet(rest) /\ rest \in Good
      BY <1>2, <2>1, <3>2, FS_Subset
    <3>4. SumFunctionOnSet(fun, rest) \in Nat /\ SumFunctionOnSet(gun, rest) \in Nat
      BY <3>3, SumType
    <3>5. QED
      BY <1>1, <2>2, <2>4, <3>1, <3>2, <3>3, <3>4
  <2>5. QED
    BY <2>3, <2>4
<1>3. SUBSET S \subseteq Good
  BY <1>2, SubsetInduction
<1>4. QED
  BY <1>1, <1>3

\* A factor that all summands have is one of the sum.
LEMMA SumOfMultiples ==
  ASSUME NEW k \in Nat, NEW fun, NEW gun, NEW S, IsFiniteSet(S),
         \A x \in S : fun[x] \in Nat /\ gun[x] = k * fun[x]
  PROVE  SumFunctionOnSet(gun, S) = k * SumFunctionOnSet(fun, S)
<1>1. PICK Good : Good = {s \in SUBSET S :
        SumFunctionOnSet(gun, s) = k * SumFunctionOnSet(fun, s)}
  OBVIOUS
<1>2. ASSUME NEW s \in SUBSET S, \A t \in SUBSET s : t # s => t \in Good PROVE s \in Good
  <2>1. IsFiniteSet(s)
    BY FS_Subset
  <2>2. /\ SumFunctionOnSet(fun, s) =
             IF s = {} THEN 0 ELSE fun[pick(s)] + SumFunctionOnSet(fun, others(s))
        /\ SumFunctionOnSet(gun, s) =
             IF s = {} THEN 0 ELSE gun[pick(s)] + SumFunctionOnSet(gun, others(s))
    BY <2>1, SumUnfolds
  <2>3. CASE s = {}
    BY <1>1, <2>2, <2>3
  <2>4. CASE s # {}
    <3>1. PICK x \in s : x = pick(s)
      BY <2>4, PickIsIn
    <3>2. PICK rest \in SUBSET s : rest = others(s) /\ rest # s
      BY <2>4, PickIsIn
    <3>3. IsFiniteSet(rest) /\ rest \in Good
      BY <1>2, <2>1, <3>2, FS_Subset
    <3>4. PICK n \in Nat : n = SumFunctionOnSet(fun, rest)
      BY <3>3, SumType
    <3>5. PICK a \in Nat : a = fun[x]
      OBVIOUS
    <3>6. k * (a + n) = k * a + k * n
      OBVIOUS
    <3>7. SumFunctionOnSet(fun, s) = a + n /\ SumFunctionOnSet(gun, s) = k * a + k * n
      BY <1>1, <2>2, <2>4, <3>1, <3>2, <3>3, <3>4, <3>5
    <3>8. QED
      BY <1>1, <3>6, <3>7
  <2>5. QED
    BY <2>3, <2>4
<1>3. SUBSET S \subseteq Good
  BY <1>2, SubsetInduction
<1>4. QED
  BY <1>1, <1>3

\* A sum counts the elements it gives one unit.
LEMMA SumCounts ==
  ASSUME NEW fun, NEW S, IsFiniteSet(S), NEW B \in SUBSET S,
         \A x \in S : fun[x] = IF x \in B THEN 1 ELSE 0
  PROVE  SumFunctionOnSet(fun, S) = Cardinality(B)
<1>1. PICK Good : Good = {s \in SUBSET S :
        SumFunctionOnSet(fun, s) = Cardinality(s \cap B)}
  OBVIOUS
<1>2. ASSUME NEW s \in SUBSET S, \A t \in SUBSET s : t # s => t \in Good PROVE s \in Good
  <2>1. IsFiniteSet(s)
    BY FS_Subset
  <2>2. SumFunctionOnSet(fun, s) =
          IF s = {} THEN 0 ELSE fun[pick(s)] + SumFunctionOnSet(fun, others(s))
    BY <2>1, SumUnfolds
  <2>3. CASE s = {}
    <3>1. s \cap B = {}
      BY <2>3
    <3>2. Cardinality(s \cap B) = 0
      BY <3>1, FS_EmptySet
    <3>3. QED
      BY <1>1, <2>2, <2>3, <3>2
  <2>4. CASE s # {}
    <3>1. PICK x \in s : x = pick(s)
      BY <2>4, PickIsIn
    <3>2. PICK rest \in SUBSET s : rest = others(s) /\ rest # s /\ rest = s \ {x}
      BY <2>4, <3>1, PickIsIn DEF others
    <3>3. IsFiniteSet(rest) /\ rest \in Good
      BY <1>2, <2>1, <3>2, FS_Subset
    <3>4. IsFiniteSet(rest \cap B) /\ Cardinality(rest \cap B) \in Nat
      BY <3>3, FS_Subset, FS_CardinalityType
    <3>5. CASE x \in B
      <4>1. s \cap B = (rest \cap B) \cup {x} /\ x \notin rest \cap B
        BY <3>2, <3>5
      <4>2. Cardinality(s \cap B) = Cardinality(rest \cap B) + 1
        BY <3>4, <4>1, FS_AddElement
      <4>3. QED
        BY <1>1, <2>2, <2>4, <3>1, <3>2, <3>3, <3>4, <3>5, <4>2
    <3>6. CASE x \notin B
      <4>1. s \cap B = rest \cap B
        BY <3>2, <3>6
      <4>2. QED
        BY <1>1, <2>2, <2>4, <3>1, <3>2, <3>3, <3>4, <3>6, <4>1
    <3>7. QED
      BY <3>5, <3>6
  <2>5. QED
    BY <2>3, <2>4
<1>3. SUBSET S \subseteq Good
  BY <1>2, SubsetInduction
<1>4. S \cap B = B
  OBVIOUS
<1>5. QED
  BY <1>1, <1>3, <1>4

=============================================================================
