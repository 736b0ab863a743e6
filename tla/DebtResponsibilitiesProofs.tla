--------------------- MODULE DebtResponsibilitiesProofs ---------------------
(***************************************************************************)
(* What the largest-remainder method returns, for any total and weights:   *)
(* parts that add up to the total, each within a unit of its exact share.  *)
(* From it that a reassignment is fair, and that the responsibilities of a *)
(* debt stay the whole until a second member leaves, however overrides and *)
(* the handling of a departure overlap.                                    *)
(*                                                                         *)
(* If the handling of a departure overlaps with no other replacement, they *)
(* stay the whole however many leave.                                      *)
(***************************************************************************)
EXTENDS DebtResponsibilities, Sums

-----------------------------------------------------------------------------
(* Ranking.  Ties are broken by the number of the membership, so that no two *)
(* have the same rank.                                                       *)

before(s, r, m) == {n \in s : r[n] > r[m] \/ (r[n] = r[m] /\ n < m)}

firsts(s, r, k) == {m \in s : Cardinality(before(s, r, m)) < k}

\* Somebody comes last.
LEMMA LastExists ==
  ASSUME NEW s, IsFiniteSet(s), s # {}, NEW r, \A x \in s : x \in Nat /\ r[x] \in Nat
  PROVE  \E z \in s : before(s, r, z) = s \ {z}
<1> DEFINE after(m) == {n \in s : m \in before(s, r, n)}
<1>1. PICK Bad : Bad = {after(m) : m \in s}
  OBVIOUS
<1>2. Bad \in SUBSET SUBSET s
  BY <1>1
<1>3. PICK a \in Bad : \A t \in Bad : t \subseteq a => t = a
  <2>1. Bad # {} /\ IsFiniteSet(s)
    BY <1>1
  <2> HIDE DEF after
  <2>2. QED
    BY <1>2, <2>1, SmallestSubset
<1>4. PICK z \in s : a = after(z)
  BY <1>1, <1>3
<1>5. \A m, n, l \in s :
        /\ m \notin before(s, r, m)
        /\ m \in before(s, r, n) /\ n \in before(s, r, l) => m \in before(s, r, l)
        /\ m # n => m \in before(s, r, n) \/ n \in before(s, r, m)
        /\ m \in before(s, r, n) => n \notin before(s, r, m)
  BY DEF before
<1>6. ASSUME NEW x \in after(z) PROVE FALSE
  <2>1. x \in s /\ after(x) \in Bad
    BY <1>1
  <2>2. after(x) \subseteq after(z)
    BY <1>5
  <2>3. x \in after(x)
    BY <1>3, <1>4, <2>1, <2>2
  <2>4. QED
    BY <1>5, <2>3
<1>7. \A n \in s \ {z} : n \in before(s, r, z)
  BY <1>5, <1>6
<1>8. before(s, r, z) \subseteq s /\ z \notin before(s, r, z)
  BY <1>5 DEF before
<1>9. before(s, r, z) = s \ {z}
  BY <1>7, <1>8
<1>10. QED
  BY <1>9

\* Of a finite set, the k first are k.
LEMMA FirstsAreMany ==
  ASSUME NEW D, \A x \in D : x \in Nat, IsFiniteSet(D), NEW r, \A x \in D : r[x] \in Nat,
         NEW k \in 0..Cardinality(D)
  PROVE  Cardinality(firsts(D, r, k)) = k
<1>1. PICK Good : Good = {s \in SUBSET D :
        \A j \in 0..Cardinality(s) : Cardinality(firsts(s, r, j)) = j}
  OBVIOUS
<1>2. ASSUME NEW s \in SUBSET D, \A t \in SUBSET s : t # s => t \in Good PROVE s \in Good
  <2>1. IsFiniteSet(s)
    BY FS_Subset
  <2>2. CASE s = {}
    <3>1. Cardinality(s) = 0
      BY <2>2, FS_EmptySet
    <3>2. \A j : firsts(s, r, j) = s
      BY <2>2 DEF firsts
    <3>3. QED
      BY <1>1, <3>1, <3>2
  <2>3. CASE s # {}
    <3>1. PICK z \in s : before(s, r, z) = s \ {z}
      BY <2>1, <2>3, LastExists
    <3>2. PICK rest \in SUBSET s : rest = s \ {z} /\ rest # s
      <4>1. s \ {z} \in SUBSET s /\ s \ {z} # s
        OBVIOUS
      <4>2. QED
        BY <4>1
    <3>3. IsFiniteSet(rest) /\ Cardinality(rest) \in Nat
      BY <2>1, <3>2, FS_Subset, FS_CardinalityType
    <3>4. Cardinality(s) = Cardinality(rest) + 1
      <4>1. Cardinality(rest) = Cardinality(s) - 1
        BY <2>1, <3>2, FS_RemoveElement
      <4>2. Cardinality(s) \in Nat
        BY <2>1, FS_CardinalityType
      <4>3. QED
        BY <3>3, <4>1, <4>2
    <3>5. \A m \in rest : before(s, r, m) = before(rest, r, m)
      <4>1. \A m \in rest : z \notin before(s, r, m)
        BY <3>1, <3>2 DEF before
      <4>2. QED
        BY <3>2, <4>1 DEF before
    <3>6. \A m \in rest : Cardinality(before(rest, r, m)) <= Cardinality(rest)
                          /\ Cardinality(before(rest, r, m)) \in Nat
      BY <3>3, FS_Subset, FS_CardinalityType DEF before
    <3>7. ASSUME NEW j \in 0..Cardinality(rest) PROVE Cardinality(firsts(s, r, j)) = j
      <4>1. Cardinality(firsts(rest, r, j)) = j
        BY <1>1, <1>2, <3>2
      <4>2. ~(Cardinality(rest) < j)
        BY <3>3
      <4>3. firsts(s, r, j) = firsts(rest, r, j)
        BY <3>1, <3>2, <3>5, <4>2 DEF firsts
      <4>4. QED
        BY <4>1, <4>3
    <3>8. Cardinality(firsts(s, r, Cardinality(s))) = Cardinality(s)
      <4>1. ASSUME NEW m \in s PROVE Cardinality(before(s, r, m)) < Cardinality(s)
        <5>1. CASE m = z
          <6>1. before(s, r, m) = rest
            BY <3>1, <3>2, <5>1
          <6>2. Cardinality(before(s, r, m)) = Cardinality(rest)
            BY <6>1
          <6>3. QED
            BY <3>3, <3>4, <6>2
        <5>2. CASE m \in rest
          <6>1. before(s, r, m) = before(rest, r, m)
            BY <3>5, <5>2
          <6>2. Cardinality(before(s, r, m)) = Cardinality(before(rest, r, m))
            BY <6>1
          <6>3. QED
            BY <3>3, <3>4, <3>6, <5>2, <6>2
        <5>3. QED
          BY <3>2, <5>1, <5>2
      <4>2. firsts(s, r, Cardinality(s)) = s
        BY <4>1 DEF firsts
      <4>3. QED
        BY <4>2
    <3>9. \A j \in 0..Cardinality(s) : j \in 0..Cardinality(rest) \/ j = Cardinality(s)
      BY <3>3, <3>4
    <3>10. QED
      BY <1>1, <3>7, <3>8, <3>9
  <2>4. QED
    BY <2>2, <2>3
<1>3. SUBSET D \subseteq Good
  BY <1>2, SubsetInduction
<1>4. QED
  BY <1>1, <1>3

-----------------------------------------------------------------------------
(* Arithmetic of exact shares and units. *)

\* Quotient and remainder.
LEMMA Division ==
  ASSUME NEW n \in Nat, NEW d \in Nat \ {0}
  PROVE  n \div d \in Nat /\ n % d \in Nat /\ n % d < d /\ n = d * (n \div d) + (n % d)
OBVIOUS

\* What is left over is less than one unit for each who is cut short.
LEMMA LeftOver ==
  ASSUME NEW total \in Nat, NEW W \in Nat \ {0}, NEW given \in Nat, NEW short \in Nat,
         NEW cut \in Nat, total * W = W * given + cut, cut <= W * short
  PROVE  given <= total /\ total - given <= short
<1>1. W * total = W * given + cut
  OBVIOUS
<1>2. ASSUME given > total PROVE FALSE
  <2>1. W * given >= W * (total + 1)
    BY <1>2
  <2>2. W * (total + 1) = W * total + W
    OBVIOUS
  <2>3. QED
    BY <1>1, <2>1, <2>2
<1>3. ASSUME total > given + short PROVE FALSE
  <2>1. W * total >= W * (given + short + 1)
    BY <1>3
  <2>2. W * (given + short + 1) = W * given + W * short + W
    OBVIOUS
  <2>3. QED
    BY <1>1, <2>1, <2>2
<1>4. QED
  BY <1>2, <1>3

-----------------------------------------------------------------------------
(* The allocation. *)

\* The floors, the remainders and what the sum of the weights times the total is.
LEMMA FloorsAndRemainders ==
  ASSUME NEW total \in Nat, NEW D, IsFiniteSet(D), NEW weights \in [D -> Nat],
         NEW W \in Nat \ {0}, W = SumFunction(weights),
         NEW floors, floors = floorShares(total, weights),
         NEW rem, rem = remainders(total, weights)
  PROVE  /\ floors \in [D -> Nat] /\ rem \in [D -> Nat]
         /\ \A m \in D : rem[m] < W /\ total * weights[m] = W * floors[m] + rem[m]
         /\ SumFunctionOnSet(floors, D) \in Nat /\ SumFunctionOnSet(rem, D) \in Nat
         /\ total * W = W * SumFunctionOnSet(floors, D) + SumFunctionOnSet(rem, D)
<1>1. /\ floors = [m \in D |-> (total * weights[m]) \div W]
      /\ rem = [m \in D |-> (total * weights[m]) % W]
  BY DEF floorShares, remainders
<1>2. ASSUME NEW m \in D
      PROVE  /\ floors[m] \in Nat /\ rem[m] \in Nat /\ rem[m] < W
             /\ total * weights[m] = W * floors[m] + rem[m]
  <2>1. PICK n \in Nat : n = total * weights[m]
    OBVIOUS
  <2>2. floors[m] = n \div W /\ rem[m] = n % W
    BY <1>1, <2>1
  <2>3. n \div W \in Nat /\ n % W \in Nat /\ n % W < W /\ n = W * (n \div W) + (n % W)
    BY Division
  <2>4. PICK q \in Nat : q = n \div W
    BY <2>3
  <2>5. PICK r \in Nat : r = n % W
    BY <2>3
  <2>6. r < W /\ n = W * q + r
    BY <2>3, <2>4, <2>5
  <2>7. QED
    BY <2>1, <2>2, <2>4, <2>5, <2>6
<1>3. floors \in [D -> Nat] /\ rem \in [D -> Nat]
  BY <1>1, <1>2
<1>4. SumFunctionOnSet(floors, D) \in Nat /\ SumFunctionOnSet(rem, D) \in Nat
  BY <1>3, SumType
<1>5. PICK exact \in [D -> Nat] : \A m \in D : exact[m] = total * weights[m]
  <2>1. [m \in D |-> total * weights[m]] \in [D -> Nat]
    OBVIOUS
  <2>2. QED
    BY <2>1
<1>6. PICK whole \in [D -> Nat] : \A m \in D : whole[m] = W * floors[m]
  <2>1. [m \in D |-> W * floors[m]] \in [D -> Nat]
    BY <1>3
  <2>2. QED
    BY <2>1
<1>7. SumFunctionOnSet(exact, D) = total * SumFunctionOnSet(weights, D)
  <2>1. \A m \in D : weights[m] \in Nat /\ exact[m] = total * weights[m]
    BY <1>5
  <2>2. QED
    BY <2>1, SumOfMultiples
<1>8. SumFunctionOnSet(whole, D) = W * SumFunctionOnSet(floors, D)
  <2>1. \A m \in D : floors[m] \in Nat /\ whole[m] = W * floors[m]
    BY <1>3, <1>6
  <2>2. W \in Nat
    OBVIOUS
  <2>3. QED
    BY <2>1, <2>2, SumOfMultiples
<1>9. SumFunctionOnSet(exact, D) = SumFunctionOnSet(whole, D) + SumFunctionOnSet(rem, D)
  <2>1. \A m \in D : whole[m] \in Nat /\ rem[m] \in Nat /\ exact[m] = whole[m] + rem[m]
    BY <1>2, <1>3, <1>5, <1>6
  <2>2. QED
    BY <2>1, SumOfSums
<1>10. SumFunctionOnSet(weights, D) = W
  BY DEF SumFunction
<1>11. QED
  BY <1>2, <1>3, <1>4, <1>7, <1>8, <1>9, <1>10

\* The remainders add up to less than one unit for each who has one.
LEMMA RemaindersAreBounded ==
  ASSUME NEW D, IsFiniteSet(D), NEW W \in Nat, NEW rem \in [D -> Nat],
         \A m \in D : rem[m] < W, NEW short, short = {m \in D : rem[m] > 0}
  PROVE  SumFunctionOnSet(rem, D) <= W * Cardinality(short)
<1>1. PICK one \in [D -> Nat] : \A m \in D : one[m] = IF m \in short THEN 1 ELSE 0
  <2>1. [m \in D |-> IF m \in short THEN 1 ELSE 0] \in [D -> Nat]
    OBVIOUS
  <2>2. QED
    BY <2>1
<1>2. PICK bound \in [D -> Nat] : \A m \in D : bound[m] = W * one[m]
  <2>1. [m \in D |-> W * one[m]] \in [D -> Nat]
    OBVIOUS
  <2>2. QED
    BY <2>1
<1>3. \A m \in D : rem[m] \in Nat /\ bound[m] \in Nat /\ rem[m] <= bound[m]
  <2>1. W * 1 = W /\ W * 0 = 0
    OBVIOUS
  <2>2. QED
    BY <1>1, <1>2, <2>1
<1>4. SumFunctionOnSet(rem, D) <= SumFunctionOnSet(bound, D)
  BY <1>3, SumMonotone
<1>5. SumFunctionOnSet(bound, D) = W * SumFunctionOnSet(one, D)
  <2>1. \A m \in D : one[m] \in Nat /\ bound[m] = W * one[m]
    BY <1>1, <1>2
  <2>2. QED
    BY <2>1, SumOfMultiples
<1>6. SumFunctionOnSet(one, D) = Cardinality(short)
  <2>1. short \in SUBSET D
    OBVIOUS
  <2>2. QED
    BY <1>1, <2>1, SumCounts
<1>7. QED
  BY <1>4, <1>5, <1>6

\* Whoever gets a unit more than the floor has a remainder.
LEMMA BumpedAreShort ==
  ASSUME NEW D, \A x \in D : x \in Nat, IsFiniteSet(D), NEW rem \in [D -> Nat],
         NEW short, short = {m \in D : rem[m] > 0},
         NEW residual \in Nat, residual <= Cardinality(short)
  PROVE  firsts(D, rem, residual) \subseteq short
<1>1. ASSUME NEW m \in D, m \notin short, Cardinality(before(D, rem, m)) < residual PROVE FALSE
  <2>1. PICK ahead \in SUBSET D : ahead = before(D, rem, m)
    BY DEF before
  <2>2. IsFiniteSet(ahead)
    BY FS_Subset
  <2>3. short \subseteq ahead
    BY <1>1, <2>1 DEF before
  <2>4. Cardinality(short) <= Cardinality(ahead)
    BY <2>2, <2>3, FS_Subset
  <2>5. Cardinality(short) \in Nat /\ Cardinality(ahead) \in Nat
    BY <2>2, <2>3, FS_Subset, FS_CardinalityType
  <2>6. Cardinality(ahead) < residual
    BY <1>1, <2>1
  <2>7. QED
    BY <2>4, <2>5, <2>6
<1>2. QED
  BY <1>1 DEF firsts

\* An amount that is the floor of its exact share, or the next if there is a remainder.
LEMMA WithinOneUnit ==
  ASSUME NEW exact \in Nat, NEW W \in Nat \ {0}, NEW floor \in Nat, NEW r \in Nat, r < W,
         exact = W * floor + r, NEW a, a = floor \/ (a = floor + 1 /\ r > 0)
  PROVE  a \in Nat /\ a * W < exact + W /\ exact < a * W + W
<1>1. floor * W = W * floor /\ (floor + 1) * W = W * floor + W
  OBVIOUS
<1>2. W * floor \in Nat
  OBVIOUS
<1>3. QED
  BY <1>1, <1>2

\* What the allocation promises: everything is handed out, and nobody gets a unit more or
\* less than the exact share.
isExact(total, weights, D, W, a) ==
  /\ a \in [D -> Nat]
  /\ SumFunction(a) = total
  /\ \A m \in D : a[m] * W < total * weights[m] + W /\ total * weights[m] < a[m] * W + W

\* The allocation keeps that promise as soon as anybody has a weight.
LEMMA AllocationIsExact ==
  ASSUME NEW total \in Nat, NEW D, \A x \in D : x \in Nat, IsFiniteSet(D),
         NEW weights \in [D -> Nat],
         \E m \in D : weights[m] # 0, NEW W, W = SumFunction(weights)
  PROVE  W \in Nat \ {0} /\
         isExact(total, weights, D, W, allocateByLargestRemainder(total, weights))
<1>1. W \in Nat \ {0}
  <2>1. PICK m \in D : weights[m] # 0
    OBVIOUS
  <2>2. SumFunctionOnSet(weights, D) \in Nat
    BY SumType
  <2>3. SumFunctionOnSet(weights, D \ {m}) \in Nat
    <3>1. IsFiniteSet(D \ {m})
      BY FS_Subset
    <3>2. QED
      BY <3>1, SumType
  <2>4. SumFunctionOnSet(weights, D) = weights[m] + SumFunctionOnSet(weights, D \ {m})
    <3>1. \A x \in D : weights[x] \in Nat
      OBVIOUS
    <3>2. QED
      BY <3>1, SumRemove
  <2>5. weights[m] \in Nat /\ W = SumFunctionOnSet(weights, D)
    BY DEF SumFunction
  <2>6. QED
    BY <2>1, <2>2, <2>3, <2>4, <2>5
<1>2. PICK floors : floors = floorShares(total, weights)
  OBVIOUS
<1>3. PICK rem : rem = remainders(total, weights)
  OBVIOUS
<1>4. /\ floors \in [D -> Nat] /\ rem \in [D -> Nat]
      /\ \A m \in D : rem[m] < W /\ total * weights[m] = W * floors[m] + rem[m]
      /\ SumFunctionOnSet(floors, D) \in Nat /\ SumFunctionOnSet(rem, D) \in Nat
      /\ total * W = W * SumFunctionOnSet(floors, D) + SumFunctionOnSet(rem, D)
  BY <1>1, <1>2, <1>3, FloorsAndRemainders
<1>5. PICK short \in SUBSET D : short = {m \in D : rem[m] > 0}
  OBVIOUS
<1>6. IsFiniteSet(short) /\ Cardinality(short) \in Nat /\ Cardinality(short) <= Cardinality(D)
      /\ Cardinality(D) \in Nat
  BY FS_Subset, FS_CardinalityType
<1>7. SumFunctionOnSet(rem, D) <= W * Cardinality(short)
  BY <1>1, <1>4, <1>5, RemaindersAreBounded
<1>8. PICK residual \in Nat : /\ residual = total - SumFunctionOnSet(floors, D)
                              /\ residual <= Cardinality(short)
  <2>1. /\ SumFunctionOnSet(floors, D) <= total
        /\ total - SumFunctionOnSet(floors, D) <= Cardinality(short)
    BY <1>1, <1>4, <1>6, <1>7, LeftOver
  <2>2. QED
    BY <1>4, <2>1
<1>9. PICK bumped \in SUBSET D : bumped = firsts(D, rem, residual)
  BY DEF firsts
<1>10. bumped \subseteq short
  BY <1>4, <1>5, <1>8, <1>9, BumpedAreShort
<1>11. Cardinality(bumped) = residual
  <2>1. residual \in 0..Cardinality(D)
    BY <1>6, <1>8
  <2>2. \A x \in D : rem[x] \in Nat
    BY <1>4
  <2>3. QED
    BY <1>9, <2>1, <2>2, FirstsAreMany
<1>12. PICK one \in [D -> Nat] : \A m \in D : one[m] = IF m \in bumped THEN 1 ELSE 0
  <2>1. [m \in D |-> IF m \in bumped THEN 1 ELSE 0] \in [D -> Nat]
    OBVIOUS
  <2>2. QED
    BY <2>1
<1>13. PICK a \in [D -> Nat] : /\ a = allocateByLargestRemainder(total, weights)
                               /\ \A m \in D : a[m] = floors[m] + one[m]
  <2>1. ~ \A m \in DOMAIN weights : weights[m] = 0
    OBVIOUS
  <2>2. SumFunction(floors) = SumFunctionOnSet(floors, D)
    BY <1>4 DEF SumFunction
  <2>3. \A m \in D : m \in bumped <=> Cardinality(ranksBefore(rem, m)) < residual
    BY <1>4, <1>9 DEF firsts, before, ranksBefore
  <2>4. allocateByLargestRemainder(total, weights) = [m \in D |-> floors[m] + one[m]]
    BY <1>2, <1>3, <1>8, <1>12, <2>1, <2>2, <2>3 DEF allocateByLargestRemainder
  <2>5. QED
    BY <1>4, <1>12, <2>4
<1>14. SumFunction(a) = total
  <2>1. SumFunctionOnSet(one, D) = residual
    BY <1>11, <1>12, SumCounts
  <2>2. \A m \in D : floors[m] \in Nat /\ one[m] \in Nat /\ a[m] = floors[m] + one[m]
    BY <1>4, <1>12, <1>13
  <2>3. SumFunctionOnSet(a, D) = SumFunctionOnSet(floors, D) + SumFunctionOnSet(one, D)
    BY <2>2, SumOfSums
  <2>4. QED
    BY <1>4, <1>8, <2>1, <2>3 DEF SumFunction
<1>15. ASSUME NEW m \in D
       PROVE  a[m] * W < total * weights[m] + W /\ total * weights[m] < a[m] * W + W
  <2>1. PICK exact \in Nat : exact = total * weights[m]
    OBVIOUS
  <2>2. a[m] = floors[m] \/ (a[m] = floors[m] + 1 /\ rem[m] > 0)
    BY <1>4, <1>5, <1>10, <1>12, <1>13
  <2>3. /\ floors[m] \in Nat /\ rem[m] \in Nat /\ rem[m] < W
        /\ exact = W * floors[m] + rem[m]
    BY <1>4, <2>1
  <2>4. a[m] * W < exact + W /\ exact < a[m] * W + W
    BY <1>1, <2>2, <2>3, WithinOneUnit
  <2>5. QED
    BY <2>1, <2>4
<1>16. QED
  BY <1>1, <1>13, <1>14, <1>15 DEF isExact

-----------------------------------------------------------------------------
(* The splits of a debt. *)

\* Finitely many memberships, numbered.
LEMMA FewUsers ==
  ASSUME NEW D \in SUBSET Users
  PROVE  IsFiniteSet(D) /\ \A x \in D : x \in Nat
BY FS_Subset, DebtResponsibilitiesAssumption

\* No part is more than the whole.
LEMMA PartOfSum ==
  ASSUME NEW D, IsFiniteSet(D), NEW f \in [D -> Nat], NEW m \in D
  PROVE  f[m] <= SumFunction(f)
<1>1. \A x \in D : f[x] \in Nat
  OBVIOUS
<1>2. PICK rest : rest = D \ {m}
  OBVIOUS
<1>3. IsFiniteSet(rest) /\ \A x \in rest : f[x] \in Nat
  BY <1>2, FS_Subset
<1>4. SumFunctionOnSet(f, rest) \in Nat /\ SumFunctionOnSet(f, D) \in Nat
  BY <1>1, <1>3, SumType
<1>5. SumFunctionOnSet(f, D) = f[m] + SumFunctionOnSet(f, rest)
  BY <1>1, <1>2, SumRemove
<1>6. QED
  BY <1>4, <1>5 DEF SumFunction

\* The allocation hands out parts of the total.
LEMMA AllocationType ==
  ASSUME NEW total \in Nat, NEW D \in SUBSET Users, NEW weights \in [D -> Nat]
  PROVE  allocateByLargestRemainder(total, weights) \in [D -> 0..total]
<1>1. CASE \A m \in D : weights[m] = 0
  BY <1>1 DEF allocateByLargestRemainder
<1>2. CASE \E m \in D : weights[m] # 0
  <2>1. PICK a : a = allocateByLargestRemainder(total, weights)
    OBVIOUS
  <2>2. PICK W : W = SumFunction(weights)
    OBVIOUS
  <2>3. IsFiniteSet(D) /\ \A x \in D : x \in Nat
    BY FewUsers
  <2>4. isExact(total, weights, D, W, a)
    BY <1>2, <2>1, <2>2, <2>3, AllocationIsExact
  <2>5. a \in [D -> Nat] /\ SumFunction(a) = total
    BY <2>4 DEF isExact
  <2>6. \A m \in D : a[m] <= total
    BY <2>3, <2>5, PartOfSum
  <2>7. QED
    BY <2>1, <2>5, <2>6
<1>3. QED
  BY <1>1, <1>2

\* A debt is split as a whole, among whoever there is.
LEMMA AllocateBp ==
  ASSUME NEW D \in SUBSET Users, NEW weights \in [D -> Nat]
  PROVE  /\ allocateBp(FULL_BP, weights) \in [D -> 0..FULL_BP]
         /\ D # {} => SumFunction(allocateBp(FULL_BP, weights)) = FULL_BP
<1>1. PICK used \in [D -> Nat] :
        /\ allocateBp(FULL_BP, weights) = allocateByLargestRemainder(FULL_BP, used)
        /\ D # {} => \E m \in D : used[m] # 0
  <2>1. CASE \A m \in D : weights[m] = 0
    <3>1. [m \in D |-> 1] \in [D -> Nat]
      OBVIOUS
    <3>2. allocateBp(FULL_BP, weights) = allocateByLargestRemainder(FULL_BP, [m \in D |-> 1])
      BY <2>1 DEF allocateBp
    <3>3. D # {} => \E m \in D : [k \in D |-> 1][m] # 0
      OBVIOUS
    <3>4. QED
      BY <3>1, <3>2, <3>3
  <2>2. CASE \E m \in D : weights[m] # 0
    BY <2>2 DEF allocateBp
  <2>3. QED
    BY <2>1, <2>2
<1>2. FULL_BP \in Nat
  BY DebtResponsibilitiesAssumption
<1>3. allocateBp(FULL_BP, weights) \in [D -> 0..FULL_BP]
  BY <1>1, <1>2, AllocationType
<1>4. ASSUME D # {} PROVE SumFunction(allocateBp(FULL_BP, weights)) = FULL_BP
  <2>1. IsFiniteSet(D) /\ \A x \in D : x \in Nat
    BY FewUsers
  <2>2. PICK W : W = SumFunction(used)
    OBVIOUS
  <2>3. isExact(FULL_BP, used, D, W, allocateByLargestRemainder(FULL_BP, used))
    BY <1>1, <1>2, <1>4, <2>1, <2>2, AllocationIsExact
  <2>4. QED
    BY <1>1, <2>3 DEF isExact
<1>5. QED
  BY <1>3, <1>4

\* The shares of some, as weights.
LEMMA RestrictFields ==
  ASSUME NEW D, NEW shares \in [D -> 0..FULL_BP], NEW u, NEW kept, kept = D \ {u},
         NEW f, f = Restrict(shares, DOMAIN shares \ {u})
  PROVE  f \in [kept -> Nat] /\ \A x \in kept : f[x] = shares[x]
<1>1. \A x \in D : shares[x] \in Nat
  BY DebtResponsibilitiesAssumption
<1>2. DOMAIN shares \ {u} = kept
  OBVIOUS
<1>3. f = Restrict(shares, kept)
  BY <1>2, Zenon
<1>4. f = [x \in kept |-> shares[x]]
  BY <1>3, Zenon DEF Restrict
<1>5. \A x \in kept : shares[x] \in Nat
  BY <1>1
<1>6. QED
  BY <1>4, <1>5

\* The set without its leaver is the whole again, unless nobody is left.
LEMMA ReassignFields ==
  ASSUME NEW D \in SUBSET Users, NEW shares \in [D -> 0..FULL_BP], NEW u,
         NEW kept, kept = D \ {u}
  PROVE  /\ reassignOnLeave(FULL_BP, shares, u) \in [kept -> 0..FULL_BP]
         /\ kept # {} => SumFunction(reassignOnLeave(FULL_BP, shares, u)) = FULL_BP
<1>1. kept \in SUBSET Users
  OBVIOUS
<1>2. PICK weights : weights = Restrict(shares, DOMAIN shares \ {u})
  OBVIOUS
<1>3. weights \in [kept -> Nat]
  <2>1. \A f : f = Restrict(shares, DOMAIN shares \ {u}) => f \in [kept -> Nat]
    BY RestrictFields
  <2>2. QED
    BY <1>2, <2>1
<1>4. reassignOnLeave(FULL_BP, shares, u) = allocateBp(FULL_BP, weights)
  BY <1>2, Zenon DEF reassignOnLeave
<1>5. /\ allocateBp(FULL_BP, weights) \in [kept -> 0..FULL_BP]
      /\ kept # {} => SumFunction(allocateBp(FULL_BP, weights)) = FULL_BP
  BY <1>1, <1>3, AllocateBp
<1>6. QED
  BY <1>4, <1>5, Zenon

\* An override names whoever holds a share, and the member it is about.
LEMMA WithShareFields ==
  ASSUME NEW D \in SUBSET Users, NEW shares \in [D -> 0..FULL_BP], NEW m \in Users,
         NEW bp \in 0..FULL_BP
  PROVE  withShare(FULL_BP, shares, m, bp) \in [D \cup {m} -> 0..FULL_BP]
<1>1. PICK rest \in SUBSET Users : rest = D \ {m}
  OBVIOUS
<1>2. PICK weights \in [rest -> Nat] : weights = Restrict(shares, DOMAIN shares \ {m})
  <2>1. PICK f : f = Restrict(shares, DOMAIN shares \ {m})
    OBVIOUS
  <2>2. f \in [rest -> Nat]
    BY <1>1, <2>1, RestrictFields
  <2>3. QED
    BY <2>1, <2>2
<1>3. PICK left \in 0..FULL_BP : left = FULL_BP - bp
  BY DebtResponsibilitiesAssumption
<1>4. allocateByLargestRemainder(left, weights) \in [rest -> 0..left]
  BY <1>3, AllocationType
<1>5. withShare(FULL_BP, shares, m, bp) =
        [n \in D \cup {m} |-> IF n = m THEN bp ELSE allocateByLargestRemainder(left, weights)[n]]
  BY <1>2, <1>3 DEF withShare
<1>6. \A n \in (D \cup {m}) \ {m} : allocateByLargestRemainder(left, weights)[n] \in 0..FULL_BP
  BY <1>1, <1>3, <1>4, DebtResponsibilitiesAssumption
<1>7. QED
  BY <1>5, <1>6

\* The rows are the set.
LEMMA RowsOfSet ==
  ASSUME NEW D, NEW set, DOMAIN set = D, NEW n
  PROVE  holders(rowsOf(set, n)) = D
<1>1. \A m \in D : \E r \in rowsOf(set, n) : r.member = m
  <2>1. ASSUME NEW m \in D PROVE \E r \in rowsOf(set, n) : r.member = m
    <3>1. PICK r : r = [member |-> m, bp |-> set[m], writtenBy |-> n]
      OBVIOUS
    <3>2. r \in rowsOf(set, n) /\ r.member = m
      BY <3>1 DEF rowsOf
    <3>3. QED
      BY <3>2
  <2>2. QED
    BY <2>1
<1>2. \A r \in rowsOf(set, n) : r.member \in D
  BY DEF rowsOf
<1>3. QED
  BY <1>1, <1>2 DEF holders

\* Rows written for a set read as that set.
LEMMA SharesOfRowsOf ==
  ASSUME NEW D, NEW set \in [D -> 0..FULL_BP], NEW n
  PROVE  sharesOf(rowsOf(set, n)) = set
<1>1. holders(rowsOf(set, n)) = D
  BY RowsOfSet
<1>2. ASSUME NEW m \in D PROVE (CHOOSE r \in rowsOf(set, n) : r.member = m).bp = set[m]
  <2>1. \A r \in rowsOf(set, n) : r.member = m => r.bp = set[m]
    BY DEF rowsOf
  <2>2. \E r \in rowsOf(set, n) : r.member = m
    BY <1>1 DEF holders
  <2>3. QED
    BY <2>1, <2>2
<1>3. QED
  BY <1>1, <1>2 DEF sharesOf

\* The set of stored rows.
LEMMA SharesOfRows ==
  ASSUME NEW rs \in SUBSET Row
  PROVE  holders(rs) \in SUBSET Users /\ sharesOf(rs) \in [holders(rs) -> 0..FULL_BP]
<1>1. holders(rs) \in SUBSET Users
  BY DEF holders, Row
<1>2. ASSUME NEW m \in holders(rs)
      PROVE  (CHOOSE r \in rs : r.member = m).bp \in 0..FULL_BP
  <2>1. \E r \in rs : r.member = m
    BY DEF holders
  <2>2. (CHOOSE r \in rs : r.member = m) \in Row
    BY <2>1
  <2>3. QED
    BY <2>2 DEF Row
<1>3. QED
  BY <1>1, <1>2 DEF sharesOf

-----------------------------------------------------------------------------
(* Who leaves takes from nobody who stays. *)

\* A part that is not diminished when the whole grows.
LEMMA NotDiminished ==
  ASSUME NEW full \in Nat, NEW kept \in Nat \ {0}, kept <= full, NEW s \in Nat, NEW a \in Nat,
         full * s < a * kept + kept
  PROVE  a >= s
<1>1. kept * s <= full * s
  OBVIOUS
<1>2. ASSUME a + 1 <= s PROVE FALSE
  <2>1. kept * (a + 1) <= kept * s
    BY <1>2
  <2>2. kept * (a + 1) = a * kept + kept
    OBVIOUS
  <2>3. QED
    BY <1>1, <2>1, <2>2
<1>3. QED
  BY <1>2

\* What those who stay hold is what the leaver does not.
LEMMA KeptSum ==
  ASSUME NEW D, IsFiniteSet(D), NEW shares \in [D -> Nat], NEW full \in Nat,
         SumFunction(shares) = full, NEW u \in D, NEW rest, rest = D \ {u},
         NEW weights \in [rest -> Nat], \A x \in rest : weights[x] = shares[x]
  PROVE  SumFunction(weights) = full - shares[u] /\ SumFunction(weights) \in Nat
<1>1. /\ \A x \in D : shares[x] \in Nat
      /\ \A x \in rest : shares[x] \in Nat /\ weights[x] = shares[x]
  OBVIOUS
<1>2. IsFiniteSet(rest)
  BY FS_Subset
<1>3. SumFunctionOnSet(shares, D) = shares[u] + SumFunctionOnSet(shares, rest)
  BY <1>1, SumRemove
<1>4. SumFunctionOnSet(shares, rest) = SumFunctionOnSet(weights, rest)
  BY <1>1, <1>2, SumEqual
<1>5. SumFunctionOnSet(shares, rest) \in Nat
  BY <1>1, <1>2, SumType
<1>6. SumFunction(shares) = SumFunctionOnSet(shares, D)
  BY DEF SumFunction
<1>7. SumFunction(weights) = SumFunctionOnSet(weights, rest)
  BY DEF SumFunction
<1>8. shares[u] \in Nat
  OBVIOUS
<1>9. QED
  BY <1>3, <1>4, <1>5, <1>6, <1>7, <1>8

\* Every set that adds up is reassigned fairly.
LEMMA FairReassignment ==
  ASSUME NEW D \in SUBSET Users, NEW shares \in [D -> 0..FULL_BP], SumFunction(shares) = FULL_BP,
         NEW u \in D
  PROVE  isFair(shares, u, reassignOnLeave(FULL_BP, shares, u))
<1>1. FULL_BP \in Nat /\ IsFiniteSet(D) /\ \A x \in D : x \in Nat
  BY FewUsers, DebtResponsibilitiesAssumption
<1>2. PICK rest \in SUBSET Users : rest = D \ {u}
  OBVIOUS
<1>3. PICK weights \in [rest -> Nat] :
        /\ weights = Restrict(shares, DOMAIN shares \ {u})
        /\ \A x \in rest : weights[x] = shares[x]
  <2>1. PICK f : f = Restrict(shares, DOMAIN shares \ {u})
    OBVIOUS
  <2>2. f \in [rest -> Nat] /\ \A x \in rest : f[x] = shares[x]
    BY <1>2, <2>1, RestrictFields
  <2>3. QED
    BY <2>1, <2>2
<1>4. PICK kept \in Nat : kept = SumFunction(weights) /\ kept = FULL_BP - shares[u]
  <2>1. shares \in [D -> Nat]
    BY <1>1
  <2>2. SumFunction(weights) = FULL_BP - shares[u] /\ SumFunction(weights) \in Nat
    BY <1>1, <1>2, <1>3, <2>1, KeptSum
  <2>3. QED
    BY <2>2
<1>5. PICK after : after = reassignOnLeave(FULL_BP, shares, u)
  OBVIOUS
<1>6. after \in [rest -> 0..FULL_BP] /\ after = allocateBp(FULL_BP, weights)
  BY <1>2, <1>3, <1>5, ReassignFields DEF reassignOnLeave
<1>7. IsFiniteSet(rest) /\ \A x \in rest : x \in Nat
  BY FewUsers
<1>8. ASSUME NEW m \in rest
      PROVE  /\ after[m] >= shares[m]
             /\ kept > 0 => /\ after[m] * kept < shares[m] * FULL_BP + kept
                            /\ shares[m] * FULL_BP < after[m] * kept + kept
  <2>1. PICK s \in Nat : s = shares[m] /\ s = weights[m]
    BY <1>1, <1>2, <1>3
  <2>2. PICK a \in Nat : a = after[m]
    BY <1>1, <1>6
  <2>3. CASE kept = 0
    <3>1. s <= kept
      BY <1>4, <1>7, <2>1, PartOfSum
    <3>2. QED
      BY <2>1, <2>2, <2>3, <3>1
  <2>4. CASE kept > 0
    <3>1. \E x \in rest : weights[x] # 0
      <4>1. ASSUME \A x \in rest : weights[x] = 0 PROVE FALSE
        <5>1. \A x \in rest : weights[x] = IF x \in {} THEN 1 ELSE 0
          BY <4>1
        <5>2. SumFunctionOnSet(weights, rest) = Cardinality({})
          BY <1>7, <5>1, SumCounts
        <5>3. QED
          BY <1>4, <2>4, <5>2, FS_EmptySet DEF SumFunction
      <4>2. QED
        BY <4>1
    <3>2. after = allocateByLargestRemainder(FULL_BP, weights)
      BY <1>6, <3>1 DEF allocateBp
    <3>3. isExact(FULL_BP, weights, rest, kept, after)
      BY <1>1, <1>4, <1>7, <3>1, <3>2, AllocationIsExact
    <3>4. a * kept < FULL_BP * s + kept /\ FULL_BP * s < a * kept + kept
      BY <2>1, <2>2, <3>3 DEF isExact
    <3>5. kept <= FULL_BP
      BY <1>1, <1>4
    <3>6. a >= s
      BY <1>1, <2>4, <3>4, <3>5, NotDiminished
    <3>7. FULL_BP * s = s * FULL_BP
      BY <1>1
    <3>8. QED
      BY <2>1, <2>2, <3>4, <3>6, <3>7
  <2>5. QED
    BY <2>3, <2>4
<1>9. DOMAIN after # {} => SumFunction(after) = FULL_BP
  BY <1>6, <1>7, <1>1, AllocateBp
<1>10. QED
  BY <1>2, <1>4, <1>5, <1>8, <1>9 DEF isFair, sumsTo100

-----------------------------------------------------------------------------
(* The invariant.  Who replaces the set wrote or will write the whole: what  *)
(* has to be shown is that no replacement leaves rows of another behind.     *)

Shares == UNION {[D -> 0..FULL_BP] : D \in SUBSET Users}

TxRow == [cmd : {"override", "reassign"}, step : {"read", "deleted"}, member : Users,
          expected : 0..MaxVersion, set : Shares, seen : SUBSET Row, behind : SUBSET Workers]

TypeInv ==
  /\ status \in [Users -> {"NONE", "ACTIVE", "LEFT"}]
  /\ archived \in BOOLEAN
  /\ departures \subseteq Users
  /\ version \in {NoDebt} \cup 0..MaxVersion
  /\ rows \subseteq Row
  /\ writes \in 0..MaxWrites
  /\ tx \in [Workers -> TxRow \cup {Idle}]

UnbornInv == version = NoDebt => rows = {} /\ \A w \in Workers : tx[w].cmd = "idle"

DepartedInv == \A u \in departures : status[u] = "LEFT"

\* Every row carries a commit that happened, so that rows still to come are new.
writtenSoFar(rs, n) == \A r \in rs : r.writtenBy <= n

TimeInv ==
  /\ writtenSoFar(rows, writes)
  /\ \A w \in Workers : tx[w].cmd # "idle" => writtenSoFar(tx[w].seen, writes)

\* A set in flight adds up, unless it is empty; an override that has locked the debt
\* has the version that the debt has.
isPending(t, deps, v) ==
  /\ t.cmd = "override" => /\ SumFunction(t.set) = FULL_BP /\ t.expected <= v
                           /\ t.step = "deleted" => t.expected = v
  /\ t.cmd = "reassign" => /\ t.member \in deps
                           /\ DOMAIN t.set # {} => SumFunction(t.set) = FULL_BP

PendingInv == \A w \in Workers : isPending(tx[w], departures, version)

\* One override holds the debt row at a time, and a departure is delivered to one consumer.
areApart(s, t) ==
  /\ ~(s.cmd = "override" /\ t.cmd = "override" /\ s.step = "deleted" /\ t.step = "deleted")
  /\ ~(s.cmd = "reassign" /\ t.cmd = "reassign" /\ s.member = t.member)

ApartInv == \A v, w \in Workers : v # w => areApart(tx[v], tx[w])

OneLeaver ==
  \A u, v \in Users : status[u] = "LEFT" /\ status[v] = "LEFT" => u = v

\* An override that can still commit names everybody who holds a share, so that a row
\* its DELETE has missed collides.  A reassignment names only members who hold one, and
\* what its DELETE has seen is the set as it is, or has been replaced as a whole.
fits(t, rs, v) ==
  /\ t.cmd = "override" => (t.expected = v => holders(rs) \subseteq DOMAIN t.set)
  /\ t.cmd = "reassign" => /\ DOMAIN t.set \subseteq holders(rs)
                           /\ t.step = "deleted" => t.seen = rs \/ t.seen \cap rs = {}

WholeInv ==
  OneLeaver => /\ rows # {} => sumsTo100(FULL_BP, sharesOf(rows))
               /\ \A w \in Workers : fits(tx[w], rows, version)

IInv ==
  TypeInv /\ UnbornInv /\ DepartedInv /\ TimeInv /\ PendingInv /\ ApartInv /\ WholeInv

\* The same transaction, whoever else it waits for.
sameTx(s, t) ==
  /\ s.cmd = t.cmd /\ s.step = t.step /\ s.member = t.member
  /\ s.expected = t.expected /\ s.set = t.set /\ s.seen = t.seen

\* The fields of a transaction.
LEMMA TxFields ==
  ASSUME NEW t \in TxRow
  PROVE  /\ t.cmd \in {"override", "reassign"} /\ t.step \in {"read", "deleted"}
         /\ t.member \in Users /\ t.expected \in 0..MaxVersion
         /\ t.set \in Shares /\ t.seen \in SUBSET Row /\ t.behind \in SUBSET Workers
         /\ t # Idle
<1>1. t.cmd # "idle" /\ Idle.cmd = "idle"
  BY DEF TxRow, Idle
<1>2. QED
  BY <1>1 DEF TxRow

\* A worker without a transaction.
LEMMA IdleFields == Idle.cmd = "idle"
BY DEF Idle

\* A set that is to be written.
LEMMA SharesFields ==
  ASSUME NEW f
  PROVE  /\ f \in Shares => DOMAIN f \in SUBSET Users /\ f \in [DOMAIN f -> 0..FULL_BP]
         /\ \A D \in SUBSET Users : f \in [D -> 0..FULL_BP] => f \in Shares /\ DOMAIN f = D
BY DEF Shares

\* What finish makes of the transactions.
LEMMA FinishKeeps ==
  ASSUME TypeInv, NEW w \in Workers, finish(w)
  PROVE  /\ tx' \in [Workers -> TxRow \cup {Idle}]
         /\ tx'[w].cmd = "idle"
         /\ \A v \in Workers : tx'[v].cmd = "idle" \/ (v # w /\ sameTx(tx'[v], tx[v]))
<1>1. ASSUME NEW v \in Workers
      PROVE  /\ tx'[v] \in TxRow \cup {Idle}
             /\ v = w => tx'[v].cmd = "idle"
             /\ tx'[v].cmd = "idle" \/ (v # w /\ sameTx(tx'[v], tx[v]))
  <2>1. tx'[v] = IF v = w \/ tx[v] = Idle THEN Idle
                 ELSE [tx[v] EXCEPT !.behind = tx[v].behind \ {w}]
    BY DEF finish
  <2>2. CASE v = w \/ tx[v] = Idle
    BY <2>1, <2>2, IdleFields
  <2>3. CASE v # w /\ tx[v] # Idle
    <3>1. PICK t \in TxRow : t = tx[v]
      BY <2>3 DEF TypeInv
    <3>2. PICK b \in SUBSET Workers : b = t.behind \ {w}
      BY <3>1, TxFields
    <3>3. [t EXCEPT !.behind = b] \in TxRow /\ sameTx([t EXCEPT !.behind = b], t)
      BY DEF TxRow, sameTx
    <3>4. tx'[v] = [t EXCEPT !.behind = b]
      BY <2>1, <2>3, <3>1, <3>2
    <3>5. QED
      BY <2>3, <3>1, <3>3, <3>4
  <2>4. QED
    BY <2>2, <2>3
<1>2. tx' = [v \in Workers |-> tx'[v]]
  BY DEF finish
<1>3. QED
  BY <1>1, <1>2

\* A step after which the rows are the same and no transaction has moved on.
LEMMA QuietStep ==
  ASSUME IInv, TypeInv', version' = version, rows' = rows, writes' = writes,
         \A v \in Workers : tx'[v].cmd = "idle" \/ sameTx(tx'[v], tx[v]),
         \A v \in Workers : tx'[v].cmd = "reassign" => tx'[v].member \in departures',
         DepartedInv', OneLeaver' => OneLeaver
  PROVE  IInv'
<1>1. UnbornInv'
  BY DEF IInv, UnbornInv, sameTx
<1>2. TimeInv'
  BY DEF IInv, TimeInv, sameTx
<1>3. PendingInv'
  BY DEF IInv, PendingInv, isPending, sameTx
<1>4. ApartInv'
  <2>1. ASSUME NEW v \in Workers, NEW u \in Workers, v # u PROVE areApart(tx'[v], tx'[u])
    <3>1. areApart(tx[v], tx[u])
      BY <2>1 DEF IInv, ApartInv
    <3>2. QED
      BY <3>1 DEF areApart, sameTx
  <2>2. QED
    BY <2>1 DEF ApartInv, areApart
<1>5. WholeInv'
  <2>1. ASSUME OneLeaver' PROVE \A v \in Workers : fits(tx'[v], rows, version)
    BY <2>1 DEF IInv, WholeInv, fits, sameTx
  <2>2. QED
    BY <2>1 DEF IInv, WholeInv, fits
<1>6. QED
  BY <1>1, <1>2, <1>3, <1>4, <1>5 DEF IInv

\* A step of one transaction that writes no row.
LEMMA OwnStep ==
  ASSUME IInv, NEW w \in Workers, NEW t \in TxRow, tx' = [tx EXCEPT ![w] = t],
         UNCHANGED <<people, departures, version, rows, writes>>, version # NoDebt,
         isPending(t, departures, version), writtenSoFar(t.seen, writes),
         \A v \in Workers \ {w} : areApart(t, tx[v]),
         OneLeaver => fits(t, rows, version)
  PROVE  IInv'
<1>1. /\ tx \in [Workers -> TxRow \cup {Idle}] /\ tx'[w] = t
      /\ \A v \in Workers \ {w} : tx'[v] = tx[v]
      /\ status' = status /\ archived' = archived
  BY DEF IInv, TypeInv, people
<1>2. TypeInv'
  BY <1>1 DEF IInv, TypeInv
<1>3. UnbornInv' /\ DepartedInv'
  BY <1>1 DEF IInv, UnbornInv, DepartedInv
<1>4. TimeInv'
  BY <1>1 DEF IInv, TimeInv
<1>5. PendingInv'
  <2>1. \A v \in Workers : isPending(tx'[v], departures, version)
    BY <1>1 DEF IInv, PendingInv
  <2>2. QED
    BY <2>1 DEF PendingInv, isPending
<1>6. ApartInv'
  <2>1. ASSUME NEW v \in Workers, NEW u \in Workers, v # u PROVE areApart(tx'[v], tx'[u])
    <3>1. CASE v = w
      BY <1>1, <2>1, <3>1
    <3>2. CASE u = w
      <4>1. areApart(t, tx[v])
        BY <2>1, <3>2
      <4>2. areApart(tx[v], t)
        BY <4>1 DEF areApart
      <4>3. QED
        BY <1>1, <2>1, <3>2, <4>2
    <3>3. CASE v # w /\ u # w
      BY <1>1, <2>1, <3>3 DEF IInv, ApartInv
    <3>4. QED
      BY <3>1, <3>2, <3>3
  <2>2. QED
    BY <2>1 DEF ApartInv, areApart
<1>7. WholeInv'
  <2>1. OneLeaver' => OneLeaver
    BY <1>1 DEF OneLeaver
  <2>2. ASSUME OneLeaver PROVE \A v \in Workers : fits(tx'[v], rows, version)
    BY <1>1, <2>2 DEF IInv, WholeInv
  <2>3. QED
    BY <2>1, <2>2 DEF IInv, WholeInv, fits
<1>8. QED
  BY <1>2, <1>3, <1>4, <1>5, <1>6, <1>7 DEF IInv

-----------------------------------------------------------------------------
(* The steps. *)

\* At first there is no debt.
LEMMA InitInv == Init => IInv
<1> SUFFICES ASSUME Init PROVE IInv
  OBVIOUS
<1>1. \A w \in Workers : tx[w] = Idle /\ tx[w].cmd = "idle"
  BY IdleFields DEF Init
<1>2. TypeInv
  <2>1. 0 \in 0..MaxWrites
    BY DebtResponsibilitiesAssumption
  <2>2. status \in [Users -> {"NONE", "ACTIVE", "LEFT"}]
    BY DEF Init
  <2>3. tx \in [Workers -> TxRow \cup {Idle}]
    BY DEF Init
  <2>4. QED
    BY <2>1, <2>2, <2>3 DEF Init, TypeInv
<1>3. UnbornInv /\ DepartedInv
  BY <1>1 DEF Init, UnbornInv, DepartedInv
<1>4. TimeInv /\ PendingInv /\ ApartInv
  BY <1>1 DEF Init, TimeInv, writtenSoFar, PendingInv, isPending, ApartInv, areApart
<1>5. WholeInv
  BY <1>1 DEF Init, WholeInv, fits
<1>6. QED
  BY <1>2, <1>3, <1>4, <1>5 DEF IInv

\* Joining, leaving, archiving and a departure that concerns no row.
LEMMA JoinStep == ASSUME IInv, NEW u \in Users, Join(u) PROVE IInv'
<1>1. TypeInv'
  BY DEF IInv, TypeInv, Join
<1>2. DepartedInv' /\ (OneLeaver' => OneLeaver)
  BY DEF IInv, TypeInv, DepartedInv, OneLeaver, Join
<1>3. \A v \in Workers : /\ sameTx(tx'[v], tx[v])
                         /\ tx'[v].cmd = "reassign" => tx'[v].member \in departures'
  BY DEF Join, sameTx, IInv, PendingInv, isPending
<1>4. QED
  BY <1>1, <1>2, <1>3, QuietStep DEF Join

\* A member leaves: a second one ends what is said of one.
LEMMA LeaveStep == ASSUME IInv, NEW u \in Users, Leave(u) PROVE IInv'
<1>1. TypeInv'
  BY DEF IInv, TypeInv, Leave
<1>2. DepartedInv' /\ (OneLeaver' => OneLeaver)
  BY DEF IInv, TypeInv, DepartedInv, OneLeaver, Leave
<1>3. \A v \in Workers : /\ sameTx(tx'[v], tx[v])
                         /\ tx'[v].cmd = "reassign" => tx'[v].member \in departures'
  BY DEF Leave, sameTx, IInv, PendingInv, isPending
<1>4. QED
  BY <1>1, <1>2, <1>3, QuietStep DEF Leave

\* Archiving touches no row.
LEMMA ArchiveStep == ASSUME IInv, Archive PROVE IInv'
<1>1. TypeInv'
  BY DEF IInv, TypeInv, Archive
<1>2. DepartedInv' /\ (OneLeaver' => OneLeaver)
  BY DEF IInv, DepartedInv, OneLeaver, Archive
<1>3. \A v \in Workers : /\ sameTx(tx'[v], tx[v])
                         /\ tx'[v].cmd = "reassign" => tx'[v].member \in departures'
  BY DEF Archive, sameTx, IInv, PendingInv, isPending
<1>4. QED
  BY <1>1, <1>2, <1>3, QuietStep DEF Archive

\* A departure is dropped that nobody in flight handles.
LEMMA SkipStep == ASSUME IInv, NEW u \in Users, SkipReassign(u) PROVE IInv'
<1>1. TypeInv'
  BY DEF IInv, TypeInv, SkipReassign, people
<1>2. DepartedInv' /\ (OneLeaver' => OneLeaver)
  BY DEF IInv, DepartedInv, OneLeaver, SkipReassign, people
<1>3. \A v \in Workers : /\ sameTx(tx'[v], tx[v])
                         /\ tx'[v].cmd = "reassign" => tx'[v].member \in departures'
  BY DEF SkipReassign, sameTx, IInv, PendingInv, isPending
<1>4. QED
  BY <1>1, <1>2, <1>3, QuietStep DEF SkipReassign

\* A transaction that ends without a commit frees the others.
LEMMA RollbackStep == ASSUME IInv, NEW w \in Workers, Rollback(w) PROVE IInv'
<1>1. /\ tx' \in [Workers -> TxRow \cup {Idle}]
      /\ \A v \in Workers : tx'[v].cmd = "idle" \/ sameTx(tx'[v], tx[v])
  BY FinishKeeps DEF IInv, Rollback
<1>2. TypeInv'
  BY <1>1 DEF IInv, TypeInv, Rollback, people
<1>3. DepartedInv' /\ (OneLeaver' => OneLeaver)
  BY DEF IInv, DepartedInv, OneLeaver, Rollback, people
<1>4. \A v \in Workers : tx'[v].cmd = "reassign" => tx'[v].member \in departures'
  BY <1>1 DEF Rollback, sameTx, IInv, PendingInv, isPending
<1>5. QED
  BY <1>1, <1>2, <1>3, <1>4, QuietStep DEF Rollback

\* Nothing happens.
LEMMA StutterStep == ASSUME IInv, UNCHANGED vars PROVE IInv'
<1>1. UNCHANGED <<status, archived, departures, version, rows, writes, tx>>
  BY DEF vars, people
<1>2. TypeInv'
  BY <1>1 DEF IInv, TypeInv
<1>3. DepartedInv' /\ (OneLeaver' => OneLeaver)
  BY <1>1 DEF IInv, DepartedInv, OneLeaver
<1>4. \A v \in Workers : /\ sameTx(tx'[v], tx[v])
                         /\ tx'[v].cmd = "reassign" => tx'[v].member \in departures'
  BY <1>1 DEF sameTx, IInv, PendingInv, isPending
<1>5. QED
  BY <1>1, <1>2, <1>3, <1>4, QuietStep

\* A request that begins.
LEMMA BeginFields ==
  ASSUME NEW cmd \in {"override", "reassign"}, NEW m \in Users, NEW e \in 0..MaxVersion,
         NEW set \in Shares
  PROVE  \E t \in TxRow :
           /\ t = [cmd |-> cmd, step |-> "read", member |-> m, expected |-> e, set |-> set,
                   seen |-> {}, behind |-> {}]
           /\ t.cmd = cmd /\ t.step = "read" /\ t.member = m /\ t.expected = e
           /\ t.set = set /\ t.seen = {}
<1>1. PICK t : t = [cmd |-> cmd, step |-> "read", member |-> m, expected |-> e, set |-> set,
                    seen |-> {}, behind |-> {}]
  OBVIOUS
<1>2. /\ t.cmd = cmd /\ t.step = "read" /\ t.member = m /\ t.expected = e
      /\ t.set = set /\ t.seen = {}
  BY <1>1
<1>3. {} \in SUBSET Row /\ {} \in SUBSET Workers
  OBVIOUS
<1>4. t \in TxRow
  BY <1>1, <1>3, Zenon DEF TxRow
<1>5. QED
  BY <1>1, <1>2, <1>4

\* The rows that are stored are a set.
LEMMA StoredShares ==
  ASSUME IInv
  PROVE  holders(rows) \in SUBSET Users /\ sharesOf(rows) \in [holders(rows) -> 0..FULL_BP]
<1>1. rows \in SUBSET Row
  BY DEF IInv, TypeInv
<1>2. QED
  BY <1>1, SharesOfRows

\* An override computes a set that adds up, from the rows as they are.
LEMMA BeginOverrideStep ==
  ASSUME IInv, NEW w \in Workers, NEW m \in Users, NEW bp \in 0..FULL_BP,
         NEW e \in 0..MaxVersion, BeginOverride(w, m, bp, e)
  PROVE  IInv'
<1>1. PICK set : set = withShare(FULL_BP, sharesOf(rows), m, bp)
  OBVIOUS
<1>2. set \in [holders(rows) \cup {m} -> 0..FULL_BP]
  BY <1>1, StoredShares, WithShareFields
<1>3. set \in Shares /\ DOMAIN set = holders(rows) \cup {m}
  <2>1. holders(rows) \cup {m} \in SUBSET Users
    BY StoredShares
  <2>2. QED
    BY <1>2, <2>1, SharesFields
<1>4. SumFunction(set) = FULL_BP /\ e <= version /\ begin(w, "override", m, e, set)
  BY <1>1 DEF BeginOverride, sumsTo100
<1>5. version # NoDebt
  BY <1>4 DEF NoDebt
<1>6. PICK t \in TxRow :
        /\ t = [cmd |-> "override", step |-> "read", member |-> m, expected |-> e,
                set |-> set, seen |-> {}, behind |-> {}]
        /\ t.cmd = "override" /\ t.step = "read" /\ t.member = m /\ t.expected = e
        /\ t.set = set /\ t.seen = {}
  BY <1>3, BeginFields
<1>7. tx' = [tx EXCEPT ![w] = t]
  BY <1>4, <1>6 DEF begin
<1>8. isPending(t, departures, version) /\ writtenSoFar(t.seen, writes)
  BY <1>4, <1>6 DEF isPending, writtenSoFar
<1>9. \A v \in Workers \ {w} : areApart(t, tx[v])
  BY <1>6 DEF areApart
<1>10. fits(t, rows, version)
  BY <1>3, <1>6 DEF fits
<1>11. QED
  BY <1>4, <1>5, <1>7, <1>8, <1>9, <1>10, OwnStep DEF begin

\* A consumer computes the set without the leaver, from the rows as they are.
LEMMA BeginReassignStep ==
  ASSUME IInv, NEW w \in Workers, NEW u \in Users, BeginReassign(w, u)
  PROVE  IInv'
<1>1. PICK set : set = reassignOnLeave(FULL_BP, sharesOf(rows), u)
  OBVIOUS
<1>2. PICK kept \in SUBSET Users : kept = holders(rows) \ {u}
  BY StoredShares
<1>3. set \in [kept -> 0..FULL_BP] /\ (kept # {} => SumFunction(set) = FULL_BP)
  BY <1>1, <1>2, StoredShares, ReassignFields
<1>4. set \in Shares /\ DOMAIN set = kept
  BY <1>3, SharesFields
<1>5. /\ u \in departures /\ u \in holders(rows)
      /\ begin(w, "reassign", u, 0, set)
      /\ \A v \in Workers : tx[v].cmd = "reassign" => tx[v].member # u
  BY <1>1 DEF BeginReassign
<1>6. version # NoDebt
  BY <1>5 DEF IInv, UnbornInv, holders
<1>7. PICK t \in TxRow :
        /\ t = [cmd |-> "reassign", step |-> "read", member |-> u, expected |-> 0,
                set |-> set, seen |-> {}, behind |-> {}]
        /\ t.cmd = "reassign" /\ t.step = "read" /\ t.member = u /\ t.expected = 0
        /\ t.set = set /\ t.seen = {}
  <2>1. 0 \in 0..MaxVersion
    BY DebtResponsibilitiesAssumption
  <2>2. QED
    BY <1>4, <2>1, BeginFields
<1>8. tx' = [tx EXCEPT ![w] = t]
  BY <1>5, <1>7 DEF begin
<1>9. isPending(t, departures, version) /\ writtenSoFar(t.seen, writes)
  BY <1>3, <1>4, <1>5, <1>7 DEF isPending, writtenSoFar
<1>10. \A v \in Workers \ {w} : areApart(t, tx[v])
  BY <1>5, <1>7 DEF areApart
<1>11. fits(t, rows, version)
  BY <1>2, <1>4, <1>7 DEF fits
<1>12. QED
  BY <1>5, <1>6, <1>8, <1>9, <1>10, <1>11, OwnStep DEF begin

\* A DELETE sees the rows as they are; that of an override has the version of the debt.
LEMMA DeleteStep == ASSUME IInv, NEW w \in Workers, Delete(w) PROVE IInv'
<1>1. PICK old \in TxRow : old = tx[w] /\ old.step = "read"
  BY DEF Delete, IInv, TypeInv
<1>2. PICK b \in SUBSET Workers : b = {v \in Workers : holdsLocks(v)}
  OBVIOUS
<1>3. rows \in SUBSET Row /\ tx \in [Workers -> TxRow \cup {Idle}]
  BY DEF IInv, TypeInv
<1>4. PICK t \in TxRow :
        /\ t = [old EXCEPT !.step = "deleted", !.seen = rows, !.behind = b]
        /\ t.cmd = old.cmd /\ t.step = "deleted" /\ t.member = old.member
        /\ t.expected = old.expected /\ t.set = old.set /\ t.seen = rows
  <2>1. [old EXCEPT !.step = "deleted", !.seen = rows, !.behind = b] \in TxRow
    BY <1>3 DEF TxRow
  <2>2. QED
    BY <2>1 DEF TxRow
<1>5. tx' = [tx EXCEPT ![w] = t]
  BY <1>1, <1>2, <1>3, <1>4 DEF Delete
<1>6. version # NoDebt
  BY <1>1, TxFields DEF IInv, UnbornInv
<1>7. isPending(t, departures, version) /\ writtenSoFar(t.seen, writes)
  BY <1>1, <1>4 DEF IInv, PendingInv, isPending, TimeInv, Delete
<1>8. ASSUME NEW v \in Workers \ {w} PROVE areApart(t, tx[v])
  <2>1. areApart(old, tx[v])
    BY <1>1 DEF IInv, ApartInv
  <2>2. t.cmd = "override" /\ tx[v].cmd = "override" => tx[v].step = "read"
    BY <1>1, <1>4 DEF Delete
  <2>3. QED
    BY <1>4, <2>1, <2>2 DEF areApart
<1>9. OneLeaver => fits(t, rows, version)
  BY <1>1, <1>4 DEF IInv, WholeInv, fits
<1>10. QED
  BY <1>5, <1>6, <1>7, <1>8, <1>9, OwnStep DEF Delete

\* The debt begins with its members as they are.
LEMMA CreateStep ==
  ASSUME IInv, NEW percentages \in [Users -> 0..FULL_BP], CreateSharedDebt(percentages)
  PROVE  IInv'
<1>1. activeMembers \in SUBSET Users /\ activeMembers # {}
  BY DEF activeMembers, CreateSharedDebt
<1>2. Restrict(percentages, activeMembers) \in [activeMembers -> Nat]
  BY <1>1, DebtResponsibilitiesAssumption DEF Restrict
<1>3. PICK set : set = allocateBp(FULL_BP, Restrict(percentages, activeMembers))
  OBVIOUS
<1>4. set \in [activeMembers -> 0..FULL_BP] /\ SumFunction(set) = FULL_BP
  BY <1>1, <1>2, <1>3, AllocateBp
<1>5. /\ rows' = rowsOf(set, 0) /\ version' = 0 /\ version = NoDebt
      /\ UNCHANGED <<status, archived, departures, writes, tx>>
  BY <1>3 DEF CreateSharedDebt, people
<1>6. \A w \in Workers : tx[w].cmd = "idle"
  BY <1>5 DEF IInv, UnbornInv
<1>7. 0 \in 0..MaxWrites /\ 0 \in 0..MaxVersion
  BY DebtResponsibilitiesAssumption
<1>8. rows' \subseteq Row /\ writtenSoFar(rows', 0)
  BY <1>1, <1>4, <1>5, <1>7 DEF rowsOf, Row, writtenSoFar
<1>9. TypeInv'
  BY <1>5, <1>7, <1>8 DEF IInv, TypeInv
<1>10. UnbornInv' /\ DepartedInv'
  BY <1>5, <1>6 DEF IInv, UnbornInv, DepartedInv, NoDebt
<1>11. TimeInv'
  <2>1. writes \in Nat
    BY DEF IInv, TypeInv
  <2>2. \A r \in rows' : r.writtenBy <= writes
    BY <1>5, <2>1 DEF rowsOf
  <2>3. QED
    BY <1>5, <1>6, <2>2 DEF TimeInv, writtenSoFar
<1>12. PendingInv' /\ ApartInv'
  BY <1>5, <1>6 DEF PendingInv, isPending, ApartInv, areApart
<1>13. WholeInv'
  <2>1. sumsTo100(FULL_BP, sharesOf(rows'))
    BY <1>4, <1>5, SharesOfRowsOf DEF sumsTo100
  <2>2. QED
    BY <1>5, <1>6, <2>1 DEF WholeInv, fits
<1>14. QED
  BY <1>9, <1>10, <1>11, <1>12, <1>13 DEF IInv

\* The rows of one commit are new.
LEMMA NewRows ==
  ASSUME NEW set \in Shares, NEW n \in 0..MaxWrites - 1, MaxWrites \in Nat
  PROVE  /\ rowsOf(set, n + 1) \subseteq Row
         /\ \A r \in rowsOf(set, n + 1) : r.writtenBy = n + 1
<1>1. DOMAIN set \subseteq Users /\ \A m \in DOMAIN set : set[m] \in 0..FULL_BP
  BY SharesFields
<1>2. n + 1 \in 0..MaxWrites
  OBVIOUS
<1>3. QED
  BY <1>1, <1>2 DEF rowsOf, Row

\* What every commit keeps, whatever it leaves behind.
LEMMA CommitKeeps ==
  ASSUME IInv, NEW w \in Workers, Commit(w)
  PROVE  TypeInv' /\ UnbornInv' /\ DepartedInv' /\ TimeInv' /\ ApartInv'
<1>1. PICK t \in TxRow : t = tx[w] /\ t.step = "deleted"
  BY DEF Commit, IInv, TypeInv
<1>2. /\ t.set \in Shares /\ t.seen \in SUBSET Row /\ t.cmd \in {"override", "reassign"}
  BY TxFields
<1>3. /\ finish(w) /\ rows' = (rows \ t.seen) \cup rowsOf(t.set, writes + 1)
      /\ writes' = writes + 1 /\ writes < MaxWrites
      /\ status' = status /\ archived' = archived
  BY <1>1 DEF Commit, people
<1>4. /\ tx' \in [Workers -> TxRow \cup {Idle}] /\ tx'[w].cmd = "idle"
      /\ \A v \in Workers : tx'[v].cmd = "idle" \/ (v # w /\ sameTx(tx'[v], tx[v]))
  BY <1>3, FinishKeeps DEF IInv
<1>5. /\ version' = IF t.cmd = "override" THEN version + 1 ELSE version
      /\ t.cmd = "override" => version < MaxVersion
      /\ departures' \subseteq departures
  BY <1>1, <1>2 DEF Commit
<1>6. version # NoDebt
  BY <1>1, <1>2 DEF IInv, UnbornInv
<1>7. writes \in 0..MaxWrites - 1 /\ MaxWrites \in Nat /\ MaxVersion \in Nat
  BY <1>3, DebtResponsibilitiesAssumption DEF IInv, TypeInv
<1>8. /\ rowsOf(t.set, writes + 1) \subseteq Row
      /\ \A r \in rowsOf(t.set, writes + 1) : r.writtenBy = writes + 1
  BY <1>2, <1>7, NewRows
<1>9. TypeInv'
  <2>1. version' \in {NoDebt} \cup 0..MaxVersion
    BY <1>5, <1>6, <1>7 DEF IInv, TypeInv
  <2>2. writes' \in 0..MaxWrites
    BY <1>3, <1>7
  <2>3. rows' \subseteq Row /\ departures' \subseteq Users
    BY <1>3, <1>5, <1>8 DEF IInv, TypeInv
  <2>4. QED
    BY <1>3, <1>4, <2>1, <2>2, <2>3 DEF IInv, TypeInv
<1>10. UnbornInv'
  <2>1. version' # NoDebt
    BY <1>5, <1>6, <1>7 DEF IInv, TypeInv, NoDebt
  <2>2. QED
    BY <2>1 DEF UnbornInv
<1>11. DepartedInv'
  BY <1>3, <1>5 DEF IInv, DepartedInv
<1>12. TimeInv'
  <2>1. \A rs \in SUBSET Row : writtenSoFar(rs, writes) => writtenSoFar(rs, writes + 1)
    BY <1>7 DEF writtenSoFar, Row
  <2>2. writtenSoFar(rows', writes + 1)
    BY <1>3, <1>7, <1>8, <2>1 DEF IInv, TypeInv, TimeInv, writtenSoFar
  <2>3. ASSUME NEW v \in Workers, tx'[v].cmd # "idle" PROVE writtenSoFar(tx'[v].seen, writes + 1)
    <3>1. sameTx(tx'[v], tx[v])
      BY <1>4, <2>3
    <3>2. tx[v].cmd # "idle" /\ tx'[v].seen = tx[v].seen
      BY <2>3, <3>1 DEF sameTx
    <3>3. tx[v].seen \in SUBSET Row
      BY <3>2, TxFields, IdleFields DEF IInv, TypeInv
    <3>4. writtenSoFar(tx[v].seen, writes)
      BY <3>2 DEF IInv, TimeInv
    <3>5. QED
      BY <2>1, <3>2, <3>3, <3>4
  <2>4. QED
    BY <1>3, <2>2, <2>3 DEF TimeInv
<1>13. ApartInv'
  <2>1. ASSUME NEW v \in Workers, NEW u \in Workers, v # u PROVE areApart(tx'[v], tx'[u])
    <3>1. areApart(tx[v], tx[u])
      BY <2>1 DEF IInv, ApartInv
    <3>2. QED
      BY <1>4, <3>1 DEF areApart, sameTx
  <2>2. QED
    BY <2>1 DEF ApartInv, areApart
<1>14. QED
  BY <1>9, <1>10, <1>11, <1>12, <1>13

\* An override leaves nobody else's row behind: it names whoever holds a share.
LEMMA CommitOverrideStep ==
  ASSUME IInv, NEW w \in Workers, Commit(w), tx[w].cmd = "override"
  PROVE  PendingInv' /\ WholeInv'
<1>1. PICK t \in TxRow : t = tx[w] /\ t.step = "deleted" /\ t.cmd = "override"
  BY DEF Commit, IInv, TypeInv
<1>2. t.set \in Shares /\ t.set \in [DOMAIN t.set -> 0..FULL_BP]
  BY TxFields, SharesFields
<1>3. /\ finish(w) /\ rows' = (rows \ t.seen) \cup rowsOf(t.set, writes + 1)
      /\ holders(rows \ t.seen) \cap DOMAIN t.set = {}
      /\ writes < MaxWrites /\ version' = version + 1 /\ departures' = departures
      /\ status' = status
  BY <1>1 DEF Commit, people
<1>4. \A v \in Workers : tx'[v].cmd = "idle" \/ (v # w /\ sameTx(tx'[v], tx[v]))
  BY <1>3, FinishKeeps DEF IInv
<1>5. t.expected = version /\ SumFunction(t.set) = FULL_BP
  BY <1>1 DEF IInv, PendingInv, isPending
<1>6. version \in Nat
  BY <1>1, <1>5, TxFields, DebtResponsibilitiesAssumption
<1>7. ASSUME NEW v \in Workers, tx'[v].cmd = "override"
      PROVE  /\ tx'[v].step = "read" /\ tx'[v].expected <= version
             /\ SumFunction(tx'[v].set) = FULL_BP
  <2>1. v # w /\ sameTx(tx'[v], tx[v])
    BY <1>4, <1>7
  <2>2. tx[v].cmd = "override" /\ tx[v].step # "deleted"
    BY <1>1, <1>7, <2>1 DEF IInv, ApartInv, areApart, sameTx
  <2>3. tx[v] \in TxRow
    BY <2>2, IdleFields DEF IInv, TypeInv
  <2>4. QED
    BY <2>1, <2>2, <2>3, TxFields DEF IInv, PendingInv, isPending, sameTx
<1>8. ASSUME NEW v \in Workers, tx'[v].cmd = "reassign"
      PROVE  sameTx(tx'[v], tx[v]) /\ tx[v].cmd = "reassign" /\ tx[v] \in TxRow
  <2>1. sameTx(tx'[v], tx[v]) /\ tx[v].cmd = "reassign"
    BY <1>4, <1>8 DEF sameTx
  <2>2. QED
    BY <2>1, IdleFields DEF IInv, TypeInv
<1>9. ASSUME NEW v \in Workers, tx'[v].cmd = "override"
      PROVE  ~(tx'[v].expected = version + 1) /\ tx'[v].expected <= version + 1
  <2>1. tx'[v].expected <= version
    BY <1>7, <1>9
  <2>2. sameTx(tx'[v], tx[v]) /\ tx[v] \in TxRow
    BY <1>4, <1>9, IdleFields DEF sameTx, IInv, TypeInv
  <2>3. tx'[v].expected \in 0..MaxVersion
    BY <2>2, TxFields DEF sameTx
  <2>4. QED
    BY <1>6, <2>1, <2>3
<1>10. PendingInv'
  <2>1. ASSUME NEW v \in Workers PROVE isPending(tx'[v], departures, version + 1)
    <3>1. tx'[v].cmd = "reassign" => isPending(tx[v], departures, version)
      BY DEF IInv, PendingInv
    <3>2. QED
      BY <1>7, <1>8, <1>9, <3>1 DEF isPending, sameTx
  <2>2. QED
    BY <1>3, <2>1 DEF PendingInv, isPending
<1>11. ASSUME OneLeaver'
       PROVE  /\ rows' # {} => sumsTo100(FULL_BP, sharesOf(rows'))
              /\ \A v \in Workers : fits(tx'[v], rows', version')
  <2>1. OneLeaver
    BY <1>3, <1>11 DEF OneLeaver
  <2>2. holders(rows) \subseteq DOMAIN t.set
    BY <1>1, <1>5, <2>1 DEF IInv, WholeInv, fits
  <2>3. rows \ t.seen = {}
    BY <1>3, <2>2 DEF holders
  <2>4. rows' = rowsOf(t.set, writes + 1)
    BY <1>3, <2>3
  <2>5. sharesOf(rows') = t.set /\ holders(rows') = DOMAIN t.set
    BY <1>2, <2>4, SharesOfRowsOf, RowsOfSet
  <2>6. writes \in 0..MaxWrites - 1 /\ MaxWrites \in Nat
    BY <1>3, DebtResponsibilitiesAssumption DEF IInv, TypeInv
  <2>7. \A r \in rows' : r.writtenBy = writes + 1
    BY <1>2, <2>4, <2>6, NewRows
  <2>8. ASSUME NEW v \in Workers, tx'[v].cmd = "reassign"
        PROVE  DOMAIN tx'[v].set \subseteq holders(rows') /\ tx'[v].seen \cap rows' = {}
    <3>1. /\ sameTx(tx'[v], tx[v]) /\ tx[v].cmd = "reassign"
      BY <1>8, <2>8
    <3>2. DOMAIN tx[v].set \subseteq holders(rows)
      BY <2>1, <3>1 DEF IInv, WholeInv, fits
    <3>3. \A r \in tx[v].seen : r.writtenBy <= writes
      BY <3>1 DEF IInv, TimeInv, writtenSoFar
    <3>4. tx[v].seen \cap rows' = {}
      BY <2>6, <2>7, <3>3
    <3>5. QED
      BY <2>2, <2>5, <3>1, <3>2, <3>4 DEF sameTx
  <2>9. \A v \in Workers : fits(tx'[v], rows', version')
    BY <1>3, <1>9, <2>8 DEF fits
  <2>10. sumsTo100(FULL_BP, sharesOf(rows'))
    BY <1>5, <2>5 DEF sumsTo100
  <2>11. QED
    BY <2>9, <2>10
<1>12. WholeInv'
  BY <1>11 DEF WholeInv, fits
<1>13. QED
  BY <1>10, <1>12

\* The reassignment of one departure either finds the set that its DELETE has seen, or a
\* new one that names the same members, and then inserts nothing.
LEMMA CommitReassignStep ==
  ASSUME IInv, NEW w \in Workers, Commit(w), tx[w].cmd = "reassign"
  PROVE  PendingInv' /\ WholeInv'
<1>1. PICK t \in TxRow : t = tx[w] /\ t.step = "deleted" /\ t.cmd = "reassign"
  BY DEF Commit, IInv, TypeInv
<1>2. t.set \in Shares /\ t.set \in [DOMAIN t.set -> 0..FULL_BP]
  BY TxFields, SharesFields
<1>3. /\ finish(w) /\ rows' = (rows \ t.seen) \cup rowsOf(t.set, writes + 1)
      /\ holders(rows \ t.seen) \cap DOMAIN t.set = {}
      /\ version' = version /\ departures' = departures \ {t.member}
      /\ status' = status
  BY <1>1 DEF Commit, people
<1>4. \A v \in Workers : tx'[v].cmd = "idle" \/ (v # w /\ sameTx(tx'[v], tx[v]))
  BY <1>3, FinishKeeps DEF IInv
<1>5. PendingInv'
  <2>1. ASSUME NEW v \in Workers PROVE isPending(tx'[v], departures', version)
    <3>1. isPending(tx[v], departures, version)
      BY DEF IInv, PendingInv
    <3>2. v # w /\ tx[v].cmd = "reassign" => tx[v].member # t.member
      BY <1>1 DEF IInv, ApartInv, areApart
    <3>3. QED
      BY <1>3, <1>4, <3>1, <3>2 DEF isPending, sameTx
  <2>2. QED
    BY <1>3, <2>1 DEF PendingInv, isPending
<1>6. ASSUME OneLeaver'
      PROVE  /\ rows' # {} => sumsTo100(FULL_BP, sharesOf(rows'))
             /\ \A v \in Workers : fits(tx'[v], rows', version')
  <2>1. OneLeaver
    BY <1>3, <1>6 DEF OneLeaver
  <2>2. /\ DOMAIN t.set \subseteq holders(rows)
        /\ t.seen = rows \/ t.seen \cap rows = {}
        /\ rows # {} => sumsTo100(FULL_BP, sharesOf(rows))
    BY <1>1, <2>1 DEF IInv, WholeInv, fits
  <2>3. rows' = rows \/ rows' = {} \/ (rows' = rowsOf(t.set, writes + 1) /\ DOMAIN t.set # {})
    <3>1. CASE DOMAIN t.set = {}
      <4>1. rowsOf(t.set, writes + 1) = {}
        BY <3>1 DEF rowsOf
      <4>2. QED
        BY <1>3, <2>2, <4>1
    <3>2. CASE DOMAIN t.set # {}
      <4>1. rows \ t.seen = rows => FALSE
        <5>1. ASSUME rows \ t.seen = rows PROVE FALSE
          <6>1. holders(rows) \cap DOMAIN t.set = {}
            BY <1>3, <5>1, Zenon
          <6>2. QED
            BY <2>2, <3>2, <6>1
        <5>2. QED
          BY <5>1
      <4>2. rows \ t.seen = {}
        BY <2>2, <4>1
      <4>3. QED
        BY <1>3, <3>2, <4>2
    <3>3. QED
      BY <3>1, <3>2
  <2>4. holders(rows') \subseteq holders(rows)
    <3>1. rows' = rowsOf(t.set, writes + 1) => holders(rows') = DOMAIN t.set
      BY RowsOfSet
    <3>2. rows' = {} => holders(rows') = {}
      BY DEF holders
    <3>3. rows' = rows => holders(rows') = holders(rows)
      BY Zenon
    <3>4. QED
      BY <2>2, <2>3, <3>1, <3>2, <3>3
  <2>5. rows' # {} => sumsTo100(FULL_BP, sharesOf(rows'))
    <3>1. CASE rows' = rows
      BY <2>2, <3>1
    <3>2. CASE rows' = rowsOf(t.set, writes + 1) /\ DOMAIN t.set # {}
      <4>1. SumFunction(t.set) = FULL_BP
        BY <1>1, <3>2 DEF IInv, PendingInv, isPending
      <4>2. sharesOf(rows') = t.set
        BY <1>2, <3>2, SharesOfRowsOf
      <4>3. QED
        BY <4>1, <4>2 DEF sumsTo100
    <3>3. QED
      BY <2>3, <3>1, <3>2
  <2>6. ASSUME NEW v \in Workers PROVE fits(tx'[v], rows', version)
    <3>1. tx'[v].cmd # "reassign"
      <4>1. ASSUME tx'[v].cmd = "reassign" PROVE FALSE
        <5>1. v # w /\ tx[v].cmd = "reassign"
          BY <1>4, <4>1 DEF sameTx
        <5>2. tx[v].member \in departures /\ t.member \in departures
          BY <1>1, <5>1 DEF IInv, PendingInv, isPending
        <5>3. tx[v].member = t.member
          BY <2>1, <5>2 DEF IInv, TypeInv, DepartedInv, OneLeaver
        <5>4. QED
          BY <1>1, <5>1, <5>3 DEF IInv, ApartInv, areApart
      <4>2. QED
        BY <4>1
    <3>2. fits(tx[v], rows, version)
      BY <2>1 DEF IInv, WholeInv
    <3>3. QED
      BY <1>4, <2>4, <3>1, <3>2 DEF fits, sameTx
  <2>7. QED
    BY <1>3, <2>5, <2>6
<1>7. WholeInv'
  BY <1>6 DEF WholeInv, fits
<1>8. QED
  BY <1>5, <1>7

\* A commit of either kind.
LEMMA CommitStep == ASSUME IInv, NEW w \in Workers, Commit(w) PROVE IInv'
<1>1. tx[w].cmd \in {"override", "reassign"}
  <2>1. tx[w] \in TxRow
    BY DEF Commit, IInv, TypeInv
  <2>2. QED
    BY <2>1, TxFields
<1>2. PendingInv' /\ WholeInv'
  BY <1>1, CommitOverrideStep, CommitReassignStep
<1>3. QED
  BY <1>2, CommitKeeps DEF IInv

-----------------------------------------------------------------------------
(* The theorems. *)

\* Every step keeps the invariant.
LEMMA NextInv == ASSUME IInv, [Next]_vars PROVE IInv'
<1>1. ASSUME NEW u \in Users, Join(u) \/ Leave(u) \/ SkipReassign(u) PROVE IInv'
  BY <1>1, JoinStep, LeaveStep, SkipStep
<1>2. ASSUME NEW w \in Workers, Delete(w) \/ Commit(w) \/ Rollback(w) PROVE IInv'
  BY <1>2, DeleteStep, CommitStep, RollbackStep
<1>3. ASSUME NEW w \in Workers, NEW u \in Users, BeginReassign(w, u) PROVE IInv'
  BY <1>3, BeginReassignStep
<1>4. ASSUME NEW w \in Workers, NEW m \in Users, NEW bp \in 0..FULL_BP, NEW v \in 0..MaxVersion,
             BeginOverride(w, m, bp, v)
      PROVE  IInv'
  BY <1>4, BeginOverrideStep
<1>5. ASSUME NEW percentages \in [Users -> 0..FULL_BP], CreateSharedDebt(percentages) PROVE IInv'
  BY <1>5, CreateStep
<1>6. QED
  BY <1>1, <1>2, <1>3, <1>4, <1>5, ArchiveStep, StutterStep DEF Next

\* It holds always.
LEMMA Inductive == Spec => []IInv
BY InitInv, NextInv, PTL DEF Spec

\* Every reachable state of a debt, its rows and the transactions on them is well typed:
\* no split gives anybody more than the whole.
THEOREM TypeCorrect == Spec => []TypeOK
<1>1. IInv => TypeOK
  <2> SUFFICES ASSUME IInv PROVE TypeOK
    OBVIOUS
  <2>1. ASSUME NEW w \in Workers PROVE tx[w] = Idle \/ isTx(tx[w])
    <3>1. CASE tx[w] \in TxRow
      <4>1. DOMAIN tx[w].set \subseteq Users
        BY <3>1, TxFields, SharesFields
      <4>2. QED
        BY <3>1, <4>1, TxFields DEF isTx
    <3>2. QED
      BY <3>1 DEF IInv, TypeInv
  <2>2. QED
    BY <2>1 DEF IInv, TypeInv, TypeOK
<1>2. QED
  BY <1>1, Inductive, PTL

\* Whichever overrides and whichever handling of one departure overlap, a debt that
\* somebody answers for is answered for as a whole.
THEOREM SumHoldsUntilTwoLeaveHolds == Spec => []SumHoldsUntilTwoLeave
<1>1. IInv => SumHoldsUntilTwoLeave
  <2> SUFFICES ASSUME IInv, rows # {}, Cardinality({u \in Users : status[u] = "LEFT"}) <= 1
               PROVE  sumsTo100(FULL_BP, sharesOf(rows))
    BY DEF SumHoldsUntilTwoLeave
  <2>1. PICK gone \in SUBSET Users : gone = {u \in Users : status[u] = "LEFT"}
    OBVIOUS
  <2>2. IsFiniteSet(gone) /\ Cardinality(gone) \in Nat
    BY FewUsers, FS_CardinalityType
  <2>3. gone = {} \/ \E x : gone = {x}
    <3>1. Cardinality(gone) = 0 \/ Cardinality(gone) = 1
      BY <2>1, <2>2
    <3>2. QED
      BY <2>2, <3>1, FS_EmptySet, FS_Singleton
  <2>4. OneLeaver
    BY <2>1, <2>3 DEF OneLeaver
  <2>5. QED
    BY <2>4 DEF IInv, WholeInv
<1>2. QED
  BY <1>1, Inductive, PTL

\* Whoever leaves next, the members who stay take over the whole in proportion, each to
\* within one unit, and none of them gets less than before.
THEOREM ReassignmentIsFairHolds == Spec => []ReassignmentIsFair
<1>1. IInv => ReassignmentIsFair
  <2> SUFFICES ASSUME IInv PROVE ReassignmentIsFair
    OBVIOUS
  <2>1. PICK D \in SUBSET Users : D = holders(rows) /\ sharesOf(rows) \in [D -> 0..FULL_BP]
    BY StoredShares
  <2>2. PICK shares \in [D -> 0..FULL_BP] : shares = sharesOf(rows)
    BY <2>1
  <2>3. ASSUME SumFunction(shares) = FULL_BP, NEW u \in D
        PROVE  isFair(shares, u, reassignOnLeave(FULL_BP, shares, u))
    BY <2>3, FairReassignment
  <2>4. QED
    BY <2>2, <2>3 DEF ReassignmentIsFair, sumsTo100
<1>2. QED
  BY <1>1, Inductive, PTL

-----------------------------------------------------------------------------
(* What a lock of the consumer would restore.  Overrides serialise on the    *)
(* version of the debt, so that they may overlap; it is the handling of      *)
(* departures that must not.                                                 *)

\* While a departure is handled, nothing else replaces the set.
ReassignmentsTakeTurns ==
  \A v, w \in Workers : tx[v].cmd = "reassign" /\ tx[w].cmd # "idle" => v = w

\* An override that is not refused names whoever holds a share; a reassignment is the
\* one of the set that is stored.
isUpToDate(t, rs, v) ==
  /\ t.cmd = "override" => (t.expected = v => holders(rs) \subseteq DOMAIN t.set)
  /\ t.cmd = "reassign" => /\ t.set = reassignOnLeave(FULL_BP, sharesOf(rs), t.member)
                           /\ t.step = "deleted" => t.seen = rs

TurnInv == SharesSumTo100 /\ \A w \in Workers : isUpToDate(tx[w], rows, version)

\* A step after which the rows are the same and no transaction has moved on.
LEMMA QuietTurn ==
  ASSUME TurnInv, version' = version, rows' = rows,
         \A v \in Workers : tx'[v].cmd = "idle" \/ sameTx(tx'[v], tx[v])
  PROVE  TurnInv'
<1>1. ASSUME NEW v \in Workers PROVE isUpToDate(tx'[v], rows, version)
  <2>1. isUpToDate(tx[v], rows, version)
    BY DEF TurnInv
  <2>2. QED
    BY <2>1 DEF isUpToDate, sameTx
<1>2. SharesSumTo100'
  BY DEF TurnInv, SharesSumTo100
<1>3. QED
  BY <1>1, <1>2 DEF TurnInv, isUpToDate

\* A step of one transaction that writes no row.
LEMMA OwnTurn ==
  ASSUME IInv, TurnInv, NEW w \in Workers, NEW t, tx' = [tx EXCEPT ![w] = t],
         UNCHANGED <<version, rows>>, isUpToDate(t, rows, version)
  PROVE  TurnInv'
<1>1. tx'[w] = t /\ \A v \in Workers \ {w} : tx'[v] = tx[v]
  BY DEF IInv, TypeInv
<1>2. \A v \in Workers : isUpToDate(tx'[v], rows, version)
  BY <1>1 DEF TurnInv
<1>3. SharesSumTo100'
  BY DEF TurnInv, SharesSumTo100
<1>4. QED
  BY <1>2, <1>3 DEF TurnInv, isUpToDate

\* What is read is the set as it is.
LEMMA BeginTurn ==
  ASSUME IInv, TurnInv, NEW w \in Workers, NEW m \in Users,
         \/ \E bp \in 0..FULL_BP, e \in 0..MaxVersion : BeginOverride(w, m, bp, e)
         \/ BeginReassign(w, m)
  PROVE  TurnInv'
<1>1. ASSUME NEW bp \in 0..FULL_BP, NEW e \in 0..MaxVersion, BeginOverride(w, m, bp, e)
      PROVE  TurnInv'
  <2>1. PICK set : set = withShare(FULL_BP, sharesOf(rows), m, bp)
    OBVIOUS
  <2>2. set \in [holders(rows) \cup {m} -> 0..FULL_BP]
    BY <2>1, StoredShares, WithShareFields
  <2>3. PICK t : t = [cmd |-> "override", step |-> "read", member |-> m, expected |-> e,
                      set |-> set, seen |-> {}, behind |-> {}]
    OBVIOUS
  <2>4. t.cmd = "override" /\ t.set = set
    BY <2>3
  <2>5. tx' = [tx EXCEPT ![w] = t] /\ UNCHANGED <<version, rows>>
    BY <1>1, <2>1, <2>3 DEF BeginOverride, begin
  <2>6. isUpToDate(t, rows, version)
    BY <2>2, <2>4 DEF isUpToDate
  <2>7. QED
    BY <2>5, <2>6, OwnTurn
<1>2. CASE BeginReassign(w, m)
  <2>1. PICK set : set = reassignOnLeave(FULL_BP, sharesOf(rows), m)
    OBVIOUS
  <2>2. PICK t : t = [cmd |-> "reassign", step |-> "read", member |-> m, expected |-> 0,
                      set |-> set, seen |-> {}, behind |-> {}]
    OBVIOUS
  <2>3. t.cmd = "reassign" /\ t.set = set /\ t.member = m /\ t.step = "read"
    BY <2>2
  <2>4. tx' = [tx EXCEPT ![w] = t] /\ UNCHANGED <<version, rows>>
    BY <1>2, <2>1, <2>2 DEF BeginReassign, begin
  <2>5. isUpToDate(t, rows, version)
    BY <2>1, <2>3 DEF isUpToDate
  <2>6. QED
    BY <2>4, <2>5, OwnTurn
<1>3. QED
  BY <1>1, <1>2

\* What is deleted is the set as it is.
LEMMA DeleteTurn ==
  ASSUME IInv, TurnInv, NEW w \in Workers, Delete(w)
  PROVE  TurnInv'
<1>1. PICK old \in TxRow : old = tx[w]
  BY DEF Delete, IInv, TypeInv
<1>2. PICK b \in SUBSET Workers : b = {v \in Workers : holdsLocks(v)}
  OBVIOUS
<1>3. rows \in SUBSET Row /\ tx \in [Workers -> TxRow \cup {Idle}]
  BY DEF IInv, TypeInv
<1>4. PICK t : t = [old EXCEPT !.step = "deleted", !.seen = rows, !.behind = b]
  OBVIOUS
<1>5. /\ t.cmd = old.cmd /\ t.member = old.member /\ t.expected = old.expected
      /\ t.set = old.set /\ t.seen = rows
  BY <1>4 DEF TxRow
<1>6. tx' = [tx EXCEPT ![w] = t] /\ UNCHANGED <<version, rows>>
  BY <1>1, <1>2, <1>3, <1>4 DEF Delete
<1>7. isUpToDate(old, rows, version)
  BY <1>1 DEF TurnInv
<1>8. isUpToDate(t, rows, version)
  BY <1>5, <1>7 DEF isUpToDate
<1>9. QED
  BY <1>6, <1>8, OwnTurn

\* The first set is the whole.
LEMMA CreateTurn ==
  ASSUME IInv, NEW percentages \in [Users -> 0..FULL_BP], CreateSharedDebt(percentages)
  PROVE  TurnInv'
<1>1. activeMembers \in SUBSET Users /\ activeMembers # {}
  BY DEF activeMembers, CreateSharedDebt
<1>2. Restrict(percentages, activeMembers) \in [activeMembers -> Nat]
  BY <1>1, DebtResponsibilitiesAssumption DEF Restrict
<1>3. PICK set : set = allocateBp(FULL_BP, Restrict(percentages, activeMembers))
  OBVIOUS
<1>4. set \in [activeMembers -> 0..FULL_BP] /\ SumFunction(set) = FULL_BP
  BY <1>1, <1>2, <1>3, AllocateBp
<1>5. rows' = rowsOf(set, 0) /\ version = NoDebt /\ UNCHANGED tx
  BY <1>3 DEF CreateSharedDebt
<1>6. sumsTo100(FULL_BP, sharesOf(rows'))
  BY <1>4, <1>5, SharesOfRowsOf DEF sumsTo100
<1>7. \A w \in Workers : tx'[w].cmd = "idle"
  BY <1>5 DEF IInv, UnbornInv
<1>8. QED
  BY <1>6, <1>7 DEF TurnInv, isUpToDate, SharesSumTo100

\* A commit that takes its turn leaves the set it computed and nothing else.
LEMMA CommitReplaces ==
  ASSUME IInv, TurnInv, NEW w \in Workers, Commit(w)
  PROVE  \E t \in TxRow :
           /\ t = tx[w] /\ t.cmd \in {"override", "reassign"} /\ t.set \in Shares
           /\ rows' = rowsOf(t.set, writes + 1) /\ sharesOf(rows') = t.set
           /\ holders(rows') = DOMAIN t.set
           /\ DOMAIN t.set # {} => SumFunction(t.set) = FULL_BP
           /\ version' = IF t.cmd = "override" THEN version + 1 ELSE version
<1>1. PICK t \in TxRow : t = tx[w] /\ t.step = "deleted"
  BY DEF Commit, IInv, TypeInv
<1>2. /\ t.set \in Shares /\ t.set \in [DOMAIN t.set -> 0..FULL_BP]
      /\ t.cmd \in {"override", "reassign"}
  BY TxFields, SharesFields
<1>3. /\ rows' = (rows \ t.seen) \cup rowsOf(t.set, writes + 1)
      /\ holders(rows \ t.seen) \cap DOMAIN t.set = {}
      /\ version' = IF t.cmd = "override" THEN version + 1 ELSE version
  BY <1>1, <1>2 DEF Commit
<1>4. /\ isPending(t, departures, version) /\ isUpToDate(t, rows, version)
  BY <1>1 DEF IInv, PendingInv, TurnInv
<1>5. rows \ t.seen = {}
  <2>1. CASE t.cmd = "override"
    <3>1. holders(rows) \subseteq DOMAIN t.set
      BY <1>1, <1>4, <2>1 DEF isPending, isUpToDate
    <3>2. QED
      BY <1>3, <3>1 DEF holders
  <2>2. CASE t.cmd = "reassign"
    <3>1. t.seen = rows
      BY <1>1, <1>4, <2>2 DEF isUpToDate
    <3>2. QED
      BY <3>1
  <2>3. QED
    BY <1>2, <2>1, <2>2
<1>6. rows' = rowsOf(t.set, writes + 1)
  BY <1>3, <1>5
<1>7. sharesOf(rows') = t.set /\ holders(rows') = DOMAIN t.set
  BY <1>2, <1>6, SharesOfRowsOf, RowsOfSet
<1>8. DOMAIN t.set # {} => SumFunction(t.set) = FULL_BP
  BY <1>2, <1>4 DEF isPending
<1>9. QED
  BY <1>1, <1>2, <1>3, <1>6, <1>7, <1>8

\* It adds up, and makes every other override stale.
LEMMA CommitTurn ==
  ASSUME IInv, TurnInv, ReassignmentsTakeTurns, NEW w \in Workers, Commit(w)
  PROVE  TurnInv'
<1>1. PICK t \in TxRow :
           /\ t = tx[w] /\ t.cmd \in {"override", "reassign"} /\ t.set \in Shares
           /\ rows' = rowsOf(t.set, writes + 1) /\ sharesOf(rows') = t.set
           /\ holders(rows') = DOMAIN t.set
           /\ DOMAIN t.set # {} => SumFunction(t.set) = FULL_BP
           /\ version' = IF t.cmd = "override" THEN version + 1 ELSE version
  BY CommitReplaces
<1>2. \A v \in Workers : tx'[v].cmd = "idle" \/ (v # w /\ sameTx(tx'[v], tx[v]))
  BY FinishKeeps DEF IInv, Commit
<1>3. SharesSumTo100'
  <2>1. rows' # {} => DOMAIN t.set # {}
    BY <1>1 DEF rowsOf
  <2>2. QED
    BY <1>1, <2>1 DEF SharesSumTo100, sumsTo100
<1>4. ASSUME NEW v \in Workers, tx'[v].cmd # "idle" PROVE isUpToDate(tx'[v], rows', version')
  <2>1. v # w /\ sameTx(tx'[v], tx[v]) /\ tx[v].cmd # "idle"
    BY <1>2, <1>4 DEF sameTx
  <2>2. t.cmd = "override" /\ tx[v].cmd = "override"
    <3>1. tx[v] \in TxRow
      BY <2>1, IdleFields DEF IInv, TypeInv
    <3>2. t.cmd # "reassign" /\ tx[v].cmd # "reassign"
      BY <1>1, <2>1 DEF ReassignmentsTakeTurns
    <3>3. QED
      BY <1>1, <3>1, <3>2, TxFields
  <2>3. tx[v] \in TxRow /\ tx[v].expected \in 0..MaxVersion
    BY <2>1, IdleFields, TxFields DEF IInv, TypeInv
  <2>4. tx[v].expected <= version
    BY <2>2 DEF IInv, PendingInv, isPending
  <2>5. version \in Int
    BY DebtResponsibilitiesAssumption DEF IInv, TypeInv, NoDebt
  <2>6. tx[v].expected # version + 1
    BY <2>3, <2>4, <2>5, DebtResponsibilitiesAssumption
  <2>7. QED
    BY <1>1, <2>1, <2>2, <2>6 DEF isUpToDate, sameTx
<1>5. \A v \in Workers : isUpToDate(tx'[v], rows', version')
  BY <1>4 DEF isUpToDate
<1>6. QED
  BY <1>3, <1>5 DEF TurnInv, isUpToDate

\* One case per action.
LEMMA NextTurn ==
  ASSUME IInv, TurnInv, ReassignmentsTakeTurns, [Next]_vars
  PROVE  TurnInv'
<1>1. ASSUME NEW u \in Users, Join(u) \/ Leave(u) \/ SkipReassign(u) PROVE TurnInv'
  <2>1. version' = version /\ rows' = rows /\ tx' = tx
    BY <1>1 DEF Join, Leave, SkipReassign
  <2>2. \A v \in Workers : sameTx(tx'[v], tx[v])
    BY <2>1 DEF sameTx
  <2>3. QED
    BY <2>1, <2>2, QuietTurn
<1>2. CASE Archive \/ UNCHANGED vars
  <2>1. version' = version /\ rows' = rows /\ tx' = tx
    BY <1>2 DEF Archive, vars
  <2>2. \A v \in Workers : sameTx(tx'[v], tx[v])
    BY <2>1 DEF sameTx
  <2>3. QED
    BY <2>1, <2>2, QuietTurn
<1>3. ASSUME NEW w \in Workers, Rollback(w) PROVE TurnInv'
  <2>1. \A v \in Workers : tx'[v].cmd = "idle" \/ sameTx(tx'[v], tx[v])
    BY <1>3, FinishKeeps DEF IInv, Rollback
  <2>2. QED
    BY <1>3, <2>1, QuietTurn DEF Rollback
<1>4. ASSUME NEW w \in Workers, Delete(w) \/ Commit(w) PROVE TurnInv'
  BY <1>4, DeleteTurn, CommitTurn
<1>5. ASSUME NEW w \in Workers, NEW m \in Users,
             \/ \E bp \in 0..FULL_BP, e \in 0..MaxVersion : BeginOverride(w, m, bp, e)
             \/ BeginReassign(w, m)
      PROVE  TurnInv'
  BY <1>5, BeginTurn
<1>6. ASSUME NEW percentages \in [Users -> 0..FULL_BP], CreateSharedDebt(percentages)
      PROVE  TurnInv'
  BY <1>6, CreateTurn
<1>7. QED
  BY <1>1, <1>2, <1>3, <1>4, <1>5, <1>6 DEF Next

\* What one step of NoLostOverride says.
NoOverrideLost ==
  (rows' # rows /\ version' = version) =>
    \E u \in departures : sharesOf(rows') = reassignOnLeave(FULL_BP, sharesOf(rows), u)

\* The rows change with the version, or by a reassignment of what is stored.
LEMMA NoneLost ==
  ASSUME IInv, TurnInv, [Next]_vars
  PROVE  NoOverrideLost
<1>1. ASSUME NEW w \in Workers, Commit(w) PROVE NoOverrideLost
  <2>1. PICK t \in TxRow :
           /\ t = tx[w] /\ t.cmd \in {"override", "reassign"} /\ sharesOf(rows') = t.set
           /\ version' = IF t.cmd = "override" THEN version + 1 ELSE version
    BY <1>1, CommitReplaces
  <2>2. CASE t.cmd = "override"
    <3>1. version \in Int
      BY DebtResponsibilitiesAssumption DEF IInv, TypeInv, NoDebt
    <3>2. version' # version
      BY <2>1, <2>2, <3>1
    <3>3. QED
      BY <3>2 DEF NoOverrideLost
  <2>3. CASE t.cmd = "reassign"
    <3>1. t.member \in departures
      BY <2>1, <2>3 DEF IInv, PendingInv, isPending
    <3>2. t.set = reassignOnLeave(FULL_BP, sharesOf(rows), t.member)
      BY <2>1, <2>3 DEF TurnInv, isUpToDate
    <3>3. QED
      BY <2>1, <3>1, <3>2 DEF NoOverrideLost
  <2>4. QED
    BY <2>1, <2>2, <2>3
<1>2. ASSUME NEW percentages \in [Users -> 0..FULL_BP], CreateSharedDebt(percentages)
      PROVE  NoOverrideLost
  BY <1>2 DEF CreateSharedDebt, NoDebt, NoOverrideLost
<1>3. ASSUME NEW u \in Users, Join(u) \/ Leave(u) \/ SkipReassign(u) PROVE NoOverrideLost
  BY <1>3 DEF Join, Leave, SkipReassign, NoOverrideLost
<1>4. ASSUME NEW w \in Workers, Delete(w) \/ Rollback(w) PROVE NoOverrideLost
  BY <1>4 DEF Delete, Rollback, NoOverrideLost
<1>5. ASSUME NEW w \in Workers, NEW m \in Users,
             \/ \E bp \in 0..FULL_BP, e \in 0..MaxVersion : BeginOverride(w, m, bp, e)
             \/ BeginReassign(w, m)
      PROVE  NoOverrideLost
  BY <1>5 DEF BeginOverride, BeginReassign, begin, NoOverrideLost
<1>6. CASE Archive \/ UNCHANGED vars
  BY <1>6 DEF Archive, vars, NoOverrideLost
<1>7. QED
  BY <1>1, <1>2, <1>3, <1>4, <1>5, <1>6 DEF Next

\* What holds while reassignments take turns.
LEMMA TurnInductive == Spec /\ []ReassignmentsTakeTurns => []TurnInv
<1>1. Init => TurnInv
  BY IdleFields DEF Init, TurnInv, isUpToDate, SharesSumTo100
<1>2. IInv /\ TurnInv /\ ReassignmentsTakeTurns /\ [Next]_vars => TurnInv'
  BY NextTurn
<1>3. QED
  BY <1>1, <1>2, Inductive, PTL DEF Spec

\* If nothing overlapped the handling of a departure, the shares would always sum to the
\* whole, however many members leave and however overrides overlap.
THEOREM SharesSumInTurns == Spec /\ []ReassignmentsTakeTurns => []SharesSumTo100
<1>1. TurnInv => SharesSumTo100
  BY DEF TurnInv
<1>2. QED
  BY <1>1, TurnInductive, PTL

\* And no override would be undone by the reassignment of a set from before it.
THEOREM NoLostOverrideInTurns == Spec /\ []ReassignmentsTakeTurns => NoLostOverride
<1>1. IInv /\ TurnInv /\ [Next]_vars => [NoOverrideLost]_vars
  BY NoneLost
<1>2. Spec /\ []ReassignmentsTakeTurns => [][NoOverrideLost]_vars
  BY <1>1, Inductive, TurnInductive, PTL DEF Spec
<1>3. QED
  BY <1>2 DEF NoLostOverride, NoOverrideLost

=============================================================================
