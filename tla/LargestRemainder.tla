-------------------------- MODULE LargestRemainder --------------------------
(***************************************************************************)
(* Splitting an integer total over weighted shares by the largest-remainder *)
(* method, and the debt-responsibility splits built on it.  Membership ids  *)
(* are numbers here: the code only compares them to break ties.            *)
(***************************************************************************)
EXTENDS Naturals, FiniteSets, Functions

\* Who precedes m when the leftover units are handed out.
ranksBefore(remainder, m) ==
  {n \in DOMAIN remainder :
     \/ remainder[n] > remainder[m]
     \/ remainder[n] = remainder[m] /\ n < m}

floorShares(total, weights) ==
  [m \in DOMAIN weights |-> (total * weights[m]) \div SumFunction(weights)]

remainders(total, weights) ==
  [m \in DOMAIN weights |-> (total * weights[m]) % SumFunction(weights)]

\* Faulty: the leftover units are dropped.
allocateByFloor(total, weights) ==
  IF \A m \in DOMAIN weights : weights[m] = 0
  THEN [m \in DOMAIN weights |-> 0]
  ELSE floorShares(total, weights)

\* Floor every share, then one extra unit each to the residual largest remainders.
allocateByLargestRemainder(total, weights) ==
  IF \A m \in DOMAIN weights : weights[m] = 0
  THEN [m \in DOMAIN weights |-> 0]
  ELSE LET floors == floorShares(total, weights)
           residual == total - SumFunction(floors)
           over == remainders(total, weights)
           bumped(m) == Cardinality(ranksBefore(over, m)) < residual
       IN  [m \in DOMAIN weights |-> floors[m] + (IF bumped(m) THEN 1 ELSE 0)]

-----------------------------------------------------------------------------
(* Debt responsibilities, in units of the full responsibility. *)

\* Equal weights if every weight is zero.
allocateBp(full, weights) ==
  allocateByLargestRemainder(full,
    IF \A m \in DOMAIN weights : weights[m] = 0
    THEN [m \in DOMAIN weights |-> 1] ELSE weights)

reassignOnLeave(full, shares, leaver) ==
  allocateBp(full, Restrict(shares, DOMAIN shares \ {leaver}))

\* setDebtResponsibility: one share is set, the others are rescaled to the rest.
\* Others that hold nothing are not given anything: such a set may fall short.
withShare(full, shares, m, share) ==
  LET rescaled == allocateByLargestRemainder(full - share, Restrict(shares, DOMAIN shares \ {m}))
  IN  [n \in DOMAIN shares \cup {m} |-> IF n = m THEN share ELSE rescaled[n]]

sumsTo100(full, shares) == SumFunction(shares) = full

=============================================================================
