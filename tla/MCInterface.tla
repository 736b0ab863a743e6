---------------------------- MODULE MCInterface ----------------------------
(***************************************************************************)
(* The API's edge in one instance: six machines that share no variable,    *)
(* and a seventh that shares the tables with one of them.  A behaviour     *)
(* runs one, chosen by its first step, and the others stand still, so that *)
(* the states add up and do not multiply.                                  *)
(***************************************************************************)
EXTENDS Coaching, Paging, Retries, PubSub, LivePool, Tenancy

\* Of Tenancy: two tenants, a with a second user.
TenantOf == [x \in {"pa", "ua", "va"} |-> "a"] @@ [x \in {"pb", "ub"} |-> "b"]
OwnerOf == [p \in {"pa", "pb"} |-> IF p = "pa" THEN "ua" ELSE "ub"]

VARIABLE part  \* the machine that runs

Part == {"coaching", "paging", "retries", "feeds", "live", "queries", "tenancy"}

InterfaceTypeOK ==
  /\ part \in Part \cup {"none"}
  /\ CoachingTypeOK /\ PagingTypeOK /\ RetriesTypeOK /\ PubSubTypeOK /\ LiveTypeOK
  /\ ReadingTypeOK /\ TenancyTypeOK

InterfaceInit ==
  /\ part = "none"
  /\ CoachingInit /\ PagingInit /\ RetriesInit /\ PubSubInit /\ LiveInit
  /\ TenancyInit /\ reading = NoReading

runs(p) == part \in {"none", p} /\ part' = p

InterfaceNext ==
  \/ runs("coaching") /\ CoachingNext
       /\ UNCHANGED <<pagingVars, retriesVars, pubSubVars, liveVars, reading, tenancyVars>>
  \/ runs("paging") /\ PagingNext
       /\ UNCHANGED <<coachingVars, retriesVars, pubSubVars, liveVars, reading, tenancyVars>>
  \/ runs("retries") /\ RetriesNext
       /\ UNCHANGED <<coachingVars, pagingVars, pubSubVars, liveVars, reading, tenancyVars>>
  \/ runs("feeds") /\ PubSubNext
       /\ UNCHANGED <<coachingVars, pagingVars, retriesVars, liveVars, reading, tenancyVars>>
  \/ runs("live") /\ LiveNext
       /\ UNCHANGED <<coachingVars, pagingVars, retriesVars, pubSubVars, reading, tenancyVars>>
  \/ runs("queries") /\ ReadingNext
       /\ UNCHANGED <<coachingVars, pagingVars, retriesVars, pubSubVars, tenancyVars>>
       /\ UNCHANGED <<published, request, mark, lastBy>>
  \/ runs("tenancy") /\ TenancyNext
       /\ UNCHANGED <<coachingVars, pagingVars, retriesVars, pubSubVars, liveVars, reading>>

interfaceVars ==
  <<part, coachingVars, pagingVars, retriesVars, pubSubVars, liveVars, reading, tenancyVars>>

InterfaceSpec ==
  /\ InterfaceInit
  /\ [][InterfaceNext]_interfaceVars
  /\ CoachingFairness
=============================================================================
