---------------------------- MODULE TenancyProofs ----------------------------
(***************************************************************************)
(* Proofs about Tenancy, for any tenants, profiles and connections.        *)
(*                                                                         *)
(* That nothing leaves its tenant depends on what the pool hands out:      *)
(* TenantsAreIsolated does not speak of the connections, and a closed one  *)
(* that kept its setting would let a job discover another tenant's rows.   *)
(* It also depends on every stored row having a tenant at all.  Pooled and *)
(* the first half of memberOK say so; they hold of every database role,    *)
(* the rest only where the policies bind it.                               *)
(***************************************************************************)
EXTENDS Tenancy, TLAPS

\* A connection has a tenant set while its transaction lasts, and no longer.
Pooled ==
  \A c \in Connections :
    IF session[c].open THEN session[c].tenant \in Tenants ELSE session[c].tenant = Unset

\* A stored membership has a tenant: the profile's, and so has its member, who
\* came in by a request of that tenant.
memberOK(p, u, r) ==
  /\ r.status # "NONE" => r.tenant \in Tenants
  /\ ~RoleBypassesRls => /\ r.tenant \in {tenantOf[p], Unset}
                         /\ r.status \in OwnStatus => tenantOf[u] = tenantOf[p]

MembersInv ==
  /\ memberRows \in [SharedProfiles -> [Principals -> MemberRow]]
  /\ \A p \in SharedProfiles, u \in Principals : memberOK(p, u, memberRows[p][u])

PeriodsInv ==
  /\ periodRows \in [SharedProfiles -> Seq(PeriodRow)]
  /\ ~RoleBypassesRls => \A p \in SharedProfiles : \A i \in DOMAIN periodRows[p] :
                           periodRows[p][i].tenant = tenantOf[p]

StampedInv ==
  /\ stamped \subseteq [profile : SharedProfiles, tenant : Tenants]
  /\ ~RoleBypassesRls => \A s \in stamped : s.tenant = tenantOf[s.profile]

SessionInv == session \in [Connections -> Session] /\ Pooled

DiscoveredInv ==
  /\ discovered \in [Job -> SUBSET Tenants]
  /\ ~RoleBypassesRls => \A job \in Job : discovered[job] = {}

IInv == MembersInv /\ PeriodsInv /\ StampedInv /\ SessionInv /\ DiscoveredInv

-----------------------------------------------------------------------------
(* Lemmas about rows, connections and policies. *)

\* The parts of a stored membership, by type.
LEMMA MemberFields ==
  ASSUME MembersInv, NEW p \in SharedProfiles, NEW u \in Principals
  PROVE  /\ memberRows[p] \in [Principals -> MemberRow]
         /\ memberRows[p][u] \in MemberRow
         /\ memberRows[p][u].status \in OwnStatus \cup {"NONE", "INVITED", "EXPIRED"}
         /\ memberRows[p][u].tenant \in Tenants \cup {Unset}
<1>1. memberRows[p] \in [Principals -> MemberRow]
  BY DEF MembersInv
<1>2. memberRows[p][u] \in MemberRow
  BY <1>1
<1>3. QED
  BY <1>1, <1>2, Zenon DEF MemberRow

\* A membership as a request writes it.
LEMMA NewMemberRow ==
  ASSUME NEW status \in OwnStatus \cup {"NONE", "INVITED", "EXPIRED"},
         NEW t \in Tenants \cup {Unset}
  PROVE  /\ rowOf(status, t) \in MemberRow
         /\ rowOf(status, t).status = status /\ rowOf(status, t).tenant = t
<1>1. rowOf(status, t) \in MemberRow
  BY Zenon DEF rowOf, MemberRow
<1>2. QED
  BY <1>1 DEF rowOf

\* A period as a request or the job opens it.
LEMMA NewPeriodRow ==
  ASSUME NEW t \in Tenants
  PROVE  rowOf("OPEN", t) \in PeriodRow /\ rowOf("OPEN", t).tenant = t
<1>1. rowOf("OPEN", t) \in PeriodRow
  BY Zenon DEF rowOf, PeriodRow
<1>2. QED
  BY <1>1 DEF rowOf

\* Only the status of a membership changes.
LEMMA StatusChange ==
  ASSUME NEW r \in MemberRow, NEW status \in OwnStatus \cup {"NONE", "INVITED", "EXPIRED"}
  PROVE  /\ [r EXCEPT !.status = status] \in MemberRow
         /\ [r EXCEPT !.status = status].status = status
         /\ [r EXCEPT !.status = status].tenant = r.tenant
BY DEF MemberRow

\* The deadline of an invitation passes.
LEMMA OverdueChange ==
  ASSUME NEW r \in MemberRow
  PROVE  /\ [r EXCEPT !.overdue = TRUE] \in MemberRow
         /\ [r EXCEPT !.overdue = TRUE].status = r.status
         /\ [r EXCEPT !.overdue = TRUE].tenant = r.tenant
BY DEF MemberRow

\* A period comes to its end, or is closed.
LEMMA PeriodChange ==
  ASSUME NEW r \in PeriodRow
  PROVE  /\ [r EXCEPT !.overdue = TRUE] \in PeriodRow
         /\ [r EXCEPT !.overdue = TRUE].tenant = r.tenant
         /\ [r EXCEPT !.status = "CLOSED"] \in PeriodRow
         /\ [r EXCEPT !.status = "CLOSED"].tenant = r.tenant
BY DEF PeriodRow

-----------------------------------------------------------------------------
(* What the writes of the actions keep. *)

\* One membership is written.
LEMMA WriteMember ==
  ASSUME MembersInv, NEW p \in SharedProfiles, NEW u \in Principals,
         NEW r \in MemberRow, memberOK(p, u, r),
         memberRows' = [memberRows EXCEPT ![p][u] = r]
  PROVE  MembersInv'
<1>1. memberRows' = [memberRows EXCEPT ![p] = [memberRows[p] EXCEPT ![u] = r]]
  OBVIOUS
<1>2. /\ memberRows' \in [SharedProfiles -> [Principals -> MemberRow]]
      /\ memberRows'[p] = [memberRows[p] EXCEPT ![u] = r]
      /\ \A q \in SharedProfiles \ {p} : memberRows'[q] = memberRows[q]
  BY <1>1 DEF MembersInv
<1>3. ASSUME NEW q \in SharedProfiles, NEW v \in Principals
      PROVE  memberOK(q, v, memberRows'[q][v])
  <2>1. CASE q = p /\ v = u
    BY <1>2, <2>1 DEF MembersInv
  <2>2. CASE q # p \/ v # u
    <3>1. memberRows'[q][v] = memberRows[q][v]
      BY <1>2, <2>2 DEF MembersInv
    <3>2. QED
      BY <3>1 DEF MembersInv
  <2>3. QED
    BY <2>1, <2>2
<1>4. QED
  BY <1>2, <1>3 DEF MembersInv, memberOK

\* The periods of one profile are written.
LEMMA WritePeriods ==
  ASSUME PeriodsInv, NEW p \in SharedProfiles, NEW list \in Seq(PeriodRow),
         ~RoleBypassesRls => \A i \in DOMAIN list : list[i].tenant = tenantOf[p],
         periodRows' = [periodRows EXCEPT ![p] = list]
  PROVE  PeriodsInv'
BY DEF PeriodsInv

\* What a transaction writes beside its rows carries its tenant.
LEMMA WriteStamped ==
  ASSUME StampedInv, SessionInv, NEW c \in Connections, session[c].open,
         NEW ps \in SUBSET SharedProfiles, write(c, ps),
         ~RoleBypassesRls => \A p \in ps : tenantOf[p] = session[c].tenant
  PROVE  StampedInv'
<1>1. session[c].tenant \in Tenants
  BY DEF SessionInv, Pooled
<1>2. QED
  BY <1>1 DEF StampedInv, write

\* Commit and rollback leave a connection with no tenant set.
LEMMA EndKeepsPooled ==
  ASSUME SessionInv, NEW c \in Connections, end(c)
  PROVE  SessionInv'
<1>. DEFINE closed == [open |-> FALSE, tenant |-> Unset]
<1>1. closed \in Session /\ closed.tenant = Unset /\ ~closed.open
  BY Zenon DEF Session
<1>2. session' = [session EXCEPT ![c] = closed]
  BY DEF end
<1>. HIDE DEF closed
<1>3. QED
  BY <1>1, <1>2 DEF SessionInv, Pooled

\* What a statement sees under the policies is of the connection's tenant.
LEMMA SeenIsOwn ==
  ASSUME NEW c \in Connections, NEW t, sees(c, t), ~RoleBypassesRls
  PROVE  t = session[c].tenant
BY DEF sees

\* A member seen is a stored one, and the transaction is of the profile's tenant.
LEMMA SeenMember ==
  ASSUME MembersInv, NEW c \in Connections, NEW p \in SharedProfiles,
         NEW u \in Principals, seesMember(c, p, u), ~RoleBypassesRls
  PROVE  session[c].tenant = tenantOf[p]
BY TenancyAssumption DEF seesMember, sees, MembersInv, memberOK

-----------------------------------------------------------------------------
(* The actions. *)

\* Nothing is stored, and every connection is as the pool hands it out.
LEMMA InitIInv == TenancyInit => IInv
<1> SUFFICES ASSUME TenancyInit PROVE IInv
  OBVIOUS
<1>1. MembersInv
  <2>. DEFINE first(p, u) == IF u = ownerOf[p] THEN rowOf("ACTIVE", tenantOf[p]) ELSE NoMembership
  <2>1. ASSUME NEW p \in SharedProfiles, NEW u \in Principals
        PROVE  first(p, u) \in MemberRow /\ memberOK(p, u, first(p, u))
    <3>1. NoMembership = rowOf("NONE", Unset)
      BY DEF NoMembership, rowOf
    <3>2. tenantOf[p] \in Tenants
      BY TenancyAssumption
    <3>3. CASE u = ownerOf[p]
      BY <3>2, <3>3, NewMemberRow, TenancyAssumption DEF memberOK, OwnStatus
    <3>4. CASE u # ownerOf[p]
      BY <3>1, <3>4, NewMemberRow DEF memberOK, OwnStatus
    <3>5. QED
      BY <3>3, <3>4
  <2>2. memberRows = [p \in SharedProfiles |-> [u \in Principals |-> first(p, u)]]
    BY DEF TenancyInit
  <2>. HIDE DEF first
  <2>3. QED
    BY <2>1, <2>2 DEF MembersInv
<1>2. PeriodsInv
  <2>1. <<>> \in Seq(PeriodRow) /\ DOMAIN <<>> = {}
    OBVIOUS
  <2>2. QED
    BY <2>1 DEF TenancyInit, PeriodsInv
<1>3. StampedInv
  BY TenancyAssumption DEF TenancyInit, StampedInv
<1>4. SessionInv
  <2>. DEFINE closed == [open |-> FALSE, tenant |-> Unset]
  <2>1. closed \in Session /\ closed.tenant = Unset /\ ~closed.open
    BY Zenon DEF Session
  <2>2. session = [c \in Connections |-> closed]
    BY DEF TenancyInit
  <2>. HIDE DEF closed
  <2>3. QED
    BY <2>1, <2>2 DEF SessionInv, Pooled
<1>5. DiscoveredInv
  BY DEF TenancyInit, DiscoveredInv
<1>6. QED
  BY <1>1, <1>2, <1>3, <1>4, <1>5 DEF IInv

\* A transaction sets a tenant on a connection that was not in use.
LEMMA BeginTenantIInv ==
  ASSUME IInv, NEW c \in Connections, NEW t \in Tenants, BeginTenant(c, t)
  PROVE  IInv'
<1>. DEFINE opened == [open |-> TRUE, tenant |-> t]
<1>1. opened \in Session /\ opened.tenant = t /\ opened.open
  BY Zenon DEF Session
<1>2. /\ session' = [session EXCEPT ![c] = opened]
      /\ UNCHANGED <<memberRows, periodRows, stamped, discovered>>
  BY DEF BeginTenant
<1>. HIDE DEF opened
<1>3. SessionInv'
  BY <1>1, <1>2 DEF IInv, SessionInv, Pooled
<1>4. QED
  BY <1>2, <1>3 DEF IInv, MembersInv, PeriodsInv, StampedInv, DiscoveredInv

\* The setting is local to the transaction: it goes with a rollback too.
LEMMA RollbackTenantIInv ==
  ASSUME IInv, NEW c \in Connections, RollbackTenant(c)
  PROVE  IInv'
<1>1. end(c) /\ UNCHANGED <<memberRows, periodRows, stamped, discovered>>
  BY DEF RollbackTenant
<1>2. QED
  BY <1>1, EndKeepsPooled DEF IInv, MembersInv, PeriodsInv, StampedInv, DiscoveredInv

\* An invitation belongs to the tenant of the owner's request, although the
\* member need not.
LEMMA InviteByOwnerIInv ==
  ASSUME IInv, NEW c \in Connections, NEW u \in Principals, NEW p \in SharedProfiles,
         NEW v \in Principals, InviteByOwner(c, u, p, v)
  PROVE  IInv'
<1>. DEFINE r == rowOf("INVITED", session[c].tenant)
<1>1. /\ session[c].open /\ seesMember(c, p, u)
      /\ memberRows' = [memberRows EXCEPT ![p][v] = r]
      /\ write(c, {p}) /\ end(c) /\ UNCHANGED <<periodRows, discovered>>
  BY DEF InviteByOwner, acts
<1>2. session[c].tenant \in Tenants
  BY <1>1 DEF IInv, SessionInv, Pooled
<1>3. ~RoleBypassesRls => session[c].tenant = tenantOf[p]
  BY <1>1, SeenMember DEF IInv
<1>4. r \in MemberRow /\ r.status = "INVITED" /\ r.tenant = session[c].tenant
  BY <1>2, NewMemberRow
<1>. HIDE DEF r
<1>5. MembersInv'
  <2>1. memberOK(p, v, r)
    BY <1>2, <1>3, <1>4 DEF memberOK, OwnStatus
  <2>2. QED
    BY <1>1, <1>4, <2>1, WriteMember DEF IInv
<1>6. StampedInv'
  BY <1>1, <1>3, WriteStamped DEF IInv
<1>7. SessionInv'
  BY <1>1, EndKeepsPooled DEF IInv
<1>8. QED
  BY <1>1, <1>5, <1>6, <1>7 DEF IInv, PeriodsInv, DiscoveredInv

\* A member acts in its own tenant and on a row of the transaction's tenant.
LEMMA TransitionOwnIInv ==
  ASSUME IInv, NEW c \in Connections, NEW u \in Principals, NEW p \in SharedProfiles,
         NEW status \in OwnStatus, TransitionOwn(c, u, p, status)
  PROVE  IInv'
<1>. DEFINE r == [memberRows[p][u] EXCEPT !.status = status]
<1>1. /\ session[c].open /\ tenantOf[u] = session[c].tenant /\ seesMember(c, p, u)
      /\ memberRows' = [memberRows EXCEPT ![p][u] = r]
      /\ write(c, {p}) /\ end(c) /\ UNCHANGED <<periodRows, discovered>>
  BY DEF TransitionOwn, acts
<1>2. ~RoleBypassesRls => session[c].tenant = tenantOf[p]
  BY <1>1, SeenMember DEF IInv
<1>3. /\ memberRows[p][u] \in MemberRow /\ memberOK(p, u, memberRows[p][u])
      /\ memberRows[p][u].status # "NONE"
  BY <1>1, MemberFields DEF IInv, MembersInv, seesMember
<1>4. r \in MemberRow /\ r.status = status /\ r.tenant = memberRows[p][u].tenant
  BY <1>3, StatusChange
<1>. HIDE DEF r
<1>5. MembersInv'
  <2>1. memberOK(p, u, r)
    BY <1>1, <1>2, <1>3, <1>4 DEF memberOK
  <2>2. QED
    BY <1>1, <1>4, <2>1, WriteMember DEF IInv
<1>6. StampedInv'
  BY <1>1, <1>2, WriteStamped DEF IInv
<1>7. SessionInv'
  BY <1>1, EndKeepsPooled DEF IInv
<1>8. QED
  BY <1>1, <1>5, <1>6, <1>7 DEF IInv, PeriodsInv, DiscoveredInv

\* The period that a record may open is of the transaction's tenant.
LEMMA RecordInTenantIInv ==
  ASSUME IInv, NEW c \in Connections, NEW u \in Principals, NEW p \in SharedProfiles,
         RecordInTenant(c, u, p)
  PROVE  IInv'
<1>1. /\ session[c].open /\ seesMember(c, p, u)
      /\ write(c, {p}) /\ end(c) /\ UNCHANGED <<memberRows, discovered>>
  BY DEF RecordInTenant, acts
<1>2. session[c].tenant \in Tenants
  BY <1>1 DEF IInv, SessionInv, Pooled
<1>3. ~RoleBypassesRls => session[c].tenant = tenantOf[p]
  BY <1>1, SeenMember DEF IInv
<1>4. PeriodsInv'
  <2>1. CASE UNCHANGED periodRows
    BY <2>1 DEF IInv, PeriodsInv
  <2>2. CASE periodRows' = [periodRows EXCEPT
                              ![p] = Append(@, rowOf("OPEN", session[c].tenant))]
    <3>1. PICK r : /\ r = rowOf("OPEN", session[c].tenant)
                   /\ r \in PeriodRow /\ r.tenant = session[c].tenant
      BY <1>2, NewPeriodRow
    <3>. DEFINE list == Append(periodRows[p], r)
    <3>2. /\ list \in Seq(PeriodRow)
          /\ ~RoleBypassesRls => \A i \in DOMAIN list : list[i].tenant = tenantOf[p]
      BY <1>3, <3>1 DEF IInv, PeriodsInv
    <3>3. periodRows' = [periodRows EXCEPT ![p] = list]
      BY <2>2, <3>1
    <3>. HIDE DEF list
    <3>4. QED
      BY <3>2, <3>3, WritePeriods DEF IInv
  <2>3. QED
    BY <2>1, <2>2 DEF RecordInTenant
<1>5. StampedInv'
  BY <1>1, <1>3, WriteStamped DEF IInv
<1>6. SessionInv'
  BY <1>1, EndKeepsPooled DEF IInv
<1>7. QED
  BY <1>1, <1>4, <1>5, <1>6 DEF IInv, MembersInv, DiscoveredInv

\* A deadline that passes moves no row to another tenant.
LEMMA InvitationLapsesIInv ==
  ASSUME IInv, NEW p \in SharedProfiles, NEW u \in Principals, InvitationLapses(p, u)
  PROVE  IInv'
<1>1. PICK r : /\ r = [memberRows[p][u] EXCEPT !.overdue = TRUE]
               /\ r \in MemberRow /\ r.status = memberRows[p][u].status
               /\ r.tenant = memberRows[p][u].tenant
  BY MemberFields, OverdueChange DEF IInv
<1>2. /\ memberRows' = [memberRows EXCEPT ![p][u] = r]
      /\ UNCHANGED <<periodRows, stamped, session, discovered>>
  BY <1>1 DEF InvitationLapses
<1>3. memberOK(p, u, r)
  BY <1>1 DEF IInv, MembersInv, memberOK
<1>4. QED
  BY <1>1, <1>2, <1>3, WriteMember
  DEF IInv, PeriodsInv, StampedInv, SessionInv, Pooled, DiscoveredInv

\* A period that ends moves no row to another tenant.
LEMMA PeriodEndsIInv ==
  ASSUME IInv, NEW p \in SharedProfiles, NEW i \in DOMAIN periodRows[p], PeriodEnds(p, i)
  PROVE  IInv'
<1>1. periodRows[p] \in Seq(PeriodRow) /\ periodRows[p][i] \in PeriodRow
  BY DEF IInv, PeriodsInv
<1>2. PICK r : /\ r = [periodRows[p][i] EXCEPT !.overdue = TRUE]
               /\ r \in PeriodRow /\ r.tenant = periodRows[p][i].tenant
  BY <1>1, PeriodChange
<1>. DEFINE list == [periodRows[p] EXCEPT ![i] = r]
<1>3. /\ list \in Seq(PeriodRow)
      /\ ~RoleBypassesRls => \A j \in DOMAIN list : list[j].tenant = tenantOf[p]
  BY <1>1, <1>2 DEF IInv, PeriodsInv
<1>4. /\ periodRows' = [periodRows EXCEPT ![p] = list]
      /\ UNCHANGED <<memberRows, stamped, session, discovered>>
  BY <1>2 DEF PeriodEnds
<1>. HIDE DEF list
<1>5. QED
  BY <1>3, <1>4, WritePeriods
  DEF IInv, MembersInv, StampedInv, SessionInv, Pooled, DiscoveredInv

\* A connection with no tenant set sees nothing, so that the jobs discover nothing.
LEMMA DiscoverIInv ==
  ASSUME IInv, NEW c \in Connections, NEW job \in Job, Discover(c, job)
  PROVE  IInv'
<1>1. /\ session[c].tenant = Unset
      /\ UNCHANGED <<memberRows, periodRows, stamped, session>>
  BY DEF Discover, IInv, SessionInv, Pooled
<1>. DEFINE
       found == IF job = "invitation-expiry"
                THEN {memberRows[x[1]][x[2]].tenant : x \in invitationsDue(c)}
                ELSE {t \in Tenants : \E p \in SharedProfiles : \E i \in DOMAIN periodRows[p] :
                        isEnded(c, periodRows[p][i]) /\ periodRows[p][i].tenant = t}
<1>2. discovered' = [discovered EXCEPT ![job] = @ \cup found]
  BY DEF Discover
<1>3. found \subseteq Tenants
  <2>1. ASSUME NEW x \in invitationsDue(c) PROVE memberRows[x[1]][x[2]].tenant \in Tenants
    BY DEF IInv, MembersInv, memberOK, invitationsDue, isLapsed
  <2>2. QED
    BY <2>1
<1>4. ~RoleBypassesRls => found = {}
  <2> SUFFICES ASSUME ~RoleBypassesRls PROVE found = {}
    OBVIOUS
  <2>1. invitationsDue(c) = {}
    BY <1>1 DEF invitationsDue, isLapsed, seesMember, sees
  <2>2. ASSUME NEW r PROVE ~isEnded(c, r)
    BY <1>1 DEF isEnded, sees
  <2>3. QED
    BY <2>1, <2>2
<1>. HIDE DEF found
<1>5. DiscoveredInv'
  BY <1>2, <1>3, <1>4 DEF IInv, DiscoveredInv
<1>6. QED
  BY <1>1, <1>5 DEF IInv, MembersInv, PeriodsInv, StampedInv, SessionInv, Pooled

\* A visit takes the tenant off the list.
LEMMA VisitKeepsDiscovered ==
  ASSUME DiscoveredInv, NEW c \in Connections, NEW job \in Job, visits(c, job)
  PROVE  DiscoveredInv'
BY DEF DiscoveredInv, visits

\* The job writes rows that the tenant of its connection lets it see.
LEMMA ExpireInTenantIInv ==
  ASSUME IInv, NEW c \in Connections, ExpireInTenant(c)
  PROVE  IInv'
<1>. DEFINE swept(p, u) == IF isLapsed(c, p, u)
                           THEN [memberRows[p][u] EXCEPT !.status = "EXPIRED"]
                           ELSE memberRows[p][u]
<1>1. /\ visits(c, "invitation-expiry") /\ session[c].open
      /\ memberRows' = [p \in SharedProfiles |-> [u \in Principals |-> swept(p, u)]]
      /\ write(c, {x[1] : x \in invitationsDue(c)}) /\ end(c) /\ UNCHANGED periodRows
  BY DEF ExpireInTenant, visits
<1>2. ASSUME NEW p \in SharedProfiles, NEW u \in Principals
      PROVE  swept(p, u) \in MemberRow /\ memberOK(p, u, swept(p, u))
  <2>1. memberRows[p][u] \in MemberRow /\ memberOK(p, u, memberRows[p][u])
    BY MemberFields DEF IInv, MembersInv
  <2>2. CASE isLapsed(c, p, u)
    <3>1. memberRows[p][u].status = "INVITED"
      BY <2>2 DEF isLapsed
    <3>2. QED
      BY <2>1, <2>2, <3>1, StatusChange DEF memberOK, OwnStatus
  <2>3. CASE ~isLapsed(c, p, u)
    BY <2>1, <2>3
  <2>4. QED
    BY <2>2, <2>3
<1>. HIDE DEF swept
<1>3. MembersInv'
  BY <1>1, <1>2 DEF MembersInv
<1>4. StampedInv'
  <2>1. {x[1] : x \in invitationsDue(c)} \in SUBSET SharedProfiles
    BY DEF invitationsDue
  <2>2. ASSUME ~RoleBypassesRls, NEW x \in invitationsDue(c)
        PROVE  tenantOf[x[1]] = session[c].tenant
    BY <2>2, SeenMember DEF IInv, invitationsDue, isLapsed
  <2>3. QED
    BY <1>1, <2>1, <2>2, WriteStamped DEF IInv
<1>5. SessionInv' /\ DiscoveredInv'
  BY <1>1, EndKeepsPooled, VisitKeepsDiscovered DEF IInv, Job
<1>6. QED
  BY <1>1, <1>3, <1>4, <1>5 DEF IInv, PeriodsInv

\* Periods are closed one by one, in place.
LEMMA CloseFields ==
  ASSUME NEW c \in Connections, NEW list \in Seq(PeriodRow)
  PROVE  /\ close(c, list) \in Seq(PeriodRow)
         /\ DOMAIN close(c, list) = DOMAIN list
         /\ \A i \in DOMAIN list : close(c, list)[i].tenant = list[i].tenant
<1>. DEFINE closed(i) == IF isEnded(c, list[i]) THEN [list[i] EXCEPT !.status = "CLOSED"] ELSE list[i]
<1>1. ASSUME NEW i \in DOMAIN list
      PROVE  closed(i) \in PeriodRow /\ closed(i).tenant = list[i].tenant
  <2>1. PICK r \in PeriodRow : r = list[i]
    OBVIOUS
  <2>2. [r EXCEPT !.status = "CLOSED"] \in PeriodRow /\ [r EXCEPT !.status = "CLOSED"].tenant = r.tenant
    BY PeriodChange
  <2>3. QED
    BY <2>1, <2>2
<1>2. close(c, list) = [i \in DOMAIN list |-> closed(i)]
  BY DEF close
<1>. HIDE DEF closed
<1>3. DOMAIN list = 1..Len(list) /\ Len(list) \in Nat
  OBVIOUS
<1>4. QED
  BY <1>1, <1>2, <1>3

\* The connection that opens the successor of a period sees the profile's tenant.
LEMMA RollOverInTenantIInv ==
  ASSUME IInv, NEW c \in Connections, RollOverInTenant(c)
  PROVE  IInv'
<1>. DEFINE next(p) == Append(close(c, periodRows[p]), rowOf("OPEN", session[c].tenant))
            rolled(p) == IF p \notin profilesDue(c) THEN periodRows[p]
                         ELSE IF sees(c, tenantOf[p]) THEN next(p) ELSE close(c, periodRows[p])
<1>1. /\ visits(c, "period-rollover") /\ session[c].open
      /\ periodRows' = [p \in SharedProfiles |-> rolled(p)]
      /\ write(c, profilesDue(c)) /\ end(c) /\ UNCHANGED memberRows
  BY DEF RollOverInTenant, visits
<1>2. session[c].tenant \in Tenants
  BY <1>1 DEF IInv, SessionInv, Pooled
<1>3. ASSUME NEW p \in SharedProfiles
      PROVE  /\ rolled(p) \in Seq(PeriodRow)
             /\ ~RoleBypassesRls => \A i \in DOMAIN rolled(p) : rolled(p)[i].tenant = tenantOf[p]
  <2>1. /\ periodRows[p] \in Seq(PeriodRow)
        /\ ~RoleBypassesRls =>
             \A i \in DOMAIN periodRows[p] : periodRows[p][i].tenant = tenantOf[p]
    BY DEF IInv, PeriodsInv
  <2>2. /\ close(c, periodRows[p]) \in Seq(PeriodRow)
        /\ ~RoleBypassesRls => \A i \in DOMAIN close(c, periodRows[p]) :
                                 close(c, periodRows[p])[i].tenant = tenantOf[p]
    BY <2>1, CloseFields
  <2>3. ASSUME sees(c, tenantOf[p])
        PROVE  /\ next(p) \in Seq(PeriodRow)
               /\ ~RoleBypassesRls => \A i \in DOMAIN next(p) : next(p)[i].tenant = tenantOf[p]
    <3>1. ~RoleBypassesRls => session[c].tenant = tenantOf[p]
      BY <2>3, SeenIsOwn
    <3>2. PICK r : /\ r = rowOf("OPEN", session[c].tenant)
                   /\ r \in PeriodRow /\ r.tenant = session[c].tenant
      BY <1>2, NewPeriodRow
    <3>3. PICK list : list = close(c, periodRows[p])
      OBVIOUS
    <3>4. QED
      BY <2>2, <3>1, <3>2, <3>3
  <2>. HIDE DEF next
  <2>4. QED
    BY <2>1, <2>2, <2>3
<1>. HIDE DEF rolled
<1>4. PeriodsInv'
  BY <1>1, <1>3 DEF PeriodsInv
<1>5. StampedInv'
  <2>1. profilesDue(c) \in SUBSET SharedProfiles
    BY DEF profilesDue
  <2>2. ASSUME ~RoleBypassesRls, NEW p \in profilesDue(c)
        PROVE  tenantOf[p] = session[c].tenant
    BY <2>2, SeenIsOwn DEF IInv, PeriodsInv, profilesDue, isEnded
  <2>3. QED
    BY <1>1, <2>1, <2>2, WriteStamped DEF IInv
<1>6. SessionInv' /\ DiscoveredInv'
  BY <1>1, EndKeepsPooled, VisitKeepsDiscovered DEF IInv, Job
<1>7. QED
  BY <1>1, <1>4, <1>5, <1>6 DEF IInv, MembersInv

\* One case per action.
LEMMA NextIInv == IInv /\ [TenancyNext]_tenancyVars => IInv'
<1> SUFFICES ASSUME IInv, [TenancyNext]_tenancyVars PROVE IInv'
  OBVIOUS
<1>1. ASSUME NEW c \in Connections, NEW t \in Tenants, BeginTenant(c, t) PROVE IInv'
  BY <1>1, BeginTenantIInv
<1>2. ASSUME NEW c \in Connections, RollbackTenant(c) PROVE IInv'
  BY <1>2, RollbackTenantIInv
<1>3. ASSUME NEW c \in Connections, NEW u \in Principals, NEW p \in SharedProfiles,
             NEW v \in Principals, InviteByOwner(c, u, p, v)
      PROVE  IInv'
  BY <1>3, InviteByOwnerIInv
<1>4. ASSUME NEW c \in Connections, NEW u \in Principals, NEW p \in SharedProfiles,
             NEW status \in OwnStatus, TransitionOwn(c, u, p, status)
      PROVE  IInv'
  BY <1>4, TransitionOwnIInv
<1>5. ASSUME NEW c \in Connections, NEW u \in Principals, NEW p \in SharedProfiles,
             RecordInTenant(c, u, p)
      PROVE  IInv'
  BY <1>5, RecordInTenantIInv
<1>6. ASSUME NEW c \in Connections, NEW job \in Job, Discover(c, job) PROVE IInv'
  BY <1>6, DiscoverIInv
<1>7. ASSUME NEW c \in Connections, ExpireInTenant(c) PROVE IInv'
  BY <1>7, ExpireInTenantIInv
<1>8. ASSUME NEW c \in Connections, RollOverInTenant(c) PROVE IInv'
  BY <1>8, RollOverInTenantIInv
<1>9. ASSUME NEW p \in SharedProfiles, NEW u \in Principals, InvitationLapses(p, u)
      PROVE  IInv'
  BY <1>9, InvitationLapsesIInv
<1>10. ASSUME NEW p \in SharedProfiles, NEW i \in DOMAIN periodRows[p], PeriodEnds(p, i)
       PROVE  IInv'
  BY <1>10, PeriodEndsIInv
<1>11. CASE UNCHANGED tenancyVars
  BY <1>11 DEF tenancyVars, IInv, MembersInv, PeriodsInv, StampedInv, SessionInv, Pooled,
               DiscoveredInv
<1>12. QED
  BY <1>1, <1>2, <1>3, <1>4, <1>5, <1>6, <1>7, <1>8, <1>9, <1>10, <1>11 DEF TenancyNext

-----------------------------------------------------------------------------
(* The theorems. *)

\* The invariant holds of every behaviour.
LEMMA Inductive == TenancySpec => []IInv
<1>1. TenancyInit => IInv
  BY InitIInv
<1>2. QED
  BY <1>1, NextIInv, PTL DEF TenancySpec

\* Every row, setting and list of tenants has its type; in particular, nothing is
\* written without a tenant.
THEOREM TypeCorrect == TenancySpec => []TenancyTypeOK
<1>1. IInv => TenancyTypeOK
  BY DEF IInv, MembersInv, PeriodsInv, StampedInv, SessionInv, DiscoveredInv, TenancyTypeOK
<1>2. QED
  BY <1>1, Inductive, PTL

\* For any tenants sharing any number of pooled connections: where the policies
\* bind the database role, what is written about a profile belongs to its tenant,
\* its members are of the tenant, and a query outside of withTenant finds nothing.
THEOREM TenantsAreIsolatedHolds == TenancySpec => []TenantsAreIsolated
<1>1. IInv => TenantsAreIsolated
  BY DEF IInv, MembersInv, memberOK, PeriodsInv, StampedInv, DiscoveredInv,
         TenantsAreIsolated, RowsStayInTheirTenant
<1>2. QED
  BY <1>1, Inductive, PTL

=============================================================================
