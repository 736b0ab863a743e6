------------------------------- MODULE Tenancy -------------------------------
(***************************************************************************)
(* Several tenants in one database.  withTenant opens a transaction on a   *)
(* pooled connection and sets app.tenant_id for that transaction only; the *)
(* policies of the migration show a statement the rows of that tenant, and *)
(* none where it is not set.  The jobs first ask, outside of withTenant,   *)
(* which tenants have work.  No query names a tenant itself, so that under *)
(* a role that bypasses the policies every statement sees every row.       *)
(*                                                                         *)
(* A transaction is two steps here, its begin and its work with the        *)
(* commit; how transactions interleave is the subject of the Tx modules.   *)
(***************************************************************************)
EXTENDS Naturals, Sequences

CONSTANTS
  Tenants, Unset,      \* a setting that is not there
  SharedProfiles, Principals,
  tenantOf,            \* of a profile or a principal
  ownerOf,             \* the member that created the profile
  Connections,
  RoleBypassesRls,     \* the database role is a superuser
  MaxOpened            \* model bound: periods of a profile

ASSUME TenancyAssumption ==
  /\ Unset \notin Tenants
  /\ tenantOf \in [SharedProfiles \cup Principals -> Tenants]
  /\ ownerOf \in [SharedProfiles -> Principals]
  /\ \A p \in SharedProfiles : tenantOf[ownerOf[p]] = tenantOf[p]
  /\ RoleBypassesRls \in BOOLEAN
  /\ MaxOpened \in Nat

VARIABLES
  memberRows,  \* the membership of a principal in a profile
  periodRows,  \* the periods of a profile, oldest first
  stamped,     \* of events, audit entries and records: profile and tenant
  session,     \* the connections of the pool
  discovered   \* by each job: the tenants it has still to visit

tenancyVars == <<memberRows, periodRows, stamped, session, discovered>>

Job == {"invitation-expiry", "period-rollover"}
OwnStatus == {"ACTIVE", "DECLINED", "LEFT"}

MemberRow == [status : OwnStatus \cup {"NONE", "INVITED", "EXPIRED"},
              tenant : Tenants \cup {Unset}, overdue : BOOLEAN]
PeriodRow == [status : {"OPEN", "CLOSED"}, tenant : Tenants, overdue : BOOLEAN]
Session == [open : BOOLEAN, tenant : Tenants \cup {Unset}]

TenancyTypeOK ==
  /\ memberRows \in [SharedProfiles -> [Principals -> MemberRow]]
  /\ periodRows \in [SharedProfiles -> Seq(PeriodRow)]
  /\ stamped \subseteq [profile : SharedProfiles, tenant : Tenants]
  /\ session \in [Connections -> Session]
  /\ discovered \in [Job -> SUBSET Tenants]

NoMembership == [status |-> "NONE", tenant |-> Unset, overdue |-> FALSE]
rowOf(status, tenant) == [status |-> status, tenant |-> tenant, overdue |-> FALSE]

\* Profiles with their owners, as createSharedProfile leaves them.
TenancyInit ==
  /\ memberRows = [p \in SharedProfiles |-> [u \in Principals |->
                     IF u = ownerOf[p] THEN rowOf("ACTIVE", tenantOf[p]) ELSE NoMembership]]
  /\ periodRows = [p \in SharedProfiles |-> <<>>]
  /\ stamped = {[profile |-> p, tenant |-> tenantOf[p]] : p \in SharedProfiles}
  /\ session = [c \in Connections |-> [open |-> FALSE, tenant |-> Unset]]
  /\ discovered = [job \in Job |-> {}]

-----------------------------------------------------------------------------
(* Connections and policies. *)

\* The policy of every table with a tenantId.
sees(c, tenant) == RoleBypassesRls \/ (tenant = session[c].tenant /\ tenant # Unset)

seesMember(c, p, u) ==
  memberRows[p][u].status # "NONE" /\ sees(c, memberRows[p][u].tenant)

\* Of a request: the principal that the handler runs for is the session's.
acts(c, u) == session[c].open /\ tenantOf[u] = session[c].tenant

BeginTenant(c, t) ==
  /\ ~session[c].open
  /\ session' = [session EXCEPT ![c] = [open |-> TRUE, tenant |-> t]]
  /\ UNCHANGED <<memberRows, periodRows, stamped, discovered>>

\* Faulty: the setting is the session's, and stays with the connection.
endKeepingSetting(c) == session' = [session EXCEPT ![c].open = FALSE]

\* Commit or rollback: the setting was the transaction's.
end(c) == session' = [session EXCEPT ![c] = [open |-> FALSE, tenant |-> Unset]]

\* An error, a refusal, or a row that was not found.
RollbackTenant(c) ==
  /\ session[c].open
  /\ end(c)
  /\ UNCHANGED <<memberRows, periodRows, stamped, discovered>>

\* Every insert carries the tenant that withTenant was given, which the
\* policies' WITH CHECK compares with the setting.
write(c, ps) ==
  stamped' = stamped \cup {[profile |-> p, tenant |-> session[c].tenant] : p \in ps}

-----------------------------------------------------------------------------
(* Requests.  Members are invited as viewers, who may not invite. *)

\* The invited user is not looked up.  The foreign key accepts a user of any
\* tenant, and the unique key knows the rows that a policy hides.
InviteByOwner(c, u, p, v) ==
  /\ acts(c, u) /\ u = ownerOf[p]
  /\ seesMember(c, p, u) /\ memberRows[p][u].status = "ACTIVE" /\ sees(c, tenantOf[p])
  /\ memberRows[p][v].status = "NONE"
  /\ memberRows' = [memberRows EXCEPT ![p][v] = rowOf("INVITED", session[c].tenant)]
  /\ write(c, {p}) /\ end(c)
  /\ UNCHANGED <<periodRows, discovered>>

canBecome(r, status) ==
  \/ status = "ACTIVE" /\ r.status = "INVITED" /\ ~r.overdue
  \/ status = "DECLINED" /\ r.status = "INVITED"
  \/ status = "LEFT" /\ r.status = "ACTIVE"

\* Owners stay.
TransitionOwn(c, u, p, status) ==
  /\ acts(c, u) /\ u # ownerOf[p]
  /\ seesMember(c, p, u) /\ canBecome(memberRows[p][u], status)
  /\ memberRows' = [memberRows EXCEPT ![p][u].status = status]
  /\ write(c, {p}) /\ end(c)
  /\ UNCHANGED <<periodRows, discovered>>

hasOpen(c, p) ==
  \E i \in DOMAIN periodRows[p] :
    periodRows[p][i].status = "OPEN" /\ sees(c, periodRows[p][i].tenant)

\* ensureOpenPeriod, then the record.
RecordInTenant(c, u, p) ==
  /\ acts(c, u)
  /\ seesMember(c, p, u) /\ memberRows[p][u].status = "ACTIVE" /\ sees(c, tenantOf[p])
  /\ IF hasOpen(c, p) THEN UNCHANGED periodRows
     ELSE /\ Len(periodRows[p]) < MaxOpened
          /\ periodRows' = [periodRows EXCEPT ![p] = Append(@, rowOf("OPEN", session[c].tenant))]
  /\ write(c, {p}) /\ end(c)
  /\ UNCHANGED <<memberRows, discovered>>

-----------------------------------------------------------------------------
(* Time and the jobs. *)

InvitationLapses(p, u) ==
  /\ memberRows[p][u].status = "INVITED" /\ ~memberRows[p][u].overdue
  /\ memberRows' = [memberRows EXCEPT ![p][u].overdue = TRUE]
  /\ UNCHANGED <<periodRows, stamped, session, discovered>>

PeriodEnds(p, i) ==
  /\ periodRows[p][i].status = "OPEN" /\ ~periodRows[p][i].overdue
  /\ periodRows' = [periodRows EXCEPT ![p][i].overdue = TRUE]
  /\ UNCHANGED <<memberRows, stamped, session, discovered>>

isLapsed(c, p, u) ==
  memberRows[p][u].status = "INVITED" /\ memberRows[p][u].overdue /\ seesMember(c, p, u)

isEnded(c, r) == r.status = "OPEN" /\ r.overdue /\ sees(c, r.tenant)

invitationsDue(c) == {x \in SharedProfiles \X Principals : isLapsed(c, x[1], x[2])}
profilesDue(c) ==
  {p \in SharedProfiles : \E i \in DOMAIN periodRows[p] : isEnded(c, periodRows[p][i])}

\* A query on a connection where no tenant is set.
Discover(c, job) ==
  /\ ~session[c].open
  /\ discovered' = [discovered EXCEPT ![job] = @ \cup
       IF job = "invitation-expiry"
       THEN {memberRows[x[1]][x[2]].tenant : x \in invitationsDue(c)}
       ELSE {t \in Tenants : \E p \in SharedProfiles : \E i \in DOMAIN periodRows[p] :
               isEnded(c, periodRows[p][i]) /\ periodRows[p][i].tenant = t}]
  /\ UNCHANGED <<memberRows, periodRows, stamped, session>>

\* The jobs visit the tenants they discovered.  The integration tests (us3-rollover,
\* us1-lifecycle), whose role the policies bind, call a tenant's sweep directly.
visits(c, job) ==
  /\ session[c].open
  /\ session[c].tenant \in discovered[job] \/ ~RoleBypassesRls
  /\ discovered' = [discovered EXCEPT ![job] = @ \ {session[c].tenant}]

\* runForTenant: the rows due are those the connection sees.
ExpireInTenant(c) ==
  /\ visits(c, "invitation-expiry")
  /\ memberRows' = [p \in SharedProfiles |-> [u \in Principals |->
       IF isLapsed(c, p, u) THEN [memberRows[p][u] EXCEPT !.status = "EXPIRED"]
       ELSE memberRows[p][u]]]
  /\ write(c, {x[1] : x \in invitationsDue(c)}) /\ end(c)
  /\ UNCHANGED periodRows

close(c, list) ==
  [i \in DOMAIN list |->
     IF isEnded(c, list[i]) THEN [list[i] EXCEPT !.status = "CLOSED"] ELSE list[i]]

\* rolloverForTenant: likewise, and the successors are the tenant's.
RollOverInTenant(c) ==
  /\ visits(c, "period-rollover")
  /\ \A p \in profilesDue(c) : Len(periodRows[p]) < MaxOpened
  /\ periodRows' = [p \in SharedProfiles |->
       IF p \notin profilesDue(c) THEN periodRows[p]
       ELSE IF sees(c, tenantOf[p])
            THEN Append(close(c, periodRows[p]), rowOf("OPEN", session[c].tenant))
            ELSE close(c, periodRows[p])]
  /\ write(c, profilesDue(c)) /\ end(c)
  /\ UNCHANGED memberRows

TenancyNext ==
  \/ \E c \in Connections :
       \/ \E t \in Tenants : BeginTenant(c, t)
       \/ RollbackTenant(c)
       \/ \E u \in Principals, p \in SharedProfiles :
            \/ \E v \in Principals : InviteByOwner(c, u, p, v)
            \/ \E status \in OwnStatus : TransitionOwn(c, u, p, status)
            \/ RecordInTenant(c, u, p)
       \/ \E job \in Job : Discover(c, job)
       \/ ExpireInTenant(c)
       \/ RollOverInTenant(c)
  \/ \E p \in SharedProfiles :
       \/ \E u \in Principals : InvitationLapses(p, u)
       \/ \E i \in DOMAIN periodRows[p] : PeriodEnds(p, i)

TenancySpec == TenancyInit /\ [][TenancyNext]_tenancyVars

-----------------------------------------------------------------------------
(* Properties. *)

\* Whatever is written about a profile belongs to the profile's tenant:
\* "Tenant-scoped auto-rollover sweep", "RLS-safe per-tenant sweep".
RowsStayInTheirTenant ==
  \A p \in SharedProfiles :
    /\ \A u \in Principals : memberRows[p][u].tenant \in {tenantOf[p], Unset}
    /\ \A i \in DOMAIN periodRows[p] : periodRows[p][i].tenant = tenantOf[p]
    /\ \A s \in stamped : s.profile = p => s.tenant = tenantOf[p]

\* Where the policies bind the role, this holds of every write, although no
\* query names a tenant and connections pass from one tenant to the next; no
\* principal of another tenant gets into a profile, though it may be invited;
\* and a query outside of withTenant finds nothing ("default-deny"), which is
\* why the jobs then find nothing to do.
TenantsAreIsolated ==
  ~RoleBypassesRls =>
    /\ RowsStayInTheirTenant
    /\ \A p \in SharedProfiles, u \in Principals :
         memberRows[p][u].status \in OwnStatus => tenantOf[u] = tenantOf[p]
    /\ \A job \in Job : discovered[job] = {}

\* data-model.md: "cross-tenant references forbidden (RLS)".
ReferencesStayInTheTenant ==
  \A p \in SharedProfiles, u \in Principals :
    memberRows[p][u].status # "NONE" => tenantOf[u] = tenantOf[p]

\* The sweeps' part in it: while nobody was invited into another tenant.
SweepsStayInTheirTenant == ReferencesStayInTheTenant => RowsStayInTheirTenant

=============================================================================
