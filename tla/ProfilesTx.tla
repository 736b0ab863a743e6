----------------------------- MODULE ProfilesTx -----------------------------
(***************************************************************************)
(* The governance use cases at the grain of the database.  withTenant runs *)
(* a use case in one interactive transaction at PostgreSQL's default       *)
(* isolation, READ COMMITTED: every read sees what is committed when the   *)
(* read runs, no read locks a row, and the writes become visible together  *)
(* at the commit.  Here a worker (a request or the expiry job) begins a    *)
(* command with its first read, performs the other reads one by one, and   *)
(* commits; it may be rolled back at any moment.                           *)
(*                                                                         *)
(* Writes are applied at the commit: row locks are held from the first     *)
(* write to the commit, a delta names constant values for the fields it    *)
(* writes, and the WHERE clauses of the guarded updates are re-evaluated   *)
(* on the row as last committed, so no other transaction can tell the      *)
(* writes of one apart.                                                    *)
(***************************************************************************)
EXTENDS Profiles, Sequences

CONSTANTS
  Workers,    \* requests and jobs in flight at the same time
  Commands,   \* the commands that are issued
  Grants      \* the roles an invitation or a role change asks for

CommandName ==
  {"inviteMember", "acceptInvitation", "declineInvitation", "leaveProfile",
   "changeMemberRole", "nominateOwner", "acceptOwnership", "archiveProfile",
   "expirySweep"}

ASSUME ProfilesTxAssumption ==
  /\ Commands \subseteq CommandName
  /\ Grants \subseteq MemberRole \ {"OWNER"}

VARIABLES
  tx,       \* the command each worker is executing
  founder   \* history, in no guard: who created the profile

stored == vars
txVars == <<stored, tx, founder>>

Idle == [cmd |-> "idle"]

\* actor: the caller; target: the membership acted on; role and version: the
\* arguments of the command; rows: what the job's query returned; read: how
\* many of the reads are done.
Tx == [cmd: CommandName, actor: Users \cup {Nobody}, target: Users \cup {Nobody},
       role: MemberRole, version: 0..MaxVersion, rows: SUBSET Users, read: 1..3]

TxTypeOK ==
  /\ TypeOK
  /\ tx \in [Workers -> Tx \cup {Idle}]
  /\ founder \in Users \cup {Nobody}

TxInit == Init /\ tx = [w \in Workers |-> Idle] /\ founder = Nobody

-----------------------------------------------------------------------------
(* Reads: their order in each use case, and what a read must find for the  *)
(* command to go on.                                                       *)

readsOf(cmd) ==
  CASE cmd = "inviteMember" -> <<"actor", "profile", "absent">>
    [] cmd = "changeMemberRole" -> <<"target", "actor", "profile">>
    [] cmd = "nominateOwner" -> <<"actor", "target">>
    [] cmd = "acceptOwnership" -> <<"target", "owner">>
    [] cmd = "archiveProfile" -> <<"actor", "profile", "alone">>
    [] OTHER -> <<"target">>

capabilityOf(cmd) ==
  CASE cmd = "inviteMember" -> "INVITE_MEMBER"
    [] cmd = "changeMemberRole" -> "CHANGE_MEMBER_ROLE"
    [] cmd = "nominateOwner" -> "NOMINATE_OWNER"
    [] OTHER -> "ARCHIVE_PROFILE"

targetAllows(t) ==
  CASE t.cmd = "acceptInvitation" -> canAccept(members[t.target], t.target \in overdue)
    [] t.cmd = "declineInvitation" -> canDecline(members[t.target])
    [] t.cmd = "leaveProfile" -> canLeave(members[t.target])
    [] t.cmd = "changeMemberRole" -> canChangeRole(members[t.target], t.role)
    [] t.cmd = "nominateOwner" -> canBeNominated(members[t.target])
    [] t.cmd = "acceptOwnership" -> canAcceptOwnership(members[t.target])
    [] t.cmd = "expirySweep" -> t.rows # {}

\* The actor of acceptOwnership is the current owner the second read finds.
readSucceeds(t, read) ==
  CASE read = "actor" -> requireCapability(members[t.actor], capabilityOf(t.cmd))
    [] read = "target" -> targetAllows(t)
    [] read = "profile" -> isWritable
    [] read = "absent" -> members[t.target].status \in TERMINAL \cup {"NONE"}
    [] read = "alone" -> atMostOneActiveMember
    [] read = "owner" -> isActiveOwner(members[t.actor])

isDecided(t) == t.read = Len(readsOf(t.cmd))

\* A worker picks up a command that its first read does not reject.
Begin(w, cmd, actor, target, role, version, rows) ==
  LET t == [cmd |-> cmd, actor |-> actor, target |-> target, role |-> role,
            version |-> version, rows |-> rows, read |-> 1]
  IN  /\ tx[w] = Idle
      /\ cmd \in Commands
      /\ readSucceeds(t, readsOf(cmd)[1])
      /\ tx' = [tx EXCEPT ![w] = t]
      /\ UNCHANGED stored

Read(w) ==
  LET t == tx[w]
  IN  /\ t # Idle
      /\ ~isDecided(t)
      /\ \E u \in Users :
           LET found == IF readsOf(t.cmd)[t.read + 1] = "owner"
                        THEN [t EXCEPT !.actor = u] ELSE t
           IN  /\ readSucceeds(found, readsOf(t.cmd)[t.read + 1])
               /\ tx' = [tx EXCEPT ![w] = [found EXCEPT !.read = @ + 1]]
      /\ UNCHANGED stored

\* The command is rejected by a later read, fails, or its process dies:
\* nothing is written.
Rollback(w) ==
  /\ tx[w] # Idle
  /\ tx' = [tx EXCEPT ![w] = Idle]
  /\ UNCHANGED stored

-----------------------------------------------------------------------------
(* Writes. *)

\* The plain update of one row by a status, and its event.
applyStatus(t, status, type) ==
  /\ members' = [members EXCEPT ![t.target] = withStatus(@, status)]
  /\ announced' = {Event(type, t.target, t.target, Nobody)}
  /\ UNCHANGED <<profile, overdue, nominations>>

\* The insert fails on the unique index if the user has a row by now.
writeInvite(t) ==
  /\ members[t.target] = NoRow
  /\ members' = [members EXCEPT ![t.target] = NewRow("INVITED", t.role)]
  /\ announced' = {Event("MemberInvited", t.actor, t.target, Nobody)}
  /\ UNCHANGED <<profile, overdue, nominations>>

\* UPDATE ... WHERE version = expectedVersion; no row is a CONFLICT.
writeRole(t) ==
  /\ members[t.target].version = t.version
  /\ members[t.target].version < MaxVersion
  /\ members' = [members EXCEPT ![t.target] = withRole(@, t.role)]
  /\ announced' = {Event("MemberRoleChanged", t.actor, t.target, Nobody)}
  /\ UNCHANGED <<profile, overdue, nominations>>

writeNomination(t) ==
  /\ members' = [members EXCEPT ![t.target] = withNomination(@)]
  /\ nominations' = nominations \cup {<<t.actor, t.target>>}
  /\ announced' = {Event("OwnerNominated", t.actor, t.target, Nobody)}
  /\ UNCHANGED <<profile, overdue>>

writeTransfer(t) ==
  /\ LET promoted == [members EXCEPT ![t.target] = asNewOwner(@)]
     IN  members' = [promoted EXCEPT ![t.actor] = asOutgoingOwner(@)]
  /\ profile' = [profile EXCEPT !.ownerMembershipId = t.target]
  /\ announced' = {Event("OwnershipTransferred", t.target, t.target, t.actor)}
  /\ UNCHANGED <<overdue, nominations>>

writeArchive(t) ==
  /\ profile' = [profile EXCEPT !.status = "ARCHIVED"]
  /\ announced' = {Event("ProfileArchived", t.actor, t.actor, Nobody)}
  /\ UNCHANGED <<members, overdue, nominations>>

\* Faulty: the update does not look at the status again.
stillInvitedWhenRead(rows) == rows

\* The rows of the query that are still INVITED when their update runs.
stillInvited(rows) == {u \in rows : members[u].status = "INVITED"}

writeExpiry(t) ==
  /\ stillInvited(t.rows) # {}
  /\ members' = [u \in Users |-> IF u \in stillInvited(t.rows)
                                 THEN withStatus(members[u], "EXPIRED") ELSE members[u]]
  /\ announced' = {Event("InvitationExpired", Nobody, u, Nobody) : u \in stillInvited(t.rows)}
  /\ UNCHANGED <<profile, overdue, nominations>>

writes(t) ==
  CASE t.cmd = "inviteMember" -> writeInvite(t)
    [] t.cmd = "acceptInvitation" -> applyStatus(t, "ACTIVE", "InvitationAccepted")
    [] t.cmd = "declineInvitation" -> applyStatus(t, "DECLINED", "InvitationDeclined")
    [] t.cmd = "leaveProfile" -> applyStatus(t, "LEFT", "MemberLeft")
    [] t.cmd = "changeMemberRole" -> writeRole(t)
    [] t.cmd = "nominateOwner" -> writeNomination(t)
    [] t.cmd = "acceptOwnership" -> writeTransfer(t)
    [] t.cmd = "archiveProfile" -> writeArchive(t)
    [] t.cmd = "expirySweep" -> writeExpiry(t)

Commit(w) ==
  /\ tx[w] # Idle
  /\ isDecided(tx[w])
  /\ writes(tx[w])
  /\ tx' = [tx EXCEPT ![w] = Idle]

-----------------------------------------------------------------------------
BeginSome(w) ==
  \E u \in Users :
    \/ \E cmd \in {"acceptInvitation", "declineInvitation", "leaveProfile", "archiveProfile"} :
         Begin(w, cmd, u, u, "VIEWER", 0, {})
    \/ Begin(w, "acceptOwnership", Nobody, u, "VIEWER", 0, {})
    \/ \E target \in Users :
         \/ Begin(w, "nominateOwner", u, target, "VIEWER", 0, {})
         \/ \E role \in Grants :
              \/ Begin(w, "inviteMember", u, target, role, 0, {})
              \/ \E v \in 0..MaxVersion :
                   Begin(w, "changeMemberRole", u, target, role, v, {})

BeginSweep(w) ==
  JobBypassesRls /\ Begin(w, "expirySweep", Nobody, Nobody, "VIEWER", 0, due)

TxNext ==
  \/ /\ \E w \in Workers :
          BeginSome(w) \/ BeginSweep(w) \/ Read(w) \/ Commit(w) \/ Rollback(w)
     /\ UNCHANGED founder
  \/ \E u \in Users : CreateSharedProfile(u) /\ UNCHANGED tx /\ founder' = u
  \/ \E u \in Users : InvitationDeadlinePasses(u) /\ UNCHANGED <<tx, founder>>

TxSpec == TxInit /\ [][TxNext]_txVars

-----------------------------------------------------------------------------
(* Properties. *)

\* One command at a time, the transactions do what the atomic use cases of
\* Profiles do.  An acceptance was decided by the clock of its read: while it is
\* in flight, and once it is in, its deadline counts as not passed.
acceptsInFlight ==
  {tx[w].target : w \in {v \in Workers : tx[v].cmd = "acceptInvitation"}}

Atomic == INSTANCE Profiles WITH
  overdue <- {u \in overdue \ acceptsInFlight : members[u].status \notin {"ACTIVE", "LEFT"}}

ImplementsProfiles == Atomic!Spec

\* The sweep re-checks the status it read, so it never throws out a member whose
\* acceptance was committed after the sweep's query, and it announces exactly
\* the invitations it ended.
SweepIsSafe ==
  [][\A u \in Users :
       /\ members'[u].status = "EXPIRED" => members[u].status \in {"INVITED", "EXPIRED"}
       /\ Event("InvitationExpired", Nobody, u, Nobody) \in announced' \ announced =>
            members[u].status = "INVITED" /\ members'[u].status = "EXPIRED"]_txVars

\* However commands interleave, nobody takes a profile over without a nomination
\* in the audit trail: the one OWNER row without is the founder's, and then the
\* profile was never transferred, it points to the founder and has no other owner.
OwnersWereNominated ==
  \A u \in Users :
    members[u].role = "OWNER" =>
      \/ \E actor \in Users : <<actor, u>> \in nominations
      \/ /\ founder = u
         /\ profile.ownerMembershipId = u
         /\ \A v \in Users \ {u} : members[v].role # "OWNER"

\* membership.ts: an accepted transfer "preserves the single-owner invariant -
\* exactly one OWNER before and after".
AtMostOneOwner ==
  \A u, v \in Users : isActiveOwner(members[u]) /\ isActiveOwner(members[v]) => u = v

\* membership.ts: a role change "cannot target the OWNER membership (ownership
\* moves only via the nominate-and-accept flow, FR-007b)".
OwnerRoleMovesByTransfer ==
  [][\A u \in Users :
       members[u].role = "OWNER" /\ members'[u].role # "OWNER" =>
         \E e \in announced' : e.type = "OwnershipTransferred"]_txVars

\* FR-005: "A shared profile has exactly one owner at any time".
SomeOwner == isFounded => \E u \in Users : isActiveOwner(members[u])

\* shared-profile.ts: archiving is "permitted only for the OWNER and only when
\* they are the sole ACTIVE member".
ArchivedAlone ==
  [][profile.status = "ACTIVE" /\ profile'.status = "ARCHIVED" =>
       atMostOneActiveMember]_txVars

=============================================================================
