------------------------------ MODULE Ownership ------------------------------
(***************************************************************************)
(* What the profiles module promises about who governs a shared profile,   *)
(* without roles, versions, deadlines or events: once founded, a profile   *)
(* has one owner, named in one place; only that owner nominates a          *)
(* successor and closes the profile; ownership moves only to a nominated   *)
(* member; an owner does not leave; who is out stays out.                  *)
(* Profiles.tla is shown to implement this specification.                  *)
(***************************************************************************)
CONSTANTS
  User,      \* the people who can be members
  NoOwner    \* the owner of a profile that is not founded yet

VARIABLES
  owner,      \* the one member in charge
  standing,   \* what each user is to the profile
  nominated,  \* the members who may take the ownership over
  closed      \* the profile is archived

ownershipVars == <<owner, standing, nominated, closed>>

Standing == {"outside", "invited", "member", "gone"}

OwnershipInit ==
  /\ owner = NoOwner
  /\ standing = [u \in User |-> "outside"]
  /\ nominated = {}
  /\ closed = FALSE

Found(u) ==
  /\ owner = NoOwner
  /\ owner' = u
  /\ standing' = [standing EXCEPT ![u] = "member"]
  /\ UNCHANGED <<nominated, closed>>

Invite(u) ==
  /\ owner # NoOwner /\ ~closed
  /\ standing[u] = "outside"
  /\ standing' = [standing EXCEPT ![u] = "invited"]
  /\ UNCHANGED <<owner, nominated, closed>>

Join(u) ==
  /\ standing[u] = "invited"
  /\ standing' = [standing EXCEPT ![u] = "member"]
  /\ UNCHANGED <<owner, nominated, closed>>

\* Invitations that come to nothing; the expiry sweep ends several at once.
Lapse(S) ==
  /\ \A u \in S : standing[u] = "invited"
  /\ standing' = [u \in User |-> IF u \in S THEN "gone" ELSE standing[u]]
  /\ UNCHANGED <<owner, nominated, closed>>

Depart(u) ==
  /\ standing[u] = "member" /\ u # owner
  /\ standing' = [standing EXCEPT ![u] = "gone"]
  /\ UNCHANGED <<owner, nominated, closed>>

Nominate(actor, u) ==
  /\ actor = owner
  /\ standing[u] = "member" /\ u # owner
  /\ nominated' = nominated \cup {u}
  /\ UNCHANGED <<owner, standing, closed>>

TakeOver(u) ==
  /\ u \in nominated /\ standing[u] = "member" /\ u # owner
  /\ owner' = u
  /\ nominated' = nominated \ {u}
  /\ UNCHANGED <<standing, closed>>

Close(actor) ==
  /\ actor = owner /\ ~closed
  /\ \A u \in User : standing[u] = "member" => u = owner
  /\ closed' = TRUE
  /\ UNCHANGED <<owner, standing, nominated>>

OwnershipNext ==
  \/ \E u \in User :
       Found(u) \/ Invite(u) \/ Join(u) \/ Depart(u) \/ TakeOver(u) \/ Close(u)
  \/ \E actor, u \in User : Nominate(actor, u)
  \/ \E S \in SUBSET User : Lapse(S)

OwnershipSpec == OwnershipInit /\ [][OwnershipNext]_ownershipVars

=============================================================================
