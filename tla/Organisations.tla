--------------------------- MODULE Organisations ---------------------------
(***************************************************************************)
(* Tenants of the platform and who may do what in them: organisations,     *)
(* invites and role permissions (orgs.service.ts, rbac.service.ts,         *)
(* permissions.ts) and the log-in that accepts invites (auth.service.ts).  *)
(*                                                                         *)
(* A user is a phone number.  A token is a signed copy of phone, role and  *)
(* organisation; requests are checked against the copy, never against the  *)
(* membership.  Operations with one write are one step, the check of the   *)
(* permissions included; the others are split at their awaits.             *)
(***************************************************************************)
EXTENDS Naturals, FiniteSets

CONSTANTS
  Phones,
  Staff,        \* phones that may be given the platform role
  Orgs,
  Calls,        \* concurrent requests of the API that take several steps
  Ceiling,      \* ROLE_CEILINGS: the permissions of each role, at most
  MaxInvites,   \* bound on the invites sent
  MaxCrashes,   \* bound on the requests that end half-way
  NoOrg,
  Unset         \* no row in the table

Roles == DOMAIN Ceiling
Permissions == UNION {Ceiling[r] : r \in Roles}

ASSUME OrganisationsAssumption ==
  /\ IsFiniteSet(Orgs) /\ NoOrg \notin Orgs
  /\ Staff \subseteq Phones
  /\ {"org_admin", "driver"} \subseteq Roles /\ Unset \notin Roles
  /\ {MaxInvites, MaxCrashes} \subseteq Nat

VARIABLES
  orgs,        \* organizations
  stored,      \* organization_role_permissions
  member,      \* organization_members: the role of a phone
  invite,      \* organization_invites, one per organisation and phone
  admins,      \* users with the platform role
  tokens,      \* the tokens that were signed; none is ever withdrawn
  call,        \* the requests in progress
  sent,        \* invites sent so far
  crashes,
  offered,     \* every <<organisation, phone, role>> of an invite
  overtaken,   \* <<organisation, phone>> whose invite was replaced while it was accepted
  configured   \* what was last asked for each role of an organisation

invites == <<invite, sent, offered, overtaken>>
permissions == <<stored, configured>>
vars == <<orgs, permissions, member, invites, admins, tokens, call, crashes>>

Invite == [state : {"none", "pending", "accepted", "expired"}, role : Roles]

Token == [phone : Phones, role : Roles \cup {"platform_admin"}, org : Orgs \cup {NoOrg}]

Offer == [org : Orgs, role : Roles]

Idle == [pc |-> "idle"]

(* seen is the memberships that a log-in read, todo the invites that it has  *)
(* found and not accepted yet, now the one that is being accepted.           *)
Call ==
  {Idle}
    \cup [pc : {"seed", "firstInvite"}, phone : Phones, org : Orgs]
    \cup [pc : {"find"}, phone : Phones, seen : SUBSET Offer, admin : BOOLEAN]
    \cup [pc : {"accept"}, phone : Phones, todo : SUBSET Offer]
    \cup [pc : {"mark", "join"}, phone : Phones, todo : SUBSET Offer, now : Offer]

TypeOK ==
  /\ orgs \subseteq Orgs
  /\ \A o \in Orgs, r \in Roles :
       /\ stored[o][r] \in (SUBSET Ceiling[r]) \cup {Unset}
       /\ configured[o][r] \in (SUBSET Ceiling[r]) \cup {Unset}
  /\ member \in [Orgs -> [Phones -> Roles \cup {Unset}]]
  /\ invite \in [Orgs -> [Phones -> Invite]]
  /\ admins \subseteq Staff
  /\ tokens \subseteq Token
  /\ call \in [Calls -> Call]
  /\ sent \in 0..MaxInvites
  /\ crashes \in 0..MaxCrashes
  /\ offered \subseteq Orgs \X Phones \X Roles
  /\ overtaken \subseteq Orgs \X Phones

NoRows == [o \in Orgs |-> [r \in Roles |-> Unset]]

Init ==
  /\ orgs = {} /\ admins = {} /\ tokens = {}
  /\ stored = NoRows /\ configured = NoRows
  /\ member = [o \in Orgs |-> [ph \in Phones |-> Unset]]
  /\ invite = [o \in Orgs |-> [ph \in Phones |-> [state |-> "none", role |-> "driver"]]]
  /\ call = [c \in Calls |-> Idle]
  /\ sent = 0 /\ crashes = 0
  /\ offered = {} /\ overtaken = {}
-----------------------------------------------------------------------------
Begin(c, step) == call[c] = Idle /\ call' = [call EXCEPT ![c] = step]

Continue(c, pc, step) == call[c].pc = pc /\ call' = [call EXCEPT ![c] = step]

MayManage(t, o) ==
  t.role = "platform_admin" \/ (t.role = "org_admin" /\ t.org = o)

ClampNothing(r, requested) == requested

(* What is stored can be above the ceiling of a later version: it is cut.    *)
Clamp(r, requested) == requested \cap Ceiling[r]

Effective(o, r) ==
  IF stored[o][r] = Unset THEN Ceiling[r] ELSE Clamp(r, stored[o][r])

(* resolvePermissions; the platform role has every one that is asked here.   *)
Resolved(t) ==
  IF t.role = "platform_admin" THEN Permissions ELSE Effective(t.org, t.role)

(* createSuperAdmins, with the bootstrap secret.                             *)
MakeAdmin(ph) ==
  /\ admins' = admins \cup {ph}
  /\ UNCHANGED <<orgs, permissions, member, invites, tokens, call, crashes>>

(* The slug is unique: the second of two requests finds the row or is        *)
(* refused by the index.                                                     *)
CreateOrg(c, t, o, owner) ==
  /\ t.role = "platform_admin"
  /\ o \notin orgs
  /\ orgs' = orgs \cup {o}
  /\ Begin(c, [pc |-> "seed", phone |-> owner, org |-> o])
  /\ UNCHANGED <<permissions, member, invites, admins, tokens, crashes>>

SeedAlways(row, r) == Ceiling[r]

SeedRow(row, r) == IF row = Unset THEN Ceiling[r] ELSE row

Seed(c) ==
  /\ Continue(c, "seed", [call[c] EXCEPT !.pc = "firstInvite"])
  /\ stored' = [stored EXCEPT ![call[c].org] = [r \in Roles |-> SeedRow(@[r], r)]]
  /\ UNCHANGED <<orgs, configured, member, invites, admins, tokens, crashes>>

(* A request that holds the invite of ph in o as it was read.                *)
Holds(c, o, ph) ==
  /\ call[c].pc \in {"accept", "mark", "join"}
  /\ call[c].phone = ph
  /\ \/ \E i \in call[c].todo : i.org = o
     \/ call[c].pc # "accept" /\ call[c].now.org = o

PutInvite(o, ph, r) ==
  /\ sent < MaxInvites
  /\ sent' = sent + 1
  /\ invite' = [invite EXCEPT ![o][ph] = [state |-> "pending", role |-> r]]
  /\ offered' = offered \cup {<<o, ph, r>>}
  /\ overtaken' = IF \E c \in Calls : Holds(c, o, ph)
                    THEN overtaken \cup {<<o, ph>>}
                    ELSE overtaken \ {<<o, ph>>}

FirstInvite(c) ==
  /\ Continue(c, "firstInvite", Idle)
  /\ PutInvite(call[c].org, call[c].phone, "org_admin")
  /\ UNCHANGED <<orgs, permissions, member, admins, tokens, crashes>>

SendInvite(t, o, ph, r) ==
  /\ o \in orgs
  /\ MayManage(t, o) /\ "members:invite" \in Resolved(t)
  /\ t.role = "platform_admin" => r = "org_admin"
  /\ PutInvite(o, ph, r)
  /\ UNCHANGED <<orgs, permissions, member, admins, tokens, call, crashes>>

PutPermissions(t, o, r, requested) ==
  /\ o \in orgs
  /\ MayManage(t, o) /\ "roles:configure" \in Resolved(t)
  /\ stored' = [stored EXCEPT ![o][r] = Clamp(r, requested)]
  /\ configured' = [configured EXCEPT ![o][r] = requested \cap Ceiling[r]]
  /\ UNCHANGED <<orgs, member, invites, admins, tokens, call, crashes>>

ExpireInvite(o, ph) ==
  /\ invite[o][ph].state = "pending"
  /\ invite' = [invite EXCEPT ![o][ph].state = "expired"]
  /\ UNCHANGED <<orgs, permissions, member, sent, offered, overtaken, admins, tokens, call, crashes>>
-----------------------------------------------------------------------------
Memberships(ph) ==
  {i \in Offer : member[i.org][ph] = i.role}

PendingInvites(ph) ==
  {i \in Offer : invite[i.org][ph] = [state |-> "pending", role |-> i.role]}

Sign(ph, role, o) == tokens' = tokens \cup {[phone |-> ph, role |-> role, org |-> o]}

(* With several memberships the user is to select one: until then the token  *)
(* is that of a user without any.                                            *)
SignFor(ph, memberships, admin) ==
  \/ admin /\ Sign(ph, "platform_admin", NoOrg)
  \/ ~admin /\ \E i \in Offer : memberships = {i} /\ Sign(ph, i.role, i.org)
  \/ ~admin /\ Cardinality(memberships) # 1 /\ Sign(ph, "driver", NoOrg)

(* verifyOtp, from the row of the user on.                                   *)
Login(c, ph) ==
  /\ Begin(c, [pc |-> "find", phone |-> ph, seen |-> Memberships(ph), admin |-> ph \in admins])
  /\ UNCHANGED <<orgs, permissions, member, invites, admins, tokens, crashes>>

FindNoInvites(c) ==
  /\ Continue(c, "find", Idle)
  /\ PendingInvites(call[c].phone) = {}
  /\ SignFor(call[c].phone, call[c].seen, call[c].admin)
  /\ UNCHANGED <<orgs, permissions, member, invites, admins, crashes>>

FindInvites(c) ==
  /\ call[c].pc = "find"
  /\ LET found == PendingInvites(call[c].phone)
     IN /\ found # {}
        /\ Continue(c, "find", [pc |-> "accept", phone |-> call[c].phone, todo |-> found])
  /\ UNCHANGED <<orgs, permissions, member, invites, admins, tokens, crashes>>

KeepRole(row, r) == IF row = Unset THEN r ELSE row

UpsertedRole(row, r) == r

UpsertMember(o, ph, r) ==
  member' = [member EXCEPT ![o][ph] = UpsertedRole(@, r)]

(* The row of the invite is marked by its id, whatever it holds by now.      *)
SetAccepted(o, ph) ==
  /\ invite' = [invite EXCEPT ![o][ph].state = "accepted"]
  /\ UNCHANGED <<sent, offered, overtaken>>

AcceptNext(c) ==
  /\ call[c].pc = "accept"
  /\ \E i \in call[c].todo :
       /\ UpsertMember(i.org, call[c].phone, i.role)
       /\ Continue(c, "accept", [pc |-> "mark", phone |-> call[c].phone,
                                 todo |-> call[c].todo \ {i}, now |-> i])
  /\ UNCHANGED <<orgs, permissions, invites, admins, tokens, crashes>>

MarkAccepted(c) ==
  /\ Continue(c, "mark", [pc |-> "accept", phone |-> call[c].phone, todo |-> call[c].todo])
  /\ SetAccepted(call[c].now.org, call[c].phone)
  /\ UNCHANGED <<orgs, permissions, member, admins, tokens, crashes>>

SignReloaded(c) ==
  /\ Continue(c, "accept", Idle)
  /\ call[c].todo = {}
  /\ SignFor(call[c].phone, Memberships(call[c].phone), call[c].phone \in admins)
  /\ UNCHANGED <<orgs, permissions, member, invites, admins, crashes>>

AnyHolder(t, ph) == TRUE

Addressed(t, ph) == t.phone = ph

(* acceptInvite with the link of the current invite of ph.                   *)
AcceptInvite(c, t, o, ph) ==
  /\ invite[o][ph].state = "pending"
  /\ Addressed(t, ph)
  /\ Begin(c, [pc |-> "join", phone |-> t.phone, todo |-> {},
               now |-> [org |-> o, role |-> invite[o][ph].role]])
  /\ UNCHANGED <<orgs, permissions, member, invites, admins, tokens, crashes>>

Join(c) ==
  /\ Continue(c, "join", Idle)
  /\ UpsertMember(call[c].now.org, call[c].phone, call[c].now.role)
  /\ SetAccepted(call[c].now.org, call[c].phone)
  /\ Sign(call[c].phone, member'[call[c].now.org][call[c].phone], call[c].now.org)
  /\ UNCHANGED <<orgs, permissions, admins, crashes>>

SelectOrg(t, o) ==
  /\ member[o][t.phone] # Unset
  /\ t.phone \notin admins
  /\ Sign(t.phone, member[o][t.phone], o)
  /\ UNCHANGED <<orgs, permissions, member, invites, admins, call, crashes>>

(* A request ends between two writes, with an error or with the process.     *)
Crash(c) ==
  /\ call[c] # Idle
  /\ crashes < MaxCrashes
  /\ crashes' = crashes + 1
  /\ call' = [call EXCEPT ![c] = Idle]
  /\ UNCHANGED <<orgs, permissions, member, invites, admins, tokens>>

Next ==
  \/ \E ph \in Staff : MakeAdmin(ph)
  \/ \E c \in Calls :
       \/ \E ph \in Phones : Login(c, ph)
       \/ \E t \in tokens, o \in Orgs, ph \in Phones :
            CreateOrg(c, t, o, ph) \/ AcceptInvite(c, t, o, ph)
       \/ Seed(c) \/ FirstInvite(c)
       \/ FindNoInvites(c) \/ FindInvites(c)
       \/ AcceptNext(c) \/ MarkAccepted(c) \/ SignReloaded(c)
       \/ Join(c) \/ Crash(c)
  \/ \E o \in Orgs :
       \/ \E ph \in Phones : ExpireInvite(o, ph)
       \/ \E t \in tokens :
            \/ SelectOrg(t, o)
            \/ \E r \in Roles :
                 \/ \E ph \in Phones : SendInvite(t, o, ph, r)
                 \/ \E requested \in SUBSET Permissions : PutPermissions(t, o, r, requested)

Spec == Init /\ [][Next]_vars
-----------------------------------------------------------------------------
(***************************************************************************)
(* An invite that is marked as accepted has given its role, although a     *)
(* log-in marks it in a second step, may stop in between and may run at    *)
(* the same time as another acceptance.  Excepted are invites that were    *)
(* replaced while a request held them as it had read them.                 *)
(***************************************************************************)
AcceptedTookEffect ==
  \A o \in Orgs, ph \in Phones :
    invite[o][ph].state = "accepted" /\ <<o, ph>> \notin overtaken =>
      member[o][ph] = invite[o][ph].role

(***************************************************************************)
(* Nobody gets a role that was not offered: memberships, and the role and  *)
(* organisation in a token, go back to an invite to that phone, and the    *)
(* phone of such a token is a member.                                      *)
(***************************************************************************)
RolesWereOffered ==
  /\ \A o \in Orgs, ph \in Phones :
       member[o][ph] # Unset => <<o, ph, member[o][ph]>> \in offered
  /\ \A t \in tokens : t.org # NoOrg =>
       /\ <<t.org, t.phone, t.role>> \in offered
       /\ member[t.org][t.phone] # Unset

(***************************************************************************)
(* The permissions that an administrator set for a role stay in force:     *)
(* neither the rest of the creation of the organisation nor another        *)
(* request replaces them by the defaults.                                  *)
(***************************************************************************)
ConfiguredStays ==
  \A o \in Orgs, r \in Roles :
    configured[o][r] # Unset => Effective(o, r) = configured[o][r]
=============================================================================
