------------------------ MODULE OrganisationsProofs -------------------------
(***************************************************************************)
(* Proofs about Organisations, for any phones, organisations, roles and    *)
(* ceilings, any number of concurrent requests and any bounds on invites   *)
(* and crashes.                                                            *)
(***************************************************************************)
EXTENDS Organisations, TLAPS

(* The tables have a place for every row. *)
RowsFit ==
  /\ stored \in [Orgs -> [Roles -> (SUBSET Permissions) \cup {Unset}]]
  /\ configured \in [Orgs -> [Roles -> (SUBSET Permissions) \cup {Unset}]]

PermissionsType ==
  \A o \in Orgs, r \in Roles :
    /\ stored[o][r] \in (SUBSET Ceiling[r]) \cup {Unset}
    /\ configured[o][r] \in (SUBSET Ceiling[r]) \cup {Unset}

(* What was configured is still the row of the role. *)
ConfiguredIsStored ==
  \A o \in Orgs, r \in Roles : configured[o][r] # Unset => stored[o][r] = configured[o][r]

PermissionsInv == RowsFit /\ PermissionsType /\ ConfiguredIsStored

(* The offers that a request holds as it read them. *)
Held(x) ==
  IF x.pc = "accept" THEN x.todo
  ELSE IF x.pc \in {"mark", "join"} THEN x.todo \cup {x.now} ELSE {}

(* They were offered to its phone, and are what the invite says if that    *)
(* was not replaced since.  A request that is about to mark an invite has  *)
(* given its role; the memberships that a log-in saw are there for good.   *)
CallFits(x) ==
  /\ \A i \in Held(x) :
       /\ <<i.org, x.phone, i.role>> \in offered
       /\ <<i.org, x.phone>> \notin overtaken => invite[i.org][x.phone].role = i.role
  /\ x.pc = "mark" /\ <<x.now.org, x.phone>> \notin overtaken =>
       member[x.now.org][x.phone] = x.now.role
  /\ x.pc = "find" => \A i \in x.seen :
       <<i.org, x.phone, i.role>> \in offered /\ member[i.org][x.phone] # Unset

CallsFit == \A c \in Calls : CallFits(call[c])

InvitesWereOffered ==
  \A o \in Orgs, ph \in Phones :
    /\ invite[o][ph].state # "none" => <<o, ph, invite[o][ph].role>> \in offered
    /\ \A r \in Roles : <<o, ph, r>> \in offered => invite[o][ph].state # "none"

Inv ==
  /\ TypeOK /\ PermissionsInv
  /\ CallsFit /\ InvitesWereOffered /\ RolesWereOffered /\ AcceptedTookEffect
-----------------------------------------------------------------------------
LEMMA CallShapes ==
  ASSUME NEW x \in Call
  PROVE  /\ x.pc \in {"seed", "firstInvite"} =>
              /\ x.phone \in Phones /\ x.org \in Orgs
              /\ x \in [pc : {"seed", "firstInvite"}, phone : Phones, org : Orgs]
         /\ x.pc = "find" => x.phone \in Phones /\ x.seen \in SUBSET Offer /\ x.admin \in BOOLEAN
         /\ x.pc = "accept" => x.phone \in Phones /\ x.todo \in SUBSET Offer
         /\ x.pc \in {"mark", "join"} =>
              x.phone \in Phones /\ x.todo \in SUBSET Offer /\ x.now \in Offer
BY DEF Call, Idle

(* Only two operations write permissions. *)
LEMMA PermissionsWriters ==
  ASSUME Next
  PROVE  \/ UNCHANGED permissions
         \/ \E c \in Calls : Seed(c)
         \/ \E t \in tokens, o \in Orgs, r \in Roles : \E requested \in SUBSET Permissions :
              PutPermissions(t, o, r, requested)
<1>1. ASSUME NEW ph \in Staff, MakeAdmin(ph)
      PROVE  UNCHANGED permissions
  BY <1>1 DEF MakeAdmin
<1>2. ASSUME NEW c \in Calls, NEW ph \in Phones, Login(c, ph)
      PROVE  UNCHANGED permissions
  BY <1>2 DEF Login
<1>3. ASSUME NEW c \in Calls, NEW t \in tokens, NEW o \in Orgs, NEW ph \in Phones,
             CreateOrg(c, t, o, ph) \/ AcceptInvite(c, t, o, ph)
      PROVE  UNCHANGED permissions
  BY <1>3 DEF CreateOrg, AcceptInvite
<1>4. ASSUME NEW c \in Calls,
             \/ FirstInvite(c) \/ FindNoInvites(c) \/ FindInvites(c) \/ AcceptNext(c)
             \/ MarkAccepted(c) \/ SignReloaded(c) \/ Join(c) \/ Crash(c)
      PROVE  UNCHANGED permissions
  BY <1>4 DEF FirstInvite, FindNoInvites, FindInvites, AcceptNext, MarkAccepted, SignReloaded, Join,
              Crash
<1>5. ASSUME NEW o \in Orgs, NEW ph \in Phones, ExpireInvite(o, ph)
      PROVE  UNCHANGED permissions
  BY <1>5 DEF ExpireInvite
<1>6. ASSUME NEW o \in Orgs, NEW t \in tokens, SelectOrg(t, o)
      PROVE  UNCHANGED permissions
  BY <1>6 DEF SelectOrg
<1>7. ASSUME NEW o \in Orgs, NEW t \in tokens, NEW r \in Roles, NEW ph \in Phones, SendInvite(t, o, ph, r)
      PROVE  UNCHANGED permissions
  BY <1>7 DEF SendInvite
<1> QED BY <1>1, <1>2, <1>3, <1>4, <1>5, <1>6, <1>7 DEF Next

LEMMA PermissionsStep ==
  ASSUME TypeOK, PermissionsInv, Next
  PROVE  PermissionsInv'
<1>0. \A r \in Roles : Ceiling[r] \subseteq Permissions
  BY DEF Permissions
<1>1. CASE UNCHANGED permissions
  BY <1>1 DEF permissions, PermissionsInv, RowsFit, PermissionsType, ConfiguredIsStored
<1>2. ASSUME NEW c \in Calls, Seed(c)
      PROVE  PermissionsInv'
  <2> DEFINE o == call[c].org
             seeded == [r \in Roles |-> SeedRow(stored[o][r], r)]
  <2>1. o \in Orgs
    BY <1>2, CallShapes DEF Seed, Continue, TypeOK
  <2>2. stored' = [stored EXCEPT ![o] = seeded] /\ configured' = configured
    BY <1>2 DEF Seed
  <2>3. \A r \in Roles : seeded[r] = IF stored[o][r] = Unset THEN Ceiling[r] ELSE stored[o][r]
    BY DEF SeedRow
  <2>4. seeded \in [Roles -> (SUBSET Permissions) \cup {Unset}]
    BY <1>0, <2>1, <2>3 DEF SeedRow, PermissionsInv, RowsFit
  <2> HIDE DEF o, seeded
  <2>5. RowsFit'
    BY <2>1, <2>2, <2>4 DEF PermissionsInv, RowsFit
  <2>6. \A p \in Orgs : stored'[p] = IF p = o THEN seeded ELSE stored[p]
    BY <2>1, <2>2 DEF PermissionsInv, RowsFit
  <2>7. PermissionsType'
    BY <2>1, <2>2, <2>3, <2>6 DEF PermissionsInv, PermissionsType
  <2>8. ConfiguredIsStored'
    BY <2>1, <2>2, <2>3, <2>6 DEF PermissionsInv, ConfiguredIsStored
  <2> QED BY <2>5, <2>7, <2>8 DEF PermissionsInv
<1>3. ASSUME NEW t \in tokens, NEW o \in Orgs, NEW r \in Roles, NEW requested \in SUBSET Permissions,
             PutPermissions(t, o, r, requested)
      PROVE  PermissionsInv'
  <2> DEFINE clamped == requested \cap Ceiling[r]
  <2>1. /\ stored' = [stored EXCEPT ![o][r] = clamped]
        /\ configured' = [configured EXCEPT ![o][r] = clamped]
    BY <1>3 DEF PutPermissions, Clamp
  <2>2. clamped \in SUBSET Ceiling[r] /\ clamped \in SUBSET Permissions
    OBVIOUS
  <2> HIDE DEF clamped
  <2>3. RowsFit'
    BY <2>1, <2>2 DEF PermissionsInv, RowsFit
  <2>4. \A p \in Orgs, q \in Roles :
          /\ stored'[p][q] = IF p = o /\ q = r THEN clamped ELSE stored[p][q]
          /\ configured'[p][q] = IF p = o /\ q = r THEN clamped ELSE configured[p][q]
    BY <2>1 DEF PermissionsInv, RowsFit
  <2>5. PermissionsType' /\ ConfiguredIsStored'
    BY <2>2, <2>4 DEF PermissionsInv, PermissionsType, ConfiguredIsStored
  <2> QED BY <2>3, <2>5 DEF PermissionsInv
<1> QED BY <1>1, <1>2, <1>3, PermissionsWriters

LEMMA SignTypes ==
  ASSUME NEW ph \in Phones, NEW role \in Roles \cup {"platform_admin"}, NEW o \in Orgs \cup {NoOrg},
         tokens \subseteq Token, Sign(ph, role, o)
  PROVE  tokens' \subseteq Token
BY DEF Sign, Token

LEMMA SignForTypes ==
  ASSUME NEW ph \in Phones, NEW memberships, NEW admin, tokens \subseteq Token,
         SignFor(ph, memberships, admin)
  PROVE  tokens' \subseteq Token
<1>1. CASE Sign(ph, "platform_admin", NoOrg)
  BY <1>1, SignTypes
<1>2. ASSUME NEW i \in Offer, Sign(ph, i.role, i.org)
      PROVE  tokens' \subseteq Token
  BY <1>2, SignTypes DEF Offer
<1>3. CASE Sign(ph, "driver", NoOrg)
  BY <1>3, SignTypes, OrganisationsAssumption
<1> QED BY <1>1, <1>2, <1>3 DEF SignFor

LEMMA PutInviteTypes ==
  ASSUME TypeOK, NEW o \in Orgs, NEW ph \in Phones, NEW r \in Roles, PutInvite(o, ph, r)
  PROVE  /\ invite' \in [Orgs -> [Phones -> Invite]] /\ sent' \in 0..MaxInvites
         /\ offered' \subseteq Orgs \X Phones \X Roles /\ overtaken' \subseteq Orgs \X Phones
<1>1. [state |-> "pending", role |-> r] \in Invite
  BY DEF Invite
<1>2. invite' \in [Orgs -> [Phones -> Invite]]
  <2> DEFINE sheet == [state |-> "pending", role |-> r]
  <2>1. invite' = [invite EXCEPT ![o][ph] = sheet] /\ sheet \in Invite
    BY <1>1 DEF PutInvite
  <2> HIDE DEF sheet
  <2> QED BY <2>1 DEF TypeOK
<1>3. sent' \in 0..MaxInvites
  BY OrganisationsAssumption DEF PutInvite, TypeOK
<1>4. offered' \subseteq Orgs \X Phones \X Roles /\ overtaken' \subseteq Orgs \X Phones
  BY DEF PutInvite, TypeOK
<1> QED BY <1>2, <1>3, <1>4

LEMMA UpsertTypes ==
  ASSUME member \in [Orgs -> [Phones -> Roles \cup {Unset}]],
         NEW o \in Orgs, NEW ph \in Phones, NEW r \in Roles, UpsertMember(o, ph, r)
  PROVE  /\ member' \in [Orgs -> [Phones -> Roles \cup {Unset}]]
         /\ \A p \in Orgs, q \in Phones : member'[p][q] = IF p = o /\ q = ph THEN r ELSE member[p][q]
BY DEF UpsertMember, UpsertedRole

LEMMA SetAcceptedTypes ==
  ASSUME invite \in [Orgs -> [Phones -> Invite]], NEW o \in Orgs, NEW ph \in Phones, NEW word,
         word \in {"accepted", "expired"}, invite' = [invite EXCEPT ![o][ph].state = word]
  PROVE  /\ invite' \in [Orgs -> [Phones -> Invite]]
         /\ \A p \in Orgs, q \in Phones :
              /\ invite'[p][q].role = invite[p][q].role
              /\ invite'[p][q].state = IF p = o /\ q = ph THEN word ELSE invite[p][q].state
<1> DEFINE sheet == [invite[o][ph] EXCEPT !.state = word]
<1>1. sheet \in Invite /\ sheet.role = invite[o][ph].role /\ sheet.state = word
  BY DEF Invite
<1>2. invite' = [invite EXCEPT ![o][ph] = sheet]
  OBVIOUS
<1> HIDE DEF sheet
<1> QED BY <1>1, <1>2

LEMMA CallTypes ==
  ASSUME call \in [Calls -> Call], NEW c \in Calls, NEW x \in Call, call' = [call EXCEPT ![c] = x]
  PROVE  /\ call' \in [Calls -> Call]
         /\ call'[c] = x
         /\ \A d \in Calls : d # c => call'[d] = call[d]
OBVIOUS

(* The steps of a request. *)
LEMMA NewCalls ==
  ASSUME NEW ph \in Phones, NEW o \in Orgs, NEW todo \in SUBSET Offer, NEW i \in Offer,
         NEW admin \in BOOLEAN
  PROVE  /\ Idle \in Call
         /\ [pc |-> "seed", phone |-> ph, org |-> o] \in Call
         /\ [pc |-> "find", phone |-> ph, seen |-> todo, admin |-> admin] \in Call
         /\ [pc |-> "accept", phone |-> ph, todo |-> todo] \in Call
         /\ [pc |-> "mark", phone |-> ph, todo |-> todo, now |-> i] \in Call
         /\ [pc |-> "join", phone |-> ph, todo |-> todo, now |-> i] \in Call
BY DEF Call

LEMMA RequestTypes ==
  ASSUME TypeOK, NEW c \in Calls,
         \/ \E ph \in Phones : Login(c, ph)
         \/ \E t \in tokens, o \in Orgs, ph \in Phones :
              CreateOrg(c, t, o, ph) \/ AcceptInvite(c, t, o, ph)
         \/ Seed(c) \/ FirstInvite(c)
         \/ FindNoInvites(c) \/ FindInvites(c)
         \/ AcceptNext(c) \/ MarkAccepted(c) \/ SignReloaded(c)
         \/ Join(c) \/ Crash(c)
  PROVE  call' \in [Calls -> Call]
<1>0. call[c] \in Call /\ Idle \in Call
  BY DEF TypeOK, Call
<1>1. ASSUME NEW x \in Call, call' = [call EXCEPT ![c] = x]
      PROVE  call' \in [Calls -> Call]
  BY <1>1, CallTypes DEF TypeOK
<1>2. ASSUME NEW ph \in Phones, Login(c, ph)
      PROVE  call' \in [Calls -> Call]
  <2>1. Memberships(ph) \in SUBSET Offer /\ (ph \in admins) \in BOOLEAN
    BY DEF Memberships
  <2>2. [pc |-> "find", phone |-> ph, seen |-> Memberships(ph), admin |-> ph \in admins] \in Call
    BY <2>1 DEF Call
  <2> QED BY <1>1, <1>2, <2>2 DEF Login, Begin
<1>3. ASSUME NEW t \in tokens, NEW o \in Orgs, NEW ph \in Phones, CreateOrg(c, t, o, ph)
      PROVE  call' \in [Calls -> Call]
  <2>1. [pc |-> "seed", phone |-> ph, org |-> o] \in Call
    BY DEF Call
  <2> QED BY <1>1, <1>3, <2>1 DEF CreateOrg, Begin
<1>4. ASSUME NEW t \in tokens, NEW o \in Orgs, NEW ph \in Phones, AcceptInvite(c, t, o, ph)
      PROVE  call' \in [Calls -> Call]
  <2>1. t.phone \in Phones /\ [org |-> o, role |-> invite[o][ph].role] \in Offer
    BY DEF TypeOK, Token, Invite, Offer
  <2>2. [pc |-> "join", phone |-> t.phone, todo |-> {},
         now |-> [org |-> o, role |-> invite[o][ph].role]] \in Call
    BY <2>1, NewCalls
  <2> QED BY <1>1, <1>4, <2>2 DEF AcceptInvite, Begin
<1>5. CASE Seed(c)
  <2>1. [call[c] EXCEPT !.pc = "firstInvite"] \in Call
    <3>1. call[c] \in [pc : {"seed", "firstInvite"}, phone : Phones, org : Orgs]
      BY <1>0, <1>5, CallShapes DEF Seed, Continue
    <3>2. [call[c] EXCEPT !.pc = "firstInvite"] \in [pc : {"seed", "firstInvite"}, phone : Phones, org : Orgs]
      BY <3>1
    <3> QED BY <3>2 DEF Call
  <2> QED BY <1>1, <1>5, <2>1 DEF Seed, Continue
<1>6. CASE FirstInvite(c) \/ FindNoInvites(c) \/ SignReloaded(c) \/ Join(c) \/ Crash(c)
  BY <1>0, <1>1, <1>6 DEF FirstInvite, FindNoInvites, SignReloaded, Join, Crash, Continue
<1>7. CASE FindInvites(c)
  <2>1. call[c].phone \in Phones /\ PendingInvites(call[c].phone) \in SUBSET Offer
    BY <1>0, <1>7, CallShapes DEF FindInvites, PendingInvites
  <2>2. [pc |-> "accept", phone |-> call[c].phone, todo |-> PendingInvites(call[c].phone)] \in Call
    BY <2>1 DEF Call
  <2> QED BY <1>1, <1>7, <2>2 DEF FindInvites, Continue
<1>8. CASE AcceptNext(c)
  <2>1. PICK i \in call[c].todo :
          call' = [call EXCEPT ![c] = [pc |-> "mark", phone |-> call[c].phone,
                                       todo |-> call[c].todo \ {i}, now |-> i]]
    BY <1>8 DEF AcceptNext, Continue
  <2>2. call[c].phone \in Phones /\ call[c].todo \ {i} \in SUBSET Offer /\ i \in Offer
    BY <1>0, <1>8, CallShapes DEF AcceptNext
  <2>3. [pc |-> "mark", phone |-> call[c].phone, todo |-> call[c].todo \ {i}, now |-> i] \in Call
    BY <2>2 DEF Call
  <2> QED BY <1>1, <2>1, <2>3
<1>9. CASE MarkAccepted(c)
  <2>1. call[c].phone \in Phones /\ call[c].todo \in SUBSET Offer
    BY <1>0, <1>9, CallShapes DEF MarkAccepted, Continue
  <2>2. [pc |-> "accept", phone |-> call[c].phone, todo |-> call[c].todo] \in Call
    BY <2>1 DEF Call
  <2> QED BY <1>1, <1>9, <2>2 DEF MarkAccepted, Continue
<1> QED BY <1>2, <1>3, <1>4, <1>5, <1>6, <1>7, <1>8, <1>9

LEMMA TypeStep ==
  ASSUME TypeOK, PermissionsInv, Next
  PROVE  TypeOK'
<1> USE OrganisationsAssumption
<1> DEFINE Others ==
             /\ orgs' \subseteq Orgs
             /\ member' \in [Orgs -> [Phones -> Roles \cup {Unset}]]
             /\ invite' \in [Orgs -> [Phones -> Invite]]
             /\ admins' \subseteq Staff /\ tokens' \subseteq Token
             /\ sent' \in 0..MaxInvites /\ crashes' \in 0..MaxCrashes
             /\ offered' \subseteq Orgs \X Phones \X Roles
             /\ overtaken' \subseteq Orgs \X Phones
<1>0. \A o \in Orgs, r \in Roles :
        /\ stored'[o][r] \in (SUBSET Ceiling[r]) \cup {Unset}
        /\ configured'[o][r] \in (SUBSET Ceiling[r]) \cup {Unset}
  BY PermissionsStep DEF PermissionsInv, PermissionsType
<1>1. ASSUME Others, call' \in [Calls -> Call]
      PROVE  TypeOK'
  BY <1>0, <1>1 DEF TypeOK
<1>2. ASSUME NEW t \in tokens
      PROVE  t.phone \in Phones /\ t.role \in Roles \cup {"platform_admin"} /\ t.org \in Orgs \cup {NoOrg}
  BY DEF TypeOK, Token
<1>4. ASSUME NEW ph \in Staff, MakeAdmin(ph)
      PROVE  TypeOK'
  BY <1>1, <1>4 DEF MakeAdmin, TypeOK, invites
<1>5. ASSUME NEW c \in Calls, NEW ph \in Phones, Login(c, ph)
      PROVE  Others
  BY <1>5 DEF Login, TypeOK, invites
<1>6. ASSUME NEW c \in Calls, NEW t \in tokens, NEW o \in Orgs, NEW ph \in Phones,
             CreateOrg(c, t, o, ph) \/ AcceptInvite(c, t, o, ph)
      PROVE  Others
  BY <1>6 DEF CreateOrg, AcceptInvite, TypeOK, invites
<1>7. ASSUME NEW c \in Calls, Seed(c) \/ FindInvites(c)
      PROVE  Others
  BY <1>7 DEF Seed, FindInvites, TypeOK, invites
<1>8. ASSUME NEW c \in Calls, FirstInvite(c)
      PROVE  Others
  <2>1. call[c].org \in Orgs /\ call[c].phone \in Phones /\ "org_admin" \in Roles
    BY <1>8, CallShapes DEF FirstInvite, Continue, TypeOK
  <2> QED BY <1>8, <2>1, PutInviteTypes DEF FirstInvite, TypeOK
<1>9. ASSUME NEW c \in Calls, FindNoInvites(c)
      PROVE  Others
  <2>1. call[c].phone \in Phones
    BY <1>9, CallShapes DEF FindNoInvites, Continue, TypeOK
  <2>2. tokens' \subseteq Token
    BY <1>9, <2>1, SignForTypes DEF FindNoInvites, TypeOK
  <2> QED BY <1>9, <2>2 DEF FindNoInvites, TypeOK, invites
<1>10. ASSUME NEW c \in Calls, SignReloaded(c)
       PROVE  Others
  <2>1. call[c].phone \in Phones
    BY <1>10, CallShapes DEF SignReloaded, Continue, TypeOK
  <2>2. tokens' \subseteq Token
    BY <1>10, <2>1, SignForTypes DEF SignReloaded, TypeOK
  <2> QED BY <1>10, <2>2 DEF SignReloaded, TypeOK, invites
<1>11. ASSUME NEW c \in Calls, AcceptNext(c)
       PROVE  Others
  <2>1. PICK i \in call[c].todo : UpsertMember(i.org, call[c].phone, i.role)
    BY <1>11 DEF AcceptNext
  <2>2. call[c].phone \in Phones /\ i.org \in Orgs /\ i.role \in Roles
    BY <1>11, CallShapes DEF AcceptNext, TypeOK, Offer
  <2>3. member' \in [Orgs -> [Phones -> Roles \cup {Unset}]]
    BY <2>1, <2>2, UpsertTypes DEF TypeOK
  <2> QED BY <1>11, <2>3 DEF AcceptNext, TypeOK, invites
<1>12. ASSUME NEW c \in Calls, MarkAccepted(c)
       PROVE  Others
  <2>1. call[c].phone \in Phones /\ call[c].now.org \in Orgs
    BY <1>12, CallShapes DEF MarkAccepted, Continue, TypeOK, Offer
  <2>2. invite' \in [Orgs -> [Phones -> Invite]]
    BY <1>12, <2>1, SetAcceptedTypes DEF MarkAccepted, SetAccepted, TypeOK
  <2> QED BY <1>12, <2>2 DEF MarkAccepted, SetAccepted, TypeOK
<1>13. ASSUME NEW c \in Calls, Join(c)
       PROVE  Others
  <2>1. call[c].phone \in Phones /\ call[c].now.org \in Orgs /\ call[c].now.role \in Roles
    BY <1>13, CallShapes DEF Join, Continue, TypeOK, Offer
  <2>2. invite' \in [Orgs -> [Phones -> Invite]]
    BY <1>13, <2>1, SetAcceptedTypes DEF Join, SetAccepted, TypeOK
  <2>3. /\ member' \in [Orgs -> [Phones -> Roles \cup {Unset}]]
        /\ member'[call[c].now.org][call[c].phone] \in Roles
    BY <1>13, <2>1, UpsertTypes DEF Join, TypeOK
  <2>4. tokens' \subseteq Token
    BY <1>13, <2>1, <2>3, SignTypes DEF Join, TypeOK
  <2> QED BY <1>13, <2>2, <2>3, <2>4 DEF Join, SetAccepted, TypeOK
<1>14. ASSUME NEW c \in Calls, Crash(c)
       PROVE  Others
  BY <1>14 DEF Crash, TypeOK, invites
<1>15. ASSUME NEW o \in Orgs, NEW ph \in Phones, ExpireInvite(o, ph)
       PROVE  TypeOK'
  <2>1. invite' \in [Orgs -> [Phones -> Invite]]
    BY <1>15, SetAcceptedTypes DEF ExpireInvite, TypeOK
  <2> QED BY <1>1, <1>15, <2>1 DEF ExpireInvite, TypeOK
<1>16. ASSUME NEW o \in Orgs, NEW t \in tokens, SelectOrg(t, o)
       PROVE  TypeOK'
  <2>1. t.phone \in Phones /\ member[o][t.phone] \in Roles
    BY <1>2, <1>16 DEF SelectOrg, TypeOK
  <2>2. tokens' \subseteq Token
    BY <1>16, <2>1, SignTypes DEF SelectOrg, TypeOK
  <2> QED BY <1>1, <1>16, <2>2 DEF SelectOrg, TypeOK, invites
<1>17. ASSUME NEW o \in Orgs, NEW t \in tokens, NEW r \in Roles, NEW ph \in Phones, SendInvite(t, o, ph, r)
       PROVE  TypeOK'
  <2>1. Others
    BY <1>17, PutInviteTypes DEF SendInvite, TypeOK
  <2> QED BY <1>1, <1>17, <2>1 DEF SendInvite, TypeOK
<1>18. ASSUME NEW o \in Orgs, NEW t \in tokens, NEW r \in Roles, NEW requested \in SUBSET Permissions,
              PutPermissions(t, o, r, requested)
       PROVE  TypeOK'
  BY <1>1, <1>18 DEF PutPermissions, TypeOK, invites
<1> HIDE DEF Others
<1>19. ASSUME NEW c \in Calls,
              \/ \E ph \in Phones : Login(c, ph)
              \/ \E t \in tokens, o \in Orgs, ph \in Phones :
                   CreateOrg(c, t, o, ph) \/ AcceptInvite(c, t, o, ph)
              \/ Seed(c) \/ FirstInvite(c)
              \/ FindNoInvites(c) \/ FindInvites(c)
              \/ AcceptNext(c) \/ MarkAccepted(c) \/ SignReloaded(c)
              \/ Join(c) \/ Crash(c)
       PROVE  TypeOK'
  <2>1. Others
    BY <1>5, <1>6, <1>7, <1>8, <1>9, <1>10, <1>11, <1>12, <1>13, <1>14, <1>19
  <2>2. call' \in [Calls -> Call]
    BY <1>19, RequestTypes
  <2> QED BY <1>1, <2>1, <2>2
<1> QED BY <1>4, <1>15, <1>16, <1>17, <1>18, <1>19 DEF Next
-----------------------------------------------------------------------------
(* Memberships and invites are written by few operations. *)
LEMMA MembershipWriters ==
  ASSUME Next
  PROVE  \/ UNCHANGED <<member, invites>>
         \/ \E c \in Calls : AcceptNext(c) \/ MarkAccepted(c) \/ Join(c) \/ FirstInvite(c)
         \/ \E o \in Orgs, ph \in Phones :
              \/ ExpireInvite(o, ph)
              \/ \E t \in tokens, r \in Roles : SendInvite(t, o, ph, r)
<1>1. ASSUME NEW ph \in Staff, MakeAdmin(ph)
      PROVE  UNCHANGED <<member, invites>>
  BY <1>1 DEF MakeAdmin
<1>2. ASSUME NEW c \in Calls, NEW ph \in Phones, Login(c, ph)
      PROVE  UNCHANGED <<member, invites>>
  BY <1>2 DEF Login
<1>3. ASSUME NEW c \in Calls, NEW t \in tokens, NEW o \in Orgs, NEW ph \in Phones,
             CreateOrg(c, t, o, ph) \/ AcceptInvite(c, t, o, ph)
      PROVE  UNCHANGED <<member, invites>>
  BY <1>3 DEF CreateOrg, AcceptInvite
<1>4. ASSUME NEW c \in Calls,
             Seed(c) \/ FindNoInvites(c) \/ FindInvites(c) \/ SignReloaded(c) \/ Crash(c)
      PROVE  UNCHANGED <<member, invites>>
  BY <1>4 DEF Seed, FindNoInvites, FindInvites, SignReloaded, Crash
<1>5. ASSUME NEW o \in Orgs, NEW t \in tokens,
             \/ SelectOrg(t, o)
             \/ \E r \in Roles : \E requested \in SUBSET Permissions : PutPermissions(t, o, r, requested)
      PROVE  UNCHANGED <<member, invites>>
  BY <1>5 DEF SelectOrg, PutPermissions
<1> QED BY <1>1, <1>2, <1>3, <1>4, <1>5 DEF Next

LEMMA HeldShapes ==
  ASSUME NEW x \in Call
  PROVE  /\ \A i \in Held(x) : i.org \in Orgs /\ i.role \in Roles /\ x.phone \in Phones
         /\ x.pc = "mark" => x.now \in Held(x)
         /\ x.pc = "find" => \A i \in x.seen : i.org \in Orgs /\ i.role \in Roles /\ x.phone \in Phones
BY CallShapes DEF Held, Offer

(* What a request knows stays true when memberships are given that the     *)
(* invite offers, or that a replaced one offered.                          *)
LEMMA CallStillFits ==
  ASSUME TypeOK, NEW x \in Call, CallFits(x),
         offered \subseteq offered', overtaken' = overtaken,
         \A o \in Orgs, ph \in Phones :
           /\ invite'[o][ph].role = invite[o][ph].role
           /\ \/ member'[o][ph] = member[o][ph]
              \/ /\ member'[o][ph] \in Roles
                 /\ <<o, ph>> \in overtaken \/ member'[o][ph] = invite[o][ph].role
  PROVE  CallFits(x)'
<1>0. Unset \notin Roles
  BY OrganisationsAssumption
<1>1. ASSUME NEW i \in Held(x)
      PROVE  /\ <<i.org, x.phone, i.role>> \in offered'
             /\ <<i.org, x.phone>> \notin overtaken' => invite'[i.org][x.phone].role = i.role
  BY HeldShapes DEF CallFits
<1>2. ASSUME x.pc = "mark", <<x.now.org, x.phone>> \notin overtaken'
      PROVE  member'[x.now.org][x.phone] = x.now.role
  <2>1. /\ x.now \in Held(x) /\ x.now.org \in Orgs /\ x.phone \in Phones
        /\ <<x.now.org, x.phone>> \notin overtaken
    BY <1>2, HeldShapes
  <2>2. /\ member[x.now.org][x.phone] = x.now.role
        /\ invite[x.now.org][x.phone].role = x.now.role
    BY <1>2, <2>1 DEF CallFits
  <2> QED BY <2>1, <2>2
<1>3. ASSUME x.pc = "find", NEW i \in x.seen
      PROVE  <<i.org, x.phone, i.role>> \in offered' /\ member'[i.org][x.phone] # Unset
  <2>1. i.org \in Orgs /\ x.phone \in Phones
    BY <1>3, HeldShapes
  <2>2. <<i.org, x.phone, i.role>> \in offered /\ member[i.org][x.phone] # Unset
    BY <1>3 DEF CallFits
  <2> QED BY <1>0, <2>1, <2>2
<1> QED BY <1>1, <1>2, <1>3 DEF CallFits, Held

(* A request that held an invite when it was replaced is known as overtaken. *)
LEMMA CallFitsAfterPut ==
  ASSUME TypeOK, NEW d \in Calls, NEW x, x = call[d], CallFits(x),
         NEW o \in Orgs, NEW ph \in Phones, NEW r \in Roles, PutInvite(o, ph, r), member' = member
  PROVE  CallFits(x)'
<1>0. x \in Call
  BY DEF TypeOK
<1>1. /\ \A p \in Orgs, q \in Phones : <<p, q>> # <<o, ph>> => invite'[p][q] = invite[p][q]
      /\ offered \subseteq offered'
      /\ \A p \in Orgs, q \in Phones : <<p, q>> # <<o, ph>> =>
           (<<p, q>> \in overtaken' <=> <<p, q>> \in overtaken)
  BY DEF PutInvite, TypeOK
<1>2. ASSUME NEW i \in Held(x), i.org = o, x.phone = ph
      PROVE  <<o, ph>> \in overtaken'
  <2>1. Holds(d, o, ph)
    BY <1>2 DEF Holds, Held
  <2> QED BY <2>1 DEF PutInvite
<1>3. ASSUME NEW i \in Held(x)
      PROVE  /\ <<i.org, x.phone, i.role>> \in offered'
             /\ <<i.org, x.phone>> \notin overtaken' =>
                  /\ <<i.org, x.phone>> \notin overtaken
                  /\ invite'[i.org][x.phone].role = i.role
  <2>1. i.org \in Orgs /\ x.phone \in Phones
    BY <1>0, HeldShapes
  <2>2. CASE i.org = o /\ x.phone = ph
    BY <1>1, <1>2, <2>2 DEF CallFits
  <2>3. CASE ~(i.org = o /\ x.phone = ph)
    <3>1. <<i.org, x.phone>> # <<o, ph>>
      BY <2>3
    <3> QED BY <1>1, <2>1, <3>1 DEF CallFits
  <2> QED BY <2>2, <2>3
<1>4. ASSUME x.pc = "mark", <<x.now.org, x.phone>> \notin overtaken'
      PROVE  member'[x.now.org][x.phone] = x.now.role
  <2>1. x.now \in Held(x)
    BY <1>0, <1>4, HeldShapes
  <2>2. <<x.now.org, x.phone>> \notin overtaken
    BY <1>3, <1>4, <2>1
  <2> QED BY <1>4, <2>2 DEF CallFits
<1>5. ASSUME x.pc = "find", NEW i \in x.seen
      PROVE  <<i.org, x.phone, i.role>> \in offered' /\ member'[i.org][x.phone] # Unset
  BY <1>1, <1>5 DEF CallFits
<1> QED BY <1>3, <1>4, <1>5 DEF CallFits, Held

LEMMA CallsFitAfter ==
  ASSUME TypeOK, CallsFit, NEW c \in Calls, NEW y, call' = [call EXCEPT ![c] = y], CallFits(y)',
         \A d \in Calls : \A x : x = call[d] /\ CallFits(x) => CallFits(x)'
  PROVE  CallsFit'
<1> SUFFICES ASSUME NEW d \in Calls PROVE \A x : x = call'[d] => CallFits(x)'
  BY DEF CallsFit
<1> SUFFICES ASSUME NEW x, x = call'[d] PROVE CallFits(x)'
  OBVIOUS
<1>1. CASE d = c
  <2>1. x = y
    BY <1>1 DEF TypeOK
  <2> QED BY <2>1
<1>2. CASE d # c
  <2>1. x = call[d]
    BY <1>2 DEF TypeOK
  <2>2. CallFits(x)
    BY <2>1 DEF CallsFit
  <2> QED BY <2>1, <2>2
<1> QED BY <1>1, <1>2

LEMMA CallsStep ==
  ASSUME TypeOK, CallsFit, InvitesWereOffered, RolesWereOffered, Next
  PROVE  CallsFit'
<1> USE OrganisationsAssumption
<1>0. ASSUME UNCHANGED <<member, invites>>
      PROVE  \A x \in Call : CallFits(x) => CallFits(x)'
  BY <1>0, CallStillFits DEF invites
<1>1. \A d \in Calls : call[d] \in Call
  BY DEF TypeOK
<1>2. ASSUME NEW c \in Calls, NEW y, UNCHANGED <<member, invites>>, call' = [call EXCEPT ![c] = y],
             CallFits(y)
      PROVE  CallsFit'
  <2>1. CallFits(y)'
    BY <1>2 DEF CallFits, Held, invites
  <2> QED BY <1>0, <1>1, <1>2, <2>1, CallsFitAfter
<1>3. CASE UNCHANGED <<member, invites, call>>
  <2>1. ASSUME NEW d \in Calls, NEW x, x = call[d]
        PROVE  CallFits(x)'
    BY <1>0, <1>1, <1>3, <2>1 DEF CallsFit
  <2> QED BY <1>3, <2>1 DEF CallsFit
<1>4. CallFits(Idle) /\ \A ph, o : /\ CallFits([pc |-> "seed", phone |-> ph, org |-> o])
                                   /\ CallFits([pc |-> "firstInvite", phone |-> ph, org |-> o])
  BY DEF CallFits, Held, Idle
<1>5. ASSUME NEW c \in Calls,
             FindNoInvites(c) \/ SignReloaded(c) \/ Crash(c)
      PROVE  CallsFit'
  BY <1>2, <1>4, <1>5 DEF FindNoInvites, SignReloaded, Crash, Continue
<1>6. ASSUME NEW c \in Calls, NEW t \in tokens, NEW o \in Orgs, NEW ph \in Phones, CreateOrg(c, t, o, ph)
      PROVE  CallsFit'
  BY <1>2, <1>4, <1>6 DEF CreateOrg, Begin
<1>7. ASSUME NEW c \in Calls, Seed(c)
      PROVE  CallsFit'
  <2> DEFINE y == [call[c] EXCEPT !.pc = "firstInvite"]
  <2>1. call[c] \in [pc : {"seed", "firstInvite"}, phone : Phones, org : Orgs]
    BY <1>1, <1>7, CallShapes DEF Seed, Continue
  <2>2. y.pc = "firstInvite"
    BY <2>1
  <2>3. CallFits(y)
    <3> HIDE DEF y
    <3> QED BY <2>2 DEF CallFits, Held
  <2> QED BY <1>2, <1>7, <2>3 DEF Seed, Continue
<1>8. ASSUME NEW c \in Calls, NEW ph \in Phones, Login(c, ph)
      PROVE  CallsFit'
  <2> DEFINE y == [pc |-> "find", phone |-> ph, seen |-> Memberships(ph), admin |-> ph \in admins]
  <2>1. y.pc = "find" /\ y.seen = Memberships(ph) /\ y.phone = ph
    OBVIOUS
  <2>2. ASSUME NEW i \in Memberships(ph)
        PROVE  <<i.org, ph, i.role>> \in offered /\ member[i.org][ph] # Unset
    BY DEF Memberships, Offer, RolesWereOffered
  <2>3. CallFits(y)
    <3> HIDE DEF y
    <3> QED BY <2>1, <2>2 DEF CallFits, Held
  <2> QED BY <1>2, <1>8, <2>3 DEF Login, Begin
<1>9. ASSUME NEW c \in Calls, FindInvites(c)
      PROVE  CallsFit'
  <2> DEFINE ph == call[c].phone
             y  == [pc |-> "accept", phone |-> ph, todo |-> PendingInvites(ph)]
  <2>1. y.pc = "accept" /\ y.phone = ph /\ Held(y) = PendingInvites(ph)
    BY DEF Held
  <2>2. ph \in Phones
    BY <1>1, <1>9, CallShapes DEF FindInvites
  <2>3. ASSUME NEW i \in PendingInvites(ph)
        PROVE  <<i.org, ph, i.role>> \in offered /\ invite[i.org][ph].role = i.role
    <3>1. invite[i.org][ph] = [state |-> "pending", role |-> i.role] /\ i.org \in Orgs
      BY DEF PendingInvites, Offer
    <3>2. invite[i.org][ph].state # "none" /\ invite[i.org][ph].role = i.role
      BY <3>1
    <3> QED BY <2>2, <3>1, <3>2 DEF InvitesWereOffered
  <2>4. CallFits(y)
    <3> HIDE DEF y
    <3> QED BY <2>1, <2>3 DEF CallFits
  <2> QED BY <1>2, <1>9, <2>4 DEF FindInvites, Continue
<1>10. ASSUME NEW c \in Calls, NEW t \in tokens, NEW o \in Orgs, NEW ph \in Phones,
              AcceptInvite(c, t, o, ph)
       PROVE  CallsFit'
  <2> DEFINE i == [org |-> o, role |-> invite[o][ph].role]
             y == [pc |-> "join", phone |-> t.phone, todo |-> {}, now |-> i]
  <2>1. y.pc = "join" /\ y.phone = ph /\ Held(y) = {i} /\ i.org = o /\ i.role = invite[o][ph].role
    BY <1>10 DEF Held, AcceptInvite, Addressed
  <2>2. <<o, ph, invite[o][ph].role>> \in offered
    BY <1>10 DEF AcceptInvite, InvitesWereOffered
  <2>3. CallFits(y)
    <3> HIDE DEF y, i
    <3> QED BY <2>1, <2>2 DEF CallFits
  <2> QED BY <1>2, <1>10, <2>3 DEF AcceptInvite, Begin
<1>11. ASSUME NEW c \in Calls, AcceptNext(c)
       PROVE  CallsFit'
  <2> DEFINE ph == call[c].phone
  <2>1. PICK i \in call[c].todo :
          /\ UpsertMember(i.org, ph, i.role)
          /\ call' = [call EXCEPT ![c] = [pc |-> "mark", phone |-> ph, todo |-> call[c].todo \ {i},
                                          now |-> i]]
    BY <1>11 DEF AcceptNext, Continue
  <2>2. call[c].pc = "accept" /\ Held(call[c]) = call[c].todo /\ UNCHANGED invites
    BY <1>11 DEF AcceptNext, Held
  <2>3. ph \in Phones /\ i.org \in Orgs /\ i.role \in Roles
    BY <1>1, <2>2, HeldShapes
  <2>4. \A p \in Orgs, q \in Phones :
          member'[p][q] = IF p = i.org /\ q = ph THEN i.role ELSE member[p][q]
    BY <2>1, <2>3, UpsertTypes DEF TypeOK
  <2>5. \A j \in call[c].todo :
          /\ <<j.org, ph, j.role>> \in offered
          /\ <<j.org, ph>> \notin overtaken => invite[j.org][ph].role = j.role
    BY <2>2 DEF CallsFit, CallFits
  <2>6. \A x \in Call : CallFits(x) => CallFits(x)'
    <3>1. \A p \in Orgs, q \in Phones :
            /\ invite'[p][q].role = invite[p][q].role
            /\ \/ member'[p][q] = member[p][q]
               \/ /\ member'[p][q] \in Roles
                  /\ <<p, q>> \in overtaken \/ member'[p][q] = invite[p][q].role
      BY <2>2, <2>3, <2>4, <2>5 DEF invites
    <3> QED BY <2>2, <3>1, CallStillFits DEF invites
  <2>7. PICK y : /\ call' = [call EXCEPT ![c] = y]
                 /\ y.pc = "mark" /\ y.phone = ph /\ y.now = i
                 /\ Held(y) = (call[c].todo \ {i}) \cup {i}
    <3> DEFINE z == [pc |-> "mark", phone |-> ph, todo |-> call[c].todo \ {i}, now |-> i]
    <3>1. z.pc = "mark" /\ z.phone = ph /\ z.now = i /\ Held(z) = (call[c].todo \ {i}) \cup {i}
      BY DEF Held
    <3>2. call' = [call EXCEPT ![c] = z]
      BY <2>1
    <3> HIDE DEF z
    <3> QED BY <3>1, <3>2
  <2>8. member'[i.org][ph] = i.role
    BY <2>3, <2>4
  <2> HIDE DEF ph
  <2>9. CallFits(y)'
    BY <2>2, <2>5, <2>7, <2>8 DEF CallFits, Held, invites
  <2> QED BY <1>1, <2>6, <2>7, <2>9, CallsFitAfter
(* An invite that changes its state only. *)
<1>12. ASSUME NEW o \in Orgs, NEW ph \in Phones, NEW word, word \in {"accepted", "expired"},
              invite' = [invite EXCEPT ![o][ph].state = word],
              UNCHANGED <<member, offered, overtaken>>
       PROVE  \A x \in Call : CallFits(x) => CallFits(x)'
  <2>1. \A p \in Orgs, q \in Phones : invite'[p][q].role = invite[p][q].role
    BY <1>12, SetAcceptedTypes DEF TypeOK
  <2> QED BY <1>12, <2>1, CallStillFits
<1>13. ASSUME NEW c \in Calls, MarkAccepted(c)
       PROVE  CallsFit'
  <2>1. /\ call[c].pc = "mark"
        /\ call' = [call EXCEPT ![c] = [pc |-> "accept", phone |-> call[c].phone, todo |-> call[c].todo]]
        /\ invite' = [invite EXCEPT ![call[c].now.org][call[c].phone].state = "accepted"]
        /\ UNCHANGED <<member, offered, overtaken>>
    BY <1>13 DEF MarkAccepted, Continue, SetAccepted
  <2>2. call[c].phone \in Phones /\ call[c].now.org \in Orgs
    BY <1>1, <2>1, CallShapes DEF Offer
  <2>3. \A x \in Call : CallFits(x) => CallFits(x)'
    BY <1>12, <2>1, <2>2
  <2>4. PICK x : x = call[c]
    OBVIOUS
  <2>5. PICK y : /\ call' = [call EXCEPT ![c] = y]
                 /\ y.pc = "accept" /\ y.phone = x.phone /\ Held(y) = x.todo
    <3> DEFINE z == [pc |-> "accept", phone |-> x.phone, todo |-> x.todo]
    <3>1. z.pc = "accept" /\ z.phone = x.phone /\ Held(z) = x.todo
      BY DEF Held
    <3>2. call' = [call EXCEPT ![c] = z]
      BY <2>1, <2>4
    <3> HIDE DEF z
    <3> QED BY <3>1, <3>2
  <2>6. CallFits(y)'
    <3>1. CallFits(x)'
      BY <1>1, <2>3, <2>4 DEF CallsFit
    <3>2. Held(y) \subseteq Held(x)
      BY <2>1, <2>4, <2>5 DEF Held
    <3> QED BY <2>5, <3>1, <3>2 DEF CallFits, Held
  <2> QED BY <1>1, <2>3, <2>5, <2>6, CallsFitAfter
<1>14. ASSUME NEW c \in Calls, Join(c)
       PROVE  CallsFit'
  <2> DEFINE ph == call[c].phone
             i  == call[c].now
  <2>1. /\ call[c].pc = "join" /\ call' = [call EXCEPT ![c] = Idle]
        /\ UpsertMember(i.org, ph, i.role)
        /\ invite' = [invite EXCEPT ![i.org][ph].state = "accepted"]
        /\ UNCHANGED <<offered, overtaken>>
    BY <1>14 DEF Join, Continue, SetAccepted
  <2>2. ph \in Phones /\ i.org \in Orgs /\ i.role \in Roles /\ i \in Held(call[c])
    BY <1>1, <2>1, CallShapes DEF Offer, Held
  <2>3. \A p \in Orgs, q \in Phones :
          /\ member'[p][q] = IF p = i.org /\ q = ph THEN i.role ELSE member[p][q]
          /\ invite'[p][q].role = invite[p][q].role
    <3> HIDE DEF i, ph
    <3>1. \A p \in Orgs, q \in Phones :
            member'[p][q] = IF p = i.org /\ q = ph THEN i.role ELSE member[p][q]
      BY <2>1, <2>2, UpsertTypes DEF TypeOK
    <3>2. \A p \in Orgs, q \in Phones : invite'[p][q].role = invite[p][q].role
      BY <2>1, <2>2, SetAcceptedTypes DEF TypeOK
    <3> QED BY <3>1, <3>2
  <2>4. <<i.org, ph>> \notin overtaken => invite[i.org][ph].role = i.role
    BY <2>2 DEF CallsFit, CallFits
  <2> HIDE DEF i, ph
  <2>5. \A x \in Call : CallFits(x) => CallFits(x)'
    BY <2>1, <2>2, <2>3, <2>4, CallStillFits
  <2>6. CallFits(Idle)'
    BY DEF CallFits, Held, Idle
  <2> QED BY <1>1, <2>1, <2>5, <2>6, CallsFitAfter
<1>15. ASSUME NEW c \in Calls, FirstInvite(c)
       PROVE  CallsFit'
  <2>1. call[c].org \in Orgs /\ call[c].phone \in Phones /\ "org_admin" \in Roles
    BY <1>1, <1>15, CallShapes DEF FirstInvite, Continue
  <2>2. \A d \in Calls : \A x : x = call[d] /\ CallFits(x) => CallFits(x)'
    BY <1>15, <2>1, CallFitsAfterPut DEF FirstInvite
  <2>3. CallFits(Idle)'
    BY DEF CallFits, Held, Idle
  <2> QED BY <1>15, <2>2, <2>3, CallsFitAfter DEF FirstInvite, Continue
<1>16. ASSUME NEW o \in Orgs, NEW t \in tokens, NEW r \in Roles, NEW ph \in Phones, SendInvite(t, o, ph, r)
       PROVE  CallsFit'
  <2>1. \A d \in Calls : \A x : x = call[d] /\ CallFits(x) => CallFits(x)'
    BY <1>16, CallFitsAfterPut DEF SendInvite
  <2>2. ASSUME NEW d \in Calls, NEW x, x = call[d]
        PROVE  CallFits(x)'
    BY <2>1, <2>2 DEF CallsFit
  <2>3. call' = call
    BY <1>16 DEF SendInvite
  <2> QED BY <2>2, <2>3 DEF CallsFit
<1>17. ASSUME NEW o \in Orgs, NEW ph \in Phones, ExpireInvite(o, ph)
       PROVE  CallsFit'
  <2>1. /\ invite' = [invite EXCEPT ![o][ph].state = "expired"]
        /\ UNCHANGED <<member, offered, overtaken, call>>
    BY <1>17 DEF ExpireInvite
  <2>2. ASSUME NEW d \in Calls, NEW x, x = call[d]
        PROVE  CallFits(x)'
    BY <1>1, <1>12, <2>1, <2>2 DEF CallsFit
  <2> QED BY <2>1, <2>2 DEF CallsFit
<1>18. ASSUME NEW ph \in Staff, MakeAdmin(ph)
       PROVE  CallsFit'
  BY <1>3, <1>18 DEF MakeAdmin
<1>19. ASSUME NEW o \in Orgs, NEW t \in tokens,
              \/ SelectOrg(t, o)
              \/ \E r \in Roles : \E requested \in SUBSET Permissions : PutPermissions(t, o, r, requested)
       PROVE  CallsFit'
  BY <1>3, <1>19 DEF SelectOrg, PutPermissions
<1> QED BY <1>5, <1>6, <1>7, <1>8, <1>9, <1>10, <1>11, <1>13, <1>14, <1>15, <1>16, <1>17, <1>18, <1>19
        DEF Next

(* An invite that is marked with one of its later states. *)
LEMMA MarkedWasOffered ==
  ASSUME TypeOK, InvitesWereOffered, NEW o \in Orgs, NEW ph \in Phones, NEW word,
         word \in {"accepted", "expired"}, invite' = [invite EXCEPT ![o][ph].state = word],
         offered' = offered, \E r \in Roles : <<o, ph, r>> \in offered
  PROVE  InvitesWereOffered'
<1>1. \A p \in Orgs, q \in Phones :
        /\ invite'[p][q].role = invite[p][q].role
        /\ invite'[p][q].state = IF p = o /\ q = ph THEN word ELSE invite[p][q].state
  BY SetAcceptedTypes DEF TypeOK
<1>2. invite[o][ph].state # "none"
  BY DEF InvitesWereOffered
<1> QED BY <1>1, <1>2 DEF InvitesWereOffered

LEMMA PutInviteOffers ==
  ASSUME TypeOK, InvitesWereOffered, AcceptedTookEffect,
         NEW o \in Orgs, NEW ph \in Phones, NEW r \in Roles, PutInvite(o, ph, r), member' = member
  PROVE  InvitesWereOffered' /\ AcceptedTookEffect'
<1>1. /\ invite'[o][ph].state = "pending" /\ invite'[o][ph].role = r
      /\ \A p \in Orgs, q \in Phones : ~(p = o /\ q = ph) => invite'[p][q] = invite[p][q]
      /\ offered' = offered \cup {<<o, ph, r>>}
  <2> DEFINE sheet == [state |-> "pending", role |-> r]
  <2>1. sheet.state = "pending" /\ sheet.role = r
    OBVIOUS
  <2>2. invite' = [invite EXCEPT ![o][ph] = sheet] /\ offered' = offered \cup {<<o, ph, r>>}
    BY DEF PutInvite
  <2> HIDE DEF sheet
  <2> QED BY <2>1, <2>2 DEF TypeOK
<1>2. \A p \in Orgs, q \in Phones : ~(p = o /\ q = ph) =>
        (<<p, q>> \in overtaken <=> <<p, q>> \in overtaken')
  BY DEF PutInvite
<1>3. InvitesWereOffered'
  <2> SUFFICES ASSUME NEW p \in Orgs, NEW q \in Phones
               PROVE  /\ invite'[p][q].state # "none" => <<p, q, invite'[p][q].role>> \in offered'
                      /\ \A s \in Roles : <<p, q, s>> \in offered' => invite'[p][q].state # "none"
    BY DEF InvitesWereOffered
  <2>1. CASE p = o /\ q = ph
    BY <1>1, <2>1
  <2>2. CASE ~(p = o /\ q = ph)
    BY <1>1, <2>2 DEF InvitesWereOffered
  <2> QED BY <2>1, <2>2
<1>4. AcceptedTookEffect'
  <2> SUFFICES ASSUME NEW p \in Orgs, NEW q \in Phones, invite'[p][q].state = "accepted",
                      <<p, q>> \notin overtaken'
               PROVE  member'[p][q] = invite'[p][q].role
    BY DEF AcceptedTookEffect
  <2>1. ~(p = o /\ q = ph)
    BY <1>1
  <2> QED BY <1>1, <1>2, <2>1 DEF AcceptedTookEffect
<1> QED BY <1>3, <1>4

LEMMA InvitesStep ==
  ASSUME TypeOK, CallsFit, InvitesWereOffered, AcceptedTookEffect, Next
  PROVE  InvitesWereOffered' /\ AcceptedTookEffect'
<1> USE OrganisationsAssumption
<1>0. \A c \in Calls : call[c] \in Call
  BY DEF TypeOK
<1>1. CASE UNCHANGED <<member, invites>>
  BY <1>1 DEF InvitesWereOffered, AcceptedTookEffect, invites
<1>2. ASSUME NEW c \in Calls, AcceptNext(c)
      PROVE  InvitesWereOffered' /\ AcceptedTookEffect'
  <2> DEFINE ph == call[c].phone
  <2>1. PICK i \in call[c].todo : UpsertMember(i.org, ph, i.role)
    BY <1>2 DEF AcceptNext
  <2>2. i \in Held(call[c]) /\ UNCHANGED <<invite, offered, overtaken>>
    BY <1>2 DEF AcceptNext, Held, invites
  <2>3. ph \in Phones /\ i.org \in Orgs /\ i.role \in Roles
    BY <1>0, <2>2, HeldShapes
  <2>4. \A p \in Orgs, q \in Phones :
          member'[p][q] = IF p = i.org /\ q = ph THEN i.role ELSE member[p][q]
    BY <2>1, <2>3, UpsertTypes DEF TypeOK
  <2>5. <<i.org, ph>> \notin overtaken => invite[i.org][ph].role = i.role
    BY <2>2 DEF CallsFit, CallFits
  <2> HIDE DEF ph
  <2>6. InvitesWereOffered'
    BY <2>2 DEF InvitesWereOffered
  <2>7. AcceptedTookEffect'
    BY <2>2, <2>4, <2>5 DEF AcceptedTookEffect
  <2> QED BY <2>6, <2>7
<1>3. ASSUME NEW c \in Calls, MarkAccepted(c)
      PROVE  InvitesWereOffered' /\ AcceptedTookEffect'
  <2> DEFINE ph == call[c].phone
             i  == call[c].now
  <2>1. /\ call[c].pc = "mark" /\ invite' = [invite EXCEPT ![i.org][ph].state = "accepted"]
        /\ UNCHANGED <<member, offered, overtaken>>
    BY <1>3 DEF MarkAccepted, Continue, SetAccepted
  <2>2. i \in Held(call[c])
    BY <1>0, <2>1, HeldShapes
  <2>3. ph \in Phones /\ i.org \in Orgs /\ i.role \in Roles
    BY <1>0, <2>2, HeldShapes
  <2>4. /\ <<i.org, ph, i.role>> \in offered
        /\ <<i.org, ph>> \notin overtaken =>
             invite[i.org][ph].role = i.role /\ member[i.org][ph] = i.role
    BY <2>1, <2>2 DEF CallsFit, CallFits
  <2> HIDE DEF ph, i
  <2>5. InvitesWereOffered'
    BY <2>1, <2>3, <2>4, MarkedWasOffered
  <2>6. \A p \in Orgs, q \in Phones :
          /\ invite'[p][q].role = invite[p][q].role
          /\ invite'[p][q].state = IF p = i.org /\ q = ph THEN "accepted" ELSE invite[p][q].state
    BY <2>1, <2>3, SetAcceptedTypes DEF TypeOK
  <2>7. AcceptedTookEffect'
    BY <2>1, <2>4, <2>6 DEF AcceptedTookEffect
  <2> QED BY <2>5, <2>7
<1>4. ASSUME NEW c \in Calls, Join(c)
      PROVE  InvitesWereOffered' /\ AcceptedTookEffect'
  <2> DEFINE ph == call[c].phone
             i  == call[c].now
  <2>1. /\ call[c].pc = "join" /\ invite' = [invite EXCEPT ![i.org][ph].state = "accepted"]
        /\ UpsertMember(i.org, ph, i.role) /\ UNCHANGED <<offered, overtaken>>
    BY <1>4 DEF Join, Continue, SetAccepted
  <2>2. i \in Held(call[c])
    BY <2>1 DEF Held
  <2>3. ph \in Phones /\ i.org \in Orgs /\ i.role \in Roles
    BY <1>0, <2>2, HeldShapes
  <2>4. /\ <<i.org, ph, i.role>> \in offered
        /\ <<i.org, ph>> \notin overtaken => invite[i.org][ph].role = i.role
    BY <2>2 DEF CallsFit, CallFits
  <2> HIDE DEF ph, i
  <2>5. InvitesWereOffered'
    BY <2>1, <2>3, <2>4, MarkedWasOffered
  <2>6. \A p \in Orgs, q \in Phones :
          /\ invite'[p][q].role = invite[p][q].role
          /\ invite'[p][q].state = IF p = i.org /\ q = ph THEN "accepted" ELSE invite[p][q].state
    BY <2>1, <2>3, SetAcceptedTypes DEF TypeOK
  <2>7. \A p \in Orgs, q \in Phones :
          member'[p][q] = IF p = i.org /\ q = ph THEN i.role ELSE member[p][q]
    BY <2>1, <2>3, UpsertTypes DEF TypeOK
  <2>8. AcceptedTookEffect'
    BY <2>1, <2>4, <2>6, <2>7 DEF AcceptedTookEffect
  <2> QED BY <2>5, <2>8
<1>5. ASSUME NEW c \in Calls, FirstInvite(c)
      PROVE  InvitesWereOffered' /\ AcceptedTookEffect'
  <2>1. call[c].org \in Orgs /\ call[c].phone \in Phones /\ "org_admin" \in Roles
    BY <1>0, <1>5, CallShapes DEF FirstInvite, Continue
  <2> QED BY <1>5, <2>1, PutInviteOffers DEF FirstInvite
<1>6. ASSUME NEW o \in Orgs, NEW ph \in Phones, ExpireInvite(o, ph)
      PROVE  InvitesWereOffered' /\ AcceptedTookEffect'
  <2>1. /\ invite[o][ph].state = "pending" /\ invite' = [invite EXCEPT ![o][ph].state = "expired"]
        /\ UNCHANGED <<member, offered, overtaken>>
    BY <1>6 DEF ExpireInvite
  <2>2. \E r \in Roles : <<o, ph, r>> \in offered
    BY <2>1 DEF InvitesWereOffered, TypeOK, Invite
  <2>3. InvitesWereOffered'
    BY <2>1, <2>2, MarkedWasOffered
  <2>4. \A p \in Orgs, q \in Phones :
          /\ invite'[p][q].role = invite[p][q].role
          /\ invite'[p][q].state = IF p = o /\ q = ph THEN "expired" ELSE invite[p][q].state
    BY <2>1, SetAcceptedTypes DEF TypeOK
  <2>5. AcceptedTookEffect'
    BY <2>1, <2>4 DEF AcceptedTookEffect
  <2> QED BY <2>3, <2>5
<1>7. ASSUME NEW o \in Orgs, NEW t \in tokens, NEW r \in Roles, NEW ph \in Phones, SendInvite(t, o, ph, r)
      PROVE  InvitesWereOffered' /\ AcceptedTookEffect'
  BY <1>7, PutInviteOffers DEF SendInvite
<1> QED BY <1>1, <1>2, <1>3, <1>4, <1>5, <1>6, <1>7, MembershipWriters
-----------------------------------------------------------------------------
(* A token of an organisation was offered, to a member. *)
TokenFits(t) ==
  t.org # NoOrg => <<t.org, t.phone, t.role>> \in offered /\ member[t.org][t.phone] # Unset

LEMMA SignFits ==
  ASSUME NEW ph, NEW role, NEW o, Sign(ph, role, o),
         o # NoOrg => <<o, ph, role>> \in offered' /\ member'[o][ph] # Unset
  PROVE  \A t \in tokens' : t \in tokens \/ TokenFits(t)'
BY DEF Sign, TokenFits

LEMMA SignForFits ==
  ASSUME NEW ph, NEW memberships, NEW admin, SignFor(ph, memberships, admin),
         \A i \in memberships : <<i.org, ph, i.role>> \in offered' /\ member'[i.org][ph] # Unset
  PROVE  \A t \in tokens' : t \in tokens \/ TokenFits(t)'
<1>1. ASSUME NEW role, Sign(ph, role, NoOrg)
      PROVE  \A t \in tokens' : t \in tokens \/ TokenFits(t)'
  BY <1>1, SignFits
<1>2. ASSUME NEW i \in Offer, memberships = {i}, Sign(ph, i.role, i.org)
      PROVE  \A t \in tokens' : t \in tokens \/ TokenFits(t)'
  BY <1>2, SignFits
<1> QED BY <1>1, <1>2 DEF SignFor

LEMMA MembersStep ==
  ASSUME TypeOK, CallsFit, RolesWereOffered, Next
  PROVE  /\ offered \subseteq offered'
         /\ \A o \in Orgs, ph \in Phones :
              /\ member[o][ph] # Unset => member'[o][ph] # Unset
              /\ member'[o][ph] # Unset => <<o, ph, member'[o][ph]>> \in offered'
<1> USE OrganisationsAssumption
<1> DEFINE Goal == /\ offered \subseteq offered'
                   /\ \A o \in Orgs, ph \in Phones :
                        /\ member[o][ph] # Unset => member'[o][ph] # Unset
                        /\ member'[o][ph] # Unset => <<o, ph, member'[o][ph]>> \in offered'
<1>0. \A c \in Calls : call[c] \in Call
  BY DEF TypeOK
<1>1. ASSUME offered \subseteq offered', member' = member
      PROVE  Goal
  BY <1>1 DEF RolesWereOffered
<1>2. ASSUME NEW c \in Calls, NEW i \in Held(call[c]), UpsertMember(i.org, call[c].phone, i.role),
             offered' = offered
      PROVE  Goal
  <2> DEFINE ph == call[c].phone
  <2>1. ph \in Phones /\ i.org \in Orgs /\ i.role \in Roles
    BY <1>0, HeldShapes
  <2>2. <<i.org, ph, i.role>> \in offered
    BY DEF CallsFit, CallFits
  <2>3. \A p \in Orgs, q \in Phones :
          member'[p][q] = IF p = i.org /\ q = ph THEN i.role ELSE member[p][q]
    BY <1>2, <2>1, UpsertTypes DEF TypeOK
  <2> HIDE DEF ph
  <2> QED BY <1>2, <2>1, <2>2, <2>3 DEF RolesWereOffered
<1>3. ASSUME UNCHANGED <<member, invites>>
      PROVE  Goal
  BY <1>1, <1>3 DEF invites
<1>4. ASSUME NEW c \in Calls, AcceptNext(c)
      PROVE  Goal
  <2>1. PICK i \in call[c].todo : UpsertMember(i.org, call[c].phone, i.role)
    BY <1>4 DEF AcceptNext
  <2>2. i \in Held(call[c]) /\ offered' = offered
    BY <1>4 DEF AcceptNext, Held, invites
  <2> QED BY <1>2, <2>1, <2>2
<1>5. ASSUME NEW c \in Calls, Join(c)
      PROVE  Goal
  <2>1. call[c].now \in Held(call[c]) /\ offered' = offered
    BY <1>5 DEF Join, Continue, SetAccepted, Held
  <2> QED BY <1>2, <1>5, <2>1 DEF Join
<1>6. ASSUME NEW c \in Calls, MarkAccepted(c) \/ FirstInvite(c)
      PROVE  Goal
  BY <1>1, <1>6 DEF MarkAccepted, SetAccepted, FirstInvite, PutInvite
<1>7. ASSUME NEW o \in Orgs, NEW ph \in Phones,
             ExpireInvite(o, ph) \/ \E t \in tokens, r \in Roles : SendInvite(t, o, ph, r)
      PROVE  Goal
  BY <1>1, <1>7 DEF ExpireInvite, SendInvite, PutInvite
<1> HIDE DEF Goal
<1>8. Goal
  BY <1>3, <1>4, <1>5, <1>6, <1>7, MembershipWriters
<1> QED BY <1>8 DEF Goal

(* Every new token is signed from memberships that are there. *)
LEMMA TokensStep ==
  ASSUME TypeOK, CallsFit, RolesWereOffered, Next
  PROVE  \A t \in tokens' : t \in tokens \/ TokenFits(t)'
<1> USE OrganisationsAssumption
<1> DEFINE Goal == \A t \in tokens' : t \in tokens \/ TokenFits(t)'
<1>0. /\ \A c \in Calls : call[c] \in Call
      /\ \A t \in tokens : t.phone \in Phones
  BY DEF TypeOK, Token
<1>1. ASSUME tokens' = tokens
      PROVE  Goal
  BY <1>1
<1>2. ASSUME NEW c \in Calls, FindNoInvites(c)
      PROVE  Goal
  <2> DEFINE ph == call[c].phone
             seen == call[c].seen
  <2>1. call[c].pc = "find" /\ SignFor(ph, seen, call[c].admin) /\ UNCHANGED <<member, offered>>
    BY <1>2 DEF FindNoInvites, Continue, invites
  <2>2. \A i \in seen : <<i.org, ph, i.role>> \in offered /\ member[i.org][ph] # Unset
    BY <2>1 DEF CallsFit, CallFits
  <2> HIDE DEF ph, seen
  <2> QED BY <2>1, <2>2, SignForFits
<1>3. ASSUME NEW c \in Calls, SignReloaded(c)
      PROVE  Goal
  <2> DEFINE ph == call[c].phone
  <2>1. /\ call[c].pc = "accept" /\ SignFor(ph, Memberships(ph), ph \in admins)
        /\ UNCHANGED <<member, offered>>
    BY <1>3 DEF SignReloaded, Continue, invites
  <2>2. ph \in Phones
    BY <1>0, <2>1, CallShapes
  <2> HIDE DEF ph
  <2>3. \A i \in Memberships(ph) : <<i.org, ph, i.role>> \in offered /\ member[i.org][ph] # Unset
    BY <2>2 DEF Memberships, Offer, RolesWereOffered
  <2> QED BY <2>1, <2>3, SignForFits
<1>4. ASSUME NEW c \in Calls, Join(c)
      PROVE  Goal
  <2> DEFINE ph == call[c].phone
             i  == call[c].now
             r  == member'[i.org][ph]
  <2>1. /\ call[c].pc = "join" /\ UpsertMember(i.org, ph, i.role)
        /\ Sign(ph, r, i.org) /\ offered' = offered
    BY <1>4 DEF Join, Continue, SetAccepted
  <2>2. ph \in Phones /\ i.org \in Orgs /\ i.role \in Roles /\ i \in Held(call[c])
    BY <1>0, <2>1, CallShapes DEF Offer, Held
  <2>3. <<i.org, ph, i.role>> \in offered
    BY <2>2 DEF CallsFit, CallFits
  <2>4. r = i.role
    BY <2>1, <2>2, UpsertTypes DEF TypeOK
  <2>5. PICK s : s = i.role
    OBVIOUS
  <2>6. Sign(ph, s, i.org) /\ <<i.org, ph, s>> \in offered' /\ member'[i.org][ph] = s /\ s # Unset
    BY <2>1, <2>2, <2>3, <2>4, <2>5
  <2> HIDE DEF ph, i, r
  <2> QED BY <2>6, SignFits
<1>5. ASSUME NEW o \in Orgs, NEW t \in tokens, SelectOrg(t, o)
      PROVE  Goal
  <2>1. /\ member[o][t.phone] # Unset /\ Sign(t.phone, member[o][t.phone], o)
        /\ UNCHANGED <<member, offered>>
    BY <1>5 DEF SelectOrg, invites
  <2>2. <<o, t.phone, member[o][t.phone]>> \in offered
    BY <1>0, <2>1 DEF RolesWereOffered
  <2> QED BY <2>1, <2>2, SignFits
<1>6. ASSUME NEW ph \in Staff, MakeAdmin(ph)
      PROVE  tokens' = tokens
  BY <1>6 DEF MakeAdmin
<1>7. ASSUME NEW c \in Calls, NEW ph \in Phones, Login(c, ph)
      PROVE  tokens' = tokens
  BY <1>7 DEF Login
<1>8. ASSUME NEW c \in Calls, NEW t \in tokens, NEW o \in Orgs, NEW ph \in Phones,
             CreateOrg(c, t, o, ph) \/ AcceptInvite(c, t, o, ph)
      PROVE  tokens' = tokens
  BY <1>8 DEF CreateOrg, AcceptInvite
<1>9. ASSUME NEW c \in Calls,
             \/ Seed(c) \/ FirstInvite(c) \/ FindInvites(c) \/ AcceptNext(c) \/ MarkAccepted(c)
             \/ Crash(c)
      PROVE  tokens' = tokens
  BY <1>9 DEF Seed, FirstInvite, FindInvites, AcceptNext, MarkAccepted, Crash
<1>10. ASSUME NEW o \in Orgs, NEW ph \in Phones,
              ExpireInvite(o, ph) \/ \E t \in tokens, r \in Roles : SendInvite(t, o, ph, r)
       PROVE  tokens' = tokens
  BY <1>10 DEF ExpireInvite, SendInvite
<1>11. ASSUME NEW t \in tokens, NEW o \in Orgs, NEW r \in Roles, NEW requested \in SUBSET Permissions,
              PutPermissions(t, o, r, requested)
       PROVE  tokens' = tokens
  BY <1>11 DEF PutPermissions
<1> HIDE DEF Goal
<1>12. Goal
  BY <1>1, <1>2, <1>3, <1>4, <1>5, <1>6, <1>7, <1>8, <1>9, <1>10, <1>11 DEF Next
<1> QED BY <1>12 DEF Goal

LEMMA RolesStep ==
  ASSUME TypeOK, CallsFit, RolesWereOffered, Next
  PROVE  RolesWereOffered'
<1>1. \A o \in Orgs, ph \in Phones :
        member'[o][ph] # Unset => <<o, ph, member'[o][ph]>> \in offered'
  BY MembersStep
<1>2. ASSUME NEW t \in tokens', t.org # NoOrg
      PROVE  <<t.org, t.phone, t.role>> \in offered' /\ member'[t.org][t.phone] # Unset
  <2>1. CASE t \in tokens
    <3>1. t.org \in Orgs /\ t.phone \in Phones
      BY <1>2, <2>1 DEF TypeOK, Token
    <3>2. <<t.org, t.phone, t.role>> \in offered /\ member[t.org][t.phone] # Unset
      BY <1>2, <2>1 DEF RolesWereOffered
    <3> QED BY <3>1, <3>2, MembersStep
  <2>2. CASE t \notin tokens
    BY <1>2, <2>2, TokensStep DEF TokenFits
  <2> QED BY <2>1, <2>2
<1> QED BY <1>1, <1>2 DEF RolesWereOffered
-----------------------------------------------------------------------------
LEMMA InvInit == Init => Inv
<1> USE OrganisationsAssumption
<1> SUFFICES ASSUME Init PROVE Inv
  OBVIOUS
<1>1. PermissionsInv
  <2>1. \A o \in Orgs, r \in Roles : stored[o][r] = Unset /\ configured[o][r] = Unset
    BY DEF Init, NoRows
  <2>2. RowsFit
    BY DEF Init, NoRows, RowsFit
  <2> QED BY <2>1, <2>2 DEF PermissionsInv, PermissionsType, ConfiguredIsStored
<1>2. /\ \A o \in Orgs, ph \in Phones : member[o][ph] = Unset /\ invite[o][ph].state = "none"
      /\ \A c \in Calls : call[c] = Idle
      /\ tokens = {} /\ offered = {}
  BY DEF Init
<1>3. TypeOK
  <2>1. [state |-> "none", role |-> "driver"] \in Invite
    BY DEF Invite
  <2>2. invite \in [Orgs -> [Phones -> Invite]]
    BY <2>1 DEF Init
  <2>3. call \in [Calls -> Call]
    BY DEF Init, Call
  <2> QED BY <1>1, <2>2, <2>3 DEF Init, TypeOK, PermissionsInv, PermissionsType
<1>4. CallsFit
  <2>1. CallFits(Idle)
    BY DEF CallFits, Held, Idle
  <2> QED BY <1>2, <2>1 DEF CallsFit
<1>5. InvitesWereOffered /\ RolesWereOffered /\ AcceptedTookEffect
  BY <1>2 DEF InvitesWereOffered, RolesWereOffered, AcceptedTookEffect
<1> QED BY <1>1, <1>3, <1>4, <1>5 DEF Inv

LEMMA InvStutters == Inv /\ UNCHANGED vars => Inv'
<1> SUFFICES ASSUME Inv, UNCHANGED vars PROVE Inv'
  OBVIOUS
<1> USE DEF Inv, vars, permissions, invites
<1>1. TypeOK' /\ PermissionsInv'
  BY DEF TypeOK, PermissionsInv, RowsFit, PermissionsType, ConfiguredIsStored
<1>2. CallsFit'
  BY DEF CallsFit, CallFits, Held
<1>3. InvitesWereOffered' /\ RolesWereOffered' /\ AcceptedTookEffect'
  BY DEF InvitesWereOffered, RolesWereOffered, AcceptedTookEffect
<1> QED BY <1>1, <1>2, <1>3

LEMMA Invariance == Spec => []Inv
<1>1. Inv /\ [Next]_vars => Inv'
  <2>1. Inv /\ Next => Inv'
    BY TypeStep, PermissionsStep, CallsStep, InvitesStep, RolesStep DEF Inv
  <2> QED BY <2>1, InvStutters
<1> QED BY <1>1, InvInit, PTL DEF Spec

(* The rows, tokens and requests keep their types, and no stored           *)
(* permission is above the ceiling of its role.                            *)
THEOREM TypeCorrect == Spec => []TypeOK
<1>1. Inv => TypeOK
  BY DEF Inv
<1> QED BY <1>1, Invariance, PTL

(* An accepted invite has given its role, however many log-ins and         *)
(* acceptances overlap and wherever they stop.                             *)
THEOREM AcceptanceTakesEffect == Spec => []AcceptedTookEffect
<1>1. Inv => AcceptedTookEffect
  BY DEF Inv
<1> QED BY <1>1, Invariance, PTL

(* No membership and no token has a role that was not offered to its       *)
(* phone in its organisation.                                              *)
THEOREM NoRoleWithoutOffer == Spec => []RolesWereOffered
<1>1. Inv => RolesWereOffered
  BY DEF Inv
<1> QED BY <1>1, Invariance, PTL

(* What was configured for a role is what its members may do.              *)
THEOREM ConfigurationStays == Spec => []ConfiguredStays
<1>1. Inv => ConfiguredStays
  <2> SUFFICES ASSUME Inv, NEW o \in Orgs, NEW r \in Roles, configured[o][r] # Unset
               PROVE  Effective(o, r) = configured[o][r]
    BY DEF ConfiguredStays
  <2>1. stored[o][r] = configured[o][r] /\ configured[o][r] \subseteq Ceiling[r]
    BY DEF Inv, PermissionsInv, PermissionsType, ConfiguredIsStored
  <2> QED BY <2>1 DEF Effective, Clamp
<1> QED BY <1>1, Invariance, PTL

=============================================================================
