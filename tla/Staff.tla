-------------------------------- MODULE Staff --------------------------------
(***************************************************************************)
(* Who may act for a host: its staff (staffService, hostContext), scoped   *)
(* to branches, and the keys of partners (ApiKey).  A request resolves its *)
(* scope once and is answered later, when the membership may be another.   *)
(***************************************************************************)
EXTENDS FiniteSets

CONSTANTS
  Owners,    \* verified hosts
  Branches, OwnerOf,
  Staffers,  \* other users
  Keys,      \* of partners
  Visits,    \* requests by staff and partners
  Everywhere \* allowedBranchIds = null

ASSUME StaffConstants == OwnerOf \in [Branches -> Owners] /\ Everywhere \notin SUBSET Branches

VARIABLES
  member,  \* StaffMember documents, one for an owner and a user
  joining, \* members whose invitation was found and is yet to be saved
  key,     \* ApiKey documents
  visit    \* requests: the scope they resolved, and what they showed

staffVars == <<member, joining, key, visit>>

Owned(h) == {b \in Branches : OwnerOf[b] = h}

NoMember == [status |-> "none", role |-> "none", all |-> FALSE, branches |-> {}]
NoKey == [status |-> "none", owner |-> "none", all |-> FALSE, branches |-> {}]
NoVisit == [at |-> "idle", owner |-> "none", role |-> "none", allowed |-> {},
            granted |-> {}, shown |-> {}]

StaffInit ==
  /\ member = [m \in Owners \X Staffers |-> NoMember]
  /\ joining = {}
  /\ key = [k \in Keys |-> NoKey]
  /\ visit = [v \in Visits |-> NoVisit]
-----------------------------------------------------------------------------
(* Memberships and keys. *)

(* PERMS, of the roles that may do anything below *)
Perms == [owner        |-> {"view", "reception", "checkin", "manage", "incident"},
          manager      |-> {"view", "manage", "incident"},
          receptionist |-> {"view", "reception", "checkin"}]

RoleHas(role, permission) == role \in DOMAIN Perms /\ permission \in Perms[role]

(* inviteStaff: one branch of another host refuses the whole invitation;   *)
(* an invitation replaces the membership there is.                         *)
InviteStaff(h, u, role, all, bs) ==
  /\ role # "owner" /\ (all \/ bs \subseteq Owned(h))
  /\ member' = [member EXCEPT ![<<h, u>>] =
       [status |-> "invited", role |-> role, all |-> all, branches |-> IF all THEN {} ELSE bs]]
  /\ UNCHANGED <<joining, key, visit>>

FindInvite(m) ==
  /\ member[m].status = "invited"
  /\ joining' = joining \cup {m}
  /\ UNCHANGED <<member, key, visit>>

AcceptInvite(m) ==
  /\ m \in joining
  /\ member' = [member EXCEPT ![m].status = "active"]
  /\ joining' = joining \ {m}
  /\ UNCHANGED <<key, visit>>

RevokeStaff(m) ==
  /\ member[m].status \notin {"none", "revoked"}
  /\ member' = [member EXCEPT ![m].status = "revoked"]
  /\ UNCHANGED <<joining, key, visit>>

(* createApiKey: all branches, or some, each of the host. *)
CreateApiKey(k, h, all, bs) ==
  /\ key[k] = NoKey /\ bs \subseteq Owned(h) /\ (all \/ bs # {})
  /\ key' = [key EXCEPT ![k] = [status |-> "active", owner |-> h, all |-> all,
                                branches |-> IF all THEN {} ELSE bs]]
  /\ UNCHANGED <<member, joining, visit>>

RevokeApiKey(k) ==
  /\ key[k].status = "active"
  /\ key' = [key EXCEPT ![k].status = "revoked"]
  /\ UNCHANGED <<member, joining, visit>>
-----------------------------------------------------------------------------
(* resolveHostContext and requireApiKey: the scope of a request. *)

AllowedBranchIds(s) == IF s.all THEN Everywhere ELSE s.branches

Resolved(v, at, h, role, s) ==
  /\ visit[v].at = "idle"
  /\ visit' = [visit EXCEPT ![v] =
       [at |-> at, owner |-> h, role |-> role, allowed |-> AllowedBranchIds(s),
        granted |-> IF s.all THEN Owned(h) ELSE s.branches, shown |-> {}]]
  /\ UNCHANGED <<member, joining, key>>

OwnerVisits(v, h) ==
  Resolved(v, "host", h, "owner", [all |-> TRUE, branches |-> {}])

Memberships(u) == {h \in Owners : member[<<h, u>>].status = "active"}

(* The header names the host, or there is one membership only. *)
StaffVisits(v, u, h) ==
  /\ h \in Memberships(u)
  /\ Resolved(v, "staff", h, member[<<h, u>>].role, member[<<h, u>>])

PartnerVisits(v, k) ==
  /\ key[k].status = "active"
  /\ Resolved(v, "partner", key[k].owner, "partner", key[k])

(* assertBranchAccess: an empty list denies everything. *)
AssertBranchAccess(x, b) == x.allowed = Everywhere \/ b \in x.allowed

(* branchScopedSpaceFilter, or HostID alone *)
BranchScoped(x) == IF x.allowed = Everywhere THEN Owned(x.owner) ELSE Owned(x.owner) \cap x.allowed

Shows(v, bs) ==
  /\ visit' = [visit EXCEPT ![v].at = "done", ![v].shown = bs]
  /\ UNCHANGED <<member, joining, key>>

AtDesk(v, permission) == visit[v].at \in {"host", "staff"} /\ RoleHas(visit[v].role, permission)

StaffHostInbox(v) == AtDesk(v, "reception") /\ Shows(v, BranchScoped(visit[v]))

StaffReceptionToday(v) == AtDesk(v, "reception") /\ Shows(v, BranchScoped(visit[v]))

(* Mutant of StaffHostCalendar: without a branch the first of the list is  *)
(* taken, and none of an empty one is every branch.                        *)
StaffHostCalendarFirst(v) ==
  /\ AtDesk(v, "view")
  /\ LET x == visit[v] IN
       IF x.allowed = Everywhere \/ x.allowed = {}
         THEN Shows(v, Owned(x.owner))
         ELSE \E b \in x.allowed : Shows(v, Owned(x.owner) \cap {b})

(* getHostCalendar, of one branch or of all that are allowed *)
StaffHostCalendar(v) ==
  /\ AtDesk(v, "view")
  /\ LET x == visit[v] IN
       \/ \E b \in Branches : AssertBranchAccess(x, b) /\ Shows(v, Owned(x.owner) \cap {b})
       \/ x.allowed # {} /\ Shows(v, BranchScoped(x))

(* A booking of the host, and the branch of its space. *)
ActsOn(v, b) ==
  /\ b \in Owned(visit[v].owner) /\ AssertBranchAccess(visit[v], b)
  /\ Shows(v, {b})

StaffScanCheckIn(v, b) == AtDesk(v, "checkin") /\ ActsOn(v, b)
StaffConfirmBooking(v, b) == AtDesk(v, "manage") /\ ActsOn(v, b)
StaffNoShow(v, b) == AtDesk(v, "manage") /\ ActsOn(v, b)
CreateIncident(v, b) == AtDesk(v, "incident") /\ ActsOn(v, b)

PartnerListSpaces(v) == visit[v].at = "partner" /\ Shows(v, BranchScoped(visit[v]))
PartnerGetBooking(v, b) == visit[v].at = "partner" /\ ActsOn(v, b)

Leaves(v) ==
  /\ visit[v].at = "done"
  /\ visit' = [visit EXCEPT ![v] = NoVisit]
  /\ UNCHANGED <<member, joining, key>>

VisitStep(v) ==
  \/ \E h \in Owners : OwnerVisits(v, h) \/ \E u \in Staffers : StaffVisits(v, u, h)
  \/ \E k \in Keys : PartnerVisits(v, k)
  \/ StaffHostInbox(v) \/ StaffReceptionToday(v) \/ StaffHostCalendar(v)
  \/ \E b \in Branches :
       \/ StaffScanCheckIn(v, b) \/ StaffConfirmBooking(v, b) \/ StaffNoShow(v, b)
       \/ CreateIncident(v, b) \/ PartnerGetBooking(v, b)
  \/ PartnerListSpaces(v) \/ Leaves(v)

MemberNext ==
  \/ \E h \in Owners, u \in Staffers, role \in DOMAIN Perms, all \in BOOLEAN :
        \E bs \in IF all THEN {{}} ELSE SUBSET Branches : InviteStaff(h, u, role, all, bs)
  \/ \E m \in Owners \X Staffers : FindInvite(m) \/ AcceptInvite(m) \/ RevokeStaff(m)

KeyNext ==
  \E k \in Keys :
    \/ \E h \in Owners, all \in BOOLEAN :
         \E bs \in IF all THEN {{}} ELSE SUBSET Branches : CreateApiKey(k, h, all, bs)
    \/ RevokeApiKey(k)

VisitNext == \E v \in Visits : VisitStep(v)

StaffNext == MemberNext \/ KeyNext \/ VisitNext

StaffSpec == StaffInit /\ [][StaffNext]_staffVars
-----------------------------------------------------------------------------
(* No request reads from, or acts on, a branch of another host or one that *)
(* its membership or key did not cover when its scope was resolved: a list *)
(* of no branches covers none, and only AllBranches covers them all.       *)
StaffScoped ==
  \A v \in Visits : visit[v].shown \subseteq visit[v].granted \cap Owned(visit[v].owner)
=============================================================================
