------------------------------ MODULE SiteProofs -------------------------------
(***************************************************************************)
(* Theorems about Staff, Hosting, Content and LegacyAuth, for any number   *)
(* of requests under way, hosts, branches, galleries, editors, publishers  *)
(* and sessions.  Content and LegacyAuth are the instances of MCSite.      *)
(***************************************************************************)
EXTENDS MCSite, FiniteSetTheorems, TLAPS

(***************************************************************************)
(* Staff and partner keys.                                                 *)
(***************************************************************************)

(* What is on record names branches of the host only. *)
GrantsSound ==
  /\ member = [m \in Owners \X Staffers |-> member[m]]
  /\ \A m \in Owners \X Staffers :
       {"status", "branches"} \subseteq DOMAIN member[m] /\ member[m].branches \subseteq Owned(m[1])
  /\ key = [k \in Keys |-> key[k]]
  /\ \A k \in Keys :
       /\ {"status", "owner", "branches"} \subseteq DOMAIN key[k]
       /\ key[k].branches \subseteq Owned(key[k].owner)

(* A request carries the scope it was granted, in the form of allowed. *)
Scoped(x) ==
  /\ x.granted \subseteq Owned(x.owner)
  /\ IF x.allowed = Everywhere THEN x.granted = Owned(x.owner) ELSE x.allowed = x.granted
  /\ x.shown \subseteq x.granted

VisitsSound ==
  /\ visit = [v \in Visits |-> visit[v]]
  /\ \A v \in Visits : {"at", "shown"} \subseteq DOMAIN visit[v]
  /\ \A v \in Visits : visit[v].at # "idle" => Scoped(visit[v])
  /\ \A v \in Visits : visit[v].at = "idle" => visit[v].shown = {}

StaffInv == GrantsSound /\ VisitsSound

LEMMA ResolvedSound ==
  ASSUME StaffInv, NEW v \in Visits, NEW at \in {"host", "staff", "partner"}, NEW h,
         NEW role, NEW s, s.branches \subseteq Owned(h),
         Resolved(v, at, h, role, s)
  PROVE  VisitsSound'
<1> DEFINE x == [at |-> at, owner |-> h, role |-> role, allowed |-> AllowedBranchIds(s),
                 granted |-> IF s.all THEN Owned(h) ELSE s.branches, shown |-> {}]
<1>1. s.branches # Everywhere
  BY StaffConstants DEF Owned
<1>2. Scoped(x) /\ x.at # "idle" /\ x.shown = {} /\ {"at", "shown"} \subseteq DOMAIN x
  BY <1>1 DEF Scoped, AllowedBranchIds
<1>3. visit' = [visit EXCEPT ![v] = x]
  BY DEF Resolved
<1> HIDE DEF x
<1> QED BY <1>2, <1>3 DEF StaffInv, VisitsSound

LEMMA ShowsSound ==
  ASSUME StaffInv, NEW v \in Visits, NEW bs, visit[v].at # "idle",
         bs \subseteq visit[v].granted, Shows(v, bs)
  PROVE  VisitsSound'
<1>1. visit' = [visit EXCEPT ![v].at = "done", ![v].shown = bs]
  BY DEF Shows
<1>2. Scoped(visit[v])
  BY DEF StaffInv, VisitsSound
<1>3. \A u \in Visits : u # v => visit'[u] = visit[u]
  BY <1>1 DEF StaffInv, VisitsSound
<1>4. visit'[v] = [visit[v] EXCEPT !.at = "done", !.shown = bs]
  BY <1>1 DEF StaffInv, VisitsSound
<1>5. /\ visit'[v].at = "done" /\ Scoped(visit'[v])
      /\ {"at", "shown"} \subseteq DOMAIN visit'[v]
  BY <1>2, <1>4 DEF Scoped, StaffInv, VisitsSound
<1>6. visit' = [u \in Visits |-> visit'[u]]
  BY <1>1 DEF StaffInv, VisitsSound
<1> QED BY <1>3, <1>5, <1>6 DEF StaffInv, VisitsSound

(* What the branches of one action let a request show it was granted.     *)
LEMMA VisitSound ==
  ASSUME StaffInv, NEW v \in Visits, VisitStep(v)
  PROVE  StaffInv'
<1>1. UNCHANGED <<member, key>> => GrantsSound'
  BY DEF StaffInv, GrantsSound, Owned
<1>2. CASE \E h \in Owners : OwnerVisits(v, h)
  <2> PICK h \in Owners : OwnerVisits(v, h)
    BY <1>2
  <2> DEFINE s == [all |-> TRUE, branches |-> {}]
  <2>1. s.branches \subseteq Owned(h)
    OBVIOUS
  <2>2. Resolved(v, "host", h, "owner", s)
    BY DEF OwnerVisits
  <2> HIDE DEF s
  <2>3. VisitsSound'
    BY <2>1, <2>2, ResolvedSound
  <2> QED BY <1>1, <2>2, <2>3 DEF Resolved, StaffInv
<1>3. CASE \E h \in Owners, u \in Staffers : StaffVisits(v, u, h)
  <2> PICK h \in Owners, u \in Staffers : StaffVisits(v, u, h)
    BY <1>3
  <2>1. member[<<h, u>>].branches \subseteq Owned(h)
    BY DEF StaffInv, GrantsSound
  <2>2. Resolved(v, "staff", h, member[<<h, u>>].role, member[<<h, u>>])
    BY DEF StaffVisits
  <2>3. VisitsSound'
    BY <2>1, <2>2, ResolvedSound
  <2> QED BY <1>1, <2>2, <2>3 DEF Resolved, StaffInv
<1>4. CASE \E k \in Keys : PartnerVisits(v, k)
  <2> PICK k \in Keys : PartnerVisits(v, k)
    BY <1>4
  <2>1. key[k].branches \subseteq Owned(key[k].owner)
    BY DEF StaffInv, GrantsSound
  <2>2. Resolved(v, "partner", key[k].owner, "partner", key[k])
    BY DEF PartnerVisits
  <2>3. VisitsSound'
    BY <2>1, <2>2, ResolvedSound
  <2> QED BY <1>1, <2>2, <2>3 DEF Resolved, StaffInv
<1>5. ASSUME NEW bs, visit[v].at # "idle", bs \subseteq visit[v].granted, Shows(v, bs)
      PROVE  StaffInv'
  <2>1. VisitsSound'
    BY <1>5, ShowsSound
  <2> QED BY <1>1, <1>5, <2>1 DEF Shows, StaffInv
<1>6. visit[v].at # "idle" => Scoped(visit[v])
  BY DEF StaffInv, VisitsSound
<1>7. visit[v].at # "idle" => BranchScoped(visit[v]) \subseteq visit[v].granted
  BY <1>6 DEF Scoped, BranchScoped
<1>8. CASE StaffHostInbox(v) \/ StaffReceptionToday(v) \/ PartnerListSpaces(v)
  BY <1>5, <1>7, <1>8
     DEF StaffHostInbox, StaffReceptionToday, PartnerListSpaces, AtDesk
<1>9. CASE StaffHostCalendar(v)
  <2>1. visit[v].at # "idle"
    BY <1>9 DEF StaffHostCalendar, AtDesk
  <2>2. ASSUME NEW b \in Branches, AssertBranchAccess(visit[v], b)
        PROVE  Owned(visit[v].owner) \cap {b} \subseteq visit[v].granted
    BY <1>6, <2>1, <2>2 DEF Scoped, AssertBranchAccess
  <2> QED BY <1>5, <1>7, <1>9, <2>1, <2>2 DEF StaffHostCalendar
<1>10. ASSUME NEW b \in Branches, visit[v].at # "idle", ActsOn(v, b)
       PROVE  StaffInv'
  <2>1. {b} \subseteq visit[v].granted
    BY <1>6, <1>10 DEF Scoped, ActsOn, AssertBranchAccess
  <2> QED BY <1>5, <1>10, <2>1 DEF ActsOn
<1>11. CASE Leaves(v)
  <2>1. VisitsSound'
    BY <1>11 DEF Leaves, NoVisit, StaffInv, VisitsSound, Scoped
  <2> QED BY <1>1, <1>11, <2>1 DEF Leaves, StaffInv
<1> QED BY <1>2, <1>3, <1>4, <1>8, <1>9, <1>10, <1>11
        DEF VisitStep, StaffScanCheckIn, StaffConfirmBooking, StaffNoShow,
            CreateIncident, PartnerGetBooking, AtDesk

LEMMA GrantStep ==
  ASSUME StaffInv, MemberNext \/ KeyNext
  PROVE  StaffInv'
<1>1. UNCHANGED visit => VisitsSound'
  BY DEF StaffInv, VisitsSound, Scoped, Owned
<1>2. ASSUME NEW h \in Owners, NEW u \in Staffers, NEW role, NEW all \in BOOLEAN, NEW bs,
             InviteStaff(h, u, role, all, bs)
      PROVE  StaffInv'
  <2> DEFINE x == [status |-> "invited", role |-> role, all |-> all,
                   branches |-> IF all THEN {} ELSE bs]
  <2>1. x.branches \subseteq Owned(h) /\ {"status", "branches"} \subseteq DOMAIN x
    BY <1>2 DEF InviteStaff
  <2>2. member' = [member EXCEPT ![<<h, u>>] = x] /\ UNCHANGED <<key, visit>>
    BY <1>2 DEF InviteStaff
  <2> HIDE DEF x
  <2>3. \A m \in Owners \X Staffers : member'[m] = IF m = <<h, u>> THEN x ELSE member[m]
    BY <2>2 DEF StaffInv, GrantsSound
  <2>4. member' = [m \in Owners \X Staffers |-> member'[m]]
    BY <2>2 DEF StaffInv, GrantsSound
  <2> QED BY <1>1, <2>1, <2>2, <2>3, <2>4 DEF StaffInv, GrantsSound, Owned
<1>3. ASSUME NEW m \in Owners \X Staffers, FindInvite(m) \/ AcceptInvite(m) \/ RevokeStaff(m)
      PROVE  StaffInv'
  <2>1. CASE FindInvite(m)
    BY <1>1, <2>1 DEF FindInvite, StaffInv, GrantsSound, Owned
  <2>2. ASSUME NEW st, member' = [member EXCEPT ![m].status = st], UNCHANGED <<key, visit>>
        PROVE  StaffInv'
    <3>1. \A n \in Owners \X Staffers :
            /\ {"status", "branches"} \subseteq DOMAIN member'[n]
            /\ member'[n].branches = member[n].branches
      BY <2>2 DEF StaffInv, GrantsSound
    <3>2. member' = [n \in Owners \X Staffers |-> member'[n]]
      BY <2>2 DEF StaffInv, GrantsSound
    <3> QED BY <1>1, <2>2, <3>1, <3>2 DEF StaffInv, GrantsSound, Owned
  <2> QED BY <1>3, <2>1, <2>2 DEF AcceptInvite, RevokeStaff
<1>4. ASSUME NEW k \in Keys, NEW h \in Owners, NEW all \in BOOLEAN, NEW bs,
             CreateApiKey(k, h, all, bs)
      PROVE  StaffInv'
  BY <1>1, <1>4 DEF CreateApiKey, StaffInv, GrantsSound, Owned
<1>5. ASSUME NEW k \in Keys, RevokeApiKey(k)
      PROVE  StaffInv'
  BY <1>1, <1>5 DEF RevokeApiKey, StaffInv, GrantsSound, Owned
<1> QED BY <1>2, <1>3, <1>4, <1>5 DEF MemberNext, KeyNext

(* Whatever becomes of a membership or a key while its requests are under  *)
(* way, none of them shows or touches a branch it was not granted or that  *)
(* is another host's.                                                      *)
THEOREM StaffIsScoped == StaffSpec => []StaffScoped
<1>1. StaffInit => StaffInv
  BY DEF StaffInit, StaffInv, GrantsSound, VisitsSound, NoMember, NoKey, NoVisit
<1>2. StaffInv /\ [StaffNext]_staffVars => StaffInv'
  <2> SUFFICES ASSUME StaffInv, [StaffNext]_staffVars PROVE StaffInv'
    OBVIOUS
  <2>1. CASE UNCHANGED staffVars
    BY <2>1 DEF staffVars, StaffInv, GrantsSound, VisitsSound, Scoped, Owned
  <2> QED BY <2>1, GrantStep, VisitSound DEF StaffNext, VisitNext
<1>3. StaffInv => StaffScoped
  BY DEF StaffInv, VisitsSound, StaffScoped, Scoped
<1> QED BY <1>1, <1>2, <1>3, PTL DEF StaffSpec

(***************************************************************************)
(* Galleries, pictures and reviews.                                        *)
(***************************************************************************)

RequestFields == {"at", "images", "version", "file", "old", "by", "status"}
HostingTypeOK ==
  /\ gallery \in [Pages -> [status : {"none", "active"}, images : SUBSET used, version : Nat]]
  /\ picture \in [Profiles -> used \cup {Nil}]
  /\ used \subseteq Files /\ cloud \subseteq used /\ deleted \subseteq Pages \X used
  /\ {"status", "reporters", "count", "version"} \subseteq DOMAIN review
  /\ review.version \in Nat
  /\ req = [r \in Requests |-> req[r]]
  /\ \A r \in Requests : RequestFields \subseteq DOMAIN req[r] /\ req[r].version \in Nat

(* A copy that would still be saved holds nothing the gallery has lost.    *)
PageCopy(x) ==
  x.at \in {"destroy", "save"} =>
    /\ x.by \in Pages /\ gallery[x.by].status = "active" /\ x.images \subseteq used
    /\ x.version <= gallery[x.by].version
    /\ x.version = gallery[x.by].version => x.images \subseteq gallery[x.by].images
    /\ x.file \notin x.images /\ x.file \in used \cup {Nil}
    /\ x.at = "destroy" => x.file \in used

(* A new picture is nobody else's file, and is not destroyed before it is  *)
(* shown.                                                                  *)
NewPicture(x) ==
  x.at \in {"drop", "write"} =>
    /\ x.by \in Profiles /\ x.file \in cloud
    /\ \A p \in Pages : x.file \notin gallery[p].images
    /\ \A q \in Profiles : picture[q] # x.file
NewPictures ==
  \A r \in Requests :
    /\ NewPicture(req[r])
    /\ req[r].at \in {"drop", "write"} => \A s \in Requests :
         /\ s # r /\ req[s].at \in {"drop", "write"} => req[s].file # req[r].file
         /\ req[s].at = "drop" => req[s].old # req[r].file
         /\ req[s].at = "destroy" => req[s].file # req[r].file

(* A picture belongs to one profile, and only its successors drop it.      *)
OwnPictures ==
  \A q \in Profiles : picture[q] # Nil =>
    /\ \A p \in Pages : picture[q] \notin gallery[p].images
    /\ \A o \in Profiles : picture[o] = picture[q] => o = q
    /\ \A r \in Requests :
         /\ req[r].at = "destroy" => req[r].file # picture[q]
         /\ req[r].at = "drop" /\ req[r].old = picture[q] => req[r].by = q

DropsKnown == \A r \in Requests : req[r].at = "drop" => req[r].old \in used \cup {Nil}

(* So does a report that would still be saved. *)
ReportCopy(x) ==
  x.at = "report" =>
    /\ x.version <= review.version
    /\ x.version = review.version => x.images = review.reporters

PagesInv == DeletedStays /\ (\A p \in Pages : gallery[p].status = "none" => gallery[p].images = {})
            /\ \A r \in Requests : PageCopy(req[r])
PicturesInv == PicturesShown /\ NewPictures /\ OwnPictures /\ DropsKnown
ReviewInv ==
  /\ ReportsKept /\ IsFiniteSet(review.reporters) /\ Cardinality(review.reporters) <= MaxReports
  /\ \A r \in Requests : ReportCopy(req[r])

(* A copy that would still be saved misses nothing but what it removes and *)
(* what came since; the file it removes hangs on no other page.            *)
CopyWhole(x) ==
  x.at \in {"destroy", "save"} =>
    /\ x.version = gallery[x.by].version =>
         \A f \in gallery[x.by].images \ x.images : f = x.file \/ <<x.by, f>> \in late
    /\ \A p \in Pages : x.file \in gallery[p].images => p = x.by

GalleryInv ==
  /\ UploadsKept /\ GalleriesShown
  /\ hung \subseteq Pages \X used
  /\ \A p, q \in Pages : gallery[p].images \cap gallery[q].images # {} => p = q
  /\ \A r \in Requests : CopyWhole(req[r])
  /\ \A r \in Requests : req[r].at = "drop" =>
       \A p \in Pages : req[r].old \notin gallery[p].images

(* Of decisions that do not overlap, each knows the host as it is. *)
Decision(x) ==
  /\ x.at = "verify" => /\ x.by = host.status /\ x.old = host.verified
                        /\ AssertTransition(x.by, x.status)
  /\ x.at = "sync" => x.status = host.status

HostInv ==
  /\ host \in [status : DOMAIN Transitions, verified : BOOLEAN, active : BOOLEAN]
  /\ raced \in BOOLEAN /\ HostAgrees
  /\ \A r \in Requests : req[r].at = "verify" => req[r].status \in DOMAIN Transitions
  /\ raced \/ /\ \A r, o \in Requests : Deciding(r) /\ Deciding(o) => r = o
              /\ \A r \in Requests : Decision(req[r])

HostingInv ==
  HostingTypeOK /\ PagesInv /\ PicturesInv /\ ReviewInv /\ GalleryInv /\ HostInv

LEMMA HostingTypeStep ==
  ASSUME HostingTypeOK, PagesInv, PicturesInv, HostingNext
  PROVE  HostingTypeOK'
<1> USE DEF HostingTypeOK, RequestFields
<1>1. ASSUME NEW p \in Pages, NEW fs \in SUBSET Files, CreatePage(p, fs)
      PROVE  HostingTypeOK'
  BY <1>1 DEF CreatePage
<1>2. ASSUME NEW p \in Pages, NEW f \in Files, AddImage(p, f)
      PROVE  HostingTypeOK'
  BY <1>2 DEF AddImage, Upload
<1>3. ASSUME NEW r \in Requests, NEW p \in Pages, NEW at, NEW f, NEW images,
             LoadPage(r, p, at, f, images)
      PROVE  HostingTypeOK'
  BY <1>3 DEF LoadPage, Idle
<1>4. ASSUME NEW r \in Requests, DestroyImage(r)
      PROVE  HostingTypeOK'
  <2>1. CASE Ends(r)
    BY <1>4, <2>1 DEF DestroyImage, Ends, Idle
  <2>2. CASE req' = [req EXCEPT ![r].at = "save"]
    BY <1>4, <2>2 DEF DestroyImage
  <2> QED BY <1>4, <2>1, <2>2 DEF DestroyImage
<1>5. ASSUME NEW r \in Requests, SavePage(r)
      PROVE  HostingTypeOK'
  <2>1. CASE UNCHANGED <<gallery, deleted>>
    BY <1>5, <2>1 DEF SavePage, Ends, Idle
  <2>2. CASE Saved(r, req[r].by)
    <3>1. /\ req[r].by \in Pages /\ req[r].images \subseteq used
          /\ req[r].file \in used \cup {Nil}
      BY <1>5 DEF SavePage, PagesInv, PageCopy
    <3>2. /\ gallery' \in [Pages -> [status : {"none", "active"}, images : SUBSET used, version : Nat]]
          /\ deleted' \subseteq Pages \X used
      BY <2>2, <3>1 DEF Saved
    <3> QED BY <1>5, <3>2 DEF SavePage, Ends, Idle
  <2> QED BY <1>5, <2>1, <2>2 DEF SavePage
<1>6. ASSUME NEW r \in Requests, NEW p \in Profiles, NEW f \in Files, ReadPicture(r, p, f)
      PROVE  HostingTypeOK'
  BY <1>6 DEF ReadPicture, Upload, Idle
<1>7. ASSUME NEW r \in Requests, DropPicture(r)
      PROVE  HostingTypeOK'
  BY <1>7 DEF DropPicture
<1>8. ASSUME NEW r \in Requests, WritePicture(r)
      PROVE  HostingTypeOK'
  BY <1>8 DEF WritePicture, Ends, Idle, PicturesInv, NewPictures, NewPicture
<1>9. CASE SubmitReview
  BY <1>9 DEF SubmitReview
<1>10. ASSUME NEW r \in Requests, NEW u \in Users, LoadReview(r, u)
       PROVE  HostingTypeOK'
  BY <1>10 DEF LoadReview, Idle
<1>11. ASSUME NEW r \in Requests, SaveReport(r)
       PROVE  HostingTypeOK'
  <2>1. CASE UNCHANGED <<review, reported>>
    BY <1>11, <2>1 DEF SaveReport, Ends, Idle
  <2>2. ASSUME review.version = req[r].version
        PROVE  /\ {"status", "reporters", "count", "version"} \subseteq DOMAIN review'
               /\ review'.version \in Nat
    BY <1>11, <2>2 DEF SaveReport
  <2> QED BY <1>11, <2>1, <2>2 DEF SaveReport, Ends, Idle
<1>12. ASSUME NEW r \in Requests, NEW to, LoadHost(r, to)
       PROVE  HostingTypeOK'
  BY <1>12 DEF LoadHost, Idle
<1>13. ASSUME NEW r \in Requests, SaveHost(r)
       PROVE  HostingTypeOK'
  BY <1>13 DEF SaveHost
<1>14. ASSUME NEW r \in Requests, SyncUser(r)
       PROVE  HostingTypeOK'
  BY <1>14 DEF SyncUser, Ends, Idle
<1>15. ASSUME NEW r \in Requests, Dies(r)
       PROVE  HostingTypeOK'
  BY <1>15 DEF Dies
<1> HIDE DEF HostingTypeOK
<1>16. CASE PageNext
  BY <1>1, <1>2, <1>3, <1>4, <1>5, <1>15, <1>16
     DEF PageNext, CreateBranch, CreateSpace, UpdateBranch, UpdateSpace, ReorderBranchImages,
         ReorderSpaceImages, LoadForReorder, DeleteBranchImage, DeleteSpaceImage, LoadForDelete
<1>17. CASE PictureNext
  BY <1>6, <1>7, <1>8, <1>15, <1>17 DEF PictureNext, UpdateMyProfile, UpdateProfileAPI
<1> QED BY <1>9, <1>10, <1>11, <1>12, <1>13, <1>14, <1>15, <1>16, <1>17
        DEF HostingNext, ReviewNext, VerificationNext

(* The steps that concern neither a gallery nor a copy of one.             *)
LEMMA PagesKept ==
  ASSUME HostingTypeOK, PagesInv, HostingTypeOK', used \subseteq used',
         UNCHANGED <<gallery, deleted>>,
         \A r \in Requests : req'[r].at \in {"destroy", "save"} => req'[r] = req[r]
  PROVE  PagesInv'
<1>1. \A r \in Requests : PageCopy(req[r])'
  BY DEF PagesInv, PageCopy
<1> QED BY <1>1 DEF PagesInv, DeletedStays

LEMMA PagesStep ==
  ASSUME HostingTypeOK, PagesInv, HostingTypeOK', PageNext
  PROVE  PagesInv'
<1> USE DEF HostingTypeOK, RequestFields
<1>1. ASSUME NEW p \in Pages, NEW fs \in SUBSET Files, CreatePage(p, fs)
      PROVE  PagesInv'
  <2>1. /\ gallery' = [gallery EXCEPT ![p] = [status |-> "active", images |-> fs, version |-> 0]]
        /\ gallery[p].status = "none" /\ fs \cap used = {}
        /\ used' = used \cup fs /\ UNCHANGED <<deleted, req>>
    BY <1>1 DEF CreatePage
  <2>2. DeletedStays'
    BY <2>1 DEF PagesInv, DeletedStays
  <2>3. \A r \in Requests : PageCopy(req[r])'
    BY <2>1 DEF PagesInv, PageCopy
  <2> QED BY <2>1, <2>2, <2>3 DEF PagesInv
<1>2. ASSUME NEW p \in Pages, NEW f \in Files, AddImage(p, f)
      PROVE  PagesInv'
  <2>1. /\ gallery[p].status = "active" /\ f \notin used /\ used' = used \cup {f}
        /\ gallery' = [gallery EXCEPT ![p].images = @ \cup {f}] /\ UNCHANGED <<deleted, req>>
    BY <1>2 DEF AddImage, Upload
  <2>2. DeletedStays'
    BY <2>1 DEF PagesInv, DeletedStays
  <2>3. \A r \in Requests : PageCopy(req[r])'
    BY <2>1 DEF PagesInv, PageCopy
  <2> QED BY <2>1, <2>2, <2>3 DEF PagesInv
<1>3. ASSUME NEW r \in Requests, NEW p \in Pages, NEW at, NEW f, NEW images,
             LoadPage(r, p, at, f, images), images \subseteq gallery[p].images, images # {} \/ f \in gallery[p].images,
             f \notin images, f = Nil \/ f \in gallery[p].images, at = "destroy" => f # Nil
      PROVE  PagesInv'
  <2>1. /\ UNCHANGED <<gallery, deleted, used>>
        /\ \A s \in Requests : s # r => req'[s] = req[s]
        /\ req'[r] = [Idle EXCEPT !.at = at, !.file = f, !.by = p, !.images = images,
                                  !.version = gallery[p].version]
    BY <1>3 DEF LoadPage
  <2>2. /\ req'[r].at = at /\ req'[r].file = f /\ req'[r].by = p /\ req'[r].images = images
        /\ req'[r].version = gallery[p].version
    BY <2>1 DEF Idle
  <2>3. gallery[p].images # {} /\ gallery[p].images \subseteq used /\ gallery[p].status = "active"
    BY <1>3 DEF PagesInv
  <2>4. PageCopy(req[r])'
    BY <1>3, <2>1, <2>2, <2>3 DEF PageCopy
  <2>5. \A s \in Requests : PageCopy(req[s])'
    <3> TAKE s \in Requests
    <3>1. CASE s # r
      BY <2>1, <3>1 DEF PageCopy, PagesInv
    <3> QED BY <2>4, <3>1
  <2> QED BY <2>1, <2>5 DEF PagesInv, DeletedStays
<1>4. ASSUME NEW r \in Requests, DestroyImage(r)
      PROVE  PagesInv'
  <2>1. UNCHANGED <<gallery, deleted, used>>
    BY <1>4 DEF DestroyImage
  <2>2. CASE Ends(r)
    BY <2>1, <2>2, PagesKept DEF Ends, Idle
  <2>3. CASE req' = [req EXCEPT ![r].at = "save"]
    <3>1. \A s \in Requests : PageCopy(req[s])'
      BY <1>4, <2>1, <2>3 DEF PageCopy, PagesInv, DestroyImage
    <3> QED BY <2>1, <3>1 DEF PagesInv, DeletedStays
  <2> QED BY <1>4, <2>2, <2>3 DEF DestroyImage
<1>5. ASSUME NEW r \in Requests, SavePage(r)
      PROVE  PagesInv'
  <2>1. UNCHANGED used /\ \A s \in Requests : req'[s].at # "idle" => s # r /\ req'[s] = req[s]
    BY <1>5 DEF SavePage, Ends, Idle
  <2>2. CASE UNCHANGED <<gallery, deleted>>
    BY <2>1, <2>2, PagesKept
  <2>3. CASE gallery[req[r].by].version = req[r].version /\ Saved(r, req[r].by)
    <3> DEFINE p == req[r].by
    <3>1. /\ p \in Pages /\ req[r].images \subseteq gallery[p].images /\ req[r].file \notin req[r].images
          /\ gallery[p].status = "active"
      BY <1>5, <2>3 DEF SavePage, PagesInv, PageCopy
    <3>2. /\ gallery'[p].images = req[r].images /\ gallery'[p].version = gallery[p].version + 1
          /\ gallery'[p].status = "active"
          /\ \A q \in Pages : q # p => gallery'[q] = gallery[q]
          /\ deleted' \subseteq deleted \cup {<<p, req[r].file>>}
      BY <2>3, <3>1 DEF Saved
    <3> HIDE DEF p
    <3>3. DeletedStays'
      BY <3>1, <3>2 DEF PagesInv, DeletedStays
    <3>4. \A s \in Requests : PageCopy(req[s])'
      BY <2>1, <3>1, <3>2 DEF PagesInv, PageCopy
    <3> QED BY <3>1, <3>2, <3>3, <3>4 DEF PagesInv
  <2> QED BY <1>5, <2>2, <2>3 DEF SavePage
<1> HIDE DEF HostingTypeOK
<1>6. ASSUME NEW r \in Requests, NEW p \in Pages,
             ReorderBranchImages(r, p) \/ ReorderSpaceImages(r, p)
      PROVE  PagesInv'
  <2>1. Nil \notin gallery[p].images
    BY HostingConstants DEF HostingTypeOK
  <2> QED BY <1>3, <1>6, <2>1 DEF ReorderBranchImages, ReorderSpaceImages, LoadForReorder
<1>7. ASSUME NEW r \in Requests, NEW p \in Pages, NEW f \in Files,
             DeleteBranchImage(r, p, f) \/ DeleteSpaceImage(r, p, f)
      PROVE  PagesInv'
  <2>1. f # Nil
    BY HostingConstants
  <2> QED BY <1>3, <1>7, <2>1 DEF DeleteBranchImage, DeleteSpaceImage, LoadForDelete
<1>8. ASSUME NEW r \in Requests, Dies(r)
      PROVE  PagesInv'
  <2>1. UNCHANGED <<gallery, deleted, used>>
    BY <1>8 DEF Dies
  <2>2. \A s \in Requests : req'[s].at \in {"destroy", "save"} => req'[s] = req[s]
    BY <1>8 DEF Dies, HostingTypeOK, RequestFields
  <2> QED BY <2>1, <2>2, PagesKept
<1> QED BY <1>1, <1>2, <1>4, <1>5, <1>6, <1>7, <1>8
        DEF PageNext, CreateBranch, CreateSpace, UpdateBranch, UpdateSpace

(* One reporter more, or as many as a review keeps. *)
LEMMA LatestKeeps ==
  ASSUME ReportsKept, IsFiniteSet(review.reporters),
         Cardinality(review.reporters) <= MaxReports,
         NEW u, NEW reporters \in Latest(review.reporters \cup {u}, u)
  PROVE  /\ IsFiniteSet(reporters) /\ Cardinality(reporters) <= MaxReports
         /\ reporters \subseteq reported \cup {u}
         /\ reporters = reported \cup {u} \/ Cardinality(reporters) = MaxReports
<1> DEFINE all == review.reporters \cup {u}
<1>0. MaxReports \in Nat \ {0}
  BY HostingConstants
<1>1. /\ IsFiniteSet(all) /\ Cardinality(review.reporters) \in Nat
      /\ Cardinality(all) = Cardinality(review.reporters)
         \/ Cardinality(all) = Cardinality(review.reporters) + 1
  BY FS_AddElement, FS_CardinalityType
<1>2. review.reporters \subseteq reported
  BY DEF ReportsKept
<1>3. CASE Cardinality(all) <= MaxReports
  <2>1. reporters = all
    BY <1>3 DEF Latest
  <2>2. CASE review.reporters = reported
    BY <1>1, <1>3, <2>1, <2>2
  <2>3. CASE Cardinality(review.reporters) = MaxReports
    BY <1>0, <1>1, <1>2, <1>3, <2>1, <2>3
  <2> QED BY <2>2, <2>3 DEF ReportsKept
<1>4. CASE Cardinality(all) > MaxReports
  <2>1. PICK v \in all \ {u} : reporters = all \ {v}
    BY <1>0, <1>1, <1>4 DEF Latest
  <2>2. /\ Cardinality(all \ {v}) = Cardinality(all) - 1 /\ IsFiniteSet(all \ {v})
    BY <1>1, <2>1, FS_RemoveElement
  <2>3. Cardinality(all) = MaxReports + 1
    BY <1>0, <1>1, <1>4
  <2> QED BY <1>0, <1>2, <2>1, <2>2, <2>3
<1>5. Cardinality(all) \in Nat
  BY <1>1, FS_CardinalityType
<1> QED BY <1>0, <1>3, <1>4, <1>5

LEMMA ReviewsKept ==
  ASSUME HostingTypeOK, ReviewInv, UNCHANGED <<review, reported>>,
         \A r \in Requests : req'[r].at = "report" => req'[r] = req[r]
  PROVE  ReviewInv'
BY DEF ReviewInv, ReportsKept, ReportCopy

LEMMA ReviewsStep ==
  ASSUME HostingTypeOK, ReviewInv, ReviewNext
  PROVE  ReviewInv'
<1> USE DEF HostingTypeOK, RequestFields
<1>1. CASE SubmitReview
  BY <1>1 DEF SubmitReview, ReviewInv, ReportsKept, ReportCopy
<1>2. ASSUME NEW r \in Requests, NEW u \in Users, LoadReview(r, u)
      PROVE  ReviewInv'
  BY <1>2 DEF LoadReview, Idle, ReviewInv, ReportsKept, ReportCopy
<1>3. ASSUME NEW r \in Requests, SaveReport(r)
      PROVE  ReviewInv'
  <2>1. \A s \in Requests : req'[s].at # "idle" => s # r /\ req'[s] = req[s]
    BY <1>3 DEF SaveReport, Ends, Idle
  <2>2. CASE UNCHANGED <<review, reported>>
    BY <2>1, <2>2, ReviewsKept
  <2>3. CASE review.version = req[r].version
    <3> DEFINE u == req[r].by
               all == review.reporters \cup {u}
    <3>1. PICK reporters \in Latest(all, u) :
            /\ review' = [status    |-> IF req[r].status = "published" THEN "reported"
                                        ELSE review.status,
                          reporters |-> reporters, count |-> Cardinality(reporters),
                          version   |-> review.version + 1]
            /\ reported' = reported \cup {u}
      BY <1>3, <2>3 DEF SaveReport, ReviewInv, ReportCopy
    <3>2. /\ review'.reporters = reporters /\ review'.count = Cardinality(reporters)
          /\ review'.version = review.version + 1
      BY <3>1
    <3>3. /\ IsFiniteSet(reporters) /\ Cardinality(reporters) <= MaxReports
          /\ reporters \subseteq reported'
          /\ reporters = reported' \/ Cardinality(reporters) = MaxReports
      BY <3>1, LatestKeeps DEF ReviewInv
    <3> QED BY <2>1, <3>2, <3>3 DEF ReviewInv, ReportsKept, ReportCopy
  <2> QED BY <1>3, <2>2, <2>3 DEF SaveReport
<1> QED BY <1>1, <1>2, <1>3 DEF ReviewNext

(* The steps that concern no picture and destroy no file.                  *)
LEMMA PicturesKept ==
  ASSUME HostingTypeOK, PicturesInv, used \subseteq used', cloud \subseteq cloud',
         UNCHANGED picture,
         \A p \in Pages : gallery'[p].images \subseteq gallery[p].images \cup (Files \ used),
         \A r \in Requests : req'[r].at \in {"destroy", "drop"} => req'[r] = req[r],
         \A r \in Requests : req[r].at \in {"write", "dead"} \/ req'[r].at \in {"write"} =>
           req'[r] = req[r]
  PROVE  PicturesInv'
<1>1. PicturesShown'
  BY DEF PicturesInv, PicturesShown
<1>2. \A r \in Requests : NewPicture(req[r])'
  BY DEF PicturesInv, NewPictures, NewPicture, HostingTypeOK
<1>3. NewPictures'
  BY <1>2 DEF PicturesInv, NewPictures
<1>4. OwnPictures' /\ DropsKnown'
  BY DEF PicturesInv, OwnPictures, DropsKnown, HostingTypeOK
<1> QED BY <1>1, <1>3, <1>4 DEF PicturesInv

LEMMA PicturesAtDeath ==
  ASSUME HostingTypeOK, PicturesInv, NEW r \in Requests, Dies(r)
  PROVE  PicturesInv'
<1> USE DEF HostingTypeOK, RequestFields
<1>1. /\ UNCHANGED <<gallery, picture, cloud, used>> /\ req'[r].at = "dead"
      /\ req'[r].by = req[r].by /\ req'[r].old = req[r].old
      /\ \A s \in Requests : s # r => req'[s] = req[s]
  BY DEF Dies
<1>2. PicturesShown'
  BY <1>1 DEF PicturesInv, PicturesShown
<1>3. NewPictures'
  BY <1>1 DEF PicturesInv, NewPictures, NewPicture
<1>4. OwnPictures' /\ DropsKnown'
  BY <1>1 DEF PicturesInv, OwnPictures, DropsKnown
<1> QED BY <1>2, <1>3, <1>4 DEF PicturesInv

LEMMA PicturesInPages ==
  ASSUME HostingTypeOK, PagesInv, PicturesInv, PageNext
  PROVE  PicturesInv'
<1> USE DEF HostingTypeOK, RequestFields
<1>1. ASSUME NEW p \in Pages, NEW fs \in SUBSET Files, CreatePage(p, fs)
      PROVE  PicturesInv'
  BY <1>1, PicturesKept DEF CreatePage
<1>2. ASSUME NEW p \in Pages, NEW f \in Files, AddImage(p, f)
      PROVE  PicturesInv'
  BY <1>2, PicturesKept DEF AddImage, Upload
<1>3. ASSUME NEW r \in Requests, NEW p \in Pages, NEW f, NEW images,
             LoadPage(r, p, "save", f, images)
      PROVE  PicturesInv'
  BY <1>3, PicturesKept DEF LoadPage, Idle
<1>4. ASSUME NEW r \in Requests, NEW p \in Pages, NEW f, NEW images,
             f \in gallery[p].images, LoadPage(r, p, "destroy", f, images)
      PROVE  PicturesInv'
  <2>1. /\ UNCHANGED <<gallery, picture, cloud, used>> /\ req[r].at = "idle"
        /\ \A s \in Requests : s # r => req'[s] = req[s]
    BY <1>4 DEF LoadPage, Idle
  <2>2. req'[r] = [Idle EXCEPT !.at = "destroy", !.file = f, !.by = p, !.images = images,
                               !.version = gallery[p].version]
    BY <1>4 DEF LoadPage
  <2>3. req'[r].at = "destroy" /\ req'[r].file = f
    BY <2>2 DEF Idle
  <2>4. PicturesShown'
    BY <2>1, <2>3 DEF PicturesInv, PicturesShown
  <2>5. NewPictures'
    BY <1>4, <2>1, <2>3 DEF PicturesInv, NewPictures, NewPicture
  <2>6. OwnPictures' /\ DropsKnown'
    BY <1>4, <2>1, <2>3 DEF PicturesInv, OwnPictures, DropsKnown
  <2> QED BY <2>4, <2>5, <2>6 DEF PicturesInv
<1>5. ASSUME NEW r \in Requests, DestroyImage(r)
      PROVE  PicturesInv'
  <2>1. CASE UNCHANGED cloud /\ Ends(r)
    BY <1>5, <2>1, PicturesKept DEF DestroyImage, Ends, Idle
  <2>2. CASE cloud' = cloud \ {req[r].file} /\ req' = [req EXCEPT ![r].at = "save"]
    <3>1. /\ UNCHANGED <<gallery, picture, used>> /\ req[r].at = "destroy" /\ req'[r].at = "save"
          /\ \A s \in Requests : s # r => req'[s] = req[s]
      BY <1>5, <2>2 DEF DestroyImage
    <3>2. \A q \in Profiles : picture[q] # Nil => picture[q] # req[r].file
      BY <3>1 DEF PicturesInv, OwnPictures
    <3>3. PicturesShown'
      BY <2>2, <3>1, <3>2 DEF PicturesInv, PicturesShown
    <3>4. NewPictures'
      BY <2>2, <3>1 DEF PicturesInv, NewPictures, NewPicture
    <3>5. OwnPictures' /\ DropsKnown'
      BY <3>1 DEF PicturesInv, OwnPictures, DropsKnown
    <3> QED BY <3>3, <3>4, <3>5 DEF PicturesInv
  <2> QED BY <1>5, <2>1, <2>2 DEF DestroyImage
<1>6. ASSUME NEW r \in Requests, SavePage(r)
      PROVE  PicturesInv'
  <2>1. \A p \in Pages : gallery'[p].images \subseteq gallery[p].images
    <3>1. CASE UNCHANGED gallery
      BY <3>1
    <3>2. CASE gallery[req[r].by].version = req[r].version /\ Saved(r, req[r].by)
      BY <1>6, <3>2 DEF SavePage, Saved, PagesInv, PageCopy
    <3> QED BY <1>6, <3>1, <3>2 DEF SavePage
  <2>2. \A s \in Requests : s # r => req'[s] = req[s]
    BY <1>6 DEF SavePage, Ends
  <2>3. req[r].at = "save" /\ req'[r].at = "idle" /\ UNCHANGED <<picture, cloud, used>>
    BY <1>6 DEF SavePage, Ends, Idle
  <2> QED BY <2>1, <2>2, <2>3, PicturesKept
<1>7. ASSUME NEW r \in Requests, Dies(r)
      PROVE  PicturesInv'
  BY <1>7, PicturesAtDeath
<1> HIDE DEF HostingTypeOK
<1> QED BY <1>1, <1>2, <1>3, <1>4, <1>5, <1>6, <1>7
        DEF PageNext, CreateBranch, CreateSpace, UpdateBranch, UpdateSpace, ReorderBranchImages,
            ReorderSpaceImages, LoadForReorder, DeleteBranchImage, DeleteSpaceImage, LoadForDelete

LEMMA PicturesStep ==
  ASSUME HostingTypeOK, PagesInv, PicturesInv, PictureNext
  PROVE  PicturesInv'
<1> USE HostingConstants DEF HostingTypeOK, RequestFields
<1>1. ASSUME NEW r \in Requests, NEW p \in Profiles, NEW f \in Files, ReadPicture(r, p, f)
      PROVE  PicturesInv'
  <2>1. /\ f \notin used /\ used' = used \cup {f} /\ cloud' = cloud \cup {f}
        /\ UNCHANGED <<gallery, picture>> /\ req[r].at = "idle"
    BY <1>1 DEF ReadPicture, Upload, Idle
  <2>2. /\ \A s \in Requests : s # r => req'[s] = req[s]
        /\ req'[r].at = "drop" /\ req'[r].by = p /\ req'[r].file = f /\ req'[r].old = picture[p]
    BY <1>1 DEF ReadPicture, Idle
  <2>3. PicturesShown'
    BY <2>1, <2>2 DEF PicturesInv, PicturesShown
  <2>4. \A s \in Requests : req[s].at \in {"destroy", "drop", "write"} => req[s].file # f
    BY <2>1 DEF PagesInv, PageCopy, PicturesInv, NewPictures, NewPicture
  <2>5. \A s \in Requests : NewPicture(req[s])'
    BY <2>1, <2>2 DEF PicturesInv, NewPictures, NewPicture
  <2>6. NewPictures'
    BY <2>1, <2>2, <2>4, <2>5 DEF PicturesInv, NewPictures, NewPicture, DropsKnown
  <2>7. OwnPictures' /\ DropsKnown'
    BY <2>1, <2>2 DEF PicturesInv, OwnPictures, DropsKnown
  <2> QED BY <2>3, <2>6, <2>7 DEF PicturesInv
<1>2. ASSUME NEW r \in Requests, DropPicture(r)
      PROVE  PicturesInv'
  <2>1. /\ UNCHANGED <<gallery, picture, used>> /\ req[r].at = "drop" /\ req'[r].at = "write"
        /\ req'[r].by = req[r].by /\ req'[r].file = req[r].file /\ req'[r].old = req[r].old
        /\ \A s \in Requests : s # r => req'[s] = req[s]
        /\ cloud' = cloud \/ cloud' = cloud \ {req[r].old}
    BY <1>2 DEF DropPicture
  <2>2. PicturesShown'
    BY <2>1 DEF PicturesInv, PicturesShown, OwnPictures
  <2>3. \A s \in Requests : NewPicture(req[s])'
    BY <2>1 DEF PicturesInv, NewPictures, NewPicture
  <2>4. NewPictures'
    BY <2>1, <2>3 DEF PicturesInv, NewPictures
  <2>5. OwnPictures' /\ DropsKnown'
    BY <2>1 DEF PicturesInv, OwnPictures, DropsKnown
  <2> QED BY <2>2, <2>4, <2>5 DEF PicturesInv
<1>3. ASSUME NEW r \in Requests, WritePicture(r)
      PROVE  PicturesInv'
  <2> DEFINE p == req[r].by
             f == req[r].file
  <2>1. p \in Profiles /\ f \in cloud /\ req[r].at = "write"
    BY <1>3 DEF WritePicture, PicturesInv, NewPictures, NewPicture
  <2>2. /\ UNCHANGED <<gallery, cloud, used>> /\ req'[r].at = "idle"
        /\ \A s \in Requests : s # r => req'[s] = req[s]
        /\ picture' = [picture EXCEPT ![p] = f]
    BY <1>3 DEF WritePicture, Ends, Idle
  <2>3. PicturesShown'
    BY <2>1, <2>2 DEF PicturesInv, PicturesShown
  <2>4. \A s \in Requests : NewPicture(req[s])'
    BY <2>1, <2>2 DEF PicturesInv, NewPictures, NewPicture
  <2>5. NewPictures'
    BY <2>2, <2>4 DEF PicturesInv, NewPictures
  <2>6. OwnPictures' /\ DropsKnown'
    <3>1. /\ \A g \in Pages : f \notin gallery[g].images
          /\ \A q \in Profiles : picture[q] # f
          /\ \A s \in Requests : /\ req[s].at = "drop" => req[s].old # f
                                 /\ req[s].at = "destroy" => req[s].file # f
      BY <2>1 DEF PicturesInv, NewPictures, NewPicture
    <3>2. \A q \in Profiles : picture'[q] = IF q = p THEN f ELSE picture[q]
      BY <2>2
    <3> HIDE DEF p, f
    <3> QED BY <2>2, <3>1, <3>2 DEF PicturesInv, OwnPictures, DropsKnown
  <2> QED BY <2>3, <2>5, <2>6 DEF PicturesInv
<1>4. ASSUME NEW r \in Requests, Dies(r)
      PROVE  PicturesInv'
  BY <1>4, PicturesAtDeath
<1> HIDE DEF HostingTypeOK
<1> QED BY <1>1, <1>2, <1>3, <1>4 DEF PictureNext, UpdateMyProfile, UpdateProfileAPI

(* The steps that concern neither what the galleries show nor a copy.      *)
LEMMA GalleriesKept ==
  ASSUME HostingTypeOK, GalleryInv, used \subseteq used', UNCHANGED <<gallery, deleted, edits>>,
         \A p \in Pages : gallery[p].images \cap cloud \subseteq cloud',
         \A r \in Requests : req'[r].at \in {"destroy", "save"} => req'[r] = req[r],
         \A r \in Requests : req[r].at \in {"save", "dead"} =>
           /\ req'[r].at \in {"save", "dead"}
           /\ req'[r].by = req[r].by /\ req'[r].file = req[r].file,
         \A r \in Requests : req'[r].at = "drop" =>
           req'[r] = req[r] \/ \A p \in Pages : req'[r].old \notin gallery[p].images
  PROVE  GalleryInv'
<1>1. UNCHANGED <<hung, late, unsaved>>
  BY DEF edits
<1>2. UploadsKept'
  BY <1>1 DEF GalleryInv, UploadsKept
<1>3. GalleriesShown'
  <2> SUFFICES ASSUME NEW q \in Pages PROVE \A f \in gallery'[q].images : Shown(q, f)'
    BY DEF GalleriesShown
  <2> TAKE f \in gallery'[q].images
  <2>1. f \in gallery[q].images => Shown(q, f)
    BY DEF GalleryInv, GalleriesShown
  <2> QED BY <1>1, <2>1 DEF Shown
<1>4. \A r \in Requests : CopyWhole(req[r])'
  BY <1>1 DEF GalleryInv, CopyWhole
<1> QED BY <1>1, <1>2, <1>3, <1>4 DEF GalleryInv

(* New files on a page. *)
LEMMA GalleriesGrow ==
  ASSUME HostingTypeOK, PagesInv, PicturesInv, GalleryInv, NEW p \in Pages,
         NEW fs \in SUBSET (Files \ used), used' = used \cup fs, cloud' = cloud \cup fs,
         gallery'[p].images = gallery[p].images \cup fs,
         gallery'[p].version = gallery[p].version \/ gallery[p].status = "none",
         \A q \in Pages : q # p => gallery'[q] = gallery[q],
         hung' = hung \cup ({p} \X fs),
         late \subseteq late', gallery[p].status # "none" /\ Held(p) => {p} \X fs \subseteq late',
         UNCHANGED <<deleted, unsaved, req>>
  PROVE  GalleryInv'
<1> USE DEF HostingTypeOK, RequestFields
<1>1. UploadsKept'
  BY DEF GalleryInv, UploadsKept
<1>2. GalleriesShown'
  <2> SUFFICES ASSUME NEW q \in Pages PROVE \A f \in gallery'[q].images : Shown(q, f)'
    BY DEF GalleriesShown
  <2> TAKE f \in gallery'[q].images
  <2>1. f \in gallery[q].images => Shown(q, f)
    BY DEF GalleryInv, GalleriesShown
  <2>2. f \in gallery[q].images \/ f \in fs
    OBVIOUS
  <2> QED BY <2>1, <2>2 DEF Shown
<1>3. \A o, q \in Pages : gallery'[o].images \cap gallery'[q].images # {} => o = q
  <2>1. \A q \in Pages : gallery[q].images \cap fs = {}
    OBVIOUS
  <2> QED BY <2>1 DEF GalleryInv
<1>4. ASSUME NEW r \in Requests, req[r].at \in {"destroy", "save"}
      PROVE  CopyWhole(req[r])'
  <2>1. /\ PageCopy(req[r]) /\ CopyWhole(req[r]) /\ req[r].file \notin fs
        /\ req[r].by \in Pages /\ gallery[req[r].by].status = "active"
    BY <1>4, HostingConstants DEF PagesInv, PageCopy, GalleryInv
  <2>2. \A q \in Pages : req[r].file \in gallery'[q].images => q = req[r].by
    BY <1>4, <2>1 DEF CopyWhole
  <2>3. CASE req[r].by # p
    BY <1>4, <2>1, <2>2, <2>3 DEF CopyWhole
  <2>4. CASE req[r].by = p
    <3>1. ASSUME req[r].version = gallery'[p].version
          PROVE  {p} \X fs \subseteq late' /\ req[r].version = gallery[p].version
      BY <1>4, <2>1, <2>4, <3>1 DEF Held
    <3> QED BY <1>4, <2>1, <2>2, <2>4, <3>1 DEF CopyWhole
  <2> QED BY <2>3, <2>4
<1>5. \A r \in Requests : CopyWhole(req[r])'
  BY <1>4 DEF CopyWhole
<1>6. \A r \in Requests : req[r].at = "drop" => req[r].old \notin fs
  BY HostingConstants DEF PicturesInv, DropsKnown
<1>7. \A r \in Requests : req'[r].at = "drop" => \A q \in Pages : req'[r].old \notin gallery'[q].images
  BY <1>6 DEF GalleryInv
<1>8. hung' \subseteq Pages \X used'
  BY DEF GalleryInv
<1> QED BY <1>1, <1>2, <1>3, <1>5, <1>7, <1>8 DEF GalleryInv

LEMMA GalleriesAtDeath ==
  ASSUME HostingTypeOK, GalleryInv, NEW r \in Requests, Dies(r)
  PROVE  GalleryInv'
<1> USE DEF HostingTypeOK, RequestFields
<1>1. /\ UNCHANGED <<gallery, cloud, used, deleted, edits>> /\ req'[r].at = "dead"
      /\ req'[r].by = req[r].by /\ req'[r].file = req[r].file
      /\ \A s \in Requests : s # r => req'[s] = req[s]
  BY DEF Dies
<1> QED BY <1>1, GalleriesKept

LEMMA GalleriesStep ==
  ASSUME HostingTypeOK, PagesInv, PicturesInv, GalleryInv, PageNext
  PROVE  GalleryInv'
<1> USE DEF HostingTypeOK, RequestFields
<1>1. ASSUME NEW p \in Pages, NEW fs \in SUBSET Files, CreatePage(p, fs)
      PROVE  GalleryInv'
  <2>1. gallery[p].images = {} /\ gallery[p].status = "none"
    BY <1>1 DEF CreatePage, PagesInv
  <2>2. /\ gallery'[p].images = fs /\ \A q \in Pages : q # p => gallery'[q] = gallery[q]
        /\ fs \in SUBSET (Files \ used)
    BY <1>1 DEF CreatePage
  <2>3. /\ used' = used \cup fs /\ cloud' = cloud \cup fs /\ hung' = hung \cup ({p} \X fs)
        /\ UNCHANGED <<late, deleted, unsaved, req>>
    BY <1>1 DEF CreatePage
  <2>4. gallery'[p].images = gallery[p].images \cup fs
    BY <2>1, <2>2
  <2> QED BY <2>1, <2>2, <2>3, <2>4, GalleriesGrow
<1>2. ASSUME NEW p \in Pages, NEW f \in Files, AddImage(p, f)
      PROVE  GalleryInv'
  <2>1. /\ gallery'[p].images = gallery[p].images \cup {f}
        /\ gallery'[p].version = gallery[p].version
        /\ \A q \in Pages : q # p => gallery'[q] = gallery[q]
        /\ {f} \in SUBSET (Files \ used) /\ {p} \X {f} = {<<p, f>>}
    BY <1>2 DEF AddImage, Upload
  <2>2. late \subseteq late' /\ (Held(p) => {p} \X {f} \subseteq late')
    BY <1>2, <2>1 DEF AddImage
  <2>3. /\ used' = used \cup {f} /\ cloud' = cloud \cup {f} /\ hung' = hung \cup ({p} \X {f})
        /\ UNCHANGED <<deleted, unsaved, req>>
    BY <1>2, <2>1 DEF AddImage, Upload
  <2> QED BY <2>1, <2>2, <2>3, GalleriesGrow
<1>3. ASSUME NEW r \in Requests, NEW p \in Pages, NEW at \in {"destroy", "save"}, NEW f, NEW images,
             LoadPage(r, p, at, f, images),
             \/ f = Nil /\ images = gallery[p].images
             \/ f \in gallery[p].images /\ images = gallery[p].images \ {f}
      PROVE  GalleryInv'
  <2>1. /\ UNCHANGED <<gallery, deleted, used, cloud, edits>> /\ req[r].at = "idle"
        /\ \A s \in Requests : s # r => req'[s] = req[s]
    BY <1>3 DEF LoadPage, Idle
  <2>2. req'[r] = [Idle EXCEPT !.at = at, !.file = f, !.by = p, !.images = images,
                               !.version = gallery[p].version]
    BY <1>3 DEF LoadPage
  <2>3. /\ req'[r].at = at /\ req'[r].file = f /\ req'[r].by = p /\ req'[r].images = images
    BY <2>2 DEF Idle
  <2>4. \A q \in Pages : f \in gallery[q].images => q = p
    BY <1>3, HostingConstants DEF GalleryInv
  <2>5. \A s \in Requests : CopyWhole(req[s])'
    <3> TAKE s \in Requests
    <3>1. CASE s = r
      BY <1>3, <2>1, <2>3, <2>4, <3>1 DEF CopyWhole
    <3>2. CASE s # r
      BY <2>1, <3>2 DEF CopyWhole, GalleryInv, edits
    <3> QED BY <3>1, <3>2
  <2>6. UploadsKept' /\ GalleriesShown'
    BY <2>1, <2>3 DEF GalleryInv, UploadsKept, GalleriesShown, Shown, edits
  <2> QED BY <2>1, <2>3, <2>5, <2>6 DEF GalleryInv, edits
<1>4. ASSUME NEW r \in Requests, DestroyImage(r)
      PROVE  GalleryInv'
  <2>1. UNCHANGED <<gallery, deleted, used, edits>> /\ req[r].at = "destroy"
    BY <1>4 DEF DestroyImage
  <2>2. CASE UNCHANGED cloud /\ Ends(r)
    BY <2>1, <2>2, GalleriesKept DEF Ends, Idle
  <2>3. CASE cloud' = cloud \ {req[r].file} /\ req' = [req EXCEPT ![r].at = "save"]
    <3>1. /\ req'[r].at = "save" /\ req'[r].file = req[r].file /\ req'[r].by = req[r].by
          /\ req'[r].images = req[r].images /\ req'[r].version = req[r].version
          /\ \A s \in Requests : s # r => req'[s] = req[s]
      BY <2>3
    <3>2. GalleriesShown'
      <4> SUFFICES ASSUME NEW q \in Pages PROVE \A f \in gallery'[q].images : Shown(q, f)'
        BY DEF GalleriesShown
      <4> TAKE f \in gallery'[q].images
      <4>1. f \in gallery[q].images => Shown(q, f)
        BY DEF GalleryInv, GalleriesShown
      <4>2. CASE f # req[r].file
        BY <2>1, <2>3, <3>1, <4>1, <4>2 DEF Shown, edits
      <4>3. CASE f = req[r].file
        <5>1. q = req[r].by
          BY <2>1, <4>3 DEF GalleryInv, CopyWhole
        <5> QED BY <3>1, <4>3, <5>1 DEF Shown
      <4> QED BY <4>2, <4>3
    <3>3. \A s \in Requests : CopyWhole(req[s])'
      BY <2>1, <3>1 DEF GalleryInv, CopyWhole, edits
    <3>4. UploadsKept'
      BY <2>1 DEF GalleryInv, UploadsKept, edits
    <3> QED BY <2>1, <3>1, <3>2, <3>3, <3>4 DEF GalleryInv, edits
  <2> QED BY <1>4, <2>2, <2>3 DEF DestroyImage
<1>5. ASSUME NEW r \in Requests, SavePage(r)
      PROVE  GalleryInv'
  <2> DEFINE p == req[r].by
  <2>1. /\ UNCHANGED <<used, cloud, hung, late>> /\ req[r].at = "save"
        /\ \A s \in Requests : s # r => req'[s] = req[s]
        /\ req'[r].at = "idle"
    BY <1>5 DEF SavePage, Ends, Idle
  <2>2. PageCopy(req[r]) /\ CopyWhole(req[r]) /\ p \in Pages
    BY <2>1 DEF PagesInv, PageCopy, GalleryInv
  <2>3. CASE gallery[p].version # req[r].version
    <3>1. /\ UNCHANGED <<gallery, deleted>> /\ unsaved' = unsaved \cup ({p} \X ({req[r].file} \ {Nil}))
      BY <1>5, <2>3 DEF SavePage
    <3>2. \A f \in Files : f = req[r].file => <<p, f>> \in unsaved'
      BY <3>1, HostingConstants
    <3>3. GalleriesShown'
      <4> SUFFICES ASSUME NEW q \in Pages PROVE \A f \in gallery'[q].images : Shown(q, f)'
        BY DEF GalleriesShown
      <4> TAKE f \in gallery'[q].images
      <4>1. f \in gallery[q].images => Shown(q, f)
        BY DEF GalleryInv, GalleriesShown
      <4>2. f \in Files /\ unsaved \subseteq unsaved'
        BY <3>1
      <4>3. CASE q = req[r].by /\ f = req[r].file
        BY <3>2, <4>2, <4>3 DEF Shown
      <4>4. CASE ~(q = req[r].by /\ f = req[r].file)
        BY <2>1, <3>1, <4>1, <4>2, <4>4 DEF Shown
      <4> QED BY <4>3, <4>4
    <3>4. \A s \in Requests : CopyWhole(req[s])'
      BY <2>1, <3>1 DEF GalleryInv, CopyWhole
    <3>5. UploadsKept'
      BY <2>1, <3>1 DEF GalleryInv, UploadsKept
    <3> QED BY <2>1, <3>1, <3>3, <3>4, <3>5 DEF GalleryInv
  <2>4. CASE gallery[p].version = req[r].version
    <3>1. Saved(r, p) /\ UNCHANGED unsaved
      BY <1>5, <2>4 DEF SavePage
    <3>2. /\ gallery'[p].images = req[r].images /\ gallery'[p].version = gallery[p].version + 1
          /\ \A q \in Pages : q # p => gallery'[q] = gallery[q]
          /\ deleted' = IF req[r].file = Nil THEN deleted ELSE deleted \cup {<<p, req[r].file>>}
      BY <2>2, <3>1 DEF Saved
    <3>3. req[r].images \subseteq gallery[p].images /\ req[r].file \notin req[r].images
      BY <2>1, <2>2, <2>4 DEF PageCopy
    <3>4. \A f \in gallery[p].images \ req[r].images :
            <<p, f>> \in late \/ (f = req[r].file /\ <<p, f>> \in deleted')
      <4> TAKE f \in gallery[p].images \ req[r].images
      <4>1. f # Nil
        BY <2>2, HostingConstants
      <4>2. f = req[r].file \/ <<p, f>> \in late
        BY <2>1, <2>2, <2>4 DEF CopyWhole
      <4> QED BY <3>2, <4>1, <4>2
    <3>5. /\ \A h \in hung : /\ h[1] \in Pages
                             /\ h = <<h[1], h[2]>>
          /\ deleted \subseteq deleted'
      BY <3>2 DEF GalleryInv
    <3> HIDE DEF p
    <3>6. UploadsKept'
      <4> SUFFICES ASSUME NEW h \in hung
                   PROVE  h[2] \in gallery'[h[1]].images \/ h \in deleted' \cup late
        BY <2>1 DEF UploadsKept
      <4>1. h[2] \in gallery[h[1]].images \/ h \in deleted \cup late
        BY DEF GalleryInv, UploadsKept
      <4>2. CASE h[1] = p
        BY <3>2, <3>4, <3>5, <4>1, <4>2
      <4>3. CASE h[1] # p
        BY <3>2, <3>5, <4>1, <4>3
      <4> QED BY <4>2, <4>3
    <3>7. GalleriesShown'
      <4> SUFFICES ASSUME NEW q \in Pages PROVE \A f \in gallery'[q].images : Shown(q, f)'
        BY DEF GalleriesShown
      <4> TAKE f \in gallery'[q].images
      <4>1. f \in gallery[q].images /\ (q = p => f # req[r].file)
        BY <2>1, <3>2, <3>3
      <4>2. Shown(q, f)
        BY <4>1 DEF GalleryInv, GalleriesShown
      <4>3. req[r].by = p
        BY DEF p
      <4> QED BY <2>1, <3>1, <4>1, <4>2, <4>3 DEF Shown
    <3>8. ASSUME NEW s \in Requests, req'[s].at \in {"destroy", "save"}
          PROVE  CopyWhole(req[s])'
      <4>1. s # r /\ req'[s] = req[s] /\ PageCopy(req[s]) /\ CopyWhole(req[s])
        BY <2>1, <3>8 DEF PagesInv, GalleryInv
      <4>2. req[s].by = p => req[s].version # gallery'[p].version
        BY <2>2, <3>2, <3>8, <4>1 DEF PageCopy
      <4>3. \A q \in Pages : gallery'[q].images \subseteq gallery[q].images
        BY <3>2, <3>3
      <4>4. req[s].by # p => gallery'[req[s].by] = gallery[req[s].by]
        BY <3>2, <3>8, <4>1 DEF PageCopy
      <4> QED BY <2>1, <3>8, <4>1, <4>2, <4>3, <4>4 DEF CopyWhole
    <3>9. \A s \in Requests : CopyWhole(req[s])'
      BY <3>8 DEF CopyWhole
    <3>10. \A q \in Pages : gallery'[q].images \subseteq gallery[q].images
      BY <3>2, <3>3
    <3> QED BY <2>1, <3>6, <3>7, <3>9, <3>10 DEF GalleryInv
  <2> QED BY <2>3, <2>4
<1> HIDE DEF HostingTypeOK
<1> QED BY <1>1, <1>2, <1>3, <1>4, <1>5, GalleriesAtDeath
        DEF PageNext, CreateBranch, CreateSpace, UpdateBranch, UpdateSpace, ReorderBranchImages,
            ReorderSpaceImages, LoadForReorder, DeleteBranchImage, DeleteSpaceImage, LoadForDelete

LEMMA GalleriesInPictures ==
  ASSUME HostingTypeOK, PicturesInv, GalleryInv, PictureNext
  PROVE  GalleryInv'
<1> USE DEF HostingTypeOK, RequestFields
<1>1. ASSUME NEW r \in Requests, NEW p \in Profiles, NEW f \in Files, ReadPicture(r, p, f)
      PROVE  GalleryInv'
  <2>1. /\ used' = used \cup {f} /\ cloud' = cloud \cup {f} /\ UNCHANGED <<gallery, deleted, edits>>
        /\ req[r].at = "idle" /\ \A s \in Requests : s # r => req'[s] = req[s]
        /\ req'[r].at = "drop" /\ req'[r].old = picture[p]
    <3>1. /\ req[r] = Idle /\ UNCHANGED <<gallery, deleted, edits>>
          /\ used' = used \cup {f} /\ cloud' = cloud \cup {f}
      BY <1>1 DEF ReadPicture, Upload
    <3>2. /\ \A s \in Requests : s # r => req'[s] = req[s]
          /\ req'[r].at = "drop" /\ req'[r].old = picture[p]
      BY <1>1 DEF ReadPicture, Idle
    <3>3. Idle.at = "idle"
      BY DEF Idle
    <3> QED BY <3>1, <3>2, <3>3
  <2>2. \A q \in Pages : picture[p] \notin gallery[q].images
    BY HostingConstants DEF PicturesInv, OwnPictures
  <2> QED BY <2>1, <2>2, GalleriesKept
<1>2. ASSUME NEW r \in Requests, DropPicture(r)
      PROVE  GalleryInv'
  <2>1. /\ UNCHANGED <<used, gallery, deleted, edits>> /\ cloud \ {req[r].old} \subseteq cloud'
        /\ req[r].at = "drop" /\ req'[r].at = "write"
        /\ \A s \in Requests : s # r => req'[s] = req[s]
    BY <1>2 DEF DropPicture
  <2>2. \A q \in Pages : req[r].old \notin gallery[q].images
    BY <2>1 DEF GalleryInv
  <2> QED BY <2>1, <2>2, GalleriesKept
<1>3. ASSUME NEW r \in Requests, WritePicture(r)
      PROVE  GalleryInv'
  BY <1>3, GalleriesKept DEF WritePicture, Ends, Idle
<1> HIDE DEF HostingTypeOK
<1> QED BY <1>1, <1>2, <1>3, GalleriesAtDeath DEF PictureNext, UpdateMyProfile, UpdateProfileAPI

(* The steps that concern no decision about the host.                      *)
LEMMA HostKept ==
  ASSUME HostInv, UNCHANGED <<host, raced>>,
         \A r \in Requests : req'[r].at \in {"verify", "sync"} => req'[r] = req[r],
         \A r \in Requests : req[r].at \in {"sync", "dead"} =>
           req'[r].at \in {"sync", "dead"} /\ req'[r].status = req[r].status
  PROVE  HostInv'
<1>1. HostAgrees'
  BY DEF HostInv, HostAgrees
<1>2. \A r \in Requests : (Deciding(r)' => Deciding(r)) /\ (Decision(req[r]) => Decision(req[r])')
  BY DEF Deciding, Decision
<1> QED BY <1>1, <1>2 DEF HostInv

LEMMA HostStep ==
  ASSUME HostingTypeOK, HostInv, NEW r \in Requests,
         (\E to \in DOMAIN Transitions : LoadHost(r, to)) \/ SaveHost(r) \/ SyncUser(r)
  PROVE  HostInv'
<1> USE DEF HostingTypeOK, RequestFields
<1>1. ASSUME NEW to \in DOMAIN Transitions, LoadHost(r, to) PROVE HostInv'
  <2> DEFINE x == [Idle EXCEPT !.at = "verify", !.status = to, !.old = host.verified,
                               !.by = host.status]
  <2>0. /\ UNCHANGED host /\ AssertTransition(host.status, to) /\ req[r] = Idle
        /\ req' = [req EXCEPT ![r] = x]
    BY <1>1, Zenon DEF LoadHost
  <2>1. /\ UNCHANGED host /\ AssertTransition(host.status, to) /\ req[r].at = "idle"
        /\ \A s \in Requests : s # r => req'[s] = req[s]
    BY <2>0 DEF Idle
  <2>8. raced' = IF \E o \in Requests : Deciding(o) THEN TRUE ELSE raced
    BY <1>1, Zenon DEF LoadHost
  <2>9. x.at = "verify" /\ x.status = to /\ x.old = host.verified /\ x.by = host.status
    BY Zenon DEF Idle
  <2>2. /\ req'[r].at = "verify" /\ req'[r].status = to /\ req'[r].old = host.verified
        /\ req'[r].by = host.status
    <3> HIDE DEF x
    <3> QED BY <2>0, <2>9
  <2>3. HostAgrees'
    BY <2>1, <2>2, <2>8 DEF HostInv, HostAgrees
  <2>4. ASSUME ~raced' PROVE \A s \in Requests : s # r => ~Deciding(s)'
    BY <2>1, <2>4, <2>8 DEF Deciding
  <2>5. Decision(req[r])'
    BY <2>1, <2>2 DEF Decision
  <2>6. ASSUME ~raced' PROVE \A s \in Requests : Decision(req[s])'
    <3> TAKE s \in Requests
    <3>1. CASE s = r
      BY <2>5, <3>1
    <3>2. CASE s # r
      BY <2>1, <2>6, <2>8, <3>2 DEF HostInv, Decision
    <3> QED BY <3>1, <3>2
  <2>7. raced' \in BOOLEAN
    BY <2>8 DEF HostInv
  <2>10. ASSUME ~raced' PROVE \A s, o \in Requests : Deciding(s)' /\ Deciding(o)' => s = o
    BY <2>4, <2>10
  <2>11. \A s \in Requests : req'[s].at = "verify" => req'[s].status \in DOMAIN Transitions
    BY <2>1, <2>2 DEF HostInv
  <2> QED BY <2>1, <2>3, <2>6, <2>7, <2>10, <2>11 DEF HostInv
<1>2. CASE SaveHost(r)
  <2> DEFINE to == req[r].status
             verified == to = "approved"
  <2>1. /\ req[r].at = "verify" /\ UNCHANGED raced
        /\ host' = [host EXCEPT !.status = IF to # req[r].by THEN to ELSE @,
                                !.verified = IF verified # req[r].old THEN verified ELSE @]
    BY <1>2 DEF SaveHost
  <2>2. /\ req'[r].at = "sync" /\ req'[r].status = to
        /\ \A s \in Requests : s # r => req'[s] = req[s]
    BY <1>2 DEF SaveHost
  <2> HIDE DEF verified
  <2>3. /\ host.status \in DOMAIN Transitions /\ host.verified \in BOOLEAN
        /\ to \in DOMAIN Transitions /\ verified \in BOOLEAN
    BY <2>1 DEF HostInv, verified
  <2>4. host' \in [status : DOMAIN Transitions, verified : BOOLEAN, active : BOOLEAN]
    <3> HIDE DEF to
    <3> QED BY <2>1, <2>3 DEF HostInv
  <2>5. \A s \in Requests : req'[s].at = "verify" => req'[s].status \in DOMAIN Transitions
    BY <2>2 DEF HostInv
  <2>6. CASE raced
    BY <2>1, <2>4, <2>5, <2>6 DEF HostInv, HostAgrees
  <2>7. CASE ~raced
    <3>1. /\ req[r].by = host.status /\ req[r].old = host.verified /\ AssertTransition(host.status, to)
          /\ \A s \in Requests : s # r => ~Deciding(s)
      BY <2>1, <2>7 DEF HostInv, Decision, Deciding
    <3>2. host'.status = to /\ host'.active = host.active
      BY <2>1, <3>1 DEF HostInv
    <3>3. host'.verified = verified
      BY <2>1, <2>3, <3>1 DEF HostInv
    <3>4. host.active => \/ to \in Withdrawn \/ to = "approved"
                         \/ \E s \in Requests : req[s].at = "dead" /\ req[s].status \in Withdrawn
      <4>1. Transitions["approved"] = {"suspended", "revoked"}
        BY DEF Transitions
      <4>2. CASE host.status = "approved"
        BY <3>1, <4>1, <4>2 DEF AssertTransition, Withdrawn
      <4>3. CASE host.status # "approved"
        BY <2>1, <2>7, <3>1, <4>3 DEF HostInv, HostAgrees, Deciding
      <4> QED BY <4>2, <4>3
    <3>5. HostAgrees'
      <4>1. host'.verified <=> host'.status = "approved"
        BY <3>2, <3>3 DEF verified
      <4>2. host'.active => \/ host'.status = "approved"
                            \/ \E s \in Requests :
                                 req'[s].at \in {"sync", "dead"} /\ req'[s].status \in Withdrawn
        BY <2>1, <2>2, <3>2, <3>4
      <4> QED BY <4>1, <4>2 DEF HostAgrees
    <3>6. \A s \in Requests : Decision(req[s])'
      <4> TAKE s \in Requests
      <4>1. CASE s = r
        BY <2>2, <3>2, <4>1 DEF Decision
      <4>2. CASE s # r
        BY <2>2, <3>1, <4>2 DEF Decision, Deciding
      <4> QED BY <4>1, <4>2
    <3>7. \A s, o \in Requests : Deciding(s)' /\ Deciding(o)' => s = o
      BY <2>2, <3>1 DEF Deciding
    <3> QED BY <2>1, <2>4, <2>5, <3>5, <3>6, <3>7 DEF HostInv
  <2> QED BY <2>6, <2>7
<1>3. CASE SyncUser(r)
  <2> DEFINE st == req[r].status
             active == st = "approved" \/ (host.active /\ st \notin Withdrawn)
  <2>1. /\ req[r].at = "sync" /\ UNCHANGED raced
        /\ host' = [host EXCEPT !.active = active]
    BY <1>3 DEF SyncUser
  <2>2. /\ req'[r].at = "idle"
        /\ \A s \in Requests : s # r => req'[s] = req[s]
    BY <1>3 DEF SyncUser, Ends, Idle
  <2>3. active \in BOOLEAN
    OBVIOUS
  <2>4. /\ host'.status = host.status /\ host'.verified = host.verified /\ host'.active = active
        /\ host' \in [status : DOMAIN Transitions, verified : BOOLEAN, active : BOOLEAN]
    <3> HIDE DEF active
    <3> QED BY <2>1, <2>3 DEF HostInv
  <2>5. \A s \in Requests : req'[s].at = "verify" => req'[s].status \in DOMAIN Transitions
    BY <2>2 DEF HostInv
  <2>6. CASE raced
    BY <2>1, <2>4, <2>5, <2>6 DEF HostInv, HostAgrees
  <2>7. CASE ~raced
    <3>1. st = host.status /\ \A s \in Requests : s # r => ~Deciding(s)
      BY <2>1, <2>7 DEF HostInv, Decision, Deciding
    <3>2. HostAgrees'
      <4>1. host.verified <=> host.status = "approved"
        BY <2>7 DEF HostInv, HostAgrees
      <4>2. ASSUME host.active, st # "approved", st \notin Withdrawn
            PROVE  \E s \in Requests : s # r /\ req[s].at = "dead" /\ req[s].status \in Withdrawn
        BY <2>1, <2>7, <3>1, <4>2 DEF HostInv, HostAgrees, Deciding
      <4>3. host'.active => \/ host'.status = "approved"
                            \/ \E s \in Requests :
                                 req'[s].at \in {"sync", "dead"} /\ req'[s].status \in Withdrawn
        <5>1. CASE st = "approved"
          BY <2>4, <3>1, <5>1
        <5>2. CASE st # "approved" /\ ~(host.active /\ st \notin Withdrawn)
          BY <2>4, <5>2
        <5>3. CASE st # "approved" /\ host.active /\ st \notin Withdrawn
          BY <2>2, <4>2, <5>3
        <5> QED BY <5>1, <5>2, <5>3
      <4>4. host'.verified <=> host'.status = "approved"
        BY <2>4, <4>1
      <4> QED BY <4>3, <4>4 DEF HostAgrees
    <3>3. \A s \in Requests : Decision(req[s])'
      BY <2>2, <3>1 DEF Decision, Deciding
    <3>4. \A s, o \in Requests : Deciding(s)' /\ Deciding(o)' => s = o
      BY <2>2, <3>1 DEF Deciding
    <3> QED BY <2>1, <2>4, <2>5, <3>2, <3>3, <3>4 DEF HostInv
  <2> QED BY <2>6, <2>7
<1> QED BY <1>1, <1>2, <1>3

LEMMA HostingStep ==
  ASSUME HostingInv, HostingNext
  PROVE  HostingInv'
<1>1. HostingTypeOK'
  BY HostingTypeStep DEF HostingInv
<1> DEFINE Undecided == /\ UNCHANGED <<host, raced>>
                        /\ \A r \in Requests : req'[r].at \in {"verify", "sync"} => req'[r] = req[r]
                        /\ \A r \in Requests : req[r].at \in {"sync", "dead"} =>
                             req'[r].at \in {"sync", "dead"} /\ req'[r].status = req[r].status
<1>2. CASE PageNext
  <2> DEFINE Kept == /\ UNCHANGED <<review, reported>> /\ Undecided
                     /\ \A r \in Requests : req'[r].at = "report" => req'[r] = req[r]
  <2> USE DEF HostingInv, HostingTypeOK, RequestFields
  <2>1. ASSUME NEW p \in Pages, NEW fs, CreatePage(p, fs) PROVE Kept
    BY <2>1 DEF CreatePage
  <2>2. ASSUME NEW p \in Pages, NEW f, AddImage(p, f) PROVE Kept
    BY <2>2 DEF AddImage
  <2>3. ASSUME NEW r \in Requests, NEW p \in Pages, NEW at \in {"destroy", "save"}, NEW f, NEW images,
               LoadPage(r, p, at, f, images)
        PROVE  Kept
    BY <2>3 DEF LoadPage, Idle
  <2>4. ASSUME NEW r \in Requests, DestroyImage(r) PROVE Kept
    <3>1. CASE Ends(r)
      BY <2>4, <3>1 DEF DestroyImage, Ends, Idle
    <3>2. CASE req' = [req EXCEPT ![r].at = "save"]
      BY <2>4, <3>2 DEF DestroyImage
    <3> QED BY <2>4, <3>1, <3>2 DEF DestroyImage
  <2>5. ASSUME NEW r \in Requests, SavePage(r) PROVE Kept
    BY <2>5 DEF SavePage, Ends, Idle
  <2>6. ASSUME NEW r \in Requests, Dies(r) PROVE Kept
    BY <2>6 DEF Dies
  <2> HIDE DEF Kept, HostingInv, HostingTypeOK
  <2>7. Kept
    BY <1>2, <2>1, <2>2, <2>3, <2>4, <2>5, <2>6
       DEF PageNext, CreateBranch, CreateSpace, UpdateBranch, UpdateSpace, ReorderBranchImages,
           ReorderSpaceImages, LoadForReorder, DeleteBranchImage, DeleteSpaceImage, LoadForDelete
  <2> QED BY <1>1, <1>2, <2>7, ReviewsKept, PagesStep, PicturesInPages, GalleriesStep, HostKept
         DEF HostingInv, Kept
<1>3. CASE PictureNext
  <2> DEFINE Kept == /\ UNCHANGED <<gallery, deleted, review, reported>> /\ used \subseteq used'
                     /\ Undecided
                     /\ \A r \in Requests : req'[r].at \in {"report", "destroy", "save"} =>
                          req'[r] = req[r]
  <2> USE DEF HostingInv, HostingTypeOK, RequestFields
  <2>1. ASSUME NEW r \in Requests, NEW p, NEW f, ReadPicture(r, p, f) PROVE Kept
    BY <2>1 DEF ReadPicture, Upload, Idle
  <2>2. ASSUME NEW r \in Requests, DropPicture(r) PROVE Kept
    BY <2>2 DEF DropPicture
  <2>3. ASSUME NEW r \in Requests, WritePicture(r) PROVE Kept
    BY <2>3 DEF WritePicture, Ends, Idle
  <2>4. ASSUME NEW r \in Requests, Dies(r) PROVE Kept
    BY <2>4 DEF Dies
  <2> HIDE DEF Kept, HostingInv, HostingTypeOK
  <2>5. Kept
    BY <1>3, <2>1, <2>2, <2>3, <2>4 DEF PictureNext, UpdateMyProfile, UpdateProfileAPI
  <2> QED BY <1>1, <1>3, <2>5, ReviewsKept, PagesKept, PicturesStep, GalleriesInPictures, HostKept
         DEF HostingInv, Kept
<1> DEFINE Kept == /\ UNCHANGED <<gallery, picture, cloud, used, deleted, edits>>
                   /\ \A r \in Requests : req'[r].at \in {"destroy", "save", "drop", "write"} =>
                        req'[r] = req[r]
                   /\ \A r \in Requests : req[r].at \in {"save", "write", "dead"} =>
                        req'[r] = req[r]
<1>4. CASE ReviewNext
  <2> USE DEF HostingInv, HostingTypeOK, RequestFields
  <2>1. SubmitReview => Kept /\ Undecided
    BY DEF SubmitReview
  <2>2. ASSUME NEW r \in Requests, NEW u, LoadReview(r, u) PROVE Kept /\ Undecided
    BY <2>2 DEF LoadReview, Idle
  <2>3. ASSUME NEW r \in Requests, SaveReport(r) PROVE Kept /\ Undecided
    BY <2>3 DEF SaveReport, Ends, Idle
  <2> HIDE DEF HostingInv, HostingTypeOK
  <2>4. Kept /\ Undecided
    BY <1>4, <2>1, <2>2, <2>3 DEF ReviewNext
  <2>5. ReviewInv'
    BY <1>4, ReviewsStep DEF HostingInv
  <2>6. HostInv'
    BY <2>4, HostKept DEF HostingInv
  <2>7. PagesInv' /\ PicturesInv'
    BY <1>1, <2>4, PagesKept, PicturesKept DEF HostingInv
  <2>8. GalleryInv'
    BY <1>1, <2>4, GalleriesKept DEF HostingInv
  <2> QED BY <1>1, <2>5, <2>6, <2>7, <2>8 DEF HostingInv
<1>5. ASSUME NEW r \in Requests, NEW to \in DOMAIN Transitions, LoadHost(r, to) \/ SaveHost(r) \/ SyncUser(r)
      PROVE  HostingInv'
  <2> DEFINE Still == /\ Kept /\ UNCHANGED <<review, reported>>
                      /\ \A s \in Requests : req'[s].at = "report" => req'[s] = req[s]
  <2> USE DEF HostingInv, HostingTypeOK, RequestFields
  <2>1. LoadHost(r, to) => Still
    BY DEF LoadHost, Idle
  <2>2. SaveHost(r) => Still
    BY DEF SaveHost
  <2>3. SyncUser(r) => Still
    BY DEF SyncUser, Ends, Idle
  <2> HIDE DEF HostingInv, HostingTypeOK
  <2>4. Still
    BY <1>5, <2>1, <2>2, <2>3
  <2>5. HostInv'
    BY <1>5, HostStep DEF HostingInv
  <2>6. ReviewInv' /\ PagesInv' /\ PicturesInv'
    BY <1>1, <2>4, ReviewsKept, PagesKept, PicturesKept DEF HostingInv
  <2>7. GalleryInv'
    BY <1>1, <2>4, GalleriesKept DEF HostingInv
  <2> QED BY <1>1, <2>5, <2>6, <2>7 DEF HostingInv
<1>6. ASSUME NEW r \in Requests, Dies(r)
      PROVE  HostingInv'
  <2>1. PictureNext
    BY <1>6 DEF PictureNext
  <2> QED BY <1>3, <2>1
<1>7. "pending" \in DOMAIN Transitions
  BY DEF Transitions
<1> QED BY <1>2, <1>3, <1>4, <1>5, <1>6, <1>7 DEF HostingNext, VerificationNext

(* What survives when hosts and customers edit a document at the same      *)
(* time: a deleted image does not come back; an upload stays unless it came *)
(* while a request held a copy of the gallery; a gallery or a profile shows *)
(* a file that is gone only if the request that replaces or removes it is  *)
(* not through, stopped, or was refused by the version; reports count once *)
(* up to the limit; and decisions about a host that do not overlap agree.  *)
THEOREM EditsAreKept == HostingSpec => []EditsSurvive
<1>1. HostingInit => HostingInv
  <2> SUFFICES ASSUME HostingInit PROVE HostingInv
    OBVIOUS
  <2>1. HostingTypeOK
    BY DEF HostingInit, HostingTypeOK, RequestFields, Idle
  <2>2. \A r \in Requests : req[r].at = "idle"
    BY DEF HostingInit, Idle
  <2>3. PagesInv /\ PicturesInv
    BY <2>2 DEF HostingInit, PagesInv, DeletedStays, PageCopy, PicturesInv, PicturesShown,
         NewPictures, NewPicture, OwnPictures, DropsKnown
  <2>4. ReviewInv
    <3>1. Cardinality({}) = 0 /\ IsFiniteSet({}) /\ MaxReports >= 0
      BY FS_EmptySet, HostingConstants
    <3> QED BY <2>2, <3>1 DEF HostingInit, ReviewInv, ReportsKept, ReportCopy
  <2>5. GalleryInv
    BY <2>2 DEF HostingInit, GalleryInv, UploadsKept, GalleriesShown, CopyWhole
  <2>6. HostInv
    <3>1. "pending" \in DOMAIN Transitions
      BY DEF Transitions
    <3> QED BY <2>2, <3>1 DEF HostingInit, HostInv, HostAgrees, Deciding, Decision
  <2> QED BY <2>1, <2>3, <2>4, <2>5, <2>6 DEF HostingInv
<1>2. HostingInv /\ UNCHANGED hostingVars => HostingInv'
  BY DEF hostingVars, HostingInv, HostingTypeOK, PagesInv, DeletedStays, PageCopy, PicturesInv,
     PicturesShown, NewPictures, NewPicture, OwnPictures, DropsKnown, ReviewInv, ReportsKept, ReportCopy,
     GalleryInv, UploadsKept, GalleriesShown, Shown, CopyWhole, edits, HostInv, HostAgrees, Deciding, Decision
<1>3. HostingInv /\ [HostingNext]_hostingVars => HostingInv'
  BY <1>2, HostingStep
<1>4. HostingInv => EditsSurvive
  BY DEF HostingInv, PagesInv, PicturesInv, ReviewInv, GalleryInv, HostInv, EditsSurvive
<1> QED BY <1>1, <1>3, <1>4, PTL DEF HostingSpec

(***************************************************************************)
(* The content service.                                                    *)
(***************************************************************************)

(* The requests under way, each with an edit of its own. *)
AskSound(e) ==
  ask[e].at = "open" =>
    /\ ask[e].edit \in 1..begun
    /\ ask[e].match # Absent /\ ask[e].seen # C!NoDocument => C!ETag(ask[e].seen) = ask[e].match
    /\ \A f \in Editors : f # e /\ ask[f].at = "open" => ask[f].edit # ask[e].edit

AsksSound ==
  /\ begun \in 0..MaxEdits
  /\ ask = [e \in Editors |-> ask[e]]
  /\ \A e \in Editors : {"at", "on", "to", "shown", "edit", "match", "seen"} \subseteq DOMAIN ask[e]
  /\ \A e \in Editors : AskSound(e)

DocumentsSound ==
  /\ document = [k \in C!Places |-> document[k]]
  /\ \A k \in C!Places : {"id", "text", "to", "shown"} \subseteq DOMAIN document[k]

(* Whatever was published, or will be once its publisher saves, was sent.  *)
Announcing ==
  /\ \A w \in Publishers : batch[w].taken = TRUE => batch[w].edit \in sent
  /\ batch = [w \in Publishers |-> batch[w]]
  /\ \A w \in Publishers : {"edit", "tries", "taken"} \subseteq DOMAIN batch[w]
  /\ event = [n \in DOMAIN event |-> event[n]]
  /\ \A n \in DOMAIN event : {"key", "status", "tries"} \subseteq DOMAIN event[n]
  /\ \A w \in Publishers : batch[w] # C!NoBatch => batch[w].edit \in DOMAIN event

ContentInv == AsksSound /\ DocumentsSound /\ Announcing /\ C!EditsTold

LEMMA TextFacts ==
  MaxEdits \in Nat /\ Absent \notin 1..MaxEdits /\ Here \notin 1..MaxEdits
BY ContentAssumption DEF C!ContentConstants

LEMMA AsksStep ==
  ASSUME ContentInv, NEW e \in Editors, NEW k, NEW to, NEW shown, NEW match, NEW token,
         C!Asks(e, k, to, shown, match, token),
         match # Absent /\ document[k] # C!NoDocument => C!ETag(document[k]) = match
  PROVE  ContentInv'
<1>1. /\ begun' = begun + 1 /\ begun < MaxEdits /\ UNCHANGED <<document, event, sent, batch>>
      /\ ask' = [ask EXCEPT ![e] = [at |-> "open", on |-> k, to |-> to, shown |-> shown,
                   edit |-> begun', match |-> match, token |-> token, seen |-> document[k]]]
  BY DEF C!Asks
<1>2. AsksSound'
  <2>1. begun \in 0..MaxEdits /\ begun' \in 0..MaxEdits
    BY <1>1, TextFacts DEF ContentInv, AsksSound
  <2>2. /\ ask' = [f \in Editors |-> ask'[f]]
        /\ \A f \in Editors : f # e => ask'[f] = ask[f]
        /\ ask'[e] = [at |-> "open", on |-> k, to |-> to, shown |-> shown, edit |-> begun',
                      match |-> match, token |-> token, seen |-> document[k]]
    BY <1>1 DEF ContentInv, AsksSound
  <2>3. /\ {"at", "on", "to", "shown", "edit", "match", "seen"} \subseteq DOMAIN ask'[e]
        /\ ask'[e].edit = begun' /\ ask'[e].match = match /\ ask'[e].seen = document[k]
    BY <2>2
  <2>4. AskSound(e)'
    BY <1>1, <2>1, <2>2, <2>3 DEF ContentInv, AsksSound, AskSound, C!NoDocument, C!ETag
  <2>5. ASSUME NEW f \in Editors, f # e
        PROVE  AskSound(f)'
    <3>1. ask'[f] = ask[f] /\ AskSound(f)
      BY <2>2, <2>5 DEF ContentInv, AsksSound
    <3>2. ask[f].at = "open" => ask[f].edit \in 1..begun' /\ ask[f].edit # begun'
      BY <1>1, <2>1, <3>1 DEF AskSound
    <3> QED BY <2>2, <2>3, <3>1, <3>2 DEF AskSound, C!NoDocument, C!ETag
  <2>6. \A f \in Editors : AskSound(f)'
    BY <2>4, <2>5
  <2> QED BY <2>1, <2>2, <2>3, <2>6 DEF ContentInv, AsksSound
<1>3. DocumentsSound' /\ Announcing'
  BY <1>1 DEF ContentInv, DocumentsSound, Announcing, C!Places, C!NoBatch
<1>4. C!EditsTold'
  BY <1>1 DEF ContentInv, C!EditsTold, C!Places, C!Edits
<1> QED BY <1>2, <1>3, <1>4 DEF ContentInv

LEMMA CommitStep ==
  ASSUME ContentInv, NEW e \in Editors, C!CommitEdit(e)
  PROVE  ContentInv'
<1> DEFINE a == ask[e]
           d == C!Written(a)
<1>1. /\ a.at = "open" /\ document[a.on] = a.seen /\ UNCHANGED <<begun, sent, batch>>
      /\ document' = [document EXCEPT ![a.on] = d] /\ ask' = [ask EXCEPT ![e] = C!NoAsk]
      /\ event' = [n \in DOMAIN event \cup {a.edit} |->
            IF n = a.edit THEN [key |-> C!EventKey(a, d), status |-> "pending", tries |-> 0]
            ELSE event[n]]
  BY DEF C!CommitEdit, C!Unchanged
<1>2. AsksSound'
  BY <1>1 DEF ContentInv, AsksSound, AskSound, C!NoAsk, C!NoDocument, C!ETag
<1>3. d.text = a.edit /\ {"id", "text", "to", "shown"} \subseteq DOMAIN d
  BY DEF C!Written
<1> HIDE DEF d
<1>4. DocumentsSound'
  BY <1>1, <1>3 DEF ContentInv, DocumentsSound, C!Places
<1>5. \A n \in DOMAIN event' :
        /\ (n \in DOMAIN event /\ event'[n] = event[n]) \/ event'[n].status = "pending"
        /\ {"key", "status", "tries"} \subseteq DOMAIN event'[n]
  BY <1>1 DEF ContentInv, Announcing
<1>6. DOMAIN event' = DOMAIN event \cup {a.edit} /\ event' = [n \in DOMAIN event' |-> event'[n]]
  BY <1>1
<1>7. Announcing'
  BY <1>1, <1>5, <1>6 DEF ContentInv, Announcing, C!NoBatch
<1>8. C!EditsTold'
  BY <1>1, <1>3, <1>5, <1>6 DEF ContentInv, DocumentsSound, C!EditsTold, C!Places, C!Edits
<1> QED BY <1>2, <1>4, <1>7, <1>8 DEF ContentInv

LEMMA PublishStep ==
  ASSUME ContentInv, C!PublishNext
  PROVE  ContentInv'
<1>1. UNCHANGED <<document, ask, begun>> => AsksSound' /\ DocumentsSound'
  BY DEF ContentInv, AsksSound, AskSound, DocumentsSound, C!Places, C!ETag, C!NoDocument
<1>2. ASSUME NEW w \in Publishers, NEW n \in DOMAIN event, C!ClaimEvent(w, n)
      PROVE  ContentInv'
  <2>1. /\ event' = [event EXCEPT ![n].status = "processing", ![n].tries = @ + 1]
        /\ batch' = [batch EXCEPT ![w] = [edit |-> n, tries |-> event[n].tries + 1, taken |-> FALSE]]
        /\ UNCHANGED <<document, ask, begun, sent>>
    BY <1>2 DEF C!ClaimEvent
  <2>2. /\ DOMAIN event' = DOMAIN event /\ event' = [m \in DOMAIN event' |-> event'[m]]
        /\ \A m \in DOMAIN event : m # n => event'[m] = event[m]
        /\ event'[n].status = "processing" /\ {"key", "status", "tries"} \subseteq DOMAIN event'[n]
    BY <2>1 DEF ContentInv, Announcing
  <2>3. Announcing'
    BY <2>1, <2>2 DEF ContentInv, Announcing, C!NoBatch
  <2>4. C!EditsTold'
    BY <2>1, <2>2 DEF ContentInv, C!EditsTold, C!Places
  <2> QED BY <1>1, <2>1, <2>3, <2>4 DEF ContentInv
<1>3. ASSUME NEW w \in Publishers, C!Publish(w)
      PROVE  ContentInv'
  <2>1. /\ batch[w] # C!NoBatch /\ sent' = sent \cup {batch[w].edit}
        /\ UNCHANGED <<document, ask, begun, event>>
    BY <1>3 DEF C!Publish
  <2>2. PICK confirmed \in BOOLEAN : batch' = [batch EXCEPT ![w].taken = confirmed]
    BY <1>3 DEF C!Publish
  <2>3. /\ \A v \in Publishers : v # w => batch'[v] = batch[v]
        /\ batch'[w].edit = batch[w].edit /\ {"edit", "tries", "taken"} \subseteq DOMAIN batch'[w]
        /\ batch' = [v \in Publishers |-> batch'[v]]
    BY <2>2 DEF ContentInv, Announcing
  <2>4. Announcing'
    BY <2>1, <2>3 DEF ContentInv, Announcing, C!NoBatch
  <2>5. C!EditsTold'
    BY <2>1 DEF ContentInv, C!EditsTold, C!Places
  <2> QED BY <1>1, <2>1, <2>4, <2>5 DEF ContentInv
<1>4. ASSUME NEW w \in Publishers, UNCHANGED <<document, ask, begun, sent>>,
             batch' = [batch EXCEPT ![w] = C!NoBatch],
             UNCHANGED event \/ C!SaveEvent(w)
      PROVE  ContentInv'
  <2>1. /\ DOMAIN event' = DOMAIN event /\ event' = [m \in DOMAIN event' |-> event'[m]]
        /\ \A m \in DOMAIN event : {"key", "status", "tries"} \subseteq DOMAIN event'[m]
    BY <1>4 DEF ContentInv, Announcing, C!SaveEvent
  <2>2. ASSUME NEW m \in DOMAIN event, event'[m].status = "published"
        PROVE  m \in sent
    <3>1. CASE event'[m] = event[m]
      BY <2>2, <3>1 DEF ContentInv, C!EditsTold
    <3>2. CASE event'[m] # event[m]
      <4>1. /\ batch[w] # C!NoBatch /\ m = batch[w].edit
            /\ event' = [event EXCEPT ![batch[w].edit].status = C!Settled(batch[w])]
        BY <1>4, <3>2 DEF C!SaveEvent
      <4>2. event'[m].status = C!Settled(batch[w])
        BY <4>1 DEF ContentInv, Announcing
      <4>3. batch[w].taken = TRUE
        BY <2>2, <4>2 DEF C!Settled
      <4> QED BY <4>1, <4>3 DEF ContentInv, Announcing
    <3> QED BY <3>1, <3>2
  <2>3. Announcing'
    BY <1>4, <2>1 DEF ContentInv, Announcing, C!NoBatch
  <2>4. C!EditsTold'
    BY <1>4, <2>1, <2>2 DEF ContentInv, C!EditsTold, C!Places
  <2> QED BY <1>1, <1>4, <2>3, <2>4 DEF ContentInv
<1> QED BY <1>2, <1>3, <1>4 DEF C!PublishNext, C!SaveEvent, C!StopPublisher

LEMMA ContentStep ==
  ASSUME ContentInv, C!ContentNext
  PROVE  ContentInv'
<1>1. ASSUME NEW k \in C!Places, NEW d, document' = [document EXCEPT ![k] = d],
             d.text \in {Absent, Here}, {"id", "text", "to", "shown"} \subseteq DOMAIN d,
             begun' \in begun..MaxEdits, UNCHANGED <<ask, event, sent, batch>>
      PROVE  ContentInv'
  <2>1. AsksSound'
    <3>1. begun' \in 0..MaxEdits /\ 1..begun \subseteq 1..begun'
      BY <1>1, TextFacts DEF ContentInv, AsksSound
    <3>2. \A e \in Editors : AskSound(e)'
      BY <1>1, <3>1 DEF ContentInv, AsksSound, AskSound, C!NoDocument, C!ETag
    <3> QED BY <1>1, <3>1, <3>2 DEF ContentInv, AsksSound
  <2>2. DocumentsSound'
    BY <1>1 DEF ContentInv, DocumentsSound, C!Places
  <2>3. Announcing'
    BY <1>1 DEF ContentInv, Announcing, C!NoBatch
  <2>4. C!EditsTold'
    BY <1>1, TextFacts DEF ContentInv, DocumentsSound, C!EditsTold, C!Places, C!Edits
  <2> QED BY <2>1, <2>2, <2>3, <2>4 DEF ContentInv
<1>2. ASSUME NEW k \in C!Places, C!Delete(k)
      PROVE  ContentInv'
  <2>1. /\ C!NoDocument.text = Absent
        /\ {"id", "text", "to", "shown"} \subseteq DOMAIN C!NoDocument
    BY DEF C!NoDocument
  <2>2. begun' \in begun..MaxEdits
    BY <1>2, TextFacts DEF C!Delete, ContentInv, AsksSound
  <2> QED BY <1>1, <1>2, <2>1, <2>2 DEF C!Delete
<1>3. ASSUME NEW k \in C!Places, NEW to, NEW shown, C!Backfill(k, to, shown)
      PROVE  ContentInv'
  <2> DEFINE d == [id      |-> IF C!Stored(k) THEN document[k].id ELSE begun',
                   version |-> document[k].version, text |-> Here, stamp |-> document[k].stamp,
                   to      |-> to, shown |-> shown]
  <2>1. document' = [document EXCEPT ![k] = d]
    BY <1>3 DEF C!Backfill
  <2>2. d.text = Here /\ {"id", "text", "to", "shown"} \subseteq DOMAIN d
    OBVIOUS
  <2>3. begun' \in begun..MaxEdits
    BY <1>3, TextFacts DEF C!Backfill, ContentInv, AsksSound
  <2> HIDE DEF d
  <2> QED BY <1>1, <1>3, <2>1, <2>2, <2>3 DEF C!Backfill
<1>4. ASSUME NEW e \in Editors, C!AbortEdit(e)
      PROVE  ContentInv'
  <2>1. AsksSound'
    BY <1>4 DEF C!AbortEdit, ContentInv, AsksSound, AskSound, C!NoAsk, C!NoDocument, C!ETag
  <2> QED BY <1>4, <2>1 DEF C!AbortEdit, ContentInv, DocumentsSound, Announcing, C!EditsTold,
        C!Places, C!Edits, C!NoBatch
<1>5. ASSUME NEW e \in Editors, NEW k, NEW shown, NEW match, NEW token,
             C!BeginPage(e, k, shown, match, token)
      PROVE  ContentInv'
  BY <1>5, AsksStep DEF C!BeginPage, C!Stored
<1>6. CASE C!PageNext
  BY <1>2, <1>5, <1>6 DEF C!PageNext, C!Places
<1>7. CASE C!RedirectNext
  BY <1>2, <1>7, AsksStep DEF C!RedirectNext, C!BeginRedirect, C!Places
<1>8. CASE C!WordNext
  BY <1>8, AsksStep DEF C!WordNext, C!BeginWord
<1> QED BY <1>3, <1>4, <1>6, <1>7, <1>8, CommitStep, PublishStep
        DEF C!ContentNext, C!EndNext, C!CopyNext

LEMMA ContentInvInit == C!ContentInit => ContentInv
<1> SUFFICES ASSUME C!ContentInit PROVE ContentInv
  OBVIOUS
<1>1. AsksSound
  BY TextFacts DEF C!ContentInit, AsksSound, AskSound, C!NoAsk
<1>2. DocumentsSound /\ Announcing
  BY DEF C!ContentInit, DocumentsSound, Announcing, C!NoDocument, C!NoBatch
<1>3. C!EditsTold
  BY TextFacts DEF C!ContentInit, C!EditsTold, C!NoDocument, C!Edits
<1> QED BY <1>1, <1>2, <1>3 DEF ContentInv

LEMMA ContentInvKept == ContentInv /\ UNCHANGED C!contentVars => ContentInv'
BY DEF C!contentVars, ContentInv, AsksSound, AskSound, DocumentsSound, Announcing, C!EditsTold,
       C!Places, C!Edits, C!NoDocument, C!NoBatch, C!ETag

(* The only step that leaves the text of an open request is its commit.    *)
LEMMA NamedStep ==
  ASSUME ContentInv, C!ContentNext, NEW e \in Editors,
         ask[e].at = "open", ask[e].match # Absent, C!Stored(ask[e].on),
         document'[ask[e].on] # document[ask[e].on],
         document'[ask[e].on].text = ask[e].edit
  PROVE  C!ETag(document[ask[e].on]) = ask[e].match
<1>1. ask[e].edit \in 1..MaxEdits
  BY TextFacts DEF ContentInv, AsksSound, AskSound
<1>2. document' # document
  OBVIOUS
<1>3. PICK f \in Editors : C!CommitEdit(f)
  <2>1. ASSUME NEW k, NEW d, document' = [document EXCEPT ![k] = d], d.text \in {Absent, Here}
        PROVE  FALSE
    <3>1. document'[ask[e].on] = d
      BY <2>1 DEF ContentInv, DocumentsSound
    <3> QED BY <1>1, <2>1, <3>1, TextFacts
  <2>2. ~\E k \in C!Places : C!Delete(k)
    BY <2>1 DEF C!Delete, C!NoDocument
  <2>3. ~\E k \in C!Places : \E to, shown : C!Backfill(k, to, shown)
    BY <2>1 DEF C!Backfill
  <2> QED BY <1>2, <2>2, <2>3
          DEF C!ContentNext, C!PageNext, C!RedirectNext, C!WordNext, C!EndNext, C!CopyNext,
              C!PublishNext, C!BeginPage, C!BeginRedirect, C!BeginWord, C!Asks, C!AbortEdit,
              C!ClaimEvent, C!Publish, C!SaveEvent, C!StopPublisher, C!Places
<1>4. /\ ask[f].at = "open" /\ document[ask[f].on] = ask[f].seen
      /\ document' = [document EXCEPT ![ask[f].on] = C!Written(ask[f])]
  BY <1>3 DEF C!CommitEdit, C!Unchanged
<1>5. document'[ask[e].on] = C!Written(ask[f]) /\ ask[f].on = ask[e].on
  BY <1>4 DEF ContentInv, DocumentsSound
<1>6. ask[f].edit = ask[e].edit
  BY <1>5 DEF C!Written
<1>7. f = e
  BY <1>4, <1>6 DEF ContentInv, AsksSound, AskSound
<1> QED BY <1>4, <1>7 DEF ContentInv, AsksSound, AskSound, C!Stored

(* Whatever editors, deletions, the copying of the monolith's content and  *)
(* the publishers do at the same time, an edit that names a version        *)
(* replaces that one, and what it wrote is in the outbox until it is sent. *)
THEOREM EditsAreHeld == C!ContentSpec => EditsHold
<1>1. ContentInv /\ [C!ContentNext]_C!contentVars => ContentInv'
  BY ContentStep, ContentInvKept
<1>2. ContentInv => C!EditsTold
  BY DEF ContentInv
<1> DEFINE Named ==
      \A e \in Editors :
        ask[e].at = "open" /\ ask[e].match # Absent /\ C!Stored(ask[e].on)
          /\ document'[ask[e].on] # document[ask[e].on] /\ document'[ask[e].on].text = ask[e].edit
        => C!ETag(document[ask[e].on]) = ask[e].match
<1>3. ContentInv /\ [C!ContentNext]_C!contentVars => [Named]_C!contentVars
  BY NamedStep
<1>4. C!EditsNamed <=> [][Named]_C!contentVars
  BY DEF C!EditsNamed
<1> HIDE DEF Named
<1> QED BY <1>1, <1>2, <1>3, <1>4, ContentInvInit, PTL DEF C!ContentSpec, EditsHold, C!EditsHold

(***************************************************************************)
(* The monolith's own accounts.                                            *)
(***************************************************************************)

(* A promise is about sessions that were issued, and is kept by their rows. *)
SessionsSound ==
  /\ session = [s \in Logins |-> session[s]]
  /\ \A s \in Logins : {"state", "version"} \subseteq DOMAIN session[s]
  /\ \A s \in Logins : session[s].state \in {"unissued", "open", "revoked"}
  /\ over \subseteq Logins
  /\ \A s \in over : session[s].state = "revoked"
  /\ visits = [v \in Calls |-> visits[v]]
  /\ \A v \in Calls : {"op", "at", "copy", "word", "key", "tries", "open"} \subseteq DOMAIN visits[v]
  /\ \A v \in Calls : visits[v].open \subseteq Logins
  /\ \A v \in Calls : \A s \in visits[v].open : session[s].state # "unissued"

(* A token is taken by the request that used it up, a challenge by its claim. *)
Holding(v, m) == visits[v].op = "confirm" /\ visits[v].at \in {"load", "save"} /\ visits[v].key = m

TakenSound ==
  /\ mail = [m \in MailTokens |-> mail[m]]
  /\ challenge = [c \in Challenges |-> challenge[c]]
  /\ taken \in [MailTokens \cup Challenges -> {0, 1}]
  /\ \A m \in MailTokens : mail[m] \in {"unissued", "open"} => taken[m] = 0
  /\ \A v \in Calls, m \in MailTokens : Holding(v, m) =>
       /\ mail[m] = "used" /\ taken[m] = 0
       /\ \A u \in Calls : Holding(u, m) => u = v
  /\ \A c \in Challenges : challenge[c] \in {"unissued", "open"} => taken[c] = 0
  /\ \A v \in Calls :
       /\ visits[v].op = "confirm" => visits[v].key \in MailTokens
       /\ visits[v].op \in {"assert", "enroll"} => visits[v].key \in Challenges

LegacyInv == SessionsSound /\ TakenSound

VisitFields == {"op", "at", "copy", "word", "key", "tries", "open"}

(* What a request becomes, if it does not come to hold a token. *)
Becomes(v, x) ==
  /\ visits' = [visits EXCEPT ![v] = x]
  /\ VisitFields \subseteq DOMAIN x
  /\ x.open \subseteq visits[v].open \cup L!Open
  /\ x.op \in {"assert", "enroll"} => x.key \in Challenges
  /\ x.op = "confirm" =>
       /\ x.key \in MailTokens
       /\ \/ x.at = "consume"
          \/ visits[v].op = "confirm" /\ visits[v].at \in {"load", "save"} /\ x.key = visits[v].key

LEMMA SessionsStep ==
  ASSUME LegacyInv, NEW v \in Calls, NEW x, Becomes(v, x),
         session' = [s \in Logins |-> session'[s]], over' \subseteq Logins,
         \A s \in Logins :
           /\ {"state", "version"} \subseteq DOMAIN session'[s]
           /\ session'[s].state \in {"unissued", "open", "revoked"}
           /\ session[s].state # "unissued" => session'[s].state # "unissued"
           /\ s \in over' => session'[s].state = "revoked"
  PROVE  SessionsSound'
BY DEF LegacyInv, SessionsSound, Becomes, L!Open, VisitFields

LEMMA SessionsKept ==
  ASSUME LegacyInv, NEW v \in Calls, NEW x, Becomes(v, x), UNCHANGED <<session, over>>
  PROVE  SessionsSound'
BY SessionsStep DEF LegacyInv, SessionsSound

LEMMA TakenKept ==
  ASSUME LegacyInv, NEW v \in Calls, NEW x, Becomes(v, x),
         mail' = [m \in MailTokens |-> mail'[m]],
         \A m \in MailTokens : /\ mail[m] = "used" => mail'[m] = "used"
                               /\ mail'[m] \in {"unissued", "open"} => mail[m] \in {"unissued", "open"},
         challenge' = [c \in Challenges |-> challenge'[c]],
         \A c \in Challenges : challenge'[c] \in {"unissued", "open"} =>
           challenge[c] \in {"unissued", "open"},
         UNCHANGED taken
  PROVE  TakenSound'
<1>1. \A u \in Calls : u # v => visits'[u] = visits[u]
  BY DEF LegacyInv, SessionsSound, Becomes
<1>2. visits'[v] = x
  BY DEF LegacyInv, SessionsSound, Becomes
<1>3. \A u \in Calls, m \in MailTokens : Holding(u, m)' => Holding(u, m)
  BY <1>1, <1>2 DEF Holding, LegacyInv, TakenSound, Becomes
<1> QED BY <1>1, <1>2, <1>3 DEF LegacyInv, TakenSound, Becomes

LEMMA LegacyKept ==
  ASSUME LegacyInv, NEW v \in Calls, NEW x, Becomes(v, x),
         UNCHANGED <<session, mail, challenge, over, taken>>
  PROVE  LegacyInv'
BY SessionsKept, TakenKept DEF LegacyInv, TakenSound

LEMMA Starting ==
  ASSUME LegacyInv, NEW v \in Calls, NEW op, NEW at, NEW k, NEW w, L!Start(v, op, at, k, w),
         op = "confirm" => at = "consume" /\ k \in MailTokens,
         op \in {"assert", "enroll"} => k \in Challenges
  PROVE  \E x : Becomes(v, x)
<1> DEFINE x == [L!Waiting EXCEPT !.op = op, !.at = at, !.copy = account, !.key = k, !.word = w,
                                  !.open = L!Open]
<1>1. x.op = op /\ x.at = at /\ x.key = k /\ x.open = L!Open /\ VisitFields \subseteq DOMAIN x
  BY DEF L!Waiting, VisitFields
<1>2. visits' = [visits EXCEPT ![v] = x]
  BY DEF L!Start
<1> HIDE DEF x
<1> QED BY <1>1, <1>2 DEF Becomes

LEMMA Answering ==
  ASSUME LegacyInv, NEW v \in Calls, L!Answer(v)
  PROVE  Becomes(v, L!Answered)
BY DEF L!Answer, L!Answered, L!Waiting, Becomes, VisitFields

LEMMA GoingOn ==
  ASSUME LegacyInv, NEW v \in Calls, NEW at, L!GoOn(v, at) \/ L!Reload(v, at),
         visits[v].op = "confirm" => visits[v].at \in {"load", "save"}
  PROVE  \E x : Becomes(v, x)
<1> DEFINE x == [visits[v] EXCEPT !.at = at]
           y == [visits[v] EXCEPT !.at = at, !.copy = account]
<1> USE DEF LegacyInv, SessionsSound, TakenSound, VisitFields
<1>1. CASE L!GoOn(v, at)
  <2>1. Becomes(v, x)
    BY <1>1 DEF L!GoOn, Becomes
  <2> QED BY <2>1
<1>2. CASE L!Reload(v, at)
  <2>1. Becomes(v, y)
    BY <1>2 DEF L!Reload, Becomes
  <2> QED BY <2>1
<1> QED BY <1>1, <1>2

(* The requests that look things up, and those that only change the        *)
(* account, its reset codes or its passkey.                                *)
LEMMA LegacyQuiet ==
  ASSUME LegacyInv, NEW v \in Calls,
         \/ \E w \in Passwords : L!Register(v, w) \/ L!Login(v, w)
         \/ L!RequestMail(v) \/ (\E m \in MailTokens : L!PresentMail(v, m)) \/ L!ConfirmLoad(v)
         \/ L!GoogleLogin(v) \/ L!GoogleSignUp(v) \/ L!IssuePending(v)
         \/ L!TwoFactor(v)
         \/ \E s \in Logins, c \in Challenges : L!RegisterPasskey(v, s, c)
         \/ \E c \in Challenges : L!Assert(v, c)
         \/ (\E s \in Logins : L!RevokePasskey(v, s)) \/ L!StorePasskey(v)
         \/ L!AdvanceCounter(v) \/ L!PasskeyOwner(v)
         \/ (\E s \in Logins : L!LogoutAll(v, s)) \/ L!ForceLogout(v) \/ L!SaveVersion(v)
         \/ \E s \in Logins, old, w \in Passwords : L!Change(v, s, old, w)
         \/ L!SaveWord(v) \/ L!Toggle(v) \/ L!SaveStatus(v)
         \/ L!Forgot(v) \/ L!RetireResets(v) \/ L!CreateReset(v)
         \/ \E o \in Resets, w \in Passwords : L!ResetFind(v, o, w)
         \/ L!ResetMiss(v) \/ L!ResetLoad(v) \/ L!ResetSave(v) \/ L!ResetSpend(v)
  PROVE  LegacyInv'
<1> DEFINE Quiet == UNCHANGED <<session, mail, challenge, over, taken>>
           Change == Quiet /\ \E x : Becomes(v, x)
<1>1. Change => LegacyInv'
  BY LegacyKept
<1>2. ASSUME NEW op \in {"register", "mail", "login", "factor", "setup", "enable", "disable", "logoutAll",
                          "forceLogout", "change", "toggle", "forgot"},
             NEW at, NEW k, NEW w, L!Start(v, op, at, k, w)
      PROVE  \E x : Becomes(v, x)
  BY <1>2, Starting
<1>3. L!Answer(v) => \E x : Becomes(v, x)
  BY Answering
<1>4. ASSUME NEW at, L!GoOn(v, at) \/ L!Reload(v, at), visits[v].op # "confirm"
      PROVE  \E x : Becomes(v, x)
  BY <1>4, GoingOn
<1> HIDE DEF Change
<1>5. ASSUME NEW w \in Passwords, L!Register(v, w) \/ L!Login(v, w)
      PROVE  Change
  BY <1>2, <1>5 DEF Change, L!Register, L!Login, L!docs
<1>6. ASSUME NEW m \in MailTokens, L!PresentMail(v, m)
      PROVE  Change
  BY <1>6, Starting DEF Change, L!PresentMail, L!docs
<1>7. CASE L!ConfirmLoad(v)
  BY <1>1, <1>7, GoingOn DEF Change, L!ConfirmLoad, L!In, L!docs
<1>8. CASE L!GoogleSignUp(v)
  <2> DEFINE x == [L!Waiting EXCEPT !.op = "login", !.at = "proved", !.copy = account']
  <2>1. Becomes(v, x)
    BY <1>8 DEF L!GoogleSignUp, L!Waiting, Becomes, VisitFields
  <2> QED BY <1>1, <1>8, <2>1 DEF Change, L!GoogleSignUp
<1>9. CASE L!RequestMail(v) \/ L!GoogleLogin(v) \/ L!IssuePending(v)
  BY <1>1, <1>2, <1>3, <1>9 DEF Change, L!RequestMail, L!GoogleLogin, L!IssuePending, L!docs
<1>10. CASE L!VerifyTotp(v) \/ L!SaveFactor(v)
  BY <1>1, <1>2, <1>3, <1>10 DEF Change, L!VerifyTotp, L!SaveFactor, L!docs
<1>11. CASE L!RemoveRecovery(v)
  BY <1>1, <1>4, <1>11 DEF Change, L!RemoveRecovery, L!In
<1>12. CASE L!TwoFactor(v)
  BY <1>1, <1>2, <1>10, <1>11, <1>12
     DEF Change, L!TwoFactor, L!VerifyRecovery, L!Setup2fa, L!Enable2fa, L!Disable2fa, L!docs
<1>13. ASSUME NEW s \in Logins, NEW c \in Challenges, L!RegisterPasskey(v, s, c)
       PROVE  Change
  BY <1>13, Starting DEF Change, L!RegisterPasskey, L!docs
<1>14. ASSUME NEW c \in Challenges, L!Assert(v, c)
       PROVE  Change
  <2> DEFINE x == [L!Waiting EXCEPT !.op = "assert", !.at = "claim", !.key = c, !.tries = device']
  <2>1. Becomes(v, x)
    BY <1>14 DEF L!Assert, L!Waiting, Becomes, VisitFields
  <2> QED BY <1>14, <2>1 DEF Change, L!Assert
<1>15. ASSUME NEW s \in Logins, L!RevokePasskey(v, s)
       PROVE  Change
  BY <1>3, <1>15 DEF Change, L!RevokePasskey
<1>16. CASE L!StorePasskey(v)
  BY <1>1, <1>3, <1>16 DEF Change, L!StorePasskey
<1>17. CASE L!AdvanceCounter(v)
  BY <1>1, <1>3, <1>4, <1>17 DEF Change, L!AdvanceCounter, L!In
<1>18. CASE L!PasskeyOwner(v)
  BY <1>1, <1>2, <1>3, <1>18 DEF Change, L!PasskeyOwner, L!docs
<1>19. CASE (\E s \in Logins : L!LogoutAll(v, s)) \/ L!ForceLogout(v) \/ L!Toggle(v) \/ L!Forgot(v)
  BY <1>1, <1>2, <1>19 DEF Change, L!LogoutAll, L!ForceLogout, L!Toggle, L!Forgot, L!docs
<1>20. CASE L!SaveVersion(v)
  BY <1>1, <1>4, <1>20 DEF Change, L!SaveVersion
<1>21. ASSUME NEW s, NEW old, NEW w, L!Change(v, s, old, w)
       PROVE  Change
  BY <1>2, <1>21 DEF Change, L!Change, L!docs
<1>22. CASE L!SaveWord(v) \/ L!SaveStatus(v)
  BY <1>1, <1>3, <1>22 DEF Change, L!SaveWord, L!SaveStatus
<1>23. CASE L!RetireResets(v) \/ L!ResetLoad(v) \/ L!ResetSave(v)
  BY <1>1, <1>4, <1>23 DEF Change, L!RetireResets, L!ResetLoad, L!ResetSave, L!In, L!docs
<1>24. CASE L!CreateReset(v) \/ L!ResetMiss(v) \/ L!ResetSpend(v)
  BY <1>1, <1>3, <1>24 DEF Change, L!CreateReset, L!ResetMiss, L!ResetSpend
<1>25. ASSUME NEW o \in Resets, NEW w \in Passwords, L!ResetFind(v, o, w)
       PROVE  Change
  <2>1. PICK at \in {"load", "miss"} :
          visits' = [visits EXCEPT ![v] = [L!Waiting EXCEPT !.op = "reset", !.at = at, !.key = o,
                       !.word = w, !.tries = reset[o].tries, !.open = L!Open]]
    BY <1>25 DEF L!ResetFind
  <2> DEFINE x == [L!Waiting EXCEPT !.op = "reset", !.at = at, !.key = o, !.word = w,
                     !.tries = reset[o].tries, !.open = L!Open]
  <2>2. Becomes(v, x)
    BY <2>1 DEF L!Waiting, Becomes, VisitFields
  <2> QED BY <1>25, <2>2 DEF Change, L!ResetFind, L!docs
<1> HIDE DEF Change
<1> QED BY <1>1, <1>5, <1>6, <1>7, <1>8, <1>9, <1>12, <1>13, <1>14, <1>15, <1>16, <1>17, <1>18,
           <1>19, <1>20, <1>21, <1>22, <1>23, <1>24, <1>25

LEMMA LegacyMail ==
  ASSUME LegacyInv, NEW v \in Calls,
         L!RegisterCreate(v) \/ L!RetireMail(v) \/ L!IssueMail(v) \/ L!ConsumeMail(v)
           \/ L!ConfirmSave(v)
  PROVE  LegacyInv'
<1>1. ASSUME NEW x, Becomes(v, x), UNCHANGED <<session, challenge, over, taken>>,
             mail' = [m \in MailTokens |-> mail'[m]],
             \A m \in MailTokens :
               /\ mail[m] = "used" => mail'[m] = "used"
               /\ mail'[m] \in {"unissued", "open"} => mail[m] \in {"unissued", "open"}
      PROVE  LegacyInv'
  <2>1. SessionsSound'
    BY <1>1, SessionsKept
  <2>2. TakenSound'
    BY <1>1, TakenKept DEF LegacyInv, TakenSound
  <2> QED BY <2>1, <2>2 DEF LegacyInv
<1>2. ASSUME NEW m \in MailTokens, mail[m] = "unissued", mail' = [mail EXCEPT ![m] = "open"],
             L!Answer(v), UNCHANGED <<session, challenge, over, taken>>
      PROVE  LegacyInv'
  BY <1>1, <1>2, Answering DEF LegacyInv, TakenSound
<1>3. CASE L!RegisterCreate(v)
  <2>1. CASE UNCHANGED mail
    BY <1>3, <2>1, LegacyKept, Answering DEF L!RegisterCreate
  <2> QED BY <1>2, <1>3, <2>1 DEF L!RegisterCreate, L!Following
<1>4. CASE L!IssueMail(v)
  BY <1>2, <1>4 DEF L!IssueMail, L!Following
<1>5. CASE L!RetireMail(v)
  <2>1. mail' = [m \in MailTokens |-> IF mail[m] = "open" THEN "used" ELSE mail[m]]
    BY <1>5 DEF L!RetireMail
  <2>2. \E x : Becomes(v, x)
    BY <1>5, GoingOn DEF L!RetireMail, L!In
  <2> QED BY <1>1, <1>5, <2>1, <2>2 DEF L!RetireMail
<1>6. CASE L!ConsumeMail(v)
  <2> DEFINE m == visits[v].key
  <2>1. m \in MailTokens /\ ~\E n \in MailTokens : Holding(v, n)
    BY <1>6 DEF L!ConsumeMail, L!In, LegacyInv, TakenSound, Holding
  <2>2. CASE L!Answer(v) /\ UNCHANGED mail
    BY <1>6, <2>2, LegacyKept, Answering DEF L!ConsumeMail
  <2>3. CASE mail[m] = "open" /\ L!GoOn(v, "load") /\ mail' = [mail EXCEPT ![m] = "used"]
    <3>1. /\ visits'[v] = [visits[v] EXCEPT !.at = "load"]
          /\ \A u \in Calls : u # v => visits'[u] = visits[u]
          /\ visits' = [u \in Calls |-> visits'[u]]
      BY <2>3 DEF L!GoOn, LegacyInv, SessionsSound
    <3>2. /\ visits'[v].op = visits[v].op /\ visits'[v].key = m /\ visits'[v].open = visits[v].open
          /\ {"op", "at", "copy", "word", "key", "tries", "open"} \subseteq DOMAIN visits'[v]
      BY <3>1 DEF LegacyInv, SessionsSound
    <3>3. SessionsSound'
      <4>1. UNCHANGED <<session, over>>
        BY <1>6 DEF L!ConsumeMail
      <4>2. \A u \in Calls : visits'[u].open = visits[u].open
        BY <3>1, <3>2
      <4> QED BY <3>1, <3>2, <4>1, <4>2 DEF LegacyInv, SessionsSound
    <3>4. /\ mail' = [n \in MailTokens |-> mail'[n]] /\ mail'[m] = "used" /\ taken[m] = 0
          /\ \A n \in MailTokens : n # m => mail'[n] = mail[n]
          /\ UNCHANGED <<challenge, taken>>
      BY <1>6, <2>1, <2>3 DEF L!ConsumeMail, LegacyInv, TakenSound
    <3>5. \A u \in Calls : ~Holding(u, m)
      BY <2>1, <2>3 DEF LegacyInv, TakenSound
    <3>6. \A u \in Calls, n \in MailTokens : Holding(u, n)' => Holding(u, n) \/ (u = v /\ n = m)
      BY <3>1, <3>2 DEF Holding
    <3>7. \A u \in Calls, n \in MailTokens : n # m /\ Holding(u, n) => Holding(u, n)'
      BY <2>1, <3>1 DEF Holding
    <3> HIDE DEF m
    <3>8. TakenSound'
      BY <2>1, <3>1, <3>2, <3>4, <3>5, <3>6, <3>7 DEF LegacyInv, TakenSound
    <3> QED BY <3>3, <3>8 DEF LegacyInv
  <2> QED BY <1>6, <2>2, <2>3 DEF L!ConsumeMail
<1>7. CASE L!ConfirmSave(v)
  <2> DEFINE m == visits[v].key
  <2>1. m \in MailTokens /\ Holding(v, m)
    BY <1>7 DEF L!ConfirmSave, L!In, LegacyInv, TakenSound, Holding
  <2>2. /\ L!Answer(v) /\ taken' = [taken EXCEPT ![m] = @ + 1]
        /\ UNCHANGED <<session, mail, challenge, over>>
    BY <1>7 DEF L!ConfirmSave
  <2>3. SessionsSound'
    BY <2>2, Answering, SessionsKept
  <2>4. /\ visits'[v] = L!Answered /\ \A u \in Calls : u # v => visits'[u] = visits[u]
    BY <2>2 DEF L!Answer, LegacyInv, SessionsSound
  <2>5. L!Answered.op = "none"
    BY DEF L!Answered, L!Waiting
  <2>6. mail[m] = "used" /\ taken[m] = 0 /\ \A u \in Calls : Holding(u, m) => u = v
    BY <2>1 DEF LegacyInv, TakenSound
  <2>7. \A u \in Calls, n \in MailTokens : Holding(u, n)' => Holding(u, n) /\ u # v /\ n # m
    BY <2>4, <2>5, <2>6 DEF Holding
  <2>8. /\ taken' \in [MailTokens \cup Challenges -> {0, 1}]
        /\ \A n \in MailTokens \cup Challenges : n # m => taken'[n] = taken[n]
    BY <2>1, <2>2, <2>6 DEF LegacyInv, TakenSound
  <2>9. m \notin Challenges
    BY <2>1, AccountsAssumption DEF L!LegacyAuthConstants
  <2> HIDE DEF m
  <2>10. TakenSound'
    BY <2>2, <2>4, <2>5, <2>6, <2>7, <2>8, <2>9 DEF LegacyInv, TakenSound
  <2> QED BY <2>3, <2>10 DEF LegacyInv
<1> QED BY <1>3, <1>4, <1>5, <1>6, <1>7

(* Rows: only their end, or a new one.  What is promised has ended.        *)
LEMMA LegacyRows ==
  ASSUME LegacyInv, NEW v \in Calls,
         \/ L!CreateSession(v) \/ (\E s \in Logins : L!Logout(v, s)) \/ L!EndAllRows(v)
         \/ (\E s, t \in Logins : L!RevokeSession(v, s, t)) \/ L!ResetRows(v)
  PROVE  LegacyInv'
<1> DEFINE Rest == UNCHANGED <<mail, challenge, taken>>
<1>1. ASSUME NEW x, Becomes(v, x), Rest, SessionsSound'
      PROVE  LegacyInv'
  BY <1>1, TakenKept DEF LegacyInv, TakenSound
<1>2. ASSUME NEW S, S \subseteq Logins, L!EndRows(S)
      PROVE  /\ session' = [s \in Logins |-> session'[s]]
             /\ \A s \in Logins :
                  /\ {"state", "version"} \subseteq DOMAIN session'[s]
                  /\ session'[s].state \in {"unissued", "open", "revoked"}
                  /\ session[s].state # "unissued" => session'[s].state # "unissued"
                  /\ session[s].state = "revoked" \/ s \in S => session'[s].state = "revoked"
  BY <1>2 DEF L!EndRows, LegacyInv, SessionsSound
<1>3. ASSUME NEW x, Becomes(v, x), Rest, UNCHANGED <<session, over>>
      PROVE  LegacyInv'
  BY <1>1, <1>3, SessionsKept
<1>4. ASSUME NEW x, Becomes(v, x), Rest, NEW S, S \subseteq Logins, L!EndRows(S),
             NEW T, T \subseteq Logins, over' = over \cup T,
             \A s \in T : s \in S \/ session[s].state = "revoked"
      PROVE  LegacyInv'
  <2>1. SessionsSound'
    BY <1>2, <1>4, SessionsStep DEF LegacyInv, SessionsSound
  <2> QED BY <1>1, <1>4, <2>1
<1>5. /\ L!Open \subseteq Logins /\ visits[v].open \subseteq Logins
      /\ \A s \in Logins : session[s].state \in {"unissued", "open", "revoked"}
      /\ \A s \in visits[v].open : s \in L!Open \/ session[s].state = "revoked"
  BY DEF LegacyInv, SessionsSound, L!Open
<1>6. CASE L!CreateSession(v)
  <2>1. PICK s \in Logins : /\ session[s].state = "unissued"
                            /\ session' = [session EXCEPT ![s] = L!Row(visits[v].copy.version)]
    BY <1>6 DEF L!CreateSession, L!Following, L!Copy
  <2>2. L!Row(visits[v].copy.version).state = "open"
          /\ {"state", "version"} \subseteq DOMAIN L!Row(visits[v].copy.version)
    BY DEF L!Row
  <2>3. L!Answer(v) /\ Rest /\ over' = over
    BY <1>6 DEF L!CreateSession
  <2>4. SessionsSound'
    BY <2>1, <2>2, <2>3, Answering, SessionsStep DEF LegacyInv, SessionsSound
  <2> QED BY <1>1, <2>3, <2>4, Answering
<1>7. CASE \E s \in Logins : L!Logout(v, s)
  BY <1>3, <1>4, <1>7, Answering DEF L!Logout
<1>8. CASE \E s, t \in Logins : L!RevokeSession(v, s, t)
  BY <1>4, <1>8, Answering DEF L!RevokeSession
<1>9. CASE L!EndAllRows(v)
  BY <1>3, <1>4, <1>5, <1>9, Answering DEF L!EndAllRows, L!Promise
<1>10. CASE L!ResetRows(v)
  <2>1. \E x : Becomes(v, x)
    BY <1>10, GoingOn DEF L!ResetRows, L!In
  <2> QED BY <1>3, <1>4, <1>5, <1>10, <2>1 DEF L!ResetRows, L!Promise
<1> QED BY <1>6, <1>7, <1>8, <1>9, <1>10

LEMMA LegacyChallenges ==
  ASSUME LegacyInv, NEW v \in Calls,
         \/ \E c \in Challenges : L!LoginOptions(v, c) \/ \E s \in Logins : L!RegistrationOptions(v, s, c)
         \/ L!ClaimChallenge(v)
  PROVE  LegacyInv'
<1>1. ASSUME NEW c \in Challenges, L!IssueChallenge(v, c)
      PROVE  LegacyInv'
  <2>1. /\ challenge[c] = "unissued" /\ challenge' = [challenge EXCEPT ![c] = "open"]
        /\ L!Answer(v) /\ UNCHANGED <<session, mail, over, taken>>
    BY <1>1 DEF L!IssueChallenge
  <2>2. SessionsSound' /\ TakenSound'
    BY <2>1, Answering, SessionsKept, TakenKept DEF LegacyInv, TakenSound
  <2> QED BY <2>2 DEF LegacyInv
<1>2. CASE L!ClaimChallenge(v)
  <2> DEFINE c == visits[v].key
  <2>1. c \in Challenges /\ visits[v].op # "confirm" /\ c \notin MailTokens
    BY <1>2, AccountsAssumption
       DEF L!ClaimChallenge, LegacyInv, TakenSound, L!LegacyAuthConstants
  <2>2. \E x : Becomes(v, x)
    BY <1>2, <2>1, GoingOn, Answering DEF L!ClaimChallenge
  <2>3. CASE UNCHANGED <<challenge, taken>>
    BY <1>2, <2>2, <2>3, LegacyKept DEF L!ClaimChallenge
  <2>4. CASE /\ challenge[c] = "open" /\ challenge' = [challenge EXCEPT ![c] = "used"]
             /\ taken' = [taken EXCEPT ![c] = @ + 1] /\ L!GoOn(v, "claimed")
    <3>1. UNCHANGED <<session, mail, over>>
      BY <1>2 DEF L!ClaimChallenge
    <3>2. SessionsSound'
      BY <2>2, <3>1, SessionsKept
    <3>3. /\ \A u \in Calls : u # v => visits'[u] = visits[u]
          /\ visits'[v] = [visits[v] EXCEPT !.at = "claimed"]
      BY <2>4 DEF L!GoOn, LegacyInv, SessionsSound
    <3>4. visits'[v].op = visits[v].op /\ visits'[v].key = c
      BY <3>3 DEF LegacyInv, SessionsSound
    <3>5. \A u \in Calls, m \in MailTokens : Holding(u, m)' <=> Holding(u, m)
      BY <2>1, <3>3, <3>4 DEF Holding
    <3>6. taken[c] = 0
      BY <2>1, <2>4 DEF LegacyInv, TakenSound
    <3>7. /\ taken' \in [MailTokens \cup Challenges -> {0, 1}]
          /\ \A k \in MailTokens \cup Challenges : k # c => taken'[k] = taken[k]
          /\ challenge' = [k \in Challenges |-> challenge'[k]] /\ challenge'[c] = "used"
          /\ \A k \in Challenges : k # c => challenge'[k] = challenge[k]
      BY <2>1, <2>4, <3>6 DEF LegacyInv, TakenSound
    <3>8. \A u \in Calls :
            /\ visits'[u].op = "confirm" => visits'[u].key \in MailTokens
            /\ visits'[u].op \in {"assert", "enroll"} => visits'[u].key \in Challenges
      BY <2>1, <3>3, <3>4 DEF LegacyInv, TakenSound
    <3> HIDE DEF c
    <3>9. TakenSound'
      BY <2>1, <3>1, <3>5, <3>7, <3>8 DEF LegacyInv, TakenSound
    <3> QED BY <3>2, <3>9 DEF LegacyInv
  <2> QED BY <1>2, <2>3, <2>4 DEF L!ClaimChallenge
<1> QED BY <1>1, <1>2 DEF L!LoginOptions, L!RegistrationOptions

(* Who only looks at tokenVersion.  An account that exists is never without *)
(* a status again, so that its version starts at zero once.                 *)
Acting == {"mail", "confirm", "logoutAll", "forceLogout", "change", "toggle", "forgot", "reset"}
Sweeping == {"logoutAll", "forceLogout", "reset"}

ExistsSound ==
  /\ {"version", "status"} \subseteq DOMAIN account
  /\ account.status = "none" =>
       /\ \A m \in MailTokens : mail[m] = "unissued"
       /\ \A o \in Resets : reset[o].state = "unissued"
       /\ \A v \in Calls : visits[v].op \notin Acting

(* A request x that will end all sessions does not know of one that is     *)
(* ahead of its copy, and leaves them all behind.                          *)
Sweeps(x, rows, version) ==
  x.op \in Sweeping =>
    /\ x.at = "save" => \A s \in x.open : rows[s].version <= x.copy.version
    /\ x.at = "rows" => \A s \in x.open : rows[s].version < version

(* As long as no save was stale, no token and no copy is ahead of the      *)
(* account, and those that ended together are behind it.                   *)
VersionsSound ==
  /\ account.version \in Nat
  /\ account.status = "none" => account.version = 0
  /\ \A s \in Logins : session[s].version \in Nat /\ session[s].version <= account.version
  /\ \A v \in Calls :
       /\ visits[v].copy.version \in Nat /\ visits[v].copy.version <= account.version
       /\ Sweeps(visits[v], session, account.version)
  /\ swept \subseteq over
  /\ \A s \in swept : session[s].version < account.version

VersionInv == ExistsSound /\ (~rewound => VersionsSound)

(* What a step does to a request and to the versions. *)
Fits(v, x) ==
  /\ visits' = [visits EXCEPT ![v] = x]
  /\ {"version", "status"} \subseteq DOMAIN account'
  /\ account'.status = "none" => account.status = "none" /\ UNCHANGED <<mail, reset>>
  /\ x.op \in Acting => account.status # "none"
  /\ ~rewound' =>
       /\ ~rewound
       /\ account'.version \in Nat /\ account.version <= account'.version
       /\ account'.status = "none" => account'.version = 0
       /\ x.copy.version \in Nat /\ x.copy.version <= account'.version
       /\ Sweeps(x, session', account'.version)
       /\ \A s \in Logins :
            \/ session'[s].version = session[s].version
            \/ /\ session[s].state = "unissued"
               /\ session'[s].version \in Nat /\ session'[s].version <= account'.version
       /\ over \subseteq over' /\ swept' \subseteq over'
       /\ \A s \in swept' : s \in swept \/ session'[s].version < account'.version

LEMMA VersionStep ==
  ASSUME LegacyInv, VersionInv, NEW v \in Calls, NEW x, Fits(v, x)
  PROVE  VersionInv'
<1> USE DEF Fits
<1>1. /\ \A u \in Calls : u # v => visits'[u] = visits[u]
      /\ visits'[v] = x
  BY DEF LegacyInv, SessionsSound
<1>2. ExistsSound'
  BY <1>1 DEF VersionInv, ExistsSound
<1>3. ASSUME ~rewound' PROVE VersionsSound'
  <2>1. \A s \in Logins : session'[s].version \in Nat /\ session'[s].version <= account'.version
    BY <1>3 DEF VersionInv, VersionsSound
  <2>2. \A s \in Logins : session[s].state # "unissued" => session'[s].version = session[s].version
    BY <1>3
  <2>3. ASSUME NEW s \in swept' PROVE session'[s].version < account'.version
    <3>1. CASE s \in swept
      <4>1. s \in Logins /\ session[s].state # "unissued" /\ session[s].version < account.version
        BY <1>3, <3>1 DEF LegacyInv, SessionsSound, VersionInv, VersionsSound
      <4>2. session'[s].version = session[s].version
        BY <2>2, <4>1
      <4>3. session[s].version \in Nat /\ account.version \in Nat
        BY <1>3, <4>1 DEF VersionInv, VersionsSound
      <4> QED BY <1>3, <4>1, <4>2, <4>3
    <3> QED BY <1>3, <3>1
  <2>4. ASSUME NEW u \in Calls, u # v
        PROVE  /\ visits'[u].copy.version \in Nat /\ visits'[u].copy.version <= account'.version
               /\ Sweeps(visits'[u], session', account'.version)
    <3>1. visits'[u] = visits[u] /\ Sweeps(visits[u], session, account.version)
            /\ visits[u].copy.version \in Nat /\ visits[u].copy.version <= account.version
      BY <1>1, <1>3, <2>4 DEF VersionInv, VersionsSound
    <3>2. \A s \in visits[u].open : s \in Logins /\ session'[s].version = session[s].version
      BY <2>2 DEF LegacyInv, SessionsSound
    <3>3. account.version \in Nat /\ \A s \in Logins : session[s].version \in Nat
      BY <1>3 DEF VersionInv, VersionsSound
    <3> QED BY <1>3, <3>1, <3>2, <3>3 DEF Sweeps
  <2> QED BY <1>1, <1>3, <2>1, <2>3, <2>4 DEF VersionsSound
<1> QED BY <1>2, <1>3 DEF VersionInv

(* What leaves the versions and the sessions alone. *)
SameVersions ==
  /\ {"version", "status"} \subseteq DOMAIN account' /\ account'.version = account.version
  /\ account'.status = "none" => account.status = "none" /\ UNCHANGED <<mail, reset>>
  /\ UNCHANGED <<session, over, swept, rewound>>

LEMMA SameStep ==
  ASSUME LegacyInv, VersionInv, NEW v \in Calls, NEW x, SameVersions,
         visits' = [visits EXCEPT ![v] = x],
         x.op \in Acting => account.status # "none",
         \/ x.copy.version = account.version
         \/ x.copy = visits[v].copy
         \/ x.copy.version = 0,
         x.op \in Sweeping =>
           \/ x.at \notin {"save", "rows"}
           \/ x.at = "save" /\ x.copy = account /\ x.open \subseteq Logins
  PROVE  VersionInv'
<1>1. ASSUME ~rewound'
      PROVE  /\ ~rewound /\ VersionsSound
             /\ x.copy.version \in Nat /\ x.copy.version <= account'.version
             /\ Sweeps(x, session', account'.version)
             /\ account'.status = "none" => account'.version = 0
             /\ account'.version \in Nat /\ account.version <= account'.version
  <2>1. ~rewound /\ VersionsSound
    BY <1>1 DEF SameVersions, VersionInv
  <2>2. x.copy.version \in Nat /\ x.copy.version <= account.version
    BY <2>1 DEF VersionsSound
  <2>3. Sweeps(x, session', account'.version)
    BY <2>1 DEF SameVersions, Sweeps, VersionsSound
  <2> QED BY <2>1, <2>2, <2>3 DEF SameVersions, VersionsSound
<1>2. Fits(v, x)
  BY <1>1 DEF Fits, SameVersions, VersionsSound
<1> QED BY <1>2, VersionStep

LEMMA SameStarting ==
  ASSUME LegacyInv, VersionInv, NEW v \in Calls, NEW op, NEW at, NEW k, NEW w,
         L!Start(v, op, at, k, w), UNCHANGED <<L!docs, over, swept, rewound>>,
         op \in Acting => account.status # "none", op \in Sweeping => at = "save"
  PROVE  VersionInv'
<1> DEFINE x == [L!Waiting EXCEPT !.op = op, !.at = at, !.copy = account, !.key = k, !.word = w,
                                  !.open = L!Open]
<1>1. x.op = op /\ x.at = at /\ x.copy = account /\ x.open = L!Open /\ L!Open \subseteq Logins
  BY DEF L!Waiting, L!Open
<1>2. visits' = [visits EXCEPT ![v] = x]
  BY DEF L!Start
<1>3. SameVersions
  BY DEF L!docs, SameVersions, VersionInv, ExistsSound
<1> HIDE DEF x
<1> QED BY <1>1, <1>2, <1>3, SameStep

LEMMA SameAnswering ==
  ASSUME LegacyInv, VersionInv, NEW v \in Calls, L!Answer(v), SameVersions
  PROVE  VersionInv'
<1>1. L!Answered.op = "none" /\ L!Answered.copy.version = 0
  BY DEF L!Answered, L!Waiting, L!Nobody
<1> QED BY <1>1, SameStep DEF L!Answer, Acting, Sweeping

LEMMA SameGoingOn ==
  ASSUME LegacyInv, VersionInv, NEW v \in Calls, NEW at, SameVersions,
         \/ L!GoOn(v, at) /\ (visits[v].op \in Sweeping => at = "spend")
         \/ L!Reload(v, at) /\ at = "save"
  PROVE  VersionInv'
<1> DEFINE x == [visits[v] EXCEPT !.at = at]
           y == [visits[v] EXCEPT !.at = at, !.copy = account]
<1>1. /\ VisitFields \subseteq DOMAIN visits[v] /\ visits[v].open \subseteq Logins
      /\ visits[v].op \in Acting => account.status # "none"
  BY DEF LegacyInv, SessionsSound, VersionInv, ExistsSound, VisitFields
<1>2. CASE L!GoOn(v, at) /\ (visits[v].op \in Sweeping => at = "spend")
  <2>1. x.op = visits[v].op /\ x.at = at /\ x.copy = visits[v].copy
    BY <1>1 DEF VisitFields
  <2>2. visits' = [visits EXCEPT ![v] = x]
    BY <1>2 DEF L!GoOn
  <2> HIDE DEF x
  <2> QED BY <1>1, <1>2, <2>1, <2>2, SameStep
<1>3. CASE L!Reload(v, at) /\ at = "save"
  <2>1. y.op = visits[v].op /\ y.at = at /\ y.copy = account /\ y.open = visits[v].open
    BY <1>1 DEF VisitFields
  <2>2. visits' = [visits EXCEPT ![v] = y]
    BY <1>3 DEF L!Reload
  <2> HIDE DEF y
  <2> QED BY <1>1, <1>3, <2>1, <2>2, SameStep
<1> QED BY <1>2, <1>3

(* The requests that write no version and end no session. *)
LEMMA VersionQuiet ==
  ASSUME LegacyInv, VersionInv, NEW v \in Calls,
         \/ L!Joining(v) /\ ~L!ConfirmSave(v)
         \/ \E w \in Passwords : L!Login(v, w)
         \/ L!IssuePending(v) \/ L!TwoFactor(v) \/ L!Passkey(v)
         \/ (\E s \in Logins : L!LogoutAll(v, s)) \/ L!ForceLogout(v)
         \/ \E s \in Logins, old, w \in Passwords : L!Change(v, s, old, w)
         \/ L!Toggle(v) \/ L!Forgot(v) \/ L!RetireResets(v) \/ L!CreateReset(v)
         \/ \E o \in Resets, w \in Passwords : L!ResetFind(v, o, w)
         \/ L!ResetMiss(v) \/ L!ResetLoad(v) \/ L!ResetSpend(v)
  PROVE  VersionInv'
<1> DEFINE Still == UNCHANGED <<account, session, over, swept, rewound>>
           Told == account.status = "none" => UNCHANGED <<mail, reset>>
           Acts == visits[v].op \in Acting
<1>1. Still /\ Told => SameVersions
  BY DEF SameVersions, VersionInv, ExistsSound
<1>2. Acts => account.status # "none" /\ Told
  BY DEF VersionInv, ExistsSound
<1>3. Still /\ Told /\ L!Answer(v) => VersionInv'
  BY <1>1, SameAnswering
<1>4. ASSUME NEW at, Still, Told, L!GoOn(v, at), visits[v].op \notin Sweeping
      PROVE  VersionInv'
  BY <1>1, <1>4, SameGoingOn
<1>5. ASSUME NEW op, NEW at, NEW k, NEW w, L!Start(v, op, at, k, w), UNCHANGED <<L!docs, over, L!more>>,
             op \in Acting => account.status # "none", op \in Sweeping => at = "save"
      PROVE  VersionInv'
  BY <1>5, SameStarting DEF L!more
<1> HIDE DEF Still, Told, Acts
<1>6. ASSUME NEW x, visits' = [visits EXCEPT ![v] = x], x.op \notin Acting \cup Sweeping,
             {"version", "status"} \subseteq DOMAIN account', account'.status # "none",
             account'.version = 0, x.copy.version = 0, UNCHANGED <<session, over, swept, rewound>>,
             ~rewound' => ~rewound /\ account.version = 0 /\ VersionsSound
      PROVE  VersionInv'
  <2>1. Sweeps(x, session', account'.version)
    BY <1>6 DEF Sweeps
  <2>2. VersionsSound => swept \subseteq over
    BY DEF VersionsSound
  <2>3. Fits(v, x)
    BY <1>6, <2>1, <2>2 DEF Fits
  <2> QED BY <2>3, VersionStep
<1>7. CASE L!Joining(v) /\ ~L!ConfirmSave(v)
  <2>1. ASSUME NEW w \in Passwords, L!Register(v, w)
        PROVE  VersionInv'
    BY <1>5, <2>1 DEF L!Register, Acting, Sweeping
  <2>2. CASE L!RegisterCreate(v)
    <3>1. CASE account.status = "none" /\ account'.status = "inactive"
              /\ {"version", "status"} \subseteq DOMAIN account' /\ account'.version = 0
      <4>1. ASSUME ~rewound' PROVE ~rewound /\ account.version = 0 /\ VersionsSound
        BY <2>2, <3>1, <4>1 DEF L!RegisterCreate, L!more, VersionInv, VersionsSound
      <4>2. L!Answered.op = "none" /\ L!Answered.copy.version = 0
        BY DEF L!Answered, L!Waiting, L!Nobody
      <4>3. /\ visits' = [visits EXCEPT ![v] = L!Answered]
            /\ UNCHANGED <<session, over, swept, rewound>>
        BY <2>2 DEF L!RegisterCreate, L!Answer, L!more
      <4> QED BY <1>6, <3>1, <4>1, <4>2, <4>3 DEF Acting, Sweeping
    <3>2. CASE UNCHANGED <<account, mail>>
      BY <1>3, <2>2, <3>2 DEF L!RegisterCreate, L!more, Still, Told
    <3> QED BY <2>2, <3>1, <3>2 DEF L!RegisterCreate, L!Nobody
  <2>3. CASE L!RequestMail(v)
    BY <1>5, <2>3 DEF L!RequestMail, Acting, Sweeping
  <2>4. CASE L!RetireMail(v)
    BY <1>2, <1>4, <2>4 DEF L!RetireMail, L!In, L!more, Still, Acts, Acting, Sweeping
  <2>5. CASE L!IssueMail(v)
    BY <1>2, <1>3, <2>5 DEF L!IssueMail, L!In, L!more, Still, Acts, Acting
  <2>6. ASSUME NEW m \in MailTokens, L!PresentMail(v, m)
        PROVE  VersionInv'
    <3>1. account.status # "none"
      BY <2>6 DEF L!PresentMail, VersionInv, ExistsSound
    <3> QED BY <1>5, <2>6, <3>1 DEF L!PresentMail, Sweeping
  <2>7. CASE L!ConsumeMail(v)
    BY <1>2, <1>3, <1>4, <2>7 DEF L!ConsumeMail, L!In, L!more, Still, Acts, Acting, Sweeping
  <2>8. CASE L!ConfirmLoad(v)
    <3>1. SameVersions
      BY <1>1, <2>8 DEF L!ConfirmLoad, L!docs, L!more, Still, Told
    <3> QED BY <2>8, <3>1, SameGoingOn DEF L!ConfirmLoad
  <2>9. CASE L!GoogleLogin(v)
    BY <1>5, <2>9 DEF L!GoogleLogin, Acting, Sweeping
  <2>10. CASE L!GoogleSignUp(v)
    <3> DEFINE x == [L!Waiting EXCEPT !.op = "login", !.at = "proved", !.copy = account']
    <3>1. x.op = "login" /\ x.copy = account'
      BY DEF L!Waiting
    <3>2. /\ account.status = "none" /\ account'.status = "active" /\ account'.version = 0
          /\ {"version", "status"} \subseteq DOMAIN account'
          /\ visits' = [visits EXCEPT ![v] = x] /\ UNCHANGED <<session, over, swept, rewound>>
      BY <2>10 DEF L!GoogleSignUp, L!Nobody, L!more
    <3> HIDE DEF x
    <3>3. ASSUME ~rewound' PROVE ~rewound /\ account.version = 0 /\ VersionsSound
      BY <3>2, <3>3 DEF VersionInv, VersionsSound
    <3> QED BY <1>6, <3>1, <3>2, <3>3 DEF Acting, Sweeping
  <2> QED BY <1>7, <2>1, <2>2, <2>3, <2>4, <2>5, <2>6, <2>7, <2>8, <2>9, <2>10 DEF L!Joining
<1>8. ASSUME NEW w \in Passwords, L!Login(v, w)
      PROVE  VersionInv'
  BY <1>5, <1>8 DEF L!Login, Acting, Sweeping
<1>9. CASE L!IssuePending(v)
  BY <1>3, <1>9 DEF L!IssuePending, L!more, Still, Told
<1>10. CASE L!TwoFactor(v)
  <2>1. CASE L!VerifyTotp(v) \/ \E c \in Recovery : L!VerifyRecovery(v, c)
    BY <1>5, <2>1 DEF L!VerifyTotp, L!VerifyRecovery, Acting, Sweeping
  <2>2. CASE L!RemoveRecovery(v)
    <3>1. SameVersions
      BY <2>2 DEF L!RemoveRecovery, L!more, SameVersions, VersionInv, ExistsSound
    <3> QED BY <2>2, <3>1, SameGoingOn DEF L!RemoveRecovery, L!In, Sweeping
  <2>3. CASE L!SaveFactor(v)
    <3>1. SameVersions
      BY <2>3 DEF L!SaveFactor, L!more, SameVersions, VersionInv, ExistsSound
    <3> QED BY <2>3, <3>1, SameAnswering DEF L!SaveFactor
  <2>4. CASE \E s \in Logins : L!Setup2fa(v, s) \/ L!Enable2fa(v, s)
    BY <1>5, <2>4 DEF L!Setup2fa, L!Enable2fa, Acting, Sweeping
  <2>5. CASE \E s \in Logins, w \in Passwords : L!Disable2fa(v, s, w)
    BY <1>5, <2>5 DEF L!Disable2fa, Acting, Sweeping
  <2> QED BY <1>10, <2>1, <2>2, <2>3, <2>4, <2>5 DEF L!TwoFactor
<1>11. CASE L!Passkey(v)
  <2>1. ASSUME NEW c \in Challenges, L!IssueChallenge(v, c)
        PROVE  VersionInv'
    BY <1>3, <2>1 DEF L!IssueChallenge, L!more, Still, Told
  <2>2. ASSUME NEW c \in Challenges, L!Assert(v, c)
        PROVE  VersionInv'
    <3> DEFINE x == [L!Waiting EXCEPT !.op = "assert", !.at = "claim", !.key = c, !.tries = device']
    <3>1. x.op = "assert" /\ x.copy.version = 0
      BY DEF L!Waiting, L!Nobody
    <3>2. visits' = [visits EXCEPT ![v] = x] /\ Still /\ Told
      BY <2>2 DEF L!Assert, L!more, Still, Told
    <3> HIDE DEF x
    <3> QED BY <1>1, <3>1, <3>2, SameStep DEF Acting, Sweeping
  <2>3. ASSUME NEW s \in Logins, NEW c \in Challenges, L!RegisterPasskey(v, s, c)
        PROVE  VersionInv'
    BY <1>5, <2>3 DEF L!RegisterPasskey, Acting, Sweeping
  <2>4. CASE L!StorePasskey(v) \/ \E s \in Logins : L!RevokePasskey(v, s)
    BY <1>3, <2>4 DEF L!StorePasskey, L!RevokePasskey, L!more, Still, Told
  <2>5. CASE L!ClaimChallenge(v)
    BY <1>3, <1>4, <2>5 DEF L!ClaimChallenge, L!more, Still, Told, Sweeping
  <2>6. CASE L!AdvanceCounter(v)
    BY <1>3, <1>4, <2>6 DEF L!AdvanceCounter, L!In, L!more, Still, Told, Sweeping
  <2>7. CASE L!PasskeyOwner(v)
    <3>1. CASE L!Answer(v)
      BY <1>3, <2>7, <3>1 DEF L!PasskeyOwner, L!docs, L!more, Still, Told
    <3>2. CASE L!Start(v, "login", "proved", None, None)
      BY <1>5, <2>7, <3>2 DEF L!PasskeyOwner, Acting, Sweeping
    <3> QED BY <2>7, <3>1, <3>2 DEF L!PasskeyOwner
  <2> QED BY <1>11, <2>1, <2>2, <2>3, <2>4, <2>5, <2>6, <2>7
          DEF L!Passkey, L!LoginOptions, L!RegistrationOptions
<1>12. ASSUME NEW s \in Logins, L!LogoutAll(v, s)
       PROVE  VersionInv'
  BY <1>5, <1>12 DEF L!LogoutAll, L!Attached, L!ByVersion
<1>13. CASE L!ForceLogout(v) \/ L!Toggle(v) \/ L!Forgot(v)
  BY <1>5, <1>13 DEF L!ForceLogout, L!Toggle, L!Forgot, Sweeping
<1>14. ASSUME NEW s \in Logins, NEW old, NEW w, L!Change(v, s, old, w)
       PROVE  VersionInv'
  BY <1>5, <1>14 DEF L!Change, L!Attached, L!ByVersion, Sweeping
<1>15. CASE L!RetireResets(v)
  BY <1>2, <1>4, <1>15 DEF L!RetireResets, L!In, L!more, Still, Acts, Acting, Sweeping
<1>16. CASE L!CreateReset(v) \/ L!ResetMiss(v) \/ L!ResetSpend(v)
  BY <1>2, <1>3, <1>16 DEF L!CreateReset, L!ResetMiss, L!ResetSpend, L!In, L!more, Still, Acts, Acting
<1>17. ASSUME NEW o \in Resets, NEW w \in Passwords, L!ResetFind(v, o, w)
       PROVE  VersionInv'
  <2> DEFINE x(at) == [L!Waiting EXCEPT !.op = "reset", !.at = at, !.key = o, !.word = w,
                         !.tries = reset[o].tries, !.open = L!Open]
  <2>1. /\ reset[o].state = "open"
        /\ \E at \in {"load", "miss"} : visits' = [visits EXCEPT ![v] = x(at)]
        /\ UNCHANGED <<L!docs, over, L!more>>
    BY <1>17, Zenon DEF L!ResetFind
  <2>2. \A at : x(at).op = "reset" /\ x(at).at = at /\ x(at).copy.version = 0
    BY DEF L!Waiting, L!Nobody
  <2>3. account.status # "none" /\ Still /\ Told
    BY <2>1 DEF L!docs, L!more, VersionInv, ExistsSound, Still, Told
  <2> HIDE DEF x
  <2>4. PICK at \in {"load", "miss"} : visits' = [visits EXCEPT ![v] = x(at)]
    BY <2>1
  <2> QED BY <1>1, <2>2, <2>3, <2>4, SameStep
<1>18. CASE L!ResetLoad(v)
  <2>1. SameVersions
    BY <1>1, <1>18 DEF L!ResetLoad, L!docs, L!more, Still, Told
  <2> QED BY <1>18, <2>1, SameGoingOn DEF L!ResetLoad
<1> QED BY <1>7, <1>8, <1>9, <1>10, <1>11, <1>12, <1>13, <1>14, <1>15, <1>16, <1>17, <1>18

(* Those that write tokenVersion: unless the save is stale it only grows. *)
Writes(v, x, a) ==
  /\ visits[v].op \in Acting
  /\ a.version = L!Bump(v) /\ a.status # "none" /\ {"version", "status"} \subseteq DOMAIN a
  /\ account' = a /\ (~rewound' => ~rewound /\ account'.version > account.version)
  /\ UNCHANGED <<session, over, swept>>
  /\ visits' = [visits EXCEPT ![v] = x]
  /\ \/ x = L!Answered
     \/ visits[v].at = "save" /\ x = [visits[v] EXCEPT !.at = "rows"]

LEMMA Written ==
  ASSUME LegacyInv, VersionInv, NEW v \in Calls, NEW x, NEW a, Writes(v, x, a)
  PROVE  VersionInv'
<1> USE DEF Writes
<1>1. account.status # "none"
  BY DEF VersionInv, ExistsSound
<1>2. ASSUME ~rewound'
      PROVE  /\ ~rewound /\ VersionsSound
             /\ account'.version \in Nat /\ account.version < account'.version
             /\ x.copy.version \in Nat /\ x.copy.version <= account'.version
             /\ Sweeps(x, session, account'.version)
  <2>1. ~rewound /\ account'.version > account.version
    BY <1>2
  <2>2. VersionsSound
    BY <2>1 DEF VersionInv
  <2>3. account.version \in Nat /\ visits[v].copy.version \in Nat
          /\ account'.version = visits[v].copy.version + 1
          /\ visits[v].copy.version <= account.version /\ Sweeps(visits[v], session, account.version)
    BY <2>2 DEF VersionsSound, L!Bump, L!Copy
  <2>4. CASE x = L!Answered
    <3>1. x.op = "none" /\ x.copy.version = 0
      BY <2>4 DEF L!Answered, L!Waiting, L!Nobody
    <3> QED BY <2>1, <2>2, <2>3, <3>1 DEF Sweeps, Sweeping
  <2>5. CASE visits[v].at = "save" /\ x = [visits[v] EXCEPT !.at = "rows"]
    <3>1. /\ x.op = visits[v].op /\ x.at = "rows" /\ x.copy = visits[v].copy
          /\ x.open = visits[v].open /\ x.open \subseteq Logins
      BY <2>5 DEF LegacyInv, SessionsSound
    <3>2. \A s \in Logins : session[s].version \in Nat
      BY <2>2 DEF VersionsSound
    <3> QED BY <2>1, <2>2, <2>3, <2>5, <3>1, <3>2 DEF Sweeps
  <2> QED BY <2>4, <2>5
<1>3. VersionsSound => swept \subseteq over
  BY DEF VersionsSound
<1>4. /\ {"version", "status"} \subseteq DOMAIN account' /\ account'.status # "none"
      /\ session' = session /\ over' = over /\ swept' = swept
      /\ visits' = [visits EXCEPT ![v] = x]
  OBVIOUS
<1>5. x.op \in Acting => account.status # "none"
  BY <1>1
<1>6. Sweeps(x, session, account'.version) => Sweeps(x, session', account'.version)
  BY <1>4
<1> HIDE DEF Writes
<1>7. ASSUME ~rewound'
      PROVE  /\ account'.version \in Nat /\ account.version <= account'.version
             /\ swept \subseteq over
  <2>1. account.version \in Nat
    BY <1>2, <1>7 DEF VersionsSound
  <2> QED BY <1>2, <1>3, <1>7, <2>1
<1>8. Fits(v, x)
  BY <1>2, <1>4, <1>5, <1>6, <1>7 DEF Fits
<1> QED BY <1>8, VersionStep

LEMMA VersionWrites ==
  ASSUME LegacyInv, VersionInv, NEW v \in Calls,
         L!ConfirmSave(v) \/ L!SaveVersion(v) \/ L!SaveWord(v) \/ L!SaveStatus(v) \/ L!ResetSave(v)
  PROVE  VersionInv'
<1> DEFINE next == [visits[v] EXCEPT !.at = "rows"]
<1>1. /\ visits[v].op \in Acting => account.status # "none"
      /\ {"version", "status"} \subseteq DOMAIN account
  BY DEF VersionInv, ExistsSound
<1>2. ASSUME NEW a, L!Write(a)
      PROVE  account' = a /\ (~rewound' => ~rewound /\ account'.version > account.version)
  BY <1>2, Zenon DEF L!Write
<1>3. CASE L!ConfirmSave(v)
  <2> DEFINE a == [account EXCEPT !.email = "verified", !.version = L!Bump(v),
                     !.status = IF L!Copy(v).status = "inactive" THEN "active" ELSE @]
  <2>1. visits[v].op \in Acting /\ L!Write(a) /\ visits' = [visits EXCEPT ![v] = L!Answered]
          /\ UNCHANGED <<session, over, swept>>
    BY <1>3 DEF L!ConfirmSave, L!In, L!Answer, Acting
  <2>2. a.version = L!Bump(v) /\ a.status # "none" /\ {"version", "status"} \subseteq DOMAIN a
    BY <1>1, <2>1
  <2> HIDE DEF a
  <2>3. Writes(v, L!Answered, a)
    BY <1>2, <2>1, <2>2 DEF Writes
  <2> QED BY <2>3, Written
<1>4. CASE L!SaveVersion(v)
  <2> DEFINE a == [account EXCEPT !.version = L!Bump(v)]
  <2>1. visits[v].op \in Acting /\ visits[v].at = "save" /\ L!Write(a)
          /\ visits' = [visits EXCEPT ![v] = next] /\ UNCHANGED <<session, over, swept>>
    BY <1>4 DEF L!SaveVersion, L!GoOn, Acting
  <2>2. a.version = L!Bump(v) /\ a.status # "none" /\ {"version", "status"} \subseteq DOMAIN a
    BY <1>1, <2>1
  <2> HIDE DEF a
  <2>3. Writes(v, next, a)
    BY <1>2, <2>1, <2>2 DEF Writes
  <2> QED BY <2>3, Written
<1>5. CASE L!SaveWord(v)
  <2> DEFINE a == [account EXCEPT !.word = visits[v].word, !.version = L!Bump(v)]
  <2>1. visits[v].op \in Acting /\ L!Write(a) /\ visits' = [visits EXCEPT ![v] = L!Answered]
          /\ UNCHANGED <<session, over, swept>>
    BY <1>5 DEF L!SaveWord, L!In, L!Answer, Acting
  <2>2. a.version = L!Bump(v) /\ a.status # "none" /\ {"version", "status"} \subseteq DOMAIN a
    BY <1>1, <2>1
  <2> HIDE DEF a
  <2>3. Writes(v, L!Answered, a)
    BY <1>2, <2>1, <2>2 DEF Writes
  <2> QED BY <2>3, Written
<1>6. CASE L!SaveStatus(v)
  <2> DEFINE a == [account EXCEPT !.version = L!Bump(v),
                     !.status = IF L!Copy(v).status = "active" THEN "banned" ELSE "active"]
  <2>1. visits[v].op \in Acting /\ L!Write(a) /\ visits' = [visits EXCEPT ![v] = L!Answered]
          /\ UNCHANGED <<session, over, swept>>
    BY <1>6 DEF L!SaveStatus, L!In, L!Answer, Acting
  <2>2. a.version = L!Bump(v) /\ a.status # "none" /\ {"version", "status"} \subseteq DOMAIN a
    BY <1>1
  <2> HIDE DEF a
  <2>3. Writes(v, L!Answered, a)
    BY <1>2, <2>1, <2>2 DEF Writes
  <2> QED BY <2>3, Written
<1>7. CASE L!ResetSave(v)
  <2> DEFINE a == [account EXCEPT !.word = visits[v].word, !.version = L!Bump(v)]
  <2>1. visits[v].op \in Acting /\ visits[v].at = "save" /\ L!Write(a)
          /\ visits' = [visits EXCEPT ![v] = next] /\ UNCHANGED <<session, over, swept>>
    BY <1>7 DEF L!ResetSave, L!In, L!GoOn, Acting
  <2>2. a.version = L!Bump(v) /\ a.status # "none" /\ {"version", "status"} \subseteq DOMAIN a
    BY <1>1, <2>1
  <2> HIDE DEF a
  <2>3. Writes(v, next, a)
    BY <1>2, <2>1, <2>2 DEF Writes
  <2> QED BY <2>3, Written
<1> QED BY <1>3, <1>4, <1>5, <1>6, <1>7

(* A new session has the version of a copy; what ends all of them ends      *)
(* those its save left behind.                                              *)
LEMMA VersionRows ==
  ASSUME LegacyInv, VersionInv, NEW v \in Calls,
         \/ L!CreateSession(v) \/ (\E s \in Logins : L!Logout(v, s)) \/ L!EndAllRows(v)
         \/ (\E s, t \in Logins : L!RevokeSession(v, s, t)) \/ L!ResetRows(v)
  PROVE  VersionInv'
<1> DEFINE y == [visits[v] EXCEPT !.at = "spend"]
<1>1. L!Answered.op = "none" /\ L!Answered.copy.version = 0
  BY DEF L!Answered, L!Waiting, L!Nobody
<1>2. y.op = visits[v].op /\ y.at = "spend" /\ y.copy = visits[v].copy
  BY DEF LegacyInv, SessionsSound
<1> HIDE DEF y
<1>3. ASSUME ~rewound
      PROVE  /\ VersionsSound /\ account.version \in Nat
             /\ visits[v].copy.version \in Nat /\ visits[v].copy.version <= account.version
             /\ account.status = "none" => account.version = 0
             /\ swept \subseteq over
             /\ visits[v].op \in Sweeping /\ visits[v].at = "rows" =>
                  \A s \in visits[v].open : session[s].version < account.version
  BY <1>3 DEF VersionInv, VersionsSound, Sweeps
<1>4. /\ {"version", "status"} \subseteq DOMAIN account
      /\ visits[v].op \in Acting => account.status # "none"
  BY DEF VersionInv, ExistsSound
<1>5. ASSUME NEW x, visits' = [visits EXCEPT ![v] = x],
             \/ x = L!Answered
             \/ x = y /\ visits[v].op \in Acting,
             UNCHANGED <<account, mail, reset, rewound>>,
             ~rewound => /\ \A s \in Logins : session'[s].version = session[s].version
                         /\ over \subseteq over' /\ swept' \subseteq over'
                         /\ \A s \in swept' : s \in swept \/ session'[s].version < account.version
      PROVE  VersionInv'
  <2>1. ASSUME ~rewound
        PROVE  /\ x.copy.version \in Nat /\ x.copy.version <= account.version
               /\ Sweeps(x, session', account.version)
    BY <1>1, <1>2, <1>3, <1>5, <2>1 DEF Sweeps, Sweeping
  <2>2. Fits(v, x)
    BY <1>1, <1>2, <1>3, <1>4, <1>5, <2>1 DEF Fits, Acting
  <2> QED BY <2>2, VersionStep
<1>6. ASSUME NEW S, L!EndRows(S)
      PROVE  \A s \in Logins : session'[s].version = session[s].version
  BY <1>6 DEF L!EndRows, LegacyInv, SessionsSound
<1>7. visits[v].open \subseteq Logins
  BY DEF LegacyInv, SessionsSound
<1>8. CASE L!CreateSession(v)
  <2>1. PICK t \in Logins : /\ session[t].state = "unissued"
                            /\ session' = [session EXCEPT ![t] = L!Row(visits[v].copy.version)]
    BY <1>8 DEF L!CreateSession, L!Following, L!Copy
  <2>2. /\ \A s \in Logins : s # t => session'[s].version = session[s].version
        /\ session'[t].version = visits[v].copy.version
    BY <2>1 DEF L!Row, LegacyInv, SessionsSound
  <2>3. /\ visits' = [visits EXCEPT ![v] = L!Answered]
        /\ UNCHANGED <<account, mail, reset, over, swept, rewound>>
    BY <1>8 DEF L!CreateSession, L!Answer, L!more
  <2>4. Fits(v, L!Answered)
    BY <1>1, <1>3, <1>4, <2>1, <2>2, <2>3 DEF Fits, Sweeps, Sweeping, Acting
  <2> QED BY <2>4, VersionStep
<1>9. ASSUME NEW s \in Logins, L!Logout(v, s)
      PROVE  VersionInv'
  <2>1. UNCHANGED <<account, mail, reset, swept, rewound>> /\ visits' = [visits EXCEPT ![v] = L!Answered]
    BY <1>9 DEF L!Logout, L!Answer, L!more
  <2>2. over \subseteq over' /\ \A t \in Logins : session'[t].version = session[t].version
    BY <1>6, <1>9 DEF L!Logout
  <2> QED BY <1>3, <1>5, <2>1, <2>2
<1>10. ASSUME NEW s \in Logins, NEW t \in Logins, L!RevokeSession(v, s, t)
       PROVE  VersionInv'
  <2>1. UNCHANGED <<account, mail, reset, swept, rewound>> /\ visits' = [visits EXCEPT ![v] = L!Answered]
    BY <1>10 DEF L!RevokeSession, L!Answer, L!more
  <2>2. over \subseteq over' /\ \A k \in Logins : session'[k].version = session[k].version
    BY <1>6, <1>10 DEF L!RevokeSession
  <2> QED BY <1>3, <1>5, <2>1, <2>2
<1>11. ASSUME visits[v].op \in Sweeping, visits[v].at = "rows",
              \/ L!EndRows(L!Open) /\ L!Promise(v)
              \/ UNCHANGED <<session, over, swept>>
       PROVE  ~rewound => /\ \A s \in Logins : session'[s].version = session[s].version
                          /\ over \subseteq over' /\ swept' \subseteq over'
                          /\ \A s \in swept' : s \in swept \/ session'[s].version < account.version
  <2>1. CASE L!EndRows(L!Open) /\ L!Promise(v)
    <3>1. \A s \in Logins : session'[s].version = session[s].version
      BY <1>6, <2>1
    <3>2. over' = over \cup visits[v].open /\ swept' = swept \cup visits[v].open
      BY <2>1 DEF L!Promise
    <3> QED BY <1>3, <1>7, <1>11, <3>1, <3>2
  <2>2. CASE UNCHANGED <<session, over, swept>>
    BY <1>3, <2>2
  <2> QED BY <1>11, <2>1, <2>2
<1>12. CASE L!EndAllRows(v)
  <2>1. visits[v].op \in Sweeping /\ visits[v].at = "rows"
    BY <1>12 DEF L!EndAllRows, Sweeping
  <2>2. (L!EndRows(L!Open) /\ L!Promise(v)) \/ UNCHANGED <<session, over, swept>>
    BY <1>12 DEF L!EndAllRows
  <2> QED BY <1>5, <1>11, <1>12, <2>1, <2>2 DEF L!EndAllRows, L!Answer
<1>13. CASE L!ResetRows(v)
  <2>1. visits[v].op \in Sweeping /\ visits[v].op \in Acting /\ visits[v].at = "rows"
    BY <1>13 DEF L!ResetRows, L!In, Sweeping, Acting
  <2>2. (L!EndRows(L!Open) /\ L!Promise(v)) \/ UNCHANGED <<session, over, swept>>
    BY <1>13 DEF L!ResetRows
  <2>3. visits' = [visits EXCEPT ![v] = y]
    BY <1>13 DEF L!ResetRows, L!GoOn, y
  <2> QED BY <1>5, <1>11, <1>13, <2>1, <2>2, <2>3 DEF L!ResetRows
<1> QED BY <1>8, <1>9, <1>10, <1>12, <1>13

(* Whatever requests about an account are under way at once, a session     *)
(* whose end was answered is never accepted by a request again; unless a   *)
(* save was stale, those that ended together are refused by whoever asks   *)
(* for their version only; and no verification token or challenge takes    *)
(* effect twice.                                                           *)
THEOREM EndedStay == L!LegacySpec => []EndedStaysEnded
<1>1. L!LegacyInit => LegacyInv /\ VersionInv
  <2> SUFFICES ASSUME L!LegacyInit PROVE LegacyInv /\ VersionInv
    OBVIOUS
  <2>1. \A v \in Calls : visits[v] = L!Waiting
    BY DEF L!LegacyInit
  <2>2. /\ L!Waiting.open = {} /\ L!Waiting.op = "none"
        /\ {"op", "at", "copy", "word", "key", "tries", "open"} \subseteq DOMAIN L!Waiting
    BY DEF L!Waiting
  <2>3. /\ session = [s \in Logins |-> session[s]]
        /\ \A s \in Logins : /\ {"state", "version"} \subseteq DOMAIN session[s]
                              /\ session[s].state \in {"unissued", "open", "revoked"}
    BY DEF L!LegacyInit, L!Row, L!NoRow
  <2>4. SessionsSound
    BY <2>1, <2>2, <2>3 DEF L!LegacyInit, SessionsSound
  <2>5. TakenSound
    BY <2>1, <2>2 DEF L!LegacyInit, TakenSound, Holding
  <2>6. /\ {"version", "status"} \subseteq DOMAIN account /\ account.version = 0
        /\ \A s \in Logins : session[s].version = 0
    <3>1. account \in {L!Nobody, L!Owner(L!SomeWord),
            [L!Owner(L!SomeWord) EXCEPT !.totp = "on", !.secret = "set", !.codes = Recovery]}
      BY DEF L!LegacyInit
    <3>2. {"version", "status", "totp", "secret", "codes"} \subseteq DOMAIN L!Nobody /\ L!Nobody.version = 0
      BY DEF L!Nobody
    <3>3. /\ {"version", "status", "totp", "secret", "codes"} \subseteq DOMAIN L!Owner(L!SomeWord)
          /\ L!Owner(L!SomeWord).version = 0
      BY <3>2 DEF L!Owner
    <3>4. {"version", "status"} \subseteq DOMAIN account /\ account.version = 0
      BY <3>1, <3>2, <3>3
    <3>5. \A s \in Logins : session[s] = L!Row(0) \/ session[s] = L!NoRow
      BY DEF L!LegacyInit
    <3>6. L!Row(0).version = 0 /\ L!NoRow.version = 0
      BY DEF L!Row, L!NoRow
    <3> QED BY <3>4, <3>5, <3>6
  <2>7. L!Waiting.copy.version = 0 /\ swept = {} /\ over = {}
        /\ (\A m \in MailTokens : mail[m] = "unissued") /\ \A o \in Resets : reset[o].state = "unissued"
    BY DEF L!LegacyInit, L!Waiting, L!Nobody
  <2>8. VersionInv
    BY <2>1, <2>2, <2>6, <2>7 DEF VersionInv, ExistsSound, VersionsSound, Sweeps, Acting, Sweeping
  <2> QED BY <2>4, <2>5, <2>8 DEF LegacyInv
<1>2. LegacyInv /\ VersionInv /\ [L!LegacyNext]_L!legacyVars => LegacyInv' /\ VersionInv'
  <2> SUFFICES ASSUME LegacyInv, VersionInv, [L!LegacyNext]_L!legacyVars
               PROVE  LegacyInv' /\ VersionInv'
    OBVIOUS
  <2>1. CASE UNCHANGED L!legacyVars
    <3>1. UNCHANGED <<account, session, mail, reset, challenge, visits, over, taken, swept, rewound>>
      BY <2>1 DEF L!legacyVars, L!docs, L!more
    <3>2. SessionsSound' /\ TakenSound'
      <4>1. SessionsSound'
        BY <3>1 DEF LegacyInv, SessionsSound
      <4>2. TakenSound'
        BY <3>1 DEF LegacyInv, TakenSound, Holding
      <4> QED BY <4>1, <4>2
    <3>3. ExistsSound'
      BY <3>1 DEF VersionInv, ExistsSound
    <3>4. ASSUME ~rewound' PROVE VersionsSound'
      <4>1. VersionsSound
        BY <3>1, <3>4 DEF VersionInv
      <4> QED BY <3>1, <4>1 DEF VersionsSound, Sweeps
    <3> QED BY <3>2, <3>3, <3>4 DEF LegacyInv, VersionInv
  <2>2. ASSUME NEW v \in Calls, L!Joining(v)
        PROVE  LegacyInv' /\ VersionInv'
    BY <2>2, LegacyQuiet, LegacyMail, VersionQuiet, VersionWrites DEF L!Joining
  <2>3. ASSUME NEW v \in Calls, L!LoggingIn(v)
        PROVE  LegacyInv' /\ VersionInv'
    BY <2>3, LegacyQuiet, LegacyRows, VersionQuiet, VersionWrites, VersionRows DEF L!LoggingIn
  <2>4. ASSUME NEW v \in Calls, L!Passkey(v)
        PROVE  LegacyInv' /\ VersionInv'
    BY <2>4, LegacyQuiet, LegacyChallenges, VersionQuiet DEF L!Passkey
  <2>5. ASSUME NEW v \in Calls, L!Ending(v)
        PROVE  LegacyInv' /\ VersionInv'
    BY <2>5, LegacyQuiet, LegacyRows, VersionQuiet, VersionWrites, VersionRows DEF L!Ending
  <2>6. ASSUME NEW v \in Calls, L!Forgetting(v)
        PROVE  LegacyInv' /\ VersionInv'
    BY <2>6, LegacyQuiet, LegacyRows, VersionQuiet, VersionWrites, VersionRows DEF L!Forgetting
  <2>7. ASSUME NEW v \in Calls, L!TwoFactor(v)
        PROVE  LegacyInv' /\ VersionInv'
    BY <2>7, LegacyQuiet, VersionQuiet
  <2> QED BY <2>1, <2>2, <2>3, <2>4, <2>5, <2>6, <2>7 DEF L!LegacyNext
<1>3. LegacyInv /\ VersionInv => EndedStaysEnded
  <2>1. LegacyInv => L!SessionsEnd
    BY DEF LegacyInv, SessionsSound, L!SessionsEnd, L!Attached
  <2>2. LegacyInv => L!TakenOnce
    BY DEF LegacyInv, TakenSound, L!TakenOnce
  <2>3. ASSUME VersionInv PROVE L!SocketsEnd
    <3>1. CASE rewound
      BY <3>1 DEF L!SocketsEnd
    <3>2. ASSUME ~rewound, NEW s \in swept PROVE ~L!ByVersion(s)
      BY <2>3, <3>2 DEF VersionInv, VersionsSound, L!ByVersion
    <3> QED BY <3>1, <3>2 DEF L!SocketsEnd
  <2> QED BY <2>1, <2>2, <2>3 DEF EndedStaysEnded, L!EndedStaysEnded
<1> QED BY <1>1, <1>2, <1>3, PTL DEF L!LegacySpec
================================================================================
