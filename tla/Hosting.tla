------------------------------- MODULE Hosting -------------------------------
(***************************************************************************)
(* What hosts and customers keep on their pages (hostController,           *)
(* customerController, catalogController, hostVerificationService): the    *)
(* galleries of a branch and of a space, pictures of a profile, reviews    *)
(* and the verification of a host.                                         *)
(*                                                                         *)
(* A request loads a document, works on its copy and saves the fields it   *)
(* changed.  An array is saved only onto the version that was loaded, and  *)
(* makes a new version; an update by $push or $set does neither.           *)
(***************************************************************************)
EXTENDS Naturals, FiniteSets

CONSTANTS
  BranchPages, SpacePages, \* each with a gallery
  Customers, Hosts,        \* profiles, each with a picture
  Files,     \* on Cloudinary
  Users,     \* who report reviews
  Requests,
  MaxReports, \* reporters a review keeps, 200 in the code
  MaxVersion, \* bound: reorders of a gallery
  Nil

ASSUME HostingConstants ==
  Nil \notin Files \cup Users /\ MaxVersion \in Nat /\ MaxReports \in Nat \ {0}

Pages == BranchPages \cup SpacePages
Profiles == Customers \cup Hosts

VARIABLES
  gallery,   \* Images and __v of each page
  picture,   \* Avatar or Logo
  cloud,     \* files Cloudinary has
  used,      \* files that were uploaded so far
  deleted,   \* pages and images whose deletion was answered
  review,    \* one Review document
  reported,  \* users whose report was answered
  host,      \* the Host_Profile and the User of one host
  hung,      \* history: images whose upload to a page was answered
  late,      \* history: those of them uploaded while a request held a copy
  unsaved,   \* history: images that were destroyed but could not be removed
  raced,     \* history: two decisions about the host overlapped
  req

edits == <<hung, late, unsaved>>
hostingVars == <<gallery, picture, cloud, used, deleted, review, reported, host, edits, raced, req>>

Idle == [at |-> "idle", images |-> {}, version |-> 0, file |-> Nil, old |-> Nil,
         by |-> Nil, status |-> "none"]

HostingInit ==
  /\ gallery = [p \in Pages |-> [status |-> "none", images |-> {}, version |-> 0]]
  /\ picture = [p \in Profiles |-> Nil]
  /\ cloud = {} /\ used = {} /\ deleted = {}
  /\ review = [status |-> "none", reporters |-> {}, count |-> 0, version |-> 0]
  /\ reported = {}
  /\ host = [status |-> "pending", verified |-> FALSE, active |-> FALSE]
  /\ hung = {} /\ late = {} /\ unsaved = {} /\ raced = FALSE
  /\ req = [r \in Requests |-> Idle]

Ends(r) == req' = [req EXCEPT ![r] = Idle]

(* Its file is on Cloudinary before a handler sees it. *)
Upload(f) == f \in Files \ used /\ used' = used \cup {f} /\ cloud' = cloud \cup {f}
-----------------------------------------------------------------------------
(* Galleries. *)

CreatePage(p, fs) ==
  /\ gallery[p].status = "none" /\ fs \in SUBSET (Files \ used)
  /\ used' = used \cup fs /\ cloud' = cloud \cup fs
  /\ gallery' = [gallery EXCEPT ![p] = [status |-> "active", images |-> fs, version |-> 0]]
  /\ hung' = hung \cup ({p} \X fs)
  /\ UNCHANGED <<picture, deleted, review, reported, host, late, unsaved, raced, req>>

CreateBranch(p, fs) == p \in BranchPages /\ CreatePage(p, fs)

(* Its branch is there. *)
CreateSpace(p, fs) ==
  /\ p \in SpacePages /\ \E b \in BranchPages : gallery[b].status = "active"
  /\ CreatePage(p, fs)

(* A request holds a copy of the gallery that it may yet save. *)
Held(p) ==
  \E r \in Requests : /\ req[r].at \in {"destroy", "save"} /\ req[r].by = p
                      /\ req[r].version = gallery[p].version

(* $push, which such a request does not notice: it saves its array over it. *)
AddImage(p, f) ==
  /\ gallery[p].status = "active" /\ Upload(f)
  /\ gallery' = [gallery EXCEPT ![p].images = @ \cup {f}]
  /\ hung' = hung \cup {<<p, f>>}
  /\ late' = IF Held(p) THEN late \cup {<<p, f>>} ELSE late
  /\ UNCHANGED <<picture, deleted, review, reported, host, unsaved, raced, req>>

UpdateBranch(p, f) == p \in BranchPages /\ AddImage(p, f)
UpdateSpace(p, f) == p \in SpacePages /\ AddImage(p, f)

LoadPage(r, p, at, f, images) ==
  /\ req[r] = Idle
  /\ req' = [req EXCEPT ![r] = [Idle EXCEPT !.at = at, !.file = f, !.by = p,
                                  !.images = images, !.version = gallery[p].version]]
  /\ UNCHANGED <<gallery, picture, cloud, used, deleted, review, reported, host, edits, raced>>

LoadForDelete(r, p, f) ==
  f \in gallery[p].images /\ LoadPage(r, p, "destroy", f, gallery[p].images \ {f})

DeleteBranchImage(r, p, f) == p \in BranchPages /\ LoadForDelete(r, p, f)
DeleteSpaceImage(r, p, f) == p \in SpacePages /\ LoadForDelete(r, p, f)

(* The whole gallery, in another order. *)
LoadForReorder(r, p) ==
  /\ gallery[p].images # {} /\ gallery[p].version < MaxVersion
  /\ LoadPage(r, p, "save", Nil, gallery[p].images)

ReorderBranchImages(r, p) == p \in BranchPages /\ LoadForReorder(r, p)
ReorderSpaceImages(r, p) == p \in SpacePages /\ LoadForReorder(r, p)

(* A failure is answered before the document is touched. *)
DestroyImage(r) ==
  /\ req[r].at = "destroy"
  /\ \/ cloud' = cloud \ {req[r].file} /\ req' = [req EXCEPT ![r].at = "save"]
     \/ UNCHANGED cloud /\ Ends(r)
  /\ UNCHANGED <<gallery, picture, used, deleted, review, reported, host, edits, raced>>

Saved(r, p) ==
  /\ gallery' = [gallery EXCEPT ![p].images = req[r].images, ![p].version = @ + 1]
  /\ deleted' = IF req[r].file = Nil THEN deleted ELSE deleted \cup {<<p, req[r].file>>}

(* Mutant of SavePage: whatever was saved meanwhile is overwritten.        *)
SavePageBlind(r) ==
  /\ req[r].at = "save"
  /\ Saved(r, req[r].by) /\ Ends(r)
  /\ UNCHANGED <<picture, cloud, used, review, reported, host, edits, raced>>

(* A refused save leaves the page with the file that was destroyed. *)
SavePage(r) ==
  /\ req[r].at = "save"
  /\ IF gallery[req[r].by].version = req[r].version
       THEN Saved(r, req[r].by) /\ UNCHANGED unsaved
       ELSE /\ unsaved' = unsaved \cup ({req[r].by} \X ({req[r].file} \ {Nil}))
            /\ UNCHANGED <<gallery, deleted>>
  /\ Ends(r)
  /\ UNCHANGED <<picture, cloud, used, review, reported, host, hung, late, raced>>
-----------------------------------------------------------------------------
(* The picture of a profile (updateMyProfile, updateProfileAPI): the file  *)
(* of the old one is destroyed, then the new one is written.               *)

ReadPicture(r, p, f) ==
  /\ req[r] = Idle /\ Upload(f)
  /\ req' = [req EXCEPT ![r] = [Idle EXCEPT !.at = "drop", !.by = p, !.file = f,
                                            !.old = picture[p]]]
  /\ UNCHANGED <<gallery, picture, deleted, review, reported, host, edits, raced>>

UpdateMyProfile(r, p, f) == p \in Customers /\ ReadPicture(r, p, f)
UpdateProfileAPI(r, p, f) == p \in Hosts /\ ReadPicture(r, p, f)

(* A failure is ignored. *)
DropPicture(r) ==
  /\ req[r].at = "drop"
  /\ cloud' \in {cloud, cloud \ {req[r].old}}
  /\ req' = [req EXCEPT ![r].at = "write"]
  /\ UNCHANGED <<gallery, picture, used, deleted, review, reported, host, edits, raced>>

WritePicture(r) ==
  /\ req[r].at = "write"
  /\ picture' = [picture EXCEPT ![req[r].by] = req[r].file]
  /\ Ends(r)
  /\ UNCHANGED <<gallery, cloud, used, deleted, review, reported, host, edits, raced>>
-----------------------------------------------------------------------------
(* Reviews. *)

(* submitReview of a completed booking; its index keeps it single, and a   *)
(* later one changes rating and comment only.                              *)
SubmitReview ==
  /\ review.status = "none"
  /\ review' = [review EXCEPT !.status = "published"]
  /\ UNCHANGED <<gallery, picture, cloud, used, deleted, reported, host, req, edits, raced>>

(* reportReview *)
LoadReview(r, u) ==
  /\ req[r] = Idle /\ review.status # "none" /\ u \notin review.reporters
  /\ req' = [req EXCEPT ![r] = [Idle EXCEPT !.at = "report", !.by = u,
               !.images = review.reporters, !.version = review.version,
               !.status = review.status]]
  /\ UNCHANGED <<gallery, picture, cloud, used, deleted, review, reported, host, edits, raced>>

(* Of too many reporters the oldest goes; which one that is, is not        *)
(* recorded.                                                               *)
Latest(reporters, u) ==
  IF Cardinality(reporters) <= MaxReports THEN {reporters}
  ELSE {reporters \ {v} : v \in reporters \ {u}}

SaveReport(r) ==
  LET u == req[r].by IN
  /\ req[r].at = "report"
  /\ \/ /\ review.version = req[r].version
        /\ \E reporters \in Latest(req[r].images \cup {u}, u) :
             review' = [status    |-> IF req[r].status = "published" THEN "reported"
                                      ELSE review.status,
                        reporters |-> reporters, count |-> Cardinality(reporters),
                        version   |-> review.version + 1]
        /\ reported' = reported \cup {u}
     \/ review.version # req[r].version /\ UNCHANGED <<review, reported>>
  /\ Ends(r)
  /\ UNCHANGED <<gallery, picture, cloud, used, deleted, host, edits, raced>>
-----------------------------------------------------------------------------
(* setVerificationStatus.  The session version it raises belongs to        *)
(* LegacyAuth.                                                             *)

Transitions ==
  [pending    |-> {"needs_info", "approved", "rejected"},
   needs_info |-> {"pending", "approved", "rejected"},
   approved   |-> {"suspended", "revoked"},
   rejected   |-> {"pending", "needs_info"},
   suspended  |-> {"approved", "revoked"},
   revoked    |-> {"pending"}]

AssertTransition(from, to) == to = from \/ to \in Transitions[from]

Deciding(r) == req[r].at \in {"verify", "sync"}

LoadHost(r, to) ==
  /\ req[r] = Idle /\ AssertTransition(host.status, to)
  /\ req' = [req EXCEPT ![r] = [Idle EXCEPT !.at = "verify", !.status = to, !.old = host.verified,
                                              !.by = host.status]]
  /\ raced' = IF \E o \in Requests : Deciding(o) THEN TRUE ELSE raced
  /\ UNCHANGED <<gallery, picture, cloud, used, deleted, review, reported, host, edits>>

(* Only what differs from the loaded copy is written. *)
SaveHost(r) ==
  LET to == req[r].status
      verified == to = "approved"
  IN
  /\ req[r].at = "verify"
  /\ host' = [host EXCEPT !.status = IF to # req[r].by THEN to ELSE @,
                          !.verified = IF verified # req[r].old THEN verified ELSE @]
  /\ req' = [req EXCEPT ![r].at = "sync", ![r].old = Nil, ![r].by = Nil]
  /\ UNCHANGED <<gallery, picture, cloud, used, deleted, review, reported, edits, raced>>

Withdrawn == {"rejected", "suspended", "revoked"}

SyncUser(r) ==
  /\ req[r].at = "sync"
  /\ host' = [host EXCEPT !.active = \/ req[r].status = "approved"
                                     \/ @ /\ req[r].status \notin Withdrawn]
  /\ Ends(r)
  /\ UNCHANGED <<gallery, picture, cloud, used, deleted, review, reported, edits, raced>>
-----------------------------------------------------------------------------
(* The process stops. *)
Dies(r) ==
  /\ req[r].at \in {"destroy", "save", "drop", "write", "report", "verify", "sync"}
  /\ req' = [req EXCEPT ![r].at = "dead"]
  /\ UNCHANGED <<gallery, picture, cloud, used, deleted, review, reported, host, edits, raced>>

PageNext ==
  \/ \E p \in Pages :
       \/ \E fs \in SUBSET Files : CreateBranch(p, fs) \/ CreateSpace(p, fs)
       \/ \E f \in Files : UpdateBranch(p, f) \/ UpdateSpace(p, f)
  \/ \E r \in Requests :
       \/ \E p \in Pages :
            \/ ReorderBranchImages(r, p) \/ ReorderSpaceImages(r, p)
            \/ \E f \in Files : DeleteBranchImage(r, p, f) \/ DeleteSpaceImage(r, p, f)
       \/ DestroyImage(r) \/ SavePage(r) \/ Dies(r)

PictureNext ==
  \E r \in Requests :
    \/ \E p \in Profiles, f \in Files : UpdateMyProfile(r, p, f) \/ UpdateProfileAPI(r, p, f)
    \/ DropPicture(r) \/ WritePicture(r) \/ Dies(r)

ReviewNext ==
  \/ SubmitReview
  \/ \E r \in Requests : SaveReport(r) \/ \E u \in Users : LoadReview(r, u)

VerificationNext ==
  \E r \in Requests :
    \/ \E to \in DOMAIN Transitions : LoadHost(r, to)
    \/ SaveHost(r) \/ SyncUser(r) \/ Dies(r)

HostingNext == PageNext \/ PictureNext \/ ReviewNext \/ VerificationNext

HostingSpec == HostingInit /\ [][HostingNext]_hostingVars
-----------------------------------------------------------------------------
(* An image whose deletion was answered never comes back, whoever reorders *)
(* or deletes others from the same gallery meanwhile.                      *)
DeletedStays == \A d \in deleted : d[2] \notin gallery[d[1]].images

(* An image whose upload was answered stays until it is deleted, unless it *)
(* came while a request that reorders the gallery, or deletes from it,     *)
(* held a copy to save.                                                    *)
UploadsKept ==
  \A h \in hung : h[2] \in gallery[h[1]].images \/ h \in deleted \cup late

(* A gallery shows files Cloudinary has, but for one that a request has    *)
(* yet to remove, stopped before it did, or could not because another      *)
(* request saved the gallery first.                                        *)
Shown(p, f) ==
  \/ f \in cloud \/ <<p, f>> \in unsaved
  \/ \E r \in Requests : req[r].at \in {"save", "dead"} /\ req[r].by = p /\ req[r].file = f

GalleriesShown == \A p \in Pages : \A f \in gallery[p].images : Shown(p, f)

(* The picture of a profile is a file Cloudinary has, but for a request    *)
(* that has yet to replace it, or stopped before it did.                   *)
PicturesShown ==
  \A p \in Profiles :
    \/ picture[p] \in cloud \cup {Nil}
    \/ \E r \in Requests :
         req[r].at \in {"write", "dead"} /\ req[r].by = p /\ req[r].old = picture[p]

(* A report that was answered counts, once, however many come at a time,   *)
(* as long as there are not more than a review keeps.                      *)
ReportsKept ==
  /\ review.reporters \subseteq reported /\ review.count = Cardinality(review.reporters)
  /\ review.reporters = reported \/ review.count = MaxReports

(* What is said of a host agrees after decisions that do not overlap: the  *)
(* badge with the state, and a host who was turned down is not active once *)
(* the request has come to its end.                                        *)
HostAgrees ==
  raced \/ /\ host.verified <=> host.status = "approved"
           /\ host.active => \/ host.status = "approved"
                             \/ \E r \in Requests :
                                  req[r].at \in {"sync", "dead"} /\ req[r].status \in Withdrawn

(* Together: how edits of a document survive each other. *)
EditsSurvive ==
  DeletedStays /\ UploadsKept /\ GalleriesShown /\ PicturesShown /\ ReportsKept /\ HostAgrees
=============================================================================
