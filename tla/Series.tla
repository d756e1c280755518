------------------------------- MODULE Series -------------------------------
(***************************************************************************)
(* One recurring series (recurringService): its creation, which a request  *)
(* with the same Idempotency-Key resumes, its cancellation, and the        *)
(* invitations of a group booking (groupBookingService).                   *)
(*                                                                         *)
(* A save of the series writes the fields that the request changed; the    *)
(* list of its bookings, when changed, only onto the version it loaded.    *)
(***************************************************************************)
EXTENDS Naturals, FiniteSets

CONSTANTS
  Dates,         \* occurrences of the series
  Kids,          \* bookings that may be created for them
  Makers,        \* requests to create the series
  Cancellers,    \* requests to cancel it
  Guests,        \* invited to a group booking
  MaxTakes,      \* attempts at an occurrence, 5 in the code
  Nought

ASSUME SeriesConstants == MaxTakes \in Nat \ {0} /\ Nought \notin Dates \cup Kids

VARIABLES
  series,    \* the RecurringSeries document
  occ,       \* RecurringOccurrence documents
  kid,       \* bookings
  maker,     \* createSeries and resumeSeriesCreation
  canceller, \* cancelSeries
  invite     \* GroupInvite documents

seriesVars == <<series, occ, kid, maker, canceller, invite>>

NoRow == [status |-> "none", by |-> Nought, takes |-> 0, kid |-> Nought]
NoKid == [status |-> "none", date |-> Nought, tagged |-> FALSE]
NewMaker == [at |-> "new", todo |-> {}, date |-> Nought, kid |-> Nought,
             created |-> {}, failed |-> FALSE, ids |-> {}, version |-> 0]
NewCanceller == [at |-> "new", todo |-> {}, kid |-> Nought, status |-> "none"]

SeriesInit ==
  /\ series = [status |-> "none", ids |-> {}, version |-> 0]
  /\ occ = [d \in Dates |-> NoRow]
  /\ kid = [k \in Kids |-> NoKid]
  /\ maker = [w \in Makers |-> NewMaker]
  /\ canceller = [c \in Cancellers |-> NewCanceller]
  /\ invite = [g \in Guests |-> "none"]
-----------------------------------------------------------------------------
(* createSeries *)

Resumable == {"creating", "partial", "failed"}

(* The key is new: the unique index lets one request create the series. *)
CreateSeries(w) ==
  /\ maker[w] = NewMaker /\ series.status = "none"
  /\ series' = [series EXCEPT !.status = "creating"]
  /\ maker' = [maker EXCEPT ![w].at = "plan", ![w].todo = Dates]
  /\ UNCHANGED <<occ, kid, canceller, invite>>

(* The key is known. *)
ResumeSeries(w) ==
  /\ maker[w] = NewMaker /\ series.status # "none"
  /\ maker' = [maker EXCEPT
       ![w].at = IF series.status \in Resumable THEN "load" ELSE "done",
       ![w].ids = series.ids, ![w].version = series.version]
  /\ UNCHANGED <<series, occ, kid, canceller, invite>>

Planned(d) == occ' = [occ EXCEPT ![d] = IF @ = NoRow THEN [@ EXCEPT !.status = "pending"] ELSE @]

PlanDate(w, d) ==
  /\ maker[w].at = "plan" /\ d \in maker[w].todo
  /\ Planned(d)
  /\ maker' = [maker EXCEPT ![w].todo = @ \ {d}]
  /\ UNCHANGED <<series, kid, canceller, invite>>

PlanEnds(w) ==
  /\ maker[w].at = "plan" /\ maker[w].todo = {}
  /\ maker' = [maker EXCEPT ![w].at = "load"]
  /\ UNCHANGED <<series, occ, kid, canceller, invite>>

Rows == {d \in Dates : occ[d] # NoRow}

(* resumeSeriesCreation marks the series, then reads the plan; it builds   *)
(* one only if there is none at all.                                       *)
LoadPlan(w) ==
  /\ maker[w].at = "load"
  /\ series' = [series EXCEPT !.status = "creating"]
  /\ IF Rows = {}
       THEN /\ occ' = [d \in Dates |-> [NoRow EXCEPT !.status = "pending"]]
            /\ maker' = [maker EXCEPT ![w].at = "loop", ![w].todo = Dates,
                                      ![w].created = maker[w].ids]
       ELSE /\ UNCHANGED occ
            /\ maker' = [maker EXCEPT
                 ![w].at = "loop",
                 ![w].todo = {d \in Rows : occ[d].status \notin {"created", "failed_terminal"}},
                 ![w].created = maker[w].ids
                   \cup {occ[d].kid : d \in {d \in Rows : occ[d].status = "created"}}]
  /\ UNCHANGED <<kid, canceller, invite>>

Orphans(d) == {k \in Kids : kid[k].date = d /\ kid[k].tagged}

(* The booking of an earlier attempt is found by its tag. *)
Repair(w, d) ==
  /\ maker[w].at = "loop" /\ d \in maker[w].todo /\ Orphans(d) # {}
  /\ \E k \in Orphans(d) :
       /\ occ' = [occ EXCEPT ![d] = [@ EXCEPT !.status = "created", !.kid = k, !.by = Nought]]
       /\ maker' = [maker EXCEPT ![w].todo = @ \ {d}, ![w].created = @ \cup {k}]
  /\ UNCHANGED <<series, kid, canceller, invite>>

(* Mutant of ClaimDate: the plan as it was read decides.                   *)
ClaimDateStale(w, d) ==
  /\ maker[w].at = "loop" /\ d \in maker[w].todo /\ Orphans(d) = {}
  /\ occ' = [occ EXCEPT ![d] = [@ EXCEPT !.status = "processing", !.by = w]]
  /\ maker' = [maker EXCEPT ![w].at = "book", ![w].date = d, ![w].todo = @ \ {d}]
  /\ UNCHANGED <<series, kid, canceller, invite>>

(* A row that is being processed is never claimed again. *)
ClaimDate(w, d) ==
  /\ maker[w].at = "loop" /\ d \in maker[w].todo /\ Orphans(d) = {}
  /\ IF occ[d].status \in {"pending", "failed_retryable"}
       THEN /\ occ' = [occ EXCEPT ![d].status = "processing", ![d].by = w,
                                  ![d].takes = @ + 1]
            /\ maker' = [maker EXCEPT ![w].at = "book", ![w].date = d,
                                      ![w].todo = @ \ {d}]
       ELSE /\ UNCHANGED occ
            /\ maker' = [maker EXCEPT ![w].todo = @ \ {d}]
  /\ UNCHANGED <<series, kid, canceller, invite>>

Occupied(d) == \E k \in Kids : kid[k].date = d /\ kid[k].status \in {"live", "used"}

(* createBooking, and its failure: the slot is taken, or anything else. *)
Book(w) ==
  LET d == maker[w].date IN
  /\ maker[w].at = "book"
  /\ \/ /\ ~Occupied(d)
        /\ \E k \in Kids : kid[k] = NoKid
        /\ LET k == CHOOSE k \in Kids : kid[k] = NoKid IN
             /\ kid' = [kid EXCEPT ![k] = [status |-> "live", date |-> d, tagged |-> FALSE]]
             /\ maker' = [maker EXCEPT ![w].at = "tag", ![w].kid = k]
     \/ UNCHANGED kid /\ maker' = [maker EXCEPT ![w].at = "fail"]
  /\ UNCHANGED <<series, occ, canceller, invite>>

Tag(w) ==
  /\ maker[w].at = "tag"
  /\ \/ /\ kid' = [kid EXCEPT ![maker[w].kid].tagged = TRUE]
        /\ maker' = [maker EXCEPT ![w].at = "mark"]
     \/ UNCHANGED kid /\ maker' = [maker EXCEPT ![w].at = "fail"]
  /\ UNCHANGED <<series, occ, canceller, invite>>

Holds(w, d) == occ[d].status = "processing" /\ occ[d].by = w

MarkCreated(w) ==
  LET d == maker[w].date
      k == maker[w].kid
  IN
  /\ maker[w].at = "mark"
  /\ \/ /\ occ' = IF Holds(w, d)
                    THEN [occ EXCEPT ![d] = [@ EXCEPT !.status = "created", !.kid = k,
                                                      !.by = Nought]]
                    ELSE occ
        /\ maker' = [maker EXCEPT ![w].at = "loop", ![w].created = @ \cup {k},
                                  ![w].date = Nought, ![w].kid = Nought]
     \/ UNCHANGED occ /\ maker' = [maker EXCEPT ![w].at = "fail"]
  /\ UNCHANGED <<series, kid, canceller, invite>>

MarkFailed(w) ==
  LET d == maker[w].date IN
  /\ maker[w].at = "fail"
  /\ occ' = IF Holds(w, d)
              THEN [occ EXCEPT ![d] = [@ EXCEPT !.by = Nought, !.status =
                     IF occ[d].takes >= MaxTakes THEN "failed_terminal"
                     ELSE "failed_retryable"]]
              ELSE occ
  /\ maker' = [maker EXCEPT ![w].at = "loop", ![w].failed = TRUE,
                            ![w].date = Nought, ![w].kid = Nought]
  /\ UNCHANGED <<series, kid, canceller, invite>>

Outcome(w) ==
  IF ~maker[w].failed THEN "active"
  ELSE IF maker[w].created = {} THEN "failed" ELSE "partial"

(* A list of bookings that changed is refused if another request saved one *)
(* meanwhile.                                                              *)
FinishSeries(w) ==
  LET changed == maker[w].created # maker[w].ids IN
  /\ maker[w].at = "loop" /\ maker[w].todo = {}
  /\ series' = IF ~changed THEN [series EXCEPT !.status = Outcome(w)]
               ELSE IF series.version = maker[w].version
               THEN [status |-> Outcome(w), ids |-> maker[w].created,
                     version |-> series.version + 1]
               ELSE series
  /\ maker' = [maker EXCEPT ![w] = [NewMaker EXCEPT !.at = "done"]]
  /\ UNCHANGED <<occ, kid, canceller, invite>>

(* The process stops, and the client may send its request again. *)
MakerDies(w) ==
  /\ maker[w].at \notin {"new", "done"}
  /\ maker' = [maker EXCEPT ![w] = [NewMaker EXCEPT !.at = "done"]]
  /\ UNCHANGED <<series, occ, kid, canceller, invite>>
-----------------------------------------------------------------------------
(* cancelSeries, for the whole series or from some occurrence on: the      *)
(* bookings it finds in the series when it loads it.                       *)
LoadSeries(c) ==
  /\ canceller[c] = NewCanceller /\ series.status # "none"
  /\ \E ks \in SUBSET series.ids :
       canceller' = [canceller EXCEPT ![c] =
         [at |-> "loop", todo |-> ks, kid |-> Nought, status |-> series.status]]
  /\ UNCHANGED <<series, occ, kid, maker, invite>>

LoadKid(c, k) ==
  /\ canceller[c].at = "loop" /\ k \in canceller[c].todo
  /\ canceller' = [canceller EXCEPT
       ![c].todo = @ \ {k},
       ![c].at = IF kid[k].status = "live" THEN "save" ELSE "loop",
       ![c].kid = IF kid[k].status = "live" THEN k ELSE Nought]
  /\ UNCHANGED <<series, occ, kid, maker, invite>>

(* b.save looks at the id only, then the slots are deleted. *)
CancelKid(c) ==
  /\ canceller[c].at = "save"
  /\ kid' = [kid EXCEPT ![canceller[c].kid].status = "cancelled"]
  /\ canceller' = [canceller EXCEPT ![c].at = "loop", ![c].kid = Nought]
  /\ UNCHANGED <<series, occ, maker, invite>>

CancelSeries(c) ==
  /\ canceller[c].at = "loop" /\ canceller[c].todo = {}
  /\ \/ series' = IF canceller[c].status = "cancelled" THEN series
                  ELSE [series EXCEPT !.status = "cancelled"]
     \/ UNCHANGED series
  /\ canceller' = [canceller EXCEPT ![c] = [NewCanceller EXCEPT !.at = "done"]]
  /\ UNCHANGED <<occ, kid, maker, invite>>

(* What else happens to the bookings: a hold expires, a customer comes. *)
KidMoves(k) ==
  /\ kid[k].status = "live"
  /\ \E status \in {"expired", "used"} : kid' = [kid EXCEPT ![k].status = status]
  /\ UNCHANGED <<series, occ, maker, canceller, invite>>
-----------------------------------------------------------------------------
(* createGroupBooking: an invitation for each guest, the booking's own     *)
(* index keeps them single.  rsvpByToken: the last answer counts.          *)
Invite(g) ==
  /\ invite[g] = "none"
  /\ invite' = [invite EXCEPT ![g] = "pending"]
  /\ UNCHANGED <<series, occ, kid, maker, canceller>>

Rsvp(g) ==
  /\ invite[g] # "none"
  /\ \E answer \in {"accepted", "declined"} : invite' = [invite EXCEPT ![g] = answer]
  /\ UNCHANGED <<series, occ, kid, maker, canceller>>

MakerStep(w) ==
  \/ CreateSeries(w) \/ ResumeSeries(w) \/ PlanEnds(w) \/ LoadPlan(w)
  \/ \E d \in Dates : PlanDate(w, d) \/ Repair(w, d) \/ ClaimDate(w, d)
  \/ Book(w) \/ Tag(w) \/ MarkCreated(w) \/ MarkFailed(w) \/ FinishSeries(w)
  \/ MakerDies(w)

CancellerStep(c) ==
  \/ LoadSeries(c) \/ CancelKid(c) \/ CancelSeries(c)
  \/ \E k \in Kids : LoadKid(c, k)

SeriesNext ==
  \/ \E w \in Makers : MakerStep(w)
  \/ \E c \in Cancellers : CancellerStep(c)
  \/ \E k \in Kids : KidMoves(k)
  \/ \E g \in Guests : Invite(g) \/ Rsvp(g)

SeriesSpec == SeriesInit /\ [][SeriesNext]_seriesVars
-----------------------------------------------------------------------------
(* No occurrence is attempted by two requests at once, and what is marked  *)
(* as created is a booking of that occurrence which carries its tag, so a  *)
(* request that resumes finds it again.                                    *)
OccurrencesOwn ==
  /\ \A d \in Dates : occ[d].status = "created" =>
       kid[occ[d].kid].date = d /\ kid[occ[d].kid].tagged
  /\ \A v, w \in Makers :
       v # w /\ maker[v].at \in {"book", "tag", "mark", "fail"}
         /\ maker[w].at \in {"book", "tag", "mark", "fail"}
         => maker[v].date # maker[w].date
=============================================================================
