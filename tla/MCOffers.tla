------------------------------ MODULE MCOffers ------------------------------
(***************************************************************************)
(* What hangs on bookings: coupons, credits, series, what a booking costs, *)
(* as hosts set it and as the wizard shows it, and who may book a space at *)
(* all.  They share no document, so a behaviour plays one of them.         *)
(***************************************************************************)
EXTENDS Offers, Series, Wizard, Admission, TLC

ThreeChanges == {<<3, 0>>, <<1, 1>>, <<2, -1>>}
FourHours == [t \in Times |-> 4]

VARIABLE scene

HalfEach == [o \in Orders |-> CHOOSE u \in Users : (u = CHOOSE v \in Users : TRUE)
                                <=> (o # CHOOSE p \in Orders : TRUE)]

(* The first booking has a customer and an instance of its own.            *)
OneAnother == [o \in Bookings |-> CHOOSE c \in Customers : (c = CHOOSE d \in Customers : TRUE)
                                     <=> (o = CHOOSE p \in Bookings : TRUE)]
AllButOne == [o \in Bookings |-> CHOOSE i \in Instances : (i = CHOOSE j \in Instances : TRUE)
                                     <=> (o # CHOOSE p \in Bookings : TRUE)]

Alike == Permutations(Dates) \cup Permutations(Makers) \cup Permutations(Calls)

Plays(scenes) == scene \in scenes /\ UNCHANGED scene

(* The wizard's bookings cost 3 an hour or 11 for four, and add-ons 1. *)
SceneInit ==
  /\ OffersInit /\ SeriesInit /\ PricingInit /\ WizardInit
  /\ AdmissionInit
  /\ scene \in {"coupons", "credits", "series", "guests", "prices", "wizard",
                "switch", "closures"}
  /\ scene # "switch" => ~flag /\ open
  /\ price.deposit = 0 /\ price.share = 3
  /\ scene # "prices" => price.rate = 3 /\ price.pack[4] = 11 /\ price.pack[8] = 0
  /\ scene \in {"prices", "wizard"} => replicated

(* Without transactions two postings of credits are enough. *)
OfferScene ==
  /\ \/ Plays({"coupons"}) /\ (EndOffer \/ \E o \in Orders : OrderStep(o))
     \/ /\ Plays({"credits"})
        /\ \/ \E c \in Calls : CreditStep(c)
           \/ \E n \in 1..MaxGrants, m \in Plans : GrantCredits(n, m)
        /\ replicated \/ Cardinality(ledger') <= 2
  /\ UNCHANGED <<seriesVars, pricingVars, wizardVars, admissionVars>>

SeriesScene ==
  /\ \/ /\ Plays({"series"})
        /\ \/ \E w \in Makers : MakerStep(w)
           \/ \E c \in Cancellers : CancellerStep(c)
           \/ \E k \in Kids : KidMoves(k)
     \/ Plays({"guests"}) /\ \E g \in Guests : Invite(g) \/ Rsvp(g)
  /\ UNCHANGED <<offerVars, pricingVars, wizardVars, admissionVars>>

(* While the wizard is used the host changes the rate once. *)
PriceScene ==
  /\ \/ Plays({"prices"}) /\ PricingNext /\ UNCHANGED wizardVars
     \/ Plays({"wizard"}) /\ WizardNext /\ edits' <= 1 /\ price'.rate # 0
  /\ UNCHANGED <<offerVars, seriesVars, admissionVars>>

(* One booking of each customer. *)
OneEach == {CHOOSE o \in Bookings : CustomerOf[o] = c : c \in Customers}

(* Around the switch the orders ask for one window and go no further than  *)
(* their insertion; a closure is of the first slot.                        *)
AdmissionScene ==
  /\ \/ /\ Plays({"switch"})
        /\ \/ SwitchNext \/ bulkUpdateSpaces \/ moderateListing
           \/ \E o \in Bookings :
                /\ OrderNext(o)
                /\ booking'[o].window \in {{}, Slots}
                /\ booking'[o].at \notin {"booked", "in-use"}
     \/ /\ Plays({"closures"})
        /\ \/ \E o \in OneEach : OrderNext(o)
           \/ \E b \in Closures :
                ClosureNext(b) /\ closure'[b].window = {CHOOSE t \in Slots : TRUE}
  /\ UNCHANGED <<offerVars, seriesVars, pricingVars, wizardVars>>

SceneNext == OfferScene \/ SeriesScene \/ PriceScene \/ AdmissionScene

SceneSpec ==
  SceneInit /\ [][SceneNext]_<<offerVars, seriesVars, pricingVars, wizardVars, admissionVars, scene>>
=============================================================================
