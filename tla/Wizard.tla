------------------------------- MODULE Wizard --------------------------------
(***************************************************************************)
(* The booking wizard in the customer's browser (booking-wizard.js): the   *)
(* page's state, the draft it stores, and its requests.  Between a request *)
(* and its answer the customer goes on clicking, the host edits prices and *)
(* others book.  An answer may be lost.                                    *)
(*                                                                         *)
(* A stay is named by its time; Length gives its hours.  Different times   *)
(* do not overlap.                                                         *)
(***************************************************************************)
EXTENDS Pricing

CONSTANTS
  Spaces,
  Times,
  Length,     \* hours of each time
  Requests,   \* requests the page may have under way
  MaxClicks   \* bound on the customer's clicks

VARIABLES
  page,     \* the wizard's `state`, its submit button and coupon field
  draft,    \* what persistDraft stored
  call,     \* quotes and bookings under way
  booked,   \* the slots of the server, with the booking in each
  clicks,   \* counts the customer's clicks
  unsure    \* an answer to a booking request was lost

wizardVars == <<page, draft, call, booked, clicks, unsure>>

-----------------------------------------------------------------------------
None == [total |-> 0, deposit |-> 0]
Choice == [space : Spaces, time : Times, extra : BOOLEAN, coupon : BOOLEAN]
Blank == [step |-> 1, chosen |-> FALSE, choice |-> CHOOSE c \in Choice : ~c.extra /\ ~c.coupon,
          typed |-> FALSE, quote |-> None, busy |-> FALSE, left |-> FALSE]
Quiet == [at |-> "none", for |-> "none", choice |-> Blank.choice, quote |-> None,
          edits |-> 0, answer |-> "none"]
Free == [by |-> "nobody", asked |-> Quiet.quote, price |-> None, same |-> FALSE]

WizardInit ==
  /\ page = Blank
  /\ draft = Blank
  /\ call = [q \in Requests |-> Quiet]
  /\ booked = [w \in Spaces \X Times |-> Free]
  /\ clicks = 0
  /\ unsure = FALSE

(* persistDraft takes the coupon over from its field, an emptied one not. *)
Persisted(p) == [p EXCEPT !.choice.coupon = @ \/ p.typed]

(* Each click is one handler up to its first await. *)
Click ==
  /\ ~page.left /\ clicks < MaxClicks
  /\ clicks' = clicks + 1

Become(p) ==
  /\ Click
  /\ page' = p /\ draft' = p
  /\ UNCHANGED <<call, booked, unsure, pricingVars>>

(* checkAvailability reads the form and, for a card clicked, its space. *)
Pick(s, t) ==
  /\ page.step = 1 /\ booked[s, t] = Free
  /\ Become(Persisted([page EXCEPT !.chosen = TRUE,
                            !.choice.space = s, !.choice.time = t]))

(* The form's time is taken over before anything is clicked on. *)
checkAvailability(t) ==
  /\ page.step = 1
  /\ Click
  /\ page' = [page EXCEPT !.choice.time = t]
  /\ UNCHANGED <<draft, call, booked, unsure, pricingVars>>

syncAddOnsFromUi ==
  /\ page.step = 2
  /\ Become(Persisted([page EXCEPT !.choice.extra = ~@]))

TypeCoupon ==
  /\ page.step = 2
  /\ Click
  /\ page' = [page EXCEPT !.typed = ~@]
  /\ UNCHANGED <<draft, call, booked, unsure, pricingVars>>

setStep(n) ==
  /\ n = 2 /\ page.step = 1 => page.chosen
  /\ n \in {page.step - 1, page.step + 1} \cap {1, 2}
  /\ Become(Persisted([page EXCEPT !.step = n]))

-----------------------------------------------------------------------------
(* fetchQuote: the coupon is the field's, or else the one kept. *)
Fetch(q, p, for) ==
  /\ page.chosen /\ call[q] = Quiet
  /\ call' = [call EXCEPT ![q] =
       [Quiet EXCEPT !.at = "quoting", !.for = for,
                     !.choice = [p.choice EXCEPT !.coupon = @ \/ p.typed]]]
  /\ page' = p
  /\ Click
  /\ UNCHANGED <<draft, booked, unsure, pricingVars>>

goStep3(q) == page.step = 2 /\ Fetch(q, page, "step")
applyCoupon(q) ==
  page.step = 2 /\ Fetch(q, [page EXCEPT !.choice.coupon = page.typed], "coupon")
refreshQuote(q) == page.step = 3 /\ Fetch(q, page, "refresh")

(* The button is off from the click until an answer turns it on again. *)
MaySubmitAgain == page.step = 3
MaySubmit == page.step = 3 /\ ~page.busy
submitBooking(q) == MaySubmit /\ Fetch(q, [page EXCEPT !.busy = TRUE], "submit")

(* The server's part: one quote, or one refusal. *)
AnswerQuote(q) ==
  /\ call[q].at = "quoting"
  /\ LET c == call[q].choice IN
     \E refused \in BOOLEAN :
       call' = [call EXCEPT ![q].at = "quoted",
         ![q].answer = IF refused THEN "no" ELSE "yes",
         ![q].quote = IF refused THEN None ELSE quoteBooking(Length[c.time], c.extra, c.coupon),
         ![q].edits = edits]
  /\ UNCHANGED <<page, draft, booked, clicks, unsure, pricingVars>>

Shown(p, quote) == [p EXCEPT !.quote = quote]

(* The answer to a quote that is not part of a submission. *)
ReceiveQuote(q) ==
  /\ call[q].at = "quoted" /\ call[q].for # "submit" /\ ~page.left
  /\ LET a == call[q]
         shown == IF a.for # "coupon" \/ page.step = 3 THEN Shown(page, a.quote) ELSE page
         next == IF a.answer = "no" THEN page
                 ELSE IF a.for = "step" THEN Persisted([shown EXCEPT !.step = 3])
                 ELSE IF a.for = "coupon" THEN Persisted(shown) ELSE shown
     IN /\ page' = next
        /\ draft' = IF a.answer = "yes" /\ a.for # "refresh" THEN next ELSE draft
  /\ call' = [call EXCEPT ![q] = Quiet]
  /\ UNCHANGED <<booked, clicks, unsure, pricingVars>>

(* submitBooking goes on: the time was fixed at the click, the space, the  *)
(* add-ons and the coupon are read again.                                  *)
ReceiveForSubmit(q) ==
  /\ call[q].at = "quoted" /\ call[q].for = "submit" /\ ~page.left
  /\ LET a == call[q] IN
     IF a.answer = "no"
     THEN /\ page' = [page EXCEPT !.busy = FALSE]
          /\ call' = [call EXCEPT ![q] = Quiet]
     ELSE /\ page' = Shown(page, a.quote)
          /\ call' = [call EXCEPT ![q].at = "creating",
               ![q].choice = [page.choice EXCEPT !.time = a.choice.time]]
  /\ UNCHANGED <<draft, booked, clicks, unsure, pricingVars>>

(* createBooking claims the slots and charges its own price. *)
AnswerCreate(q) ==
  /\ call[q].at = "creating"
  /\ LET c == call[q].choice
         free == booked[c.space, c.time] = Free
     IN /\ call' = [call EXCEPT ![q].at = "created",
                        ![q].answer = IF free THEN "yes" ELSE "no"]
        /\ booked' = IF ~free THEN booked
             ELSE [booked EXCEPT ![<<c.space, c.time>>] =
                    [by |-> "customer", asked |-> call[q].quote,
                     price |-> createdPrice(Length[c.time], c.extra, c.coupon),
                     same |-> call[q].edits = edits
                              /\ call[q].quote = quoteBooking(Length[c.time], c.extra, c.coupon)]]
  /\ UNCHANGED <<page, draft, clicks, unsure, pricingVars>>

(* The draft is cleared and the browser goes on to the payment page. *)
ReceiveCreate(q) ==
  /\ call[q].at = "created" /\ ~page.left
  /\ page' = IF call[q].answer = "yes" THEN [page EXCEPT !.left = TRUE]
             ELSE [page EXCEPT !.busy = FALSE]
  /\ draft' = IF call[q].answer = "yes" THEN Blank ELSE draft
  /\ call' = [call EXCEPT ![q] = Quiet]
  /\ UNCHANGED <<booked, clicks, unsure, pricingVars>>

(* A request or its answer is lost; the page tells a lost quote from a     *)
(* lost booking by nothing but its message.                                *)
Lose(q) ==
  /\ call[q].at \in {"quoting", "quoted", "creating", "created"} /\ ~page.left
  /\ unsure' = (unsure \/ call[q].at = "created")
  /\ page' = IF call[q].for = "submit" THEN [page EXCEPT !.busy = FALSE] ELSE page
  /\ call' = [call EXCEPT ![q] = Quiet]
  /\ UNCHANGED <<draft, booked, clicks, pricingVars>>

(* A reload, or the way back from the login page: restoreDraft.  Nobody    *)
(* waits for the requests any more.                                        *)
restoreDraft ==
  /\ Click
  /\ page' = [draft EXCEPT !.typed = draft.choice.coupon, !.busy = FALSE]
  /\ call' = [q \in Requests |-> Quiet]
  /\ unsure' = (unsure \/ \E q \in Requests : call[q].at \in {"creating", "created"})
  /\ UNCHANGED <<draft, booked, pricingVars>>

OtherBooks(s, t) ==
  /\ booked[s, t] = Free
  /\ booked' = [booked EXCEPT ![<<s, t>>] = [Free EXCEPT !.by = "other"]]
  /\ UNCHANGED <<page, draft, call, clicks, unsure, pricingVars>>

WizardNext ==
  \/ \E s \in Spaces, t \in Times : Pick(s, t) \/ OtherBooks(s, t)
  \/ \E t \in Times : checkAvailability(t)
  \/ syncAddOnsFromUi \/ TypeCoupon \/ restoreDraft
  \/ \E n \in {1, 2} : setStep(n)
  \/ \E q \in Requests :
       \/ goStep3(q) \/ applyCoupon(q) \/ refreshQuote(q) \/ submitBooking(q)
       \/ AnswerQuote(q) \/ ReceiveQuote(q) \/ ReceiveForSubmit(q)
       \/ AnswerCreate(q) \/ ReceiveCreate(q) \/ Lose(q)
  \/ \E r \in Rates : SetRate(r) /\ UNCHANGED wizardVars

WizardSpec ==
  PricingInit /\ WizardInit /\ [][WizardNext]_<<wizardVars, pricingVars>>

-----------------------------------------------------------------------------
(* One visit of the wizard has one booking request at a time and none once *)
(* one was accepted, however often the customer clicks, goes back, reloads *)
(* and chooses anew while answers are on their way, unless the answer to a *)
(* booking that was made never came back (submitBooking's button).         *)
OneBooking ==
  LET asked == {q \in Requests : \/ call[q].at = "creating"
                                 \/ call[q].at = "created" /\ call[q].answer = "no"}
      made == {w \in Spaces \X Times : booked[w[1], w[2]].by = "customer"}
  IN unsure \/ Cardinality(asked) + Cardinality(made) <= 1

(* What createBooking charges is what the fresh quote said, if neither the *)
(* choice nor the prices have changed since (bookingQuoteService, "Source  *)
(* of truth for wizard step-3 breakdown").                                 *)
ChargedAsQuoted ==
  \A s \in Spaces, t \in Times : booked[s, t].same => booked[s, t].price = booked[s, t].asked
=============================================================================
