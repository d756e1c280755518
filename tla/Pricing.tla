------------------------------- MODULE Pricing -------------------------------
(***************************************************************************)
(* What a booking costs: packages for long stays, the host's pricing rules *)
(* (pricingService), the quote a customer is shown (bookingQuoteService)   *)
(* and the amount createBooking charges (bookingService).                  *)
(*                                                                         *)
(* Amounts are whole; stays are whole hours.  JavaScript's Math.round      *)
(* rounds halves up.  The rate a rule changes is not rounded: it is kept   *)
(* in quarters, exact for the two rules with multipliers in halves that a  *)
(* model has.                                                              *)
(***************************************************************************)
EXTENDS Integers, FiniteSets, FiniteSetsExt

CONSTANTS
  Rules,       \* pricing rules, named by their priorities, which differ
  Lengths,     \* lengths of a stay in hours
  Rates,       \* prices per hour
  PackPrices,  \* prices of a package; 0 stands for none
  Changes,     \* what a rule does: its multiplier in halves and its fixed part
  ExtraPrice,  \* an add-on, per hour
  Percent,     \* of the coupon
  MaxEdits     \* bound on the host's edits

ASSUME RulesAssumption == Rules \subseteq Nat \ {0} /\ Cardinality(Rules) <= 2

VARIABLES
  price,    \* of the space: rate, packages, own deposit; and its branch's share
  rule,     \* the host's rules
  edits,    \* counts the host's edits, the publication of the previewed rule aside
  preview   \* the host's latest preview

pricingVars == <<price, rule, edits, preview>>

-----------------------------------------------------------------------------
Round(n, d) == (2 * n + d) \div (2 * d)
AtLeastZero(n) == Max({0, n})
Least(m, n) == Min({m, n})

(* DURATION_TIERS, each named by its least hours. *)
Tiers == {160, 40, 8, 4}

Units(h, t) == (h + t - 1) \div t

Fits(h, p, t) ==
  /\ t <= h /\ p.pack[t] > 0
  /\ Units(h, t) * p.pack[t] <= p.rate * h \/ p.rate * h = 0

(* The longest tier that fits, 0 for the price by the hour. *)
selectDurationPackage(h, p) == Max({0} \cup {t \in Tiers : Fits(h, p, t)})

NoRule == [status |-> "none", times |-> 2, plus |-> 0, least |-> 0]

(* The rate after some rules, in quarters: by ascending Priority. *)
applyRulesToUnit(h, p, rules) ==
  LET adjusted[n \in 0..Max(Rules)] ==
        IF n = 0 THEN 4 * p.rate
        ELSE IF n \in DOMAIN rules /\ h >= rules[n].least
             THEN (adjusted[n - 1] * rules[n].times) \div 2 + 4 * rules[n].plus
             ELSE adjusted[n - 1]
  IN adjusted[Max(Rules)]

quotePrice(h, p, rules) ==
  LET tier == selectDurationPackage(h, p)
      unit == applyRulesToUnit(h, p, rules)
      total == IF tier = 0 THEN Round(unit * h, 4)
               ELSE IF p.rate = 0 THEN Units(h, tier) * p.pack[tier]
               ELSE Round(Units(h, tier) * p.pack[tier] * unit, 4 * p.rate)
  IN AtLeastZero(total)

(* What rules do, whatever their status. *)
Terms(rs) == [r \in rs |-> [times |-> rule[r].times, plus |-> rule[r].plus,
                            least |-> rule[r].least]]
Published == {r \in Rules : rule[r].status = "active"}

(* computeDiscount, for a coupon in percent. *)
Discount(amount) == Least(Round(amount * Percent, 100), amount)
Extras(h, extra) == IF extra THEN ExtraPrice * h ELSE 0

(* quoteBooking: what step 3 of the wizard shows. *)
quoteBooking(h, extra, coupon) ==
  LET sub == quotePrice(h, price, Terms(Published)) + Extras(h, extra)
      total == IF coupon THEN sub - Discount(sub) ELSE sub
  IN [total |-> total,
      deposit |-> IF price.deposit > 0 THEN Least(price.deposit, total)
                  ELSE Round(total * price.share, 10)]

(* createBooking passes no package prices to quotePrice, and takes 30% of  *)
(* the price before add-ons for the deposit.                               *)
createdPrice(h, extra, coupon) ==
  LET base == quotePrice(h, [price EXCEPT !.pack = [t \in Tiers |-> 0]], Terms(Published))
      sub == base + Extras(h, extra)
      total == IF coupon THEN sub - Discount(sub) ELSE sub
  IN [total |-> total,
      deposit |-> IF price.deposit > 0 THEN Least(price.deposit, total)
                  ELSE Least(Round(base * 3, 10), total)]

-----------------------------------------------------------------------------
NoPreview == [rule |-> 0, hours |-> 0, total |-> 0, edits |-> 0]

PricingInit ==
  /\ \E rate \in Rates, four, eight \in PackPrices, deposit \in {0, 1}, share \in {3, 5} :
       price = [rate |-> rate, deposit |-> deposit, share |-> share,
                pack |-> [t \in Tiers |-> IF t = 4 THEN four ELSE IF t = 8 THEN eight ELSE 0]]
  /\ rule = [r \in Rules |-> NoRule]
  /\ edits = 0
  /\ preview = NoPreview

createPricingRule(r, change, least, status) ==
  /\ rule[r].status = "none" /\ edits < MaxEdits
  /\ rule' = [rule EXCEPT ![r] =
       [status |-> status, times |-> change[1], plus |-> change[2], least |-> least]]
  /\ edits' = edits + 1
  /\ UNCHANGED <<price, preview>>

(* A preview counts the draft in as if it were active. *)
PreviewedActive(r) == Published
Previewed(r) == Published \cup {r}

previewPricingRule(r, h) ==
  /\ rule[r].status = "draft"
  /\ preview' = [rule |-> r, hours |-> h, edits |-> edits,
                 total |-> quotePrice(h, price, Terms(Previewed(r)))]
  /\ UNCHANGED <<price, rule, edits>>

publishPricingRule(r) ==
  /\ rule[r].status = "draft"
  /\ rule' = [rule EXCEPT ![r].status = "active"]
  /\ edits' = IF preview.rule = r THEN edits ELSE edits + 1
  /\ UNCHANGED <<price, preview>>

SetRate(rate) ==
  /\ edits < MaxEdits
  /\ price' = [price EXCEPT !.rate = rate]
  /\ edits' = edits + 1
  /\ UNCHANGED <<rule, preview>>

PricingNext ==
  \/ \E r \in Rules, c \in Changes, least \in {0, 8}, s \in {"draft", "active"} :
       createPricingRule(r, c, least, s)
  \/ \E r \in Rules : publishPricingRule(r) \/ \E h \in Lengths : previewPricingRule(r, h)
  \/ \E rate \in Rates : SetRate(rate)

PricingSpec == PricingInit /\ [][PricingNext]_pricingVars

-----------------------------------------------------------------------------
(* Publishing a rule gives the price its preview announced, whatever was   *)
(* published before, as long as the host changes nothing else              *)
(* (previewPricingRule, publishPricingRule).                               *)
PreviewHolds ==
  preview.rule \in Published /\ preview.edits = edits
    => quotePrice(preview.hours, price, Terms(Published)) = preview.total
=============================================================================
