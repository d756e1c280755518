------------------------------- MODULE Offers -------------------------------
(***************************************************************************)
(* Coupons (couponService), redeemed inside createBooking, and memberships *)
(* with their ledger of credits (membershipService).                       *)
(*                                                                         *)
(* With a replica set a booking redeems its coupon in the transaction that *)
(* creates it.  Without one, which the code allows outside production, the *)
(* steps are single writes and undone by hand when a later one fails.      *)
(***************************************************************************)
EXTENDS Integers, FiniteSets, Functions

CONSTANTS
  Orders,        \* calls of createBooking with one coupon
  Users, UserOf, \* who places them
  UsageLimit, PerUserLimit,
  Plans,         \* Membership documents one user may come to have
  Calls,         \* requests about the membership
  IncludedHours, \* of the plan
  Trips,         \* bookings paid with credits
  MaxGrants,     \* bound: grants by administrators
  Void

ASSUME OffersConstants ==
  /\ UserOf \in [Orders -> Users]
  /\ UsageLimit \in Nat /\ PerUserLimit \in Nat /\ MaxGrants \in Nat
  /\ IncludedHours \in Nat \ {0} /\ Void \notin Plans
  /\ IsFiniteSet(Orders)
  /\ Trips \cap {"idle", "subscribe", "grant", "expire", "mark"} = {}

VARIABLES
  replicated, \* the database is a replica set, and has transactions
  offered,   \* the coupon's Status is active
  used,      \* Coupon.UsedCount
  usedBy,    \* CouponUserUsage.UsedCount
  redeemed,  \* CouponRedemption documents
  order,     \* the createBooking calls
  plan,      \* Membership documents
  ledger,    \* MembershipCreditLedger documents
  request    \* the requests about the membership

couponVars == <<replicated, offered, used, usedBy, redeemed, order>>
creditVars == <<plan, ledger, request>>
offerVars == <<couponVars, creditVars>>

NoPlan == [status |-> "none", credits |-> 0]
NoRequest == [at |-> "idle", plan |-> Void, hours |-> 0]

OffersInit ==
  /\ replicated \in BOOLEAN
  /\ offered = TRUE /\ used = 0 /\ usedBy = [u \in Users |-> 0] /\ redeemed = {}
  /\ order = [o \in Orders |-> "new"]
  /\ plan = [m \in Plans |-> NoPlan]
  /\ ledger = {} /\ request = [c \in Calls |-> NoRequest]
-----------------------------------------------------------------------------
(* Coupons. *)

Moves(o, at) == order' = [order EXCEPT ![o] = at]
BelowLimits(o) == used < UsageLimit /\ usedBy[UserOf[o]] < PerUserLimit

(* The price is quoted with the discount before anything is written. *)
ValidateCoupon(o) ==
  /\ order[o] = "new"
  /\ Moves(o, IF offered /\ BelowLimits(o) THEN "valid" ELSE "refused")
  /\ UNCHANGED <<replicated, offered, used, usedBy, redeemed, creditVars>>

(* redeemCoupon in a transaction *)
RedeemCommit(o) ==
  /\ replicated /\ order[o] = "valid"
  /\ IF offered /\ BelowLimits(o)
       THEN /\ used' = used + 1
            /\ usedBy' = [usedBy EXCEPT ![UserOf[o]] = @ + 1]
            /\ redeemed' = redeemed \cup {o}
            /\ Moves(o, "booked")
       ELSE Moves(o, "refused") /\ UNCHANGED <<used, usedBy, redeemed>>
  /\ UNCHANGED <<replicated, offered, creditVars>>

CountUse(o) ==
  /\ ~replicated /\ order[o] = "valid"
  /\ IF offered /\ used < UsageLimit
       THEN used' = used + 1 /\ Moves(o, "counted")
       ELSE UNCHANGED used /\ Moves(o, "refused")
  /\ UNCHANGED <<replicated, offered, usedBy, redeemed, creditVars>>

(* The user's limit is reached, or the row that counts cannot be made.     *)
CountUserUse(o) ==
  /\ order[o] = "counted"
  /\ \/ /\ usedBy[UserOf[o]] < PerUserLimit
        /\ usedBy' = [usedBy EXCEPT ![UserOf[o]] = @ + 1]
        /\ Moves(o, "charged")
     \/ UNCHANGED usedBy /\ Moves(o, "undo")
  /\ UNCHANGED <<replicated, offered, used, redeemed, creditVars>>

(* CouponRedemption.create may fail. *)
Redeem(o) ==
  /\ order[o] = "charged"
  /\ \/ redeemed' = redeemed \cup {o} /\ Moves(o, "booked")
     \/ UNCHANGED redeemed /\ Moves(o, "undo_both")
  /\ UNCHANGED <<replicated, offered, used, usedBy, creditVars>>

(* Mutant of UndoUse: the user's count is forgotten.                       *)
UndoUseOnly(o) ==
  /\ order[o] \in {"undo", "undo_both"}
  /\ used' = used - 1 /\ Moves(o, "refused")
  /\ UNCHANGED <<replicated, offered, usedBy, redeemed, creditVars>>

UndoUse(o) ==
  /\ order[o] \in {"undo", "undo_both"}
  /\ used' = used - 1
  /\ Moves(o, IF order[o] = "undo" THEN "refused" ELSE "undo_user")
  /\ UNCHANGED <<replicated, offered, usedBy, redeemed, creditVars>>

UndoUserUse(o) ==
  /\ order[o] = "undo_user"
  /\ usedBy' = [usedBy EXCEPT ![UserOf[o]] = IF @ >= 1 THEN @ - 1 ELSE @]
  /\ Moves(o, "refused")
  /\ UNCHANGED <<replicated, offered, used, redeemed, creditVars>>

(* A write that throws, unless it is the redemption's, or a process that   *)
(* stops: what was counted by then is not taken back.                      *)
RedeemBreaks(o) ==
  /\ \/ order[o] \in {"counted", "undo"} /\ Moves(o, "left_use")
     \/ order[o] \in {"charged", "undo_both"} /\ Moves(o, "left_both")
     \/ order[o] = "undo_user" /\ Moves(o, "left_user")
  /\ UNCHANGED <<replicated, offered, used, usedBy, redeemed, creditVars>>

EndOffer ==
  /\ offered /\ offered' = FALSE
  /\ UNCHANGED <<replicated, used, usedBy, redeemed, order, creditVars>>

OrderStep(o) ==
  \/ ValidateCoupon(o) \/ RedeemCommit(o) \/ CountUse(o) \/ CountUserUse(o)
  \/ Redeem(o) \/ UndoUse(o) \/ UndoUserUse(o) \/ RedeemBreaks(o)
-----------------------------------------------------------------------------
(* Credits. *)

Entry(key, m, sign, hours) == [key |-> key, plan |-> m, sign |-> sign, hours |-> hours]
Keyed(key) == \E x \in ledger : x.key = key
Balance(m) ==
  SumFunction([x \in {x \in ledger : x.plan = m} |-> x.sign * x.hours])

(* Mutant of Posted: the key is not looked at.                             *)
PostedAgain(e) ==
  /\ e.sign = 1 \/ plan[e.plan].credits >= e.hours
  /\ ledger' = ledger \cup {e}
  /\ plan' = [plan EXCEPT ![e.plan].credits = @ + e.sign * e.hours]

(* The transaction of postCreditEntry: a key that exists returns its entry *)
(* and posts nothing; a debit needs the credits.                           *)
Posted(e) ==
  IF Keyed(e.key)
    THEN UNCHANGED <<plan, ledger>>
    ELSE /\ e.sign = 1 \/ plan[e.plan].credits >= e.hours
         /\ ledger' = ledger \cup {e}
         /\ plan' = [plan EXCEPT ![e.plan].credits = @ + e.sign * e.hours]

(* Without transactions the entry is written first and stays when the      *)
(* credits are too few or their write fails.                               *)
PostedAlone(e) ==
  /\ ~replicated /\ ~Keyed(e.key)
  /\ ledger' = ledger \cup {e}
  /\ UNCHANGED plan

Active(m) == plan[m].status = "active"
Answered(c) == request' = [request EXCEPT ![c] = NoRequest]

(* subscribe: the look for an active membership, its creation and the      *)
(* grant are three steps, and the second may be the last.                  *)
SubscribeCheck(c) ==
  /\ request[c] = NoRequest /\ \A m \in Plans : ~Active(m)
  /\ request' = [request EXCEPT ![c].at = "subscribe"]
  /\ UNCHANGED <<couponVars, plan, ledger>>

SubscribeCreate(c, m) ==
  /\ request[c].at = "subscribe" /\ plan[m] = NoPlan
  /\ plan' = [plan EXCEPT ![m].status = "active"]
  /\ request' = [request EXCEPT ![c] = [at |-> "grant", plan |-> m, hours |-> 0]]
  /\ UNCHANGED <<couponVars, ledger>>

SubscribeGrant(c) ==
  LET m == request[c].plan IN
  /\ request[c].at = "grant"
  /\ \/ Posted(Entry(<<"grant", m>>, m, 1, IncludedHours))
     \/ PostedAlone(Entry(<<"grant", m>>, m, 1, IncludedHours))
  /\ Answered(c)
  /\ UNCHANGED couponVars

(* grantCredits posts without a key. *)
GrantCredits(n, m) ==
  /\ Active(m) /\ ~Keyed(<<"promo", n>>)
  /\ \/ Posted(Entry(<<"promo", n>>, m, 1, 1))
     \/ PostedAlone(Entry(<<"promo", n>>, m, 1, 1))
  /\ UNCHANGED <<couponVars, request>>

(* consumeCredit: retried by its caller under the same key. *)
ConsumeFind(c, m, t) ==
  /\ request[c] = NoRequest /\ Active(m)
  /\ request' = [request EXCEPT ![c] = [at |-> t, plan |-> m, hours |-> 1]]
  /\ UNCHANGED <<couponVars, plan, ledger>>

ConsumePost(c, t) ==
  /\ request[c].at = t
  /\ \/ Posted(Entry(<<"consume", t>>, request[c].plan, -1, 1))
     \/ PostedAlone(Entry(<<"consume", t>>, request[c].plan, -1, 1))
     \/ UNCHANGED <<plan, ledger>>
  /\ Answered(c)
  /\ UNCHANGED couponVars

(* expireCredits: reads what remains, posts that much, then marks the      *)
(* membership.                                                             *)
ExpireFind(c, m) ==
  /\ request[c] = NoRequest /\ Active(m)
  /\ IF plan[m].credits = 0
       THEN plan' = [plan EXCEPT ![m].status = "expired"] /\ UNCHANGED request
       ELSE /\ UNCHANGED plan
            /\ request' = [request EXCEPT ![c] =
                 [at |-> "expire", plan |-> m, hours |-> plan[m].credits]]
  /\ UNCHANGED <<couponVars, ledger>>

ExpirePost(c) ==
  LET m == request[c].plan
      e == Entry(<<"expire", m>>, m, -1, request[c].hours)
  IN
  /\ request[c].at = "expire"
  /\ \/ Posted(e) /\ request' = [request EXCEPT ![c].at = "mark"]
     \/ (PostedAlone(e) \/ UNCHANGED <<plan, ledger>>) /\ Answered(c)
  /\ UNCHANGED couponVars

ExpireMark(c) ==
  /\ request[c].at = "mark"
  /\ plan' = [plan EXCEPT ![request[c].plan].status = "expired"]
  /\ Answered(c)
  /\ UNCHANGED <<couponVars, ledger>>

CallDies(c) ==
  /\ request[c] # NoRequest
  /\ Answered(c)
  /\ UNCHANGED <<couponVars, plan, ledger>>

CreditStep(c) ==
  \/ SubscribeCheck(c) \/ SubscribeGrant(c) \/ ExpirePost(c) \/ ExpireMark(c)
  \/ \E m \in Plans : SubscribeCreate(c, m) \/ ExpireFind(c, m)
  \/ \E t \in Trips : ConsumePost(c, t) \/ \E m \in Plans : ConsumeFind(c, m, t)
  \/ CallDies(c)

OffersNext ==
  \/ \E o \in Orders : OrderStep(o)
  \/ EndOffer
  \/ \E c \in Calls : CreditStep(c)
  \/ \E n \in 1..MaxGrants, m \in Plans : GrantCredits(n, m)

OffersSpec == OffersInit /\ [][OffersNext]_offerVars
-----------------------------------------------------------------------------
Settled ==
  \A o \in Orders : order[o] \notin {"counted", "charged", "undo", "undo_both", "undo_user"}
With(places) == {o \in Orders : order[o] \in places}

(* No coupon is used beyond its limit, nor by a user beyond the user's.    *)
(* Once no redemption is under way, what is counted, of the coupon and of  *)
(* each user, are the redemptions and what calls that broke off have left. *)
CouponCounts ==
  /\ used <= UsageLimit /\ \A u \in Users : usedBy[u] <= PerUserLimit
  /\ redeemed = With({"booked"})
  /\ Settled =>
       /\ used = Cardinality(With({"booked", "left_use", "left_both"}))
       /\ \A u \in Users : usedBy[u] =
            Cardinality({o \in With({"booked", "left_both", "left_user"}) : UserOf[o] = u})

(* The credits of a membership are never negative, and what its ledger     *)
(* adds up to where postings are transactions, whatever is retried or      *)
(* expires meanwhile.                                                      *)
CreditsBalance ==
  \A m \in Plans : plan[m].credits >= 0 /\ (replicated => plan[m].credits = Balance(m))
=============================================================================
