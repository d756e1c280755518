------------------------ MODULE OffersProofs --------------------------------
(***************************************************************************)
(* What is sold and at which price: coupons and credits, series of         *)
(* bookings, the host's preview of prices, the booking wizard, and the     *)
(* admission of orders to a space; for any number of each.                 *)
(***************************************************************************)
EXTENDS Offers, Series, Wizard, Admission, SumTheorems

(***************************************************************************)
(* The kill switch binds and blackouts are announced.                      *)
(***************************************************************************)
BookingRecords ==
  [at : {"none", "switch", "answer", "blackouts", "insert", "booked", "in-use", "ended"},
   window : SUBSET Slots, seen : BOOLEAN, passed : SUBSET Closures, moved : BOOLEAN]
ClosureRecords ==
  [at : {"none", "created", "silent", "telling", "done", "stopped"},
   window : SUBSET Slots, toTell : SUBSET Customers, told : SUBSET Customers, missed : SUBSET Customers,
   gone : BOOLEAN]

BookingTypeOK == booking \in [Bookings -> BookingRecords] /\ flag \in BOOLEAN
ClosureTypeOK == closure \in [Closures -> ClosureRecords]

(* An order past its look at the blackouts meets only those that it missed. *)
InsertSafe ==
  \A o \in Bookings, b \in Closures :
    /\ booking[o].at = "insert" /\ closure[b].at # "none" /\ ~closure[b].gone
    /\ Meets(booking[o].window, closure[b].window)
    => b \in booking[o].passed

(* From the moment its customers are listed, a blackout has them among     *)
(* those it tells and those it tried to, and at the end it tried them all. *)
Reached(r) == r.told \cup r.missed \cup r.toTell
Listed ==
  \A o \in Bookings, b \in Closures :
    /\ booking[o].at = "booked" /\ closure[b].at \in {"telling", "done"} /\ ~closure[b].gone
    /\ Meets(booking[o].window, closure[b].window)
    => \/ CustomerOf[o] \in Reached(closure[b])
       \/ b \in booking[o].passed \/ booking[o].moved
AllTold == \A b \in Closures : closure[b].at = "done" => closure[b].toTell = {}

ClosuresInv == BookingTypeOK /\ ClosureTypeOK /\ InsertSafe /\ Listed /\ AllTold

LEMMA WindowsAreSlots == \A w \in Windows : w \in SUBSET Slots
<1> SUFFICES ASSUME NEW w \in Windows PROVE w \in SUBSET Slots OBVIOUS
<1>1. PICK s \in Slots, t \in Slots : w = {s, t}
  BY DEF Windows
<1> QED BY <1>1

LEMMA AdmissionInitInv == AdmissionInit => ClosuresInv
BY DEF AdmissionInit, ClosuresInv, BookingTypeOK, ClosureTypeOK, BookingRecords, ClosureRecords,
   NoOrder, NoClosure, InsertSafe, Listed, AllTold

(* What an order may do: past its look at the blackouts it remembers those *)
(* that it missed, and a booking that is not moved comes from there.       *)
LEMMA OrderKeeps ==
  ASSUME ClosuresInv, NEW o \in Bookings, NEW r \in BookingRecords, NewOrder(o, r),
         UNCHANGED <<closure, flag>>,
         r.at = "insert" => \A b \in Closures :
           closure[b].at # "none" /\ ~closure[b].gone /\ Meets(r.window, closure[b].window)
             => b \in r.passed,
         r.at = "booked" => r.moved \/ (/\ booking[o].at \in {"insert", "booked"}
                                       /\ r.window = booking[o].window
                                       /\ r.passed = booking[o].passed
                                       /\ r.moved = booking[o].moved)
  PROVE  ClosuresInv'
<1> USE DEF ClosuresInv
<1>1. booking'[o] = r /\ \A p \in Bookings \ {o} : booking'[p] = booking[p]
  BY DEF NewOrder, BookingTypeOK
<1>2. BookingTypeOK' /\ ClosureTypeOK' /\ AllTold'
  BY <1>1 DEF NewOrder, BookingTypeOK, ClosureTypeOK, AllTold
<1>3. InsertSafe'
  BY <1>1 DEF InsertSafe
<1>4. Listed'
  <2>1. SUFFICES ASSUME NEW b \in Closures, r.at = "booked", ~r.moved,
                        closure[b].at \in {"telling", "done"}, ~closure[b].gone,
                        Meets(r.window, closure[b].window)
                 PROVE  CustomerOf[o] \in Reached(closure[b]) \/ b \in r.passed
    BY <1>1 DEF Listed
  <2>2. CASE booking[o].at = "insert"
    BY <2>1, <2>2 DEF InsertSafe
  <2>3. CASE booking[o].at = "booked"
    BY <2>1, <2>3 DEF Listed
  <2> QED BY <2>1, <2>2, <2>3
<1> QED BY <1>2, <1>3, <1>4

(* What a closure may do: list its customers once, and move them from      *)
(* those to tell to those that were told or missed.                        *)
LEMMA ClosureKeeps ==
  ASSUME ClosuresInv, NEW b \in Closures, NEW r \in ClosureRecords, NewClosure(b, r),
         UNCHANGED <<booking, flag>>, closure[b].at # "none",
         r.window = closure[b].window, closure[b].gone => r.gone, r.at = "done" => r.toTell = {},
         r.at \in {"telling", "done"} =>
           \/ closure[b].at = "created" /\ Affected(closure[b].window) \subseteq r.toTell
           \/ /\ closure[b].at \in {"telling", "done"}
              /\ Reached(closure[b]) \subseteq Reached(r)
  PROVE  ClosuresInv'
<1> USE DEF ClosuresInv
<1>1. closure'[b] = r /\ \A c \in Closures \ {b} : closure'[c] = closure[c]
  BY DEF NewClosure, ClosureTypeOK
<1>2. BookingTypeOK' /\ ClosureTypeOK' /\ AllTold'
  BY <1>1 DEF NewClosure, BookingTypeOK, ClosureTypeOK, AllTold
<1>3. InsertSafe'
  BY <1>1 DEF InsertSafe, ClosureRecords
<1>4. Listed'
  <2>1. SUFFICES ASSUME NEW o \in Bookings, booking[o].at = "booked", ~booking[o].moved,
                        r.at \in {"telling", "done"}, ~r.gone,
                        Meets(booking[o].window, r.window), b \notin booking[o].passed
                 PROVE  CustomerOf[o] \in Reached(r)
    BY <1>1 DEF Listed
  <2>2. ~closure[b].gone
    BY <2>1 DEF ClosureRecords, ClosureTypeOK
  <2>3. CASE closure[b].at = "created" /\ Affected(closure[b].window) \subseteq r.toTell
    BY <2>1, <2>3 DEF Affected, Reached
  <2>4. CASE /\ closure[b].at \in {"telling", "done"}
             /\ Reached(closure[b]) \subseteq Reached(r)
    BY <2>1, <2>2, <2>4 DEF Listed
  <2> QED BY <2>1, <2>3, <2>4
<1> QED BY <1>2, <1>3, <1>4

(* A blackout that comes while an order is past its look is remembered.    *)
LEMMA CreationKeeps ==
  ASSUME ClosuresInv, NEW b \in Closures, NEW w \in Windows, NEW notify \in BOOLEAN,
         CreateBlackout(b, w, notify)
  PROVE  ClosuresInv'
<1> USE DEF ClosuresInv
<1> DEFINE r == [NoClosure EXCEPT !.window = w, !.at = IF notify THEN "created" ELSE "silent"]
<1>1. r \in ClosureRecords /\ r.at \in {"created", "silent"} /\ r.window = w /\ ~r.gone
  BY WindowsAreSlots DEF NoClosure, ClosureRecords
<1>2. closure'[b] = r /\ \A c \in Closures \ {b} : closure'[c] = closure[c]
  BY DEF CreateBlackout, NewClosure, ClosureTypeOK
<1>3. ClosureTypeOK'
  BY <1>1, <1>2 DEF CreateBlackout, NewClosure, ClosureTypeOK
<1>4. \A o \in Bookings :
        /\ booking'[o] \in BookingRecords
        /\ booking'[o].at = booking[o].at /\ booking'[o].window = booking[o].window
        /\ booking'[o].moved = booking[o].moved /\ booking[o].passed \subseteq booking'[o].passed
        /\ booking[o].at = "insert" /\ Meets(booking[o].window, w) => b \in booking'[o].passed
  <2>1. ASSUME NEW o \in Bookings
        PROVE  booking'[o] = IF booking[o].at = "insert" /\ Meets(booking[o].window, w)
                             THEN [booking[o] EXCEPT !.passed = @ \cup {b}] ELSE booking[o]
    BY DEF CreateBlackout
  <2>2. ASSUME NEW o \in Bookings, booking[o].at = "insert", Meets(booking[o].window, w)
        PROVE  /\ booking'[o] \in BookingRecords
               /\ booking'[o].at = booking[o].at /\ booking'[o].window = booking[o].window
               /\ booking'[o].moved = booking[o].moved
               /\ booking'[o].passed = booking[o].passed \cup {b}
    <3>1. PICK at \in {"insert"}, v \in SUBSET Slots, f \in BOOLEAN, old \in SUBSET Closures,
               g \in BOOLEAN :
            booking[o] = [at |-> at, window |-> v, seen |-> f, passed |-> old, moved |-> g]
      BY <2>2 DEF BookingTypeOK, BookingRecords
    <3>2. booking'[o] = [at |-> at, window |-> v, seen |-> f, passed |-> old \cup {b}, moved |-> g]
      BY <2>1, <2>2, <3>1
    <3> QED BY <3>1, <3>2 DEF BookingRecords
  <2>3. ASSUME NEW o \in Bookings, ~(booking[o].at = "insert" /\ Meets(booking[o].window, w))
        PROVE  booking'[o] = booking[o] /\ booking'[o] \in BookingRecords
    BY <2>1, <2>3 DEF BookingTypeOK
  <2> QED BY <2>2, <2>3
<1> HIDE DEF r
<1>5. BookingTypeOK'
  BY <1>4 DEF CreateBlackout, BookingTypeOK
<1>6. InsertSafe'
  BY <1>1, <1>2, <1>4 DEF InsertSafe
<1>7. Listed' /\ AllTold'
  BY <1>1, <1>2, <1>4 DEF Listed, AllTold
<1> QED BY <1>3, <1>5, <1>6, <1>7

LEMMA OrderStepKeeps ==
  ASSUME ClosuresInv, NEW o \in Bookings, OrderNext(o) PROVE ClosuresInv'
<1> USE DEF ClosuresInv
<1>0. booking[o] \in BookingRecords /\ NoOrder \in BookingRecords /\ NoOrder.at = "none"
  BY DEF BookingTypeOK, BookingRecords, NoOrder
<1>1. ASSUME Refuse(o), UNCHANGED <<closure, flag>> PROVE ClosuresInv'
  BY <1>0, <1>1, OrderKeeps DEF Refuse
<1>2. ASSUME NEW w \in Windows, Create(o, w) PROVE ClosuresInv'
  <2>1. [NoOrder EXCEPT !.at = "switch", !.window = w] \in BookingRecords
    BY WindowsAreSlots DEF NoOrder, BookingRecords
  <2>2. [NoOrder EXCEPT !.at = "switch", !.window = w].at = "switch"
    BY DEF NoOrder
  <2> QED BY <1>2, <2>1, <2>2, OrderKeeps DEF Create
<1>3. ASSUME NEW w \in Windows, Reschedule(o, w) PROVE ClosuresInv'
  <2> DEFINE r == [booking[o] EXCEPT !.window = w, !.moved = TRUE]
  <2>1. r \in BookingRecords /\ r.at = "booked" /\ r.moved
    BY <1>0, <1>3, WindowsAreSlots DEF BookingRecords, Reschedule
  <2> QED BY <1>3, <2>1, OrderKeeps DEF Reschedule
<1>4. ASSUME NEW step \in {"blackouts", "in-use", "ended"}, Goes(o, step), UNCHANGED <<closure, flag>>
      PROVE  ClosuresInv'
  <2> DEFINE r == [booking[o] EXCEPT !.at = step]
  <2>1. r \in BookingRecords /\ r.at = step
    BY <1>0 DEF BookingRecords
  <2> QED BY <1>4, <2>1, OrderKeeps DEF Goes
<1>5. CASE AskCache(o)
  BY <1>1, <1>4, <1>5 DEF AskCache
<1>6. CASE AskFlag(o)
  <2>1. PICK f \in BOOLEAN : NewOrder(o, [booking[o] EXCEPT !.at = "answer", !.seen = f])
    BY <1>6 DEF AskFlag, BookingTypeOK
  <2> DEFINE r == [booking[o] EXCEPT !.at = "answer", !.seen = f]
  <2>2. r \in BookingRecords /\ r.at = "answer"
    BY <1>0 DEF BookingRecords
  <2> QED BY <1>6, <2>1, <2>2, OrderKeeps DEF AskFlag
<1>7. CASE KeepAnswer(o)
  <2> DEFINE r == [booking[o] EXCEPT !.at = "blackouts", !.seen = FALSE]
  <2>1. r \in BookingRecords /\ r.at = "blackouts"
    BY <1>0 DEF BookingRecords
  <2>2. CASE NewOrder(o, r)
    BY <1>7, <2>1, <2>2, OrderKeeps DEF KeepAnswer
  <2> QED BY <1>1, <1>7, <2>2 DEF KeepAnswer
<1>8. CASE ReadBlackouts(o)
  <2>1. CASE \E b \in InForce : Meets(closure[b].window, booking[o].window)
    BY <1>1, <1>8, <2>1 DEF ReadBlackouts
  <2>2. CASE ~\E b \in InForce : Meets(closure[b].window, booking[o].window)
    <3> DEFINE r == [booking[o] EXCEPT !.at = "insert"]
    <3>1. r \in BookingRecords /\ r.at = "insert" /\ r.window = booking[o].window
      BY <1>0 DEF BookingRecords
    <3>2. \A b \in Closures : closure[b].at # "none" /\ ~closure[b].gone
                               => ~Meets(r.window, closure[b].window)
      BY <2>2, <3>1 DEF InForce, Meets
    <3> QED BY <1>8, <2>2, <3>1, <3>2, OrderKeeps DEF ReadBlackouts, Goes
  <2> QED BY <2>1, <2>2
<1>9. CASE Insert(o)
  <2> DEFINE r == [booking[o] EXCEPT !.at = "booked"]
  <2>1. /\ r \in BookingRecords /\ r.at = "booked" /\ r.window = booking[o].window
        /\ r.passed = booking[o].passed /\ r.moved = booking[o].moved
    BY <1>0 DEF BookingRecords
  <2>2. CASE NewOrder(o, r)
    BY <1>9, <2>1, <2>2, OrderKeeps DEF Insert
  <2> QED BY <1>1, <1>9, <2>2 DEF Insert, Goes
<1>10. CASE CheckFails(o)
  BY <1>1, <1>10 DEF CheckFails
<1>11. CASE CheckIn(o) \/ Ends(o)
  BY <1>4, <1>11 DEF CheckIn, Ends
<1> QED BY <1>2, <1>3, <1>5, <1>6, <1>7, <1>8, <1>9, <1>10, <1>11 DEF OrderNext

LEMMA ClosureStepKeeps ==
  ASSUME ClosuresInv, NEW b \in Closures, ClosureNext(b) PROVE ClosuresInv'
<1> USE DEF ClosuresInv
<1>0. closure[b] \in ClosureRecords
  BY DEF ClosureTypeOK
<1>1. CASE \E w \in Windows, notify \in BOOLEAN : CreateBlackout(b, w, notify)
  BY <1>1, CreationKeeps
<1>3. CASE ListAffected(b)
  <2> DEFINE r == [closure[b] EXCEPT !.at = "telling", !.toTell = Affected(closure[b].window)]
  <2>1. Affected(closure[b].window) \in SUBSET Customers
    BY AdmissionAssumption DEF Affected
  <2>2. /\ r \in ClosureRecords /\ r.at = "telling" /\ r.window = closure[b].window
        /\ r.gone = closure[b].gone /\ r.toTell = Affected(closure[b].window)
    BY <1>0, <2>1 DEF ClosureRecords
  <2> HIDE DEF r
  <2>3. NewClosure(b, r) /\ closure[b].at = "created" /\ UNCHANGED <<booking, flag>>
    BY <1>3 DEF ListAffected, r
  <2> QED BY <2>2, <2>3, ClosureKeeps
<1>4. ASSUME NEW c \in Customers, Tell(b, c) PROVE ClosuresInv'
  <2>1. PICK r \in {[closure[b] EXCEPT !.toTell = @ \ {c}, !.told = @ \cup {c}],
                    [closure[b] EXCEPT !.toTell = @ \ {c}, !.missed = @ \cup {c}]} :
          NewClosure(b, r)
    BY <1>4 DEF Tell
  <2>2. /\ r \in ClosureRecords /\ r.at = closure[b].at /\ r.window = closure[b].window
        /\ r.gone = closure[b].gone /\ Reached(closure[b]) \subseteq Reached(r)
    <3>1. CASE r = [closure[b] EXCEPT !.toTell = @ \ {c}, !.told = @ \cup {c}]
      BY <1>0, <3>1 DEF ClosureRecords, Reached
    <3>2. CASE r = [closure[b] EXCEPT !.toTell = @ \ {c}, !.missed = @ \cup {c}]
      BY <1>0, <3>2 DEF ClosureRecords, Reached
    <3> QED BY <2>1, <3>1, <3>2
  <2>3. closure[b].at = "telling" /\ UNCHANGED <<booking, flag>>
    BY <1>4 DEF Tell
  <2> QED BY <2>1, <2>2, <2>3, ClosureKeeps
<1>5. CASE Answer(b)
  <2> DEFINE r == [closure[b] EXCEPT !.at = "done"]
  <2>1. /\ r \in ClosureRecords /\ r.at = "done" /\ r.window = closure[b].window
        /\ r.gone = closure[b].gone /\ Reached(r) = Reached(closure[b]) /\ r.toTell = closure[b].toTell
    BY <1>0 DEF ClosureRecords, Reached
  <2> HIDE DEF r
  <2>2. NewClosure(b, r) /\ closure[b].at = "telling" /\ closure[b].toTell = {}
        /\ UNCHANGED <<booking, flag>>
    BY <1>5 DEF Answer, r
  <2> QED BY <2>1, <2>2, ClosureKeeps
<1>6. CASE ClosureStops(b)
  <2> DEFINE r == [closure[b] EXCEPT !.at = "stopped"]
  <2>1. /\ r \in ClosureRecords /\ r.at = "stopped" /\ r.window = closure[b].window
        /\ r.gone = closure[b].gone
    BY <1>0 DEF ClosureRecords, Reached
  <2> HIDE DEF r
  <2>2. NewClosure(b, r) /\ closure[b].at # "none" /\ UNCHANGED <<booking, flag>>
    BY <1>6 DEF ClosureStops, r
  <2> QED BY <2>1, <2>2, ClosureKeeps
<1>7. CASE deleteBlackout(b)
  <2> DEFINE r == [closure[b] EXCEPT !.gone = TRUE]
  <2>1. /\ r \in ClosureRecords /\ r.at = closure[b].at /\ r.window = closure[b].window
        /\ r.gone /\ Reached(r) = Reached(closure[b]) /\ r.toTell = closure[b].toTell
    BY <1>0 DEF ClosureRecords, Reached
  <2> HIDE DEF r
  <2>2. NewClosure(b, r) /\ closure[b].at # "none" /\ UNCHANGED <<booking, flag>>
    BY <1>7 DEF deleteBlackout, InForce, r
  <2>3. r.at = "done" => r.toTell = {}
    BY <2>1 DEF AllTold
  <2> QED BY <2>1, <2>2, <2>3, ClosureKeeps
<1> QED BY <1>1, <1>3, <1>4, <1>5, <1>6, <1>7 DEF ClosureNext

LEMMA ClosuresKept == ClosuresInv /\ [AdmissionNext]_admissionVars => ClosuresInv'
<1> SUFFICES ASSUME ClosuresInv, [AdmissionNext]_admissionVars PROVE ClosuresInv' OBVIOUS
<1>1. ASSUME UNCHANGED <<booking, closure>>, flag' \in BOOLEAN PROVE ClosuresInv'
  BY <1>1 DEF ClosuresInv, BookingTypeOK, ClosureTypeOK, InsertSafe, Listed, AllTold
<1>2. flag \in BOOLEAN
  BY DEF ClosuresInv, BookingTypeOK
<1>3. CASE SwitchNext \/ bulkUpdateSpaces \/ moderateListing
  BY <1>1, <1>2, <1>3 DEF SwitchNext, WriteFlag, Tick, UpsertFlag, bulkUpdateSpaces,
     moderateListing, SetOpen
<1>4. CASE UNCHANGED admissionVars
  BY <1>1, <1>2, <1>4 DEF admissionVars
<1> QED BY <1>3, <1>4, OrderStepKeeps, ClosureStepKeeps DEF AdmissionNext

LEMMA ClosuresInvHolds == AdmissionSpec => []ClosuresInv
BY AdmissionInitInv, ClosuresKept, PTL DEF AdmissionSpec

(* A customer whose booking meets a blackout has been told of it, unless   *)
(* the notification failed unseen, the order was past its look or the      *)
(* booking was moved into it                                               *)
(* (createBlackoutWithNotify against createBooking and rescheduleBooking). *)
THEOREM BlackoutsAreTold == AdmissionSpec => []BlackoutsTold
<1>1. ClosuresInv => BlackoutsTold
  BY DEF ClosuresInv, Listed, AllTold, BlackoutsTold, InForce, Reached
<1> QED BY ClosuresInvHolds, <1>1, PTL
-----------------------------------------------------------------------------
(* A cached answer that lets orders pass is at least as old as the switch, *)
(* and one that is on its way to the cache was read in the same tick.      *)
Entries == [on : BOOLEAN, age : 0..(TTL - 1)]
CacheTypeOK ==
  /\ cache \in [Instances -> [Customers -> Entries \cup {Missing}]]
  /\ late \in 0..TTL
Old(e) == e # Missing /\ flag /\ ~e.on => late <= e.age
CacheOld == \A i \in Instances, c \in Customers : Old(cache[i][c])
AnswersFresh ==
  \A o \in Bookings : booking[o].at = "answer" /\ flag /\ ~booking[o].seen => late = 0

SwitchInv == BookingTypeOK /\ CacheTypeOK /\ CacheOld /\ AnswersFresh

SwitchStep ==
  \A o \in Bookings :
    flag /\ booking[o].at \in {"switch", "answer"} /\ booking'[o].at = "blackouts" => late < TTL

LEMMA SwitchInitInv == AdmissionInit => SwitchInv
<1> SUFFICES ASSUME AdmissionInit PROVE SwitchInv OBVIOUS
<1>1. BookingTypeOK
  BY DEF AdmissionInit, BookingTypeOK, BookingRecords, NoOrder
<1>2. CacheTypeOK /\ CacheOld
  BY AdmissionAssumption DEF AdmissionInit, CacheTypeOK, CacheOld, Old
<1>3. AnswersFresh
  BY DEF AdmissionInit, AnswersFresh, NoOrder
<1> QED BY <1>1, <1>2, <1>3 DEF SwitchInv

(* Steps that neither ask nor answer for the flag.                         *)
LEMMA OthersPass ==
  ASSUME SwitchInv, UNCHANGED <<flag, cache, late>>, BookingTypeOK',
         \A o \in Bookings : booking'[o] = booking[o] \/ booking'[o].at # "answer"
           \/ (booking'[o].at = booking[o].at /\ booking'[o].seen = booking[o].seen),
         \A o \in Bookings : booking[o].at \in {"switch", "answer"} => booking'[o].at # "blackouts"
  PROVE  SwitchInv' /\ SwitchStep
<1>1. CacheTypeOK' /\ CacheOld'
  BY DEF SwitchInv, CacheTypeOK, CacheOld, Old
<1>2. AnswersFresh'
  BY DEF SwitchInv, AnswersFresh
<1> QED BY <1>1, <1>2 DEF SwitchInv, SwitchStep

LEMMA AskingPasses ==
  ASSUME SwitchInv, BookingTypeOK', NEW o \in Bookings, AskCache(o) \/ AskFlag(o) \/ KeepAnswer(o)
  PROVE  SwitchInv' /\ SwitchStep
<1> USE DEF SwitchInv
<1> DEFINE i == InstanceOf[o]
           c == CustomerOf[o]
<1>1. i \in Instances /\ c \in Customers
  BY AdmissionAssumption
<1>2. UNCHANGED <<flag, late>> /\ \A p \in Bookings \ {o} : booking'[p] = booking[p]
  BY DEF AskCache, AskFlag, KeepAnswer, Refuse, Goes, NewOrder, BookingTypeOK
<1>3. CASE AskCache(o)
  <2>1. booking'[o].at \in {"none", "blackouts"} /\ UNCHANGED cache
    BY <1>3 DEF AskCache, Refuse, Goes, NewOrder, NoOrder, BookingTypeOK, BookingRecords
  <2>2. booking'[o].at = "blackouts" => ~cache[i][c].on /\ cache[i][c] # Missing
    BY <1>3 DEF AskCache, Refuse, NewOrder, NoOrder, BookingTypeOK
  <2>3. flag /\ booking'[o].at = "blackouts" => late < TTL
    BY <1>1, <2>2, AdmissionAssumption DEF CacheTypeOK, CacheOld, Old, Entries
  <2>4. SwitchInv'
    BY <1>2, <2>1 DEF CacheTypeOK, CacheOld, Old, AnswersFresh
  <2> QED BY <1>2, <2>3, <2>4 DEF SwitchStep
<1>4. CASE AskFlag(o)
  <2>1. PICK f \in BOOLEAN : f = flag /\ booking' = [booking EXCEPT ![o] =
                               [booking[o] EXCEPT !.at = "answer", !.seen = f]]
    BY <1>4 DEF AskFlag, NewOrder, BookingTypeOK
  <2>2. booking'[o].at = "answer" /\ booking'[o].seen = f
    BY <2>1 DEF BookingTypeOK, BookingRecords
  <2>3. SwitchInv'
    BY <1>2, <1>4, <2>1, <2>2 DEF AskFlag, CacheTypeOK, CacheOld, Old, AnswersFresh
  <2> QED BY <1>2, <2>2, <2>3 DEF SwitchStep
<1>5. CASE KeepAnswer(o)
  <2>1. PICK f \in BOOLEAN : /\ f = booking[o].seen
          /\ cache' = [cache EXCEPT ![i][c] = [on |-> f, age |-> 0]]
    BY <1>5 DEF KeepAnswer, BookingTypeOK, BookingRecords
  <2>2. [on |-> f, age |-> 0] \in Entries
    BY AdmissionAssumption DEF Entries
  <2>3. CacheTypeOK'
    BY <1>1, <1>2, <2>1, <2>2 DEF CacheTypeOK
  <2>4. booking[o].at = "answer" /\ (flag /\ ~f => late = 0)
    BY <1>5, <2>1 DEF KeepAnswer, AnswersFresh
  <2>5. \A j \in Instances, d \in Customers :
          cache'[j][d] = IF j = i /\ d = c THEN [on |-> f, age |-> 0] ELSE cache[j][d]
    BY <1>1, <2>1 DEF CacheTypeOK
  <2>6. CacheOld'
    BY <1>2, <2>4, <2>5 DEF CacheOld, Old
  <2>7. booking'[o].at \in {"none", "blackouts"} /\ (booking'[o].at = "blackouts" => ~f)
    <3>1. CASE f
      BY <1>5, <2>1, <3>1 DEF KeepAnswer, Refuse, NewOrder, NoOrder, BookingTypeOK
    <3>2. CASE ~f
      <4>1. booking' = [booking EXCEPT ![o] =
                        [booking[o] EXCEPT !.at = "blackouts", !.seen = FALSE]]
        BY <1>5, <2>1, <3>2 DEF KeepAnswer, NewOrder
      <4>2. booking[o] \in BookingRecords
        BY DEF BookingTypeOK
      <4> QED BY <3>2, <4>1, <4>2 DEF BookingTypeOK, BookingRecords
    <3> QED BY <3>1, <3>2
  <2>8. AnswersFresh'
    BY <1>2, <2>7 DEF AnswersFresh
  <2> QED BY <1>2, <2>3, <2>4, <2>6, <2>7, <2>8, AdmissionAssumption DEF SwitchStep
<1> QED BY <1>3, <1>4, <1>5

LEMMA OrdersPass ==
  ASSUME SwitchInv, BookingTypeOK', NEW o \in Bookings, OrderNext(o)
  PROVE  SwitchInv' /\ SwitchStep
<1> USE DEF SwitchInv
<1>0. booking[o] \in BookingRecords /\ booking \in [Bookings -> BookingRecords]
  BY DEF BookingTypeOK
<1>1. CASE AskCache(o) \/ AskFlag(o) \/ KeepAnswer(o)
  BY <1>1, AskingPasses
<1>2. ASSUME NEW r, NewOrder(o, r), r.at # "answer",
             booking[o].at \in {"switch", "answer"} => r.at # "blackouts",
             UNCHANGED <<flag, cache, late>>
      PROVE  SwitchInv' /\ SwitchStep
  <2>1. booking'[o] = r /\ \A p \in Bookings \ {o} : booking'[p] = booking[p]
    BY <1>0, <1>2 DEF NewOrder
  <2>2. \A p \in Bookings : booking[p].at \in {"switch", "answer"} /\ booking'[p].at = "blackouts"
                            => booking[p].at # booking'[p].at /\ p = o
    BY <2>1
  <2> QED BY <1>2, <2>1, <2>2, OthersPass
<1>3. ASSUME Refuse(o), UNCHANGED <<flag, cache, late>> PROVE SwitchInv' /\ SwitchStep
  <2>1. NoOrder.at = "none"
    BY DEF NoOrder
  <2> QED BY <1>2, <1>3, <2>1 DEF Refuse
<1>4. ASSUME NEW step \in {"insert", "booked", "in-use", "ended"}, Goes(o, step),
             UNCHANGED <<flag, cache, late>>
      PROVE  SwitchInv' /\ SwitchStep
  <2>1. [booking[o] EXCEPT !.at = step].at = step
    BY <1>0 DEF BookingRecords
  <2> QED BY <1>2, <1>4, <2>1 DEF Goes
<1>5. ASSUME NEW w \in Windows, Create(o, w) PROVE SwitchInv' /\ SwitchStep
  <2>1. [NoOrder EXCEPT !.at = "switch", !.window = w].at = "switch"
    BY DEF NoOrder
  <2> QED BY <1>2, <1>5, <2>1 DEF Create
<1>6. ASSUME NEW w \in Windows, Reschedule(o, w) PROVE SwitchInv' /\ SwitchStep
  <2>1. [booking[o] EXCEPT !.window = w, !.moved = TRUE].at = "booked"
    BY <1>0, <1>6 DEF BookingRecords, Reschedule
  <2> QED BY <1>2, <1>6, <2>1 DEF Reschedule
<1>7. CASE ReadBlackouts(o)
  BY <1>3, <1>4, <1>7 DEF ReadBlackouts
<1>8. CASE Insert(o)
  BY <1>3, <1>4, <1>8 DEF Insert
<1>9. CASE CheckFails(o) \/ CheckIn(o) \/ Ends(o)
  BY <1>3, <1>4, <1>9 DEF CheckFails, CheckIn, Ends
<1> QED BY <1>1, <1>5, <1>6, <1>7, <1>8, <1>9 DEF OrderNext

(* A tick ages the switch and the answers alike.                           *)
LEMMA TickPasses ==
  ASSUME SwitchInv, Tick PROVE SwitchInv' /\ SwitchStep
<1> USE DEF SwitchInv
<1>1. UNCHANGED <<flag, booking>> /\ \A o \in Bookings : booking[o].at # "answer"
  BY DEF Tick
<1>2. \A i \in Instances, c \in Customers : cache'[i][c] = Aged(cache[i][c])
  BY DEF Tick
<1>3. ASSUME NEW e \in Entries \cup {Missing}, Aged(e) # Missing
      PROVE  /\ e # Missing /\ e.age + 1 < TTL
             /\ Aged(e) = [on |-> e.on, age |-> e.age + 1] /\ Aged(e) \in Entries
  <2>1. e # Missing /\ e \in Entries /\ e.age + 1 # TTL
    BY <1>3 DEF Aged
  <2>2. PICK f \in BOOLEAN, n \in 0..(TTL - 1) : e = [on |-> f, age |-> n]
    BY <2>1 DEF Entries
  <2>3. Aged(e) = [on |-> f, age |-> n + 1]
    BY <2>1, <2>2 DEF Aged
  <2>4. n + 1 \in 0..(TTL - 1)
    BY <2>1, <2>2, AdmissionAssumption
  <2> QED BY <2>1, <2>2, <2>3, <2>4, AdmissionAssumption DEF Entries
<1>4. late' \in 0..TTL /\ late' <= late + 1 /\ (late = TTL => late' = TTL)
  BY AdmissionAssumption DEF Tick, CacheTypeOK
<1>5. CacheTypeOK'
  <2>1. \A i \in Instances, c \in Customers : cache'[i][c] \in Entries \cup {Missing}
    BY <1>2, <1>3 DEF CacheTypeOK
  <2>2. cache' = [i \in Instances |-> [c \in Customers |-> cache'[i][c]]]
    BY DEF Tick
  <2> QED BY <1>4, <2>1, <2>2 DEF CacheTypeOK
<1>6. CacheOld'
  <2>1. SUFFICES ASSUME NEW i \in Instances, NEW c \in Customers,
                        Aged(cache[i][c]) # Missing, flag, ~Aged(cache[i][c]).on
                 PROVE  late' <= Aged(cache[i][c]).age
    BY <1>1, <1>2 DEF CacheOld, Old
  <2> DEFINE e == cache[i][c]
  <2>2. e \in Entries \cup {Missing}
    BY DEF CacheTypeOK
  <2>3. e # Missing /\ Aged(e).age = e.age + 1 /\ ~e.on /\ e.age \in Nat
    BY <1>3, <2>1, <2>2 DEF Entries
  <2>4. late <= e.age
    BY <2>1, <2>3 DEF CacheOld, Old
  <2> QED BY <1>4, <2>3, <2>4 DEF CacheTypeOK
<1>7. AnswersFresh' /\ BookingTypeOK' /\ SwitchStep
  BY <1>1 DEF AnswersFresh, BookingTypeOK, SwitchStep
<1> QED BY <1>5, <1>6, <1>7

LEMMA SwitchKept ==
  SwitchInv /\ ClosuresInv /\ [AdmissionNext]_admissionVars => SwitchInv' /\ SwitchStep
<1> SUFFICES ASSUME SwitchInv, ClosuresInv, [AdmissionNext]_admissionVars
             PROVE  SwitchInv' /\ SwitchStep
  OBVIOUS
<1>0. BookingTypeOK'
  BY ClosuresKept DEF ClosuresInv
<1>1. CASE WriteFlag
  BY <1>0, <1>1, AdmissionAssumption DEF WriteFlag, SwitchInv, CacheTypeOK, CacheOld, Old,
     AnswersFresh, SwitchStep, Entries
<1>2. ASSUME NEW i \in Instances, UpsertFlag(i) PROVE SwitchInv' /\ SwitchStep
  <2>1. \A j \in Instances, c \in Customers :
          cache'[j][c] = IF j = i THEN Missing ELSE cache[j][c]
    BY <1>2 DEF UpsertFlag, SwitchInv, CacheTypeOK
  <2>2. CacheTypeOK'
    BY <1>2 DEF UpsertFlag, SwitchInv, CacheTypeOK
  <2>3. CacheOld'
    BY <1>2, <2>1 DEF UpsertFlag, SwitchInv, CacheOld, Old
  <2> QED BY <1>0, <1>2, <2>2, <2>3 DEF UpsertFlag, SwitchInv, AnswersFresh, SwitchStep
<1>3. ASSUME NEW available, SetOpen(available) PROVE SwitchInv' /\ SwitchStep
  BY <1>0, <1>3, OthersPass DEF SetOpen
<1>4. ASSUME NEW b \in Closures, NEW w \in Windows, NEW notify \in BOOLEAN,
             CreateBlackout(b, w, notify)
      PROVE  SwitchInv' /\ SwitchStep
  <2>1. \A o \in Bookings : booking'[o] = booking[o]
          \/ (booking[o].at = "insert" /\ booking'[o] = [booking[o] EXCEPT !.passed = @ \cup {b}])
    BY <1>4 DEF CreateBlackout
  <2>2. \A o \in Bookings : [booking[o] EXCEPT !.passed = @ \cup {b}].at = booking[o].at
    BY DEF SwitchInv, BookingTypeOK, BookingRecords
  <2>3. \A o \in Bookings : booking'[o].at = booking[o].at
                            /\ (booking'[o] = booking[o] \/ booking[o].at = "insert")
    BY <2>1, <2>2
  <2> QED BY <1>0, <1>4, <2>3, OthersPass DEF CreateBlackout
<1>5. ASSUME UNCHANGED <<flag, cache, late, booking>> PROVE SwitchInv' /\ SwitchStep
  BY <1>0, <1>5, OthersPass
<1>6. ASSUME NEW b \in Closures, ClosureNext(b) PROVE SwitchInv' /\ SwitchStep
  BY <1>4, <1>5, <1>6 DEF ClosureNext, ListAffected, Answer, ClosureStops, deleteBlackout, Tell
<1>7. CASE UNCHANGED admissionVars
  BY <1>5, <1>7 DEF admissionVars
<1> QED
  BY <1>0, <1>1, <1>2, <1>3, <1>6, <1>7, OrdersPass, TickPasses
     DEF AdmissionNext, SwitchNext, bulkUpdateSpaces, moderateListing

(* Once the kill switch is written, orders get past it for less than the   *)
(* time that answers are cached, on every instance (featureFlagService).   *)
THEOREM SwitchIsBinding == AdmissionSpec => SwitchBinds
<1>1. SwitchInv /\ ClosuresInv /\ [AdmissionNext]_admissionVars => SwitchInv'
  BY SwitchKept
<1>2. SwitchInv /\ ClosuresInv /\ [AdmissionNext]_admissionVars =>
        [\A o \in Bookings :
           flag /\ booking[o].at \in {"switch", "answer"} /\ booking'[o].at = "blackouts"
           => late < TTL]_admissionVars
  BY SwitchKept DEF SwitchStep
<1> QED BY SwitchInitInv, ClosuresInvHolds, <1>1, <1>2, PTL DEF AdmissionSpec, SwitchBinds

-----------------------------------------------------------------------------
(***************************************************************************)
(* Coupons.  An order holds a use of the coupon, and one of its user, from *)
(* the write that counts it to the write that takes it back.               *)
(***************************************************************************)
HoldsUse == {"counted", "charged", "undo", "undo_both", "booked", "left_use", "left_both"}
HoldsUserUse == {"charged", "undo_both", "undo_user", "booked", "left_both", "left_user"}
OrderPlaces == {"new", "valid", "refused", "undo", "undo_user"}
                 \cup HoldsUse \cup HoldsUserUse
Counted == {o \in Orders : order[o] \in HoldsUse}
CountedOf(u) == {o \in Orders : UserOf[o] = u /\ order[o] \in HoldsUserUse}

CouponInv ==
  /\ order \in [Orders -> OrderPlaces] /\ usedBy \in [Users -> Nat]
  /\ used = Cardinality(Counted) /\ used <= UsageLimit
  /\ \A u \in Users : usedBy[u] = Cardinality(CountedOf(u)) /\ usedBy[u] <= PerUserLimit
  /\ redeemed = {o \in Orders : order[o] = "booked"}

(* One order that moves changes a count by one or not at all.              *)
LEMMA CountedStep ==
  ASSUME CouponInv, NEW o \in Orders, NEW at \in OrderPlaces, Moves(o, at)
  PROVE  /\ order' \in [Orders -> OrderPlaces]
         /\ \A q \in Orders : order'[q] = IF q = o THEN at ELSE order[q]
         /\ used \in Nat /\ order[o] \in HoldsUse => used >= 1
         /\ Cardinality(Counted)' =
              used + (IF at \in HoldsUse THEN 1 ELSE 0)
                   - (IF order[o] \in HoldsUse THEN 1 ELSE 0)
<1>1. /\ order' \in [Orders -> OrderPlaces] /\ used = Cardinality(Counted)
      /\ \A q \in Orders : order'[q] = IF q = o THEN at ELSE order[q]
  BY DEF CouponInv, Moves
<1> DEFINE R == Counted \ {o}
<1>2. IsFiniteSet(Counted) /\ IsFiniteSet(R)
  BY FS_Subset, OffersConstants DEF Counted
<1>3. Cardinality(R) \in Nat /\ Cardinality(Counted) \in Nat
  BY <1>2, FS_CardinalityType
<1>4. Cardinality(R \cup {o}) = Cardinality(R) + 1
  BY <1>2, FS_AddElement
<1>5. Counted = IF order[o] \in HoldsUse THEN R \cup {o} ELSE R
  BY DEF Counted
<1>6. Counted' = IF at \in HoldsUse THEN R \cup {o} ELSE R
  BY <1>1 DEF Counted
<1> HIDE DEF R, Counted, HoldsUse
<1> QED BY <1>1, <1>3, <1>4, <1>5, <1>6

LEMMA CountedOfStep ==
  ASSUME CouponInv, NEW o \in Orders, NEW at \in OrderPlaces, Moves(o, at),
         NEW u \in Users
  PROVE  /\ usedBy[u] \in Nat
         /\ u = UserOf[o] /\ order[o] \in HoldsUserUse => usedBy[u] >= 1
         /\ Cardinality(CountedOf(u))' =
              usedBy[u]
                + (IF u = UserOf[o] /\ at \in HoldsUserUse THEN 1 ELSE 0)
                - (IF u = UserOf[o] /\ order[o] \in HoldsUserUse THEN 1 ELSE 0)
<1>1. /\ usedBy[u] \in Nat /\ usedBy[u] = Cardinality(CountedOf(u))
      /\ \A q \in Orders : order'[q] = IF q = o THEN at ELSE order[q]
  BY DEF CouponInv, Moves
<1> DEFINE C == CountedOf(u)  R == C \ {o}
<1>2. IsFiniteSet(C) /\ IsFiniteSet(R)
  BY FS_Subset, OffersConstants DEF CountedOf
<1>3. Cardinality(R) \in Nat /\ Cardinality(C) \in Nat
  BY <1>2, FS_CardinalityType
<1>4. Cardinality(R \cup {o}) = Cardinality(R) + 1
  BY <1>2, FS_AddElement
<1>5. C = IF u = UserOf[o] /\ order[o] \in HoldsUserUse THEN R \cup {o} ELSE R
  BY DEF CountedOf
<1>6. CountedOf(u)' = IF u = UserOf[o] /\ at \in HoldsUserUse THEN R \cup {o} ELSE R
  BY <1>1 DEF CountedOf
<1>7. usedBy[u] = Cardinality(R)
                    + (IF u = UserOf[o] /\ order[o] \in HoldsUserUse THEN 1 ELSE 0)
  <2>1. usedBy[u] = Cardinality(C)
    BY <1>1
  <2> HIDE DEF R, C
  <2> QED BY <1>3, <1>4, <1>5, <2>1
<1>8. Cardinality(CountedOf(u)') = Cardinality(R)
                    + (IF u = UserOf[o] /\ at \in HoldsUserUse THEN 1 ELSE 0)
  <2> HIDE DEF R
  <2> QED BY <1>3, <1>4, <1>6
<1> HIDE DEF R
<1> QED BY <1>1, <1>3, <1>7, <1>8

LEMMA CouponStep ==
  ASSUME CouponInv, NEW o \in Orders, OrderStep(o)
  PROVE  CouponInv'
<1> DEFINE u == UserOf[o]
<1>0. /\ u \in Users /\ order \in [Orders -> OrderPlaces] /\ order[o] \in OrderPlaces
      /\ usedBy \in [Users -> Nat] /\ usedBy[u] \in Nat
      /\ UsageLimit \in Nat /\ PerUserLimit \in Nat /\ used <= UsageLimit
      /\ used \in Nat /\ usedBy[u] <= PerUserLimit
  <2>1. IsFiniteSet(Counted)
    BY FS_Subset, OffersConstants DEF Counted
  <2> QED BY <2>1, FS_CardinalityType, OffersConstants DEF CouponInv
(* What a step must show of the counts. *)
<1>1. ASSUME NEW at \in OrderPlaces, Moves(o, at),
             used' = used + (IF at \in HoldsUse THEN 1 ELSE 0)
                          - (IF order[o] \in HoldsUse THEN 1 ELSE 0),
             used' <= UsageLimit,
             LET n == usedBy[u] + (IF at \in HoldsUserUse THEN 1 ELSE 0)
                                - (IF order[o] \in HoldsUserUse THEN 1 ELSE 0)
             IN n <= PerUserLimit /\ usedBy' = [usedBy EXCEPT ![u] = n],
             redeemed' = IF at = "booked" THEN redeemed \cup {o} ELSE redeemed,
             order[o] # "booked"
      PROVE  CouponInv'
  <2>1. /\ order' \in [Orders -> OrderPlaces]
        /\ \A q \in Orders : order'[q] = IF q = o THEN at ELSE order[q]
        /\ used' = Cardinality(Counted)'
    BY <1>1, CountedStep
  <2>2. ASSUME NEW v \in Users
        PROVE  /\ usedBy'[v] \in Nat /\ usedBy'[v] = Cardinality(CountedOf(v))'
               /\ usedBy'[v] <= PerUserLimit
    <3>1. /\ usedBy[v] \in Nat
          /\ v = u /\ order[o] \in HoldsUserUse => usedBy[v] >= 1
          /\ Cardinality(CountedOf(v))' =
               usedBy[v] + (IF v = u /\ at \in HoldsUserUse THEN 1 ELSE 0)
                         - (IF v = u /\ order[o] \in HoldsUserUse THEN 1 ELSE 0)
      BY <1>1, CountedOfStep
    <3>2. usedBy[v] <= PerUserLimit
      BY DEF CouponInv
    <3> HIDE DEF u
    <3> QED BY <1>0, <1>1, <3>1, <3>2
  <2>3. usedBy' = [v \in Users |-> usedBy'[v]]
    BY <1>0, <1>1
  <2>4. redeemed' = {q \in Orders : order'[q] = "booked"}
    BY <1>1, <2>1 DEF CouponInv
  <2> QED BY <1>1, <2>1, <2>2, <2>3, <2>4 DEF CouponInv
<1> DEFINE same == [usedBy EXCEPT ![u] = usedBy[u]]
<1>2. usedBy = [usedBy EXCEPT ![u] = usedBy[u] + 0 - 0]
  BY <1>0
<1> USE DEF HoldsUse, HoldsUserUse, OrderPlaces
<1>3. CASE ValidateCoupon(o)
  <2>1. PICK at \in {"valid", "refused"} : Moves(o, at)
    BY <1>3 DEF ValidateCoupon
  <2> HIDE DEF u
  <2> QED BY <1>0, <1>1, <1>2, <1>3, <2>1 DEF ValidateCoupon
<1>4. CASE RedeemCommit(o)
  <2>1. CASE offered /\ BelowLimits(o)
    <3>1. /\ Moves(o, "booked") /\ used < UsageLimit /\ used' = used + 1
          /\ usedBy[u] < PerUserLimit
          /\ usedBy' = [usedBy EXCEPT ![u] = usedBy[u] + 1]
          /\ redeemed' = redeemed \cup {o} /\ order[o] = "valid"
      BY <1>4, <2>1 DEF RedeemCommit, BelowLimits
    <3> HIDE DEF u
    <3> QED BY <1>0, <1>1, <3>1
  <2>2. CASE ~(offered /\ BelowLimits(o))
    <3>1. /\ Moves(o, "refused") /\ UNCHANGED <<used, usedBy, redeemed>>
          /\ order[o] = "valid"
      BY <1>4, <2>2 DEF RedeemCommit
    <3> HIDE DEF u
    <3> QED BY <1>0, <1>1, <1>2, <3>1
  <2> QED BY <2>1, <2>2
<1>5. CASE CountUse(o)
  <2>1. /\ order[o] = "valid" /\ UNCHANGED <<usedBy, redeemed>>
        /\ \/ used < UsageLimit /\ used' = used + 1 /\ Moves(o, "counted")
           \/ used' = used /\ Moves(o, "refused")
    BY <1>5 DEF CountUse
  <2> HIDE DEF u
  <2> QED BY <1>0, <1>1, <1>2, <2>1
<1>6. CASE CountUserUse(o)
  <2>1. /\ order[o] = "counted" /\ UNCHANGED <<used, redeemed>>
        /\ \/ /\ usedBy[u] < PerUserLimit
              /\ usedBy' = [usedBy EXCEPT ![u] = usedBy[u] + 1] /\ Moves(o, "charged")
           \/ usedBy' = usedBy /\ Moves(o, "undo")
    BY <1>6 DEF CountUserUse
  <2> HIDE DEF u
  <2> QED BY <1>0, <1>1, <1>2, <2>1
<1>7. CASE Redeem(o)
  <2>1. /\ order[o] = "charged" /\ UNCHANGED <<used, usedBy>>
        /\ \/ redeemed' = redeemed \cup {o} /\ Moves(o, "booked")
           \/ redeemed' = redeemed /\ Moves(o, "undo_both")
    BY <1>7 DEF Redeem
  <2>2. usedBy = [usedBy EXCEPT ![u] = usedBy[u] + 1 - 1]
    BY <1>0
  <2> HIDE DEF u
  <2> QED BY <1>0, <1>1, <2>1, <2>2
<1>8. CASE UndoUse(o)
  <2>1. CASE order[o] = "undo"
    <3>1. /\ UNCHANGED <<usedBy, redeemed>> /\ used' = used - 1 /\ Moves(o, "refused")
      BY <1>8, <2>1 DEF UndoUse
    <3> HIDE DEF u
    <3> QED BY <1>0, <1>1, <1>2, <2>1, <3>1
  <2>2. CASE order[o] = "undo_both"
    <3>1. /\ UNCHANGED <<usedBy, redeemed>> /\ used' = used - 1 /\ Moves(o, "undo_user")
      BY <1>8, <2>2 DEF UndoUse
    <3>2. usedBy = [usedBy EXCEPT ![u] = usedBy[u] + 1 - 1]
      BY <1>0
    <3> HIDE DEF u
    <3> QED BY <1>0, <1>1, <2>2, <3>1, <3>2
  <2> QED BY <1>8, <2>1, <2>2 DEF UndoUse
<1>9. CASE UndoUserUse(o)
  <2>1. /\ order[o] = "undo_user" /\ UNCHANGED <<used, redeemed>> /\ Moves(o, "refused")
        /\ usedBy' = [usedBy EXCEPT ![u] = IF @ >= 1 THEN @ - 1 ELSE @]
    BY <1>9 DEF UndoUserUse
  <2>2. usedBy[u] >= 1
    BY <1>0, <2>1, CountedOfStep
  <2>3. usedBy' = [usedBy EXCEPT ![u] = usedBy[u] + 0 - 1]
    <3>1. (IF usedBy[u] >= 1 THEN usedBy[u] - 1 ELSE usedBy[u]) = usedBy[u] + 0 - 1
      BY <1>0, <2>2
    <3> HIDE DEF u
    <3> QED BY <2>1, <3>1
  <2>4. /\ "refused" \notin HoldsUse /\ "refused" \notin HoldsUserUse
        /\ order[o] \notin HoldsUse /\ order[o] \in HoldsUserUse
        /\ order[o] # "booked" /\ "refused" \in OrderPlaces
    BY <2>1
  <2>5. used' = used + 0 - 0 /\ used' <= UsageLimit /\ usedBy[u] + 0 - 1 <= PerUserLimit
    BY <1>0, <2>1
  <2> HIDE DEF u, HoldsUse, HoldsUserUse, OrderPlaces
  <2> QED BY <1>1, <2>1, <2>3, <2>4, <2>5
<1>10. CASE RedeemBreaks(o)
  <2>1. UNCHANGED <<used, usedBy, redeemed>>
    BY <1>10 DEF RedeemBreaks
  <2>2. /\ usedBy = [usedBy EXCEPT ![u] = usedBy[u] + 1 - 1]
        /\ usedBy[u] + 0 - 0 <= PerUserLimit /\ usedBy[u] + 1 - 1 <= PerUserLimit
        /\ used = used + 1 - 1 /\ used = used + 0 - 0
    BY <1>0
  <2>3. CASE order[o] \in {"counted", "undo"} /\ Moves(o, "left_use")
    <3> HIDE DEF u
    <3> QED BY <1>0, <1>1, <1>2, <2>1, <2>2, <2>3
  <2>4. CASE order[o] \in {"charged", "undo_both"} /\ Moves(o, "left_both")
    <3> HIDE DEF u
    <3> QED BY <1>0, <1>1, <2>1, <2>2, <2>4
  <2>5. CASE order[o] = "undo_user" /\ Moves(o, "left_user")
    <3> HIDE DEF u
    <3> QED BY <1>0, <1>1, <2>1, <2>2, <2>5
  <2> QED BY <1>10, <2>3, <2>4, <2>5 DEF RedeemBreaks
<1> QED BY <1>3, <1>4, <1>5, <1>6, <1>7, <1>8, <1>9, <1>10 DEF OrderStep

(* A coupon is never used beyond its limit, nor by a user beyond the       *)
(* user's, whether a redemption is one transaction or three writes undone  *)
(* by hand; and when none is under way the counts of the coupon and of     *)
(* every user are the redemptions and what calls that broke off have left. *)
THEOREM CouponsAreCounted == OffersSpec => []CouponCounts
<1>1. OffersInit => CouponInv
  <2> SUFFICES ASSUME OffersInit PROVE CouponInv
    OBVIOUS
  <2>1. Counted = {} /\ \A u \in Users : CountedOf(u) = {}
    BY DEF OffersInit, Counted, CountedOf, HoldsUse, HoldsUserUse
  <2>2. order \in [Orders -> OrderPlaces] /\ redeemed = {o \in Orders : order[o] = "booked"}
    BY DEF OffersInit, OrderPlaces
  <2> QED BY <2>1, <2>2, FS_EmptySet, OffersConstants DEF OffersInit, CouponInv
<1>2. CouponInv /\ [OffersNext]_offerVars => CouponInv'
  <2> SUFFICES ASSUME CouponInv, [OffersNext]_offerVars PROVE CouponInv'
    OBVIOUS
  <2>1. ASSUME UNCHANGED <<used, usedBy, redeemed, order>> PROVE CouponInv'
    BY <2>1 DEF CouponInv, Counted, CountedOf
  <2>2. ASSUME NEW c \in Calls, CreditStep(c) PROVE CouponInv'
    BY <2>1, <2>2
       DEF CreditStep, SubscribeCheck, SubscribeCreate, SubscribeGrant,
           ConsumeFind, ConsumePost, ExpireFind, ExpirePost, ExpireMark,
           CallDies, couponVars
  <2>3. ASSUME NEW n \in 1..MaxGrants, NEW m \in Plans, GrantCredits(n, m)
        PROVE  CouponInv'
    BY <2>1, <2>3 DEF GrantCredits, couponVars
  <2>4. CASE EndOffer
    BY <2>1, <2>4 DEF EndOffer
  <2>5. CASE UNCHANGED offerVars
    BY <2>1, <2>5 DEF offerVars, couponVars
  <2> QED BY <2>2, <2>3, <2>4, <2>5, CouponStep DEF OffersNext
<1>3. CouponInv => CouponCounts
  <2> SUFFICES ASSUME CouponInv, Settled
               PROVE  /\ Counted = With({"booked", "left_use", "left_both"})
                      /\ \A u \in Users : CountedOf(u) =
                           {o \in With({"booked", "left_both", "left_user"}) : UserOf[o] = u}
    BY DEF CouponInv, CouponCounts, With
  <2> QED BY DEF CouponInv, Settled, Counted, CountedOf, HoldsUse, HoldsUserUse, With
<1> QED BY <1>1, <1>2, <1>3, PTL DEF OffersSpec
-----------------------------------------------------------------------------
(***************************************************************************)
(* Credits.  The balance of a membership is a sum over its ledger.         *)
(***************************************************************************)
PlanRecords == [status : {"none", "active", "expired"}, credits : Nat]
EntryOf(m) == {x \in ledger : x.plan = m}
Hours(x) == x.sign * x.hours

RequestPlaces == {"idle", "subscribe", "grant", "expire", "mark"} \cup Trips

LedgerInv ==
  /\ IsFiniteSet(ledger)
  /\ \A x \in ledger : x.sign \in {1, -1} /\ x.hours \in Nat
CreditInv ==
  /\ plan \in [Plans -> PlanRecords] /\ LedgerInv
  /\ request \in [Calls -> [at : RequestPlaces, plan : Plans \cup {Void}, hours : Nat]]
  /\ \A c \in Calls : request[c].at \notin {"idle", "subscribe"} => request[c].plan \in Plans
  /\ \A m \in Plans : replicated => plan[m].credits = Balance(m)

LEMMA BalanceIsSum ==
  ASSUME NEW m
  PROVE  Balance(m) = Sum([x \in EntryOf(m) |-> Hours(x)], EntryOf(m))
<1> QED BY DEF Balance, EntryOf, Hours, Sum, SumFunction

(* A posting adds to the balance of its membership and to no other.        *)
LEMMA PostedStep ==
  ASSUME CreditInv, NEW key, NEW m \in Plans, NEW sign \in {1, -1}, NEW h \in Nat,
         Posted(Entry(key, m, sign, h))
  PROVE  /\ plan' \in [Plans -> PlanRecords] /\ LedgerInv'
         /\ \A n \in Plans : replicated => plan'[n].credits = Balance(n)'
<1> DEFINE e == Entry(key, m, sign, h)
<1>1. e.key = key /\ e.plan = m /\ e.sign = sign /\ e.hours = h
  BY DEF Entry
<1>2. CASE Keyed(key)
  <2>1. plan' = plan /\ ledger' = ledger
    BY <1>1, <1>2 DEF Posted
  <2> QED BY <2>1 DEF CreditInv, LedgerInv, Balance
<1>3. CASE ~Keyed(key)
  <2>1. /\ sign = 1 \/ plan[m].credits >= h
        /\ ledger' = ledger \cup {e}
        /\ plan' = [plan EXCEPT ![m].credits = @ + sign * h]
    BY <1>1, <1>3 DEF Posted
  <2>2. e \notin ledger
    BY <1>1, <1>3 DEF Keyed
  <2> HIDE DEF e
  <2>3. /\ plan[m] \in PlanRecords /\ plan[m].credits \in Nat
        /\ plan[m].credits + sign * h \in Nat
    <3>1. plan[m] \in PlanRecords
      BY DEF CreditInv
    <3>2. plan[m].credits \in Nat
      BY <3>1 DEF PlanRecords
    <3> QED BY <2>1, <3>1, <3>2
  <2>4. plan' \in [Plans -> PlanRecords]
    BY <2>1, <2>3 DEF CreditInv, PlanRecords
  <2>5. LedgerInv'
    <3>1. IsFiniteSet(ledger')
      BY <2>1, FS_AddElement DEF CreditInv, LedgerInv
    <3> QED BY <1>1, <2>1, <3>1 DEF CreditInv, LedgerInv
  <2>6. ASSUME NEW n \in Plans, n # m, replicated
        PROVE  plan'[n].credits = Balance(n)'
    <3>1. EntryOf(n)' = EntryOf(n)
      BY <1>1, <2>1, <2>6 DEF EntryOf
    <3>2. Balance(n)' = Balance(n)
      BY <3>1 DEF Balance, EntryOf
    <3> QED BY <2>1, <2>6, <3>2 DEF CreditInv
  <2>7. ASSUME replicated PROVE plan'[m].credits = Balance(m)'
    <3> DEFINE S == EntryOf(m)  T == EntryOf(m)'
               f == [x \in S |-> Hours(x)]  g == [x \in T |-> Hours(x)]
    <3>1. T = S \cup {e} /\ e \notin S
      BY <1>1, <2>1, <2>2 DEF EntryOf
    <3>2. IsFiniteSet(S) /\ IsFiniteSet(T)
      BY <2>5, FS_Subset DEF CreditInv, LedgerInv, EntryOf
    <3>3. \A x \in T : g[x] \in Int
      BY <2>5 DEF LedgerInv, EntryOf, Hours
    <3>4. \A x \in S : f[x] = g[x]
      BY <3>1
    <3>5. g[e] = sign * h
      BY <1>1, <3>1 DEF Hours
    <3>6. Balance(m) = Sum(f, S) /\ Balance(m)' = Sum(g, T)
      BY DEF Balance, EntryOf, Hours, Sum, SumFunction
    <3> HIDE DEF S, T, f, g
    <3>7. Sum(g, T) = g[e] + Sum(g, S)
      <4>1. e \in T /\ T \ {e} = S
        BY <3>1
      <4> QED BY <3>2, <3>3, <4>1, SumTake
    <3>8. Sum(g, S) = Sum(f, S)
      BY <3>2, <3>4, SumAgree
    <3>9. plan[m].credits = Balance(m)
      BY <2>7 DEF CreditInv
    <3>10. plan'[m].credits = plan[m].credits + sign * h
      BY <2>1, <2>3 DEF CreditInv, PlanRecords
    <3>11. sign * h \in Int
      OBVIOUS
    <3> QED BY <2>3, <3>5, <3>6, <3>7, <3>8, <3>9, <3>10, <3>11
  <2> QED BY <2>4, <2>5, <2>6, <2>7
<1> QED BY <1>2, <1>3

(* What a request or a status that changes leaves of the credits.          *)
LEMMA CreditsKept ==
  ASSUME CreditInv, UNCHANGED ledger, plan' \in [Plans -> PlanRecords],
         \A m \in Plans : plan'[m].credits = plan[m].credits
  PROVE  LedgerInv' /\ \A m \in Plans : replicated => plan'[m].credits = Balance(m)'
<1> QED BY DEF CreditInv, LedgerInv, Balance

(* An entry that is alone adds to the ledger what the credits do not show. *)
LEMMA AloneStep ==
  ASSUME CreditInv, NEW key, NEW m \in Plans, NEW sign \in {1, -1}, NEW h \in Nat,
         PostedAlone(Entry(key, m, sign, h))
  PROVE  /\ plan' \in [Plans -> PlanRecords] /\ LedgerInv'
         /\ \A n \in Plans : replicated => plan'[n].credits = Balance(n)'
<1> DEFINE e == Entry(key, m, sign, h)
<1>1. e.sign = sign /\ e.hours = h
  BY DEF Entry
<1>2. ledger' = ledger \cup {e} /\ plan' = plan /\ ~replicated
  BY DEF PostedAlone
<1> HIDE DEF e
<1>3. IsFiniteSet(ledger')
  BY <1>2, FS_AddElement DEF CreditInv, LedgerInv
<1> QED BY <1>1, <1>2, <1>3 DEF CreditInv, LedgerInv

RequestInv ==
  /\ request \in [Calls -> [at : RequestPlaces, plan : Plans \cup {Void}, hours : Nat]]
  /\ \A c \in Calls : request[c].at \notin {"idle", "subscribe"} => request[c].plan \in Plans

LEMMA RequestMoves ==
  ASSUME CreditInv, NEW c \in Calls, NEW r, request' = [request EXCEPT ![c] = r],
         r \in [at : RequestPlaces, plan : Plans \cup {Void}, hours : Nat],
         r.at \notin {"idle", "subscribe"} => r.plan \in Plans
  PROVE  RequestInv'
<1> QED BY DEF CreditInv, RequestInv

LEMMA CreditStepKeeps ==
  ASSUME CreditInv, NEW c \in Calls, CreditStep(c)
  PROVE  CreditInv'
<1> DEFINE Kept == /\ plan' \in [Plans -> PlanRecords] /\ LedgerInv'
                   /\ \A m \in Plans : replicated => plan'[m].credits = Balance(m)'
<1>14. replicated' = replicated
  BY DEF CreditStep, SubscribeCheck, SubscribeCreate, SubscribeGrant, ConsumeFind, ConsumePost,
     ExpireFind, ExpirePost, ExpireMark, CallDies, couponVars
<1>0. SUFFICES Kept /\ RequestInv'
  BY <1>14 DEF CreditInv, RequestInv
<1>1. /\ request[c] \in [at : RequestPlaces, plan : Plans \cup {Void}, hours : Nat]
      /\ request[c].at \notin {"idle", "subscribe"} => request[c].plan \in Plans
      /\ Trips \cap {"idle", "subscribe", "grant", "expire", "mark"} = {}
      /\ plan \in [Plans -> PlanRecords]
  BY OffersConstants DEF CreditInv
<1>2. ASSUME Answered(c) PROVE RequestInv'
  BY <1>2, RequestMoves DEF Answered, NoRequest, RequestPlaces
<1>3. ASSUME UNCHANGED <<plan, ledger>> PROVE Kept
  BY <1>1, <1>3, CreditsKept
<1>4. ASSUME NEW m \in Plans, NEW s \in {"active", "expired"}, UNCHANGED ledger,
             plan' = [plan EXCEPT ![m].status = s]
      PROVE  Kept
  <2>1. /\ plan' \in [Plans -> PlanRecords]
        /\ \A n \in Plans : plan'[n].credits = plan[n].credits
    BY <1>1, <1>4 DEF PlanRecords
  <2> QED BY <1>4, <2>1, CreditsKept
<1>5. CASE SubscribeCheck(c)
  <2>1. request' = [request EXCEPT ![c] = [request[c] EXCEPT !.at = "subscribe"]]
    BY <1>5 DEF SubscribeCheck
  <2>2. [request[c] EXCEPT !.at = "subscribe"]
          \in [at : RequestPlaces, plan : Plans \cup {Void}, hours : Nat]
    BY <1>1 DEF RequestPlaces
  <2>3. [request[c] EXCEPT !.at = "subscribe"].at = "subscribe"
    BY <1>1
  <2>4. RequestInv'
    BY <2>1, <2>2, <2>3, RequestMoves
  <2> QED BY <1>3, <1>5, <2>4 DEF SubscribeCheck
<1>6. ASSUME NEW m \in Plans, SubscribeCreate(c, m) PROVE Kept /\ RequestInv'
  <2>1. RequestInv'
    BY <1>6, RequestMoves DEF SubscribeCreate, RequestPlaces
  <2> QED BY <1>4, <1>6, <2>1 DEF SubscribeCreate
<1>7. CASE SubscribeGrant(c)
  <2>1. request[c].plan \in Plans /\ IncludedHours \in Nat
    BY <1>1, <1>7, OffersConstants DEF SubscribeGrant
  <2>2. Kept
    BY <1>7, <2>1, PostedStep, AloneStep DEF SubscribeGrant
  <2> QED BY <1>2, <1>7, <2>2 DEF SubscribeGrant
<1>8. ASSUME NEW m \in Plans, NEW t \in Trips, ConsumeFind(c, m, t)
      PROVE  Kept /\ RequestInv'
  <2>1. RequestInv'
    BY <1>1, <1>8, RequestMoves DEF ConsumeFind, RequestPlaces
  <2> QED BY <1>3, <1>8, <2>1 DEF ConsumeFind
<1>9. ASSUME NEW t \in Trips, ConsumePost(c, t) PROVE Kept /\ RequestInv'
  <2>1. request[c].plan \in Plans
    BY <1>1, <1>9 DEF ConsumePost
  <2>2. Kept
    BY <1>3, <1>9, <2>1, PostedStep, AloneStep DEF ConsumePost
  <2> QED BY <1>2, <1>9, <2>2 DEF ConsumePost
<1>10. ASSUME NEW m \in Plans, ExpireFind(c, m) PROVE Kept /\ RequestInv'
  <2>1. CASE plan[m].credits = 0
    <3>1. plan' = [plan EXCEPT ![m].status = "expired"] /\ UNCHANGED <<ledger, request>>
      BY <1>10, <2>1 DEF ExpireFind
    <3>2. RequestInv'
      BY <3>1 DEF CreditInv, RequestInv
    <3> QED BY <1>4, <3>1, <3>2
  <2>2. CASE plan[m].credits # 0
    <3>1. /\ UNCHANGED <<plan, ledger>> /\ plan[m].credits \in Nat
          /\ request' = [request EXCEPT ![c] =
               [at |-> "expire", plan |-> m, hours |-> plan[m].credits]]
      BY <1>1, <1>10, <2>2 DEF ExpireFind, PlanRecords
    <3>2. RequestInv'
      BY <3>1, RequestMoves DEF RequestPlaces
    <3> QED BY <1>3, <3>1, <3>2
  <2> QED BY <2>1, <2>2
<1>11. CASE ExpirePost(c)
  <2>1. request[c].plan \in Plans /\ request[c].hours \in Nat
    BY <1>1, <1>11 DEF ExpirePost
  <2>2. CASE UNCHANGED <<plan, ledger>> /\ Answered(c)
    BY <1>2, <1>3, <2>2
  <2>4. CASE /\ PostedAlone(Entry(<<"expire", request[c].plan>>, request[c].plan, -1,
                                  request[c].hours))
             /\ Answered(c)
    BY <1>2, <2>1, <2>4, AloneStep
  <2>3. CASE /\ Posted(Entry(<<"expire", request[c].plan>>, request[c].plan, -1,
                             request[c].hours))
             /\ request' = [request EXCEPT ![c].at = "mark"]
    <3>1. Kept
      BY <2>1, <2>3, PostedStep
    <3>2. /\ [request[c] EXCEPT !.at = "mark"]
               \in [at : RequestPlaces, plan : Plans \cup {Void}, hours : Nat]
          /\ [request[c] EXCEPT !.at = "mark"].plan = request[c].plan
          /\ request' = [request EXCEPT ![c] = [request[c] EXCEPT !.at = "mark"]]
      BY <1>1, <2>3 DEF RequestPlaces
    <3>3. RequestInv'
      BY <2>1, <3>2, RequestMoves
    <3> QED BY <3>1, <3>3
  <2> QED BY <1>11, <2>2, <2>3, <2>4 DEF ExpirePost
<1>12. CASE ExpireMark(c)
  <2>1. request[c].plan \in Plans
    BY <1>1, <1>12 DEF ExpireMark
  <2>2. Kept
    BY <1>4, <1>12, <2>1 DEF ExpireMark
  <2> QED BY <1>2, <1>12, <2>2 DEF ExpireMark
<1>13. CASE CallDies(c)
  BY <1>2, <1>3, <1>13 DEF CallDies
<1> QED BY <1>5, <1>6, <1>7, <1>8, <1>9, <1>10, <1>11, <1>12, <1>13 DEF CreditStep

(* The credits of a membership are never negative and, where postings are  *)
(* transactions, what its ledger adds up to, whatever is retried, dies     *)
(* half-way or expires meanwhile.                                          *)
THEOREM CreditsAreBalanced == OffersSpec => []CreditsBalance
<1>1. OffersInit => CreditInv
  <2> SUFFICES ASSUME OffersInit PROVE CreditInv
    OBVIOUS
  <2>1. /\ IsFiniteSet(ledger) /\ LedgerInv /\ plan \in [Plans -> PlanRecords]
        /\ \A m \in Plans : plan[m].credits = 0
    BY FS_EmptySet DEF OffersInit, LedgerInv, PlanRecords, NoPlan
  <2>2. RequestInv
    BY DEF OffersInit, RequestInv, NoRequest, RequestPlaces
  <2>3. ASSUME NEW m \in Plans PROVE Balance(m) = 0
    <3>1. EntryOf(m) = {}
      BY DEF OffersInit, EntryOf
    <3> QED BY <3>1, BalanceIsSum, SumEmpty
  <2> QED BY <2>1, <2>2, <2>3 DEF CreditInv, RequestInv
<1>2. CreditInv /\ [OffersNext]_offerVars => CreditInv'
  <2> SUFFICES ASSUME CreditInv, [OffersNext]_offerVars PROVE CreditInv'
    OBVIOUS
  <2>0. replicated' = replicated
    BY DEF OffersNext, OrderStep, ValidateCoupon, RedeemCommit, CountUse, CountUserUse, Redeem,
       UndoUse, UndoUserUse, RedeemBreaks, EndOffer, CreditStep, SubscribeCheck, SubscribeCreate,
       SubscribeGrant, ConsumeFind, ConsumePost, ExpireFind, ExpirePost, ExpireMark, CallDies,
       GrantCredits, couponVars, offerVars
  <2>1. ASSUME UNCHANGED <<plan, ledger, request>> PROVE CreditInv'
    BY <2>0, <2>1 DEF CreditInv, LedgerInv, Balance
  <2>2. ASSUME NEW n \in 1..MaxGrants, NEW m \in Plans, GrantCredits(n, m)
        PROVE  CreditInv'
    <3>1. /\ plan' \in [Plans -> PlanRecords] /\ LedgerInv'
          /\ \A k \in Plans : replicated => plan'[k].credits = Balance(k)'
      BY <2>2, PostedStep, AloneStep DEF GrantCredits
    <3>2. request' = request
      BY <2>2 DEF GrantCredits
    <3> QED BY <2>0, <3>1, <3>2 DEF CreditInv
  <2>3. ASSUME NEW o \in Orders, OrderStep(o) PROVE CreditInv'
    BY <2>1, <2>3
       DEF OrderStep, ValidateCoupon, RedeemCommit, CountUse, CountUserUse,
           Redeem, UndoUse, UndoUserUse, RedeemBreaks, creditVars
  <2>4. CASE EndOffer \/ UNCHANGED offerVars
    BY <2>1, <2>4 DEF EndOffer, offerVars, creditVars
  <2> QED BY <2>2, <2>3, <2>4, CreditStepKeeps DEF OffersNext
<1>3. CreditInv => CreditsBalance
  BY DEF CreditInv, CreditsBalance, PlanRecords
<1> QED BY <1>1, <1>2, <1>3, PTL DEF OffersSpec
-----------------------------------------------------------------------------
(***************************************************************************)
(* A series.  A request that attempts an occurrence has claimed it, and    *)
(* nobody else claims it before it gives it up; only a request that died   *)
(* keeps it for ever.                                                      *)
(***************************************************************************)
Attempts(w) == maker[w].at \in {"book", "tag", "mark", "fail"}
KidIds == Kids \cup {Nought}
MakerPlaces == {"new", "done", "plan", "load", "loop", "book", "tag", "mark", "fail"}
MakerRecords == [at : MakerPlaces, todo : SUBSET Dates, date : Dates \cup {Nought},
                 kid : KidIds, created : SUBSET KidIds, failed : BOOLEAN,
                 ids : SUBSET KidIds, version : Nat]
KidRecords == [status : {"none", "live", "used", "cancelled", "expired"},
               date : Dates \cup {Nought}, tagged : BOOLEAN]
RowStatuses == {"none", "pending", "processing", "created", "failed_retryable",
                "failed_terminal"}
RowRecords == [status : RowStatuses, by : Makers \cup {Nought}, takes : Nat,
               kid : KidIds]
SeriesStatuses == {"none", "creating", "active", "failed", "partial", "cancelled"}
SeriesRecords == [status : SeriesStatuses, ids : SUBSET KidIds, version : Nat]
CancellerRecords == [at : {"new", "loop", "save", "done"}, todo : SUBSET KidIds,
                     kid : KidIds, status : SeriesStatuses]

(* The booking k is of the occurrence d, and carries the tag. *)
TaggedFor(k, d) == k \in Kids /\ kid[k].date = d /\ kid[k].tagged

SeriesTyped ==
  /\ maker \in [Makers -> MakerRecords] /\ kid \in [Kids -> KidRecords]
  /\ occ \in [Dates -> RowRecords] /\ series \in SeriesRecords
  /\ canceller \in [Cancellers -> CancellerRecords]
  /\ \A c \in Cancellers : canceller[c].at = "save" => canceller[c].kid \in Kids

AttemptSound(w) ==
  Attempts(w) =>
    /\ maker[w].date \in Dates
    /\ \/ occ[maker[w].date].status = "created"
       \/ occ[maker[w].date].status = "processing" /\ occ[maker[w].date].by = w
    /\ maker[w].at \in {"tag", "mark"} =>
         maker[w].kid \in Kids /\ kid[maker[w].kid].date = maker[w].date
    /\ maker[w].at = "mark" => kid[maker[w].kid].tagged
AttemptsApart ==
  \A v, w \in Makers : v # w /\ Attempts(v) /\ Attempts(w) => maker[v].date # maker[w].date
CreatedTagged ==
  \A d \in Dates : occ[d].status = "created" => TaggedFor(occ[d].kid, d)

AttemptsInv ==
  /\ CreatedTagged /\ AttemptsApart
  /\ \A w \in Makers : AttemptSound(w)
SeriesInv == SeriesTyped /\ AttemptsInv

(* What any step leaves alone: the date and the tag of a booking, and the  *)
(* rows of attempts; a maker that does not move knows what it knew.        *)
KidsKept ==
  \A k \in Kids : kid[k].date \in Dates =>
    kid'[k].date = kid[k].date /\ (kid[k].tagged => kid'[k].tagged)
RowKept(d) ==
  \/ occ'[d] = occ[d]
  \/ occ'[d].status = "created" /\ TaggedFor(occ[d].kid, d)'
  \/ /\ occ'[d].status # "created" /\ occ[d].status # "created"
     /\ \A v \in Makers : Attempts(v) /\ maker[v].date = d => maker'[v] # maker[v]

LEMMA OthersKept ==
  ASSUME SeriesInv, KidsKept, \A d \in Dates : RowKept(d)
  PROVE  /\ CreatedTagged'
         /\ \A v \in Makers : maker'[v] = maker[v] => AttemptSound(v)'
<1> USE DEF SeriesInv, AttemptsInv
<1>1. CreatedTagged'
  <2> SUFFICES ASSUME NEW d \in Dates, occ'[d].status = "created"
               PROVE  TaggedFor(occ[d].kid, d)'
    BY DEF CreatedTagged
  <2>1. CASE occ'[d] = occ[d]
    <3>1. TaggedFor(occ[d].kid, d)
      BY <2>1 DEF CreatedTagged
    <3> QED BY <2>1, <3>1 DEF TaggedFor, KidsKept
  <2> QED BY <2>1 DEF RowKept
<1>2. ASSUME NEW v \in Makers, maker'[v] = maker[v] PROVE AttemptSound(v)'
  <2> SUFFICES ASSUME Attempts(v) PROVE AttemptSound(v)'
    BY <1>2 DEF Attempts, AttemptSound
  <2> DEFINE d == maker[v].date
  <2>1. /\ d \in Dates /\ maker'[v].date = d /\ maker'[v].at = maker[v].at
        /\ maker'[v].kid = maker[v].kid
        /\ occ[d].status = "created" \/ (occ[d].status = "processing" /\ occ[d].by = v)
        /\ maker[v].at \in {"tag", "mark"} =>
             maker[v].kid \in Kids /\ kid[maker[v].kid].date = d
        /\ maker[v].at = "mark" => kid[maker[v].kid].tagged
    BY <1>2 DEF AttemptSound
  <2> HIDE DEF d
  <2>2. RowKept(d) /\ maker[v].date = d
    BY <2>1 DEF d
  <2>3. occ'[d].status = "created" \/ (occ'[d].status = "processing" /\ occ'[d].by = v)
    BY <1>2, <2>1, <2>2 DEF RowKept
  <2>4. maker[v].at \in {"tag", "mark"} => kid'[maker[v].kid].date = d
    BY <2>1 DEF KidsKept
  <2>5. maker[v].at = "mark" => kid'[maker[v].kid].tagged
    BY <2>1 DEF KidsKept
  <2> QED BY <2>1, <2>3, <2>4, <2>5 DEF AttemptSound
<1> QED BY <1>1, <1>2

(* A step of one maker that leaves it attempting nothing. *)
LEMMA RestingStep ==
  ASSUME SeriesInv, SeriesTyped', NEW w \in Makers,
         \A v \in Makers \ {w} : maker'[v] = maker[v],
         ~Attempts(w)', KidsKept, \A d \in Dates : RowKept(d)
  PROVE  SeriesInv'
<1>1. CreatedTagged' /\ \A v \in Makers : maker'[v] = maker[v] => AttemptSound(v)'
  BY OthersKept
<1>2. AttemptSound(w)'
  BY DEF AttemptSound
<1>3. AttemptsApart'
  BY DEF SeriesInv, AttemptsInv, AttemptsApart, Attempts
<1> QED BY <1>1, <1>2, <1>3 DEF SeriesInv, AttemptsInv

(* A step of one maker that goes on with its attempt. *)
LEMMA AttemptingStep ==
  ASSUME SeriesInv, SeriesTyped', NEW w \in Makers,
         \A v \in Makers \ {w} : maker'[v] = maker[v],
         Attempts(w), maker'[w].date = maker[w].date, AttemptSound(w)',
         KidsKept, \A d \in Dates : RowKept(d)
  PROVE  SeriesInv'
<1>1. CreatedTagged' /\ \A v \in Makers : maker'[v] = maker[v] => AttemptSound(v)'
  BY OthersKept
<1>2. AttemptsApart'
  BY DEF SeriesInv, AttemptsInv, AttemptsApart, Attempts
<1> QED BY <1>1, <1>2 DEF SeriesInv, AttemptsInv

LEMMA MakerStepKeeps ==
  ASSUME SeriesInv, NEW w \in Makers, MakerStep(w)
  PROVE  SeriesInv'
<1> USE DEF SeriesInv
<1>0. /\ maker \in [Makers -> MakerRecords] /\ kid \in [Kids -> KidRecords]
      /\ occ \in [Dates -> RowRecords] /\ series \in SeriesRecords
      /\ maker[w] \in MakerRecords /\ Nought \notin Dates \cup Kids
  BY SeriesConstants DEF SeriesTyped
<1>1. \A v \in Makers \ {w} : maker'[v] = maker[v]
  BY <1>0
     DEF MakerStep, CreateSeries, ResumeSeries, PlanDate, PlanEnds, LoadPlan,
         Repair, ClaimDate, Book, Tag, MarkCreated, MarkFailed, FinishSeries,
         MakerDies
<1>2. ASSUME UNCHANGED <<occ, kid>> PROVE KidsKept /\ \A d \in Dates : RowKept(d)
  BY <1>2 DEF KidsKept, RowKept
<1>3. ASSUME UNCHANGED <<occ, kid, canceller>>, series' \in SeriesRecords,
             maker'[w] \in MakerRecords, maker' = [maker EXCEPT ![w] = maker'[w]],
             ~Attempts(w)'
      PROVE  SeriesInv'
  <2>1. SeriesTyped'
    BY <1>0, <1>3 DEF SeriesTyped
  <2> QED BY <1>1, <1>2, <1>3, <2>1, RestingStep
<1>4. CASE CreateSeries(w)
  BY <1>0, <1>3, <1>4 DEF CreateSeries, MakerRecords, MakerPlaces, SeriesRecords, SeriesStatuses, Attempts
<1>5. CASE ResumeSeries(w)
  BY <1>0, <1>3, <1>5 DEF ResumeSeries, MakerRecords, MakerPlaces, SeriesRecords, SeriesStatuses, Attempts
<1>6. CASE PlanEnds(w)
  BY <1>0, <1>3, <1>6 DEF PlanEnds, MakerRecords, MakerPlaces, SeriesRecords, SeriesStatuses, Attempts
<1>7. CASE FinishSeries(w)
  <2>1. series' \in SeriesRecords
    BY <1>0, <1>7 DEF FinishSeries, SeriesRecords, SeriesStatuses, MakerRecords, Outcome
  <2>2. [NewMaker EXCEPT !.at = "done"] \in MakerRecords
    BY DEF NewMaker, MakerRecords, MakerPlaces, KidIds
  <2> QED BY <1>0, <1>3, <1>7, <2>1, <2>2 DEF FinishSeries, NewMaker, Attempts
<1>8. CASE MakerDies(w)
  <2>2. [NewMaker EXCEPT !.at = "done"] \in MakerRecords
    BY DEF NewMaker, MakerRecords, MakerPlaces, KidIds
  <2> QED BY <1>0, <1>3, <1>8, <2>2 DEF MakerDies, NewMaker, Attempts
<1>9. ASSUME NEW d \in Dates, PlanDate(w, d) PROVE SeriesInv'
  <2>1. SeriesTyped'
    BY <1>0, <1>9 DEF SeriesTyped, PlanDate, Planned, MakerRecords, RowRecords,
                      RowStatuses, NoRow
  <2>2. \A e \in Dates : RowKept(e)
    <3>1. ASSUME NEW e \in Dates, occ'[e] # occ[e]
          PROVE  occ[e] = NoRow /\ occ'[e].status = "pending"
      BY <1>0, <1>9, <3>1 DEF PlanDate, Planned, NoRow
    <3>2. ASSUME NEW v \in Makers, Attempts(v) PROVE occ[maker[v].date] # NoRow
      BY <3>2 DEF AttemptsInv, AttemptSound, NoRow
    <3> QED BY <3>1, <3>2 DEF RowKept, NoRow
  <2> QED BY <1>0, <1>1, <1>9, <2>1, <2>2, RestingStep
          DEF PlanDate, KidsKept, Attempts, MakerRecords
<1>10. CASE LoadPlan(w)
  <2>1. SeriesTyped'
    <3>1. occ' \in [Dates -> RowRecords] /\ series' \in SeriesRecords
      <4>1. [NoRow EXCEPT !.status = "pending"] \in RowRecords
        BY DEF NoRow, RowRecords, RowStatuses, KidIds
      <4> QED BY <1>0, <1>10, <4>1 DEF LoadPlan, SeriesRecords, SeriesStatuses
    <3>2. \A ds \in SUBSET Dates : {occ[d].kid : d \in ds} \subseteq KidIds
      BY <1>0 DEF RowRecords
    <3>3. maker' \in [Makers -> MakerRecords]
      <4> DEFINE made == {d \in Rows : occ[d].status = "created"}
                 found == {occ[d].kid : d \in {d \in Rows : occ[d].status = "created"}}
      <4>1. found \subseteq KidIds
        BY <3>2 DEF Rows
      <4>2. CASE Rows = {}
        BY <1>0, <1>10, <4>2 DEF LoadPlan, MakerRecords, MakerPlaces
      <4>3. CASE Rows # {}
        <5> DEFINE left == {d \in Rows : occ[d].status \notin {"created", "failed_terminal"}}
        <5>1. left \subseteq Dates
          BY DEF Rows
        <5>2. maker' = [maker EXCEPT ![w].at = "loop", ![w].todo = left,
                                     ![w].created = maker[w].ids \cup found]
          BY <1>10, <4>3 DEF LoadPlan
        <5> HIDE DEF left, found
        <5> QED BY <1>0, <4>1, <5>1, <5>2 DEF MakerRecords, MakerPlaces
      <4> QED BY <4>2, <4>3
    <3> QED BY <1>10, <3>1, <3>3 DEF LoadPlan, SeriesTyped
  <2>2. \A e \in Dates : RowKept(e)
    <3>1. ASSUME NEW e \in Dates, occ'[e] # occ[e]
          PROVE  occ[e] = NoRow /\ occ'[e].status = "pending"
      <4>1. Rows = {} /\ occ' = [d \in Dates |-> [NoRow EXCEPT !.status = "pending"]]
        BY <1>10, <3>1 DEF LoadPlan
      <4> QED BY <4>1 DEF Rows, NoRow
    <3>2. ASSUME NEW v \in Makers, Attempts(v) PROVE occ[maker[v].date] # NoRow
      BY <3>2 DEF AttemptsInv, AttemptSound, NoRow
    <3> QED BY <3>1, <3>2 DEF RowKept, NoRow
  <2>3. ~Attempts(w)'
    <3>1. \E ds, ks : maker' = [maker EXCEPT ![w].at = "loop", ![w].todo = ds, ![w].created = ks]
      BY <1>10 DEF LoadPlan
    <3>2. maker'[w].at = "loop"
      BY <1>0, <3>1 DEF MakerRecords
    <3> QED BY <3>2 DEF Attempts
  <2>4. KidsKept
    BY <1>10 DEF LoadPlan, KidsKept
  <2> QED BY <1>1, <2>1, <2>2, <2>3, <2>4, RestingStep
<1>11. ASSUME NEW d \in Dates, Repair(w, d) PROVE SeriesInv'
  <2>1. PICK k \in Kids : /\ TaggedFor(k, d)
          /\ occ' = [occ EXCEPT ![d] = [@ EXCEPT !.status = "created", !.kid = k, !.by = Nought]]
          /\ maker' = [maker EXCEPT ![w].todo = @ \ {d}, ![w].created = @ \cup {k}]
    BY <1>11 DEF Repair, Orphans, TaggedFor
  <2>2. SeriesTyped'
    <3>1. maker' \in [Makers -> MakerRecords]
      BY <1>0, <2>1 DEF MakerRecords, KidIds
    <3>2. occ' \in [Dates -> RowRecords]
      BY <1>0, <1>11, <2>1 DEF RowRecords, RowStatuses, KidIds
    <3> QED BY <1>11, <3>1, <3>2 DEF SeriesTyped, Repair
  <2>3. KidsKept /\ \A e \in Dates : RowKept(e)
    <3>1. UNCHANGED kid
      BY <1>11 DEF Repair
    <3>2. occ'[d].status = "created" /\ occ'[d].kid = k
      BY <1>0, <1>11, <2>1 DEF RowRecords
    <3>3. TaggedFor(occ[d].kid, d)'
      BY <2>1, <3>1, <3>2 DEF TaggedFor
    <3>4. \A e \in Dates : e = d \/ occ'[e] = occ[e]
      BY <1>0, <2>1
    <3> QED BY <3>1, <3>2, <3>3, <3>4 DEF RowKept, KidsKept
  <2> QED BY <1>0, <1>1, <1>11, <2>1, <2>2, <2>3, RestingStep DEF Repair, Attempts, MakerRecords
<1>12. ASSUME NEW d \in Dates, ClaimDate(w, d) PROVE SeriesInv'
  <2>1. CASE occ[d].status \in {"pending", "failed_retryable"}
    <3>1. /\ occ' = [occ EXCEPT ![d].status = "processing", ![d].by = w,
                                 ![d].takes = @ + 1]
          /\ maker' = [maker EXCEPT ![w].at = "book", ![w].date = d, ![w].todo = @ \ {d}]
          /\ UNCHANGED <<series, kid, canceller>>
      BY <1>12, <2>1 DEF ClaimDate
    <3>2. SeriesTyped'
      <4>1. maker' \in [Makers -> MakerRecords]
        BY <1>0, <3>1 DEF MakerRecords, MakerPlaces
      <4>2. occ' \in [Dates -> RowRecords]
        <5>1. occ[d] \in RowRecords /\ occ[d].takes + 1 \in Nat
          BY <1>0 DEF RowRecords
        <5>2. [status |-> "processing", by |-> w, takes |-> occ[d].takes + 1, kid |-> occ[d].kid]
                \in RowRecords
          BY <5>1 DEF RowRecords, RowStatuses
        <5>3. occ'[d] = [status |-> "processing", by |-> w, takes |-> occ[d].takes + 1,
                         kid |-> occ[d].kid]
          <6>1. occ'[d] = [occ[d] EXCEPT !.status = "processing", !.by = w,
                                         !.takes = occ[d].takes + 1]
            BY <1>0, <3>1, <5>1 DEF RowRecords
          <6> QED BY <5>1, <6>1 DEF RowRecords
        <5>4. occ' = [occ EXCEPT ![d] = occ'[d]]
          BY <1>0, <3>1
        <5> QED BY <1>0, <5>2, <5>3, <5>4
      <4> QED BY <3>1, <4>1, <4>2 DEF SeriesTyped
    <3>3. \A v \in Makers : Attempts(v) => maker[v].date # d
      BY <2>1 DEF AttemptsInv, AttemptSound
    <3>4. KidsKept /\ \A e \in Dates : RowKept(e)
      BY <1>0, <2>1, <3>1, <3>3 DEF RowKept, KidsKept, RowRecords
    <3>5. CreatedTagged' /\ \A v \in Makers : maker'[v] = maker[v] => AttemptSound(v)'
      BY <3>4, OthersKept
    <3>6. maker'[w].at = "book" /\ maker'[w].date = d
      BY <1>0, <3>1 DEF MakerRecords
    <3>7. AttemptSound(w)'
      BY <1>0, <3>1, <3>6 DEF AttemptSound, RowRecords
    <3>8. AttemptsApart'
      BY <1>1, <3>3, <3>6 DEF AttemptsInv, AttemptsApart, Attempts
    <3> QED BY <1>1, <3>2, <3>5, <3>7, <3>8 DEF AttemptsInv
  <2>2. CASE occ[d].status \notin {"pending", "failed_retryable"}
    BY <1>0, <1>3, <1>12, <2>2 DEF ClaimDate, MakerRecords, Attempts
  <2> QED BY <2>1, <2>2
<1> DEFINE d == maker[w].date  k == maker[w].kid
<1>13. Attempts(w) =>
         /\ d \in Dates
         /\ occ[d].status = "created" \/ (occ[d].status = "processing" /\ occ[d].by = w)
         /\ maker[w].at \in {"tag", "mark"} => k \in Kids /\ kid[k].date = d
         /\ maker[w].at = "mark" => kid[k].tagged
  BY DEF AttemptsInv, AttemptSound
<1>14. ASSUME NEW at \in {"tag", "mark", "fail"}, maker' = [maker EXCEPT ![w].at = at],
              Attempts(w), UNCHANGED <<occ, series, canceller>>,
              kid' = kid \/ \E x \in Kids : kid' = [kid EXCEPT ![x].tagged = TRUE],
              at \in {"tag", "mark"} => k \in Kids /\ kid'[k].date = d,
              at = "mark" => kid'[k].tagged
       PROVE  SeriesInv'
  <2>1. SeriesTyped'
    <3>1. maker' \in [Makers -> MakerRecords]
      BY <1>0, <1>14 DEF MakerRecords, MakerPlaces
    <3>2. kid' \in [Kids -> KidRecords]
      <4>1. \A x \in Kids : [kid[x] EXCEPT !.tagged = TRUE] \in KidRecords
        BY <1>0 DEF KidRecords
      <4> QED BY <1>0, <1>14, <4>1
    <3> QED BY <1>14, <3>1, <3>2 DEF SeriesTyped
  <2>2. KidsKept /\ \A e \in Dates : RowKept(e)
    BY <1>0, <1>14 DEF RowKept, KidsKept, KidRecords
  <2>3. maker'[w].at = at /\ maker'[w].date = d /\ maker'[w].kid = k
    BY <1>0, <1>14 DEF MakerRecords
  <2>4. AttemptSound(w)'
    BY <1>13, <1>14, <2>3 DEF AttemptSound
  <2> QED BY <1>1, <1>14, <2>1, <2>2, <2>3, <2>4, AttemptingStep
<1>15. CASE Book(w)
  <2>1. Attempts(w)
    BY <1>15 DEF Book, Attempts
  <2>2. CASE UNCHANGED kid /\ maker' = [maker EXCEPT ![w].at = "fail"]
    BY <1>14, <1>15, <2>1, <2>2 DEF Book
  <2>3. CASE \E x \in Kids : kid[x] = NoKid
    <3> DEFINE new == CHOOSE x \in Kids : kid[x] = NoKid
    <3>1. new \in Kids /\ kid[new] = NoKid
      BY <2>3
    <3> HIDE DEF new
    <3>2. CASE /\ kid' = [kid EXCEPT ![new] = [status |-> "live", date |-> d, tagged |-> FALSE]]
               /\ maker' = [maker EXCEPT ![w].at = "tag", ![w].kid = new]
      <4>1. SeriesTyped'
        BY <1>0, <1>13, <1>15, <2>1, <3>1, <3>2
           DEF Book, SeriesTyped, MakerRecords, MakerPlaces, KidRecords, KidIds
      <4>2. KidsKept /\ \A e \in Dates : RowKept(e)
        BY <1>0, <1>15, <3>1, <3>2 DEF Book, RowKept, KidsKept, NoKid
      <4>3. maker'[w].at = "tag" /\ maker'[w].date = d /\ maker'[w].kid = new
        BY <1>0, <3>2 DEF MakerRecords
      <4>4. AttemptSound(w)'
        BY <1>0, <1>13, <1>15, <2>1, <3>1, <3>2, <4>3 DEF Book, AttemptSound
      <4> QED BY <1>1, <2>1, <4>1, <4>2, <4>3, <4>4, AttemptingStep
    <3> QED BY <1>15, <2>2, <3>2 DEF Book, new
  <2> QED BY <1>15, <2>2, <2>3 DEF Book
<1>16. CASE Tag(w)
  <2>1. Attempts(w) /\ maker[w].at = "tag"
    BY <1>16 DEF Tag, Attempts
  <2>2. CASE UNCHANGED kid /\ maker' = [maker EXCEPT ![w].at = "fail"]
    BY <1>14, <1>16, <2>1, <2>2 DEF Tag
  <2>3. CASE kid' = [kid EXCEPT ![k].tagged = TRUE] /\ maker' = [maker EXCEPT ![w].at = "mark"]
    <3>1. k \in Kids /\ kid'[k].date = d /\ kid'[k].tagged
      BY <1>0, <1>13, <2>1, <2>3 DEF KidRecords
    <3> QED BY <1>14, <1>16, <2>1, <2>3, <3>1 DEF Tag
  <2> QED BY <1>16, <2>2, <2>3 DEF Tag
<1>17. CASE MarkCreated(w)
  <2>1. Attempts(w) /\ maker[w].at = "mark"
    BY <1>17 DEF MarkCreated, Attempts
  <2>2. CASE UNCHANGED occ /\ maker' = [maker EXCEPT ![w].at = "fail"]
    BY <1>14, <1>17, <2>1, <2>2 DEF MarkCreated
  <2>3. CASE /\ occ' = IF Holds(w, d)
                        THEN [occ EXCEPT ![d] = [@ EXCEPT !.status = "created", !.kid = k,
                                                          !.by = Nought]]
                        ELSE occ
             /\ maker' = [maker EXCEPT ![w].at = "loop", ![w].created = @ \cup {k},
                                       ![w].date = Nought, ![w].kid = Nought]
    <3>1. SeriesTyped'
      <4>1. maker' \in [Makers -> MakerRecords]
        <5>1. k \in KidIds /\ maker[w].created \cup {k} \in SUBSET KidIds
          BY <1>0 DEF MakerRecords
        <5> HIDE DEF k
        <5> QED BY <1>0, <2>3, <5>1 DEF MakerRecords, MakerPlaces, KidIds
      <4>2. occ' \in [Dates -> RowRecords]
        <5>1. k \in KidIds
          BY <1>0 DEF MakerRecords
        <5>2. [occ[d] EXCEPT !.status = "created", !.kid = k, !.by = Nought] \in RowRecords
          BY <1>0, <1>13, <2>1, <5>1 DEF RowRecords, RowStatuses
        <5> QED BY <1>0, <1>13, <2>1, <2>3, <5>2
      <4> QED BY <1>17, <4>1, <4>2 DEF MarkCreated, SeriesTyped
    <3>2. KidsKept /\ \A e \in Dates : RowKept(e)
      BY <1>0, <1>13, <1>17, <2>1, <2>3
         DEF MarkCreated, RowKept, KidsKept, TaggedFor, RowRecords
    <3>3. ~Attempts(w)'
      BY <1>0, <2>3 DEF Attempts, MakerRecords
    <3> QED BY <1>1, <3>1, <3>2, <3>3, RestingStep
  <2> QED BY <1>17, <2>2, <2>3 DEF MarkCreated
<1>18. CASE MarkFailed(w)
  <2>1. Attempts(w)
    BY <1>18 DEF MarkFailed, Attempts
  <2>2. SeriesTyped'
    <3>1. maker' \in [Makers -> MakerRecords]
      BY <1>0, <1>18 DEF MarkFailed, MakerRecords, MakerPlaces, KidIds
    <3>2. occ' \in [Dates -> RowRecords]
      <4> DEFINE s == IF occ[d].takes >= MaxTakes THEN "failed_terminal" ELSE "failed_retryable"
                 row == [occ[d] EXCEPT !.by = Nought, !.status = s]
      <4>1. d \in Dates /\ occ[d] \in RowRecords
        BY <1>0, <1>13, <2>1
      <4>2. row \in RowRecords
        BY <4>1 DEF RowRecords, RowStatuses
      <4>3. occ' = occ \/ occ' = [occ EXCEPT ![d] = row]
        BY <1>18 DEF MarkFailed
      <4> HIDE DEF d, row
      <4> QED BY <1>0, <4>1, <4>2, <4>3
    <3> QED BY <1>18, <3>1, <3>2 DEF MarkFailed, SeriesTyped
  <2>3. ~Attempts(w)' /\ maker'[w] # maker[w]
    BY <1>0, <1>18 DEF MarkFailed, Attempts, MakerRecords
  <2>4. \A v \in Makers : Attempts(v) /\ maker[v].date = d => v = w
    BY <2>1 DEF AttemptsInv, AttemptsApart
  <2>5. KidsKept /\ \A e \in Dates : RowKept(e)
    BY <1>0, <1>13, <1>18, <2>1, <2>3, <2>4
       DEF MarkFailed, Holds, RowKept, KidsKept, RowRecords
  <2> QED BY <1>1, <2>2, <2>3, <2>5, RestingStep
<1> QED BY <1>4, <1>5, <1>6, <1>7, <1>8, <1>9, <1>10, <1>11, <1>12, <1>15, <1>16,
           <1>17, <1>18 DEF MakerStep

(* No occurrence is attempted by two requests at once, however many resume *)
(* the series or die in it, and an occurrence marked as created has its    *)
(* booking, which carries the tag.                                         *)
THEOREM OccurrencesAreOwn == SeriesSpec => []OccurrencesOwn
<1>1. SeriesInit => SeriesInv
  BY DEF SeriesInit, SeriesInv, SeriesTyped, AttemptsInv, CreatedTagged,
         AttemptsApart, AttemptSound, Attempts, NewMaker, NoKid, NoRow,
         NewCanceller, MakerRecords, MakerPlaces, KidRecords, RowRecords,
         RowStatuses, SeriesRecords, SeriesStatuses, CancellerRecords, KidIds
<1>2. SeriesInv /\ [SeriesNext]_seriesVars => SeriesInv'
  <2> SUFFICES ASSUME SeriesInv, [SeriesNext]_seriesVars PROVE SeriesInv'
    OBVIOUS
  <2>0. /\ kid \in [Kids -> KidRecords] /\ series \in SeriesRecords
        /\ canceller \in [Cancellers -> CancellerRecords]
        /\ \A c \in Cancellers : canceller[c].at = "save" => canceller[c].kid \in Kids
    BY DEF SeriesInv, SeriesTyped
  <2>1. ASSUME UNCHANGED <<maker, occ>>, series' \in SeriesRecords,
               kid' \in [Kids -> KidRecords],
               \A x \in Kids : kid'[x].date = kid[x].date /\ kid'[x].tagged = kid[x].tagged,
               canceller' \in [Cancellers -> CancellerRecords],
               \A c \in Cancellers : canceller'[c].at = "save" => canceller'[c].kid \in Kids
        PROVE  SeriesInv'
    BY <2>1 DEF SeriesInv, SeriesTyped, AttemptsInv, CreatedTagged, TaggedFor,
                AttemptsApart, AttemptSound, Attempts
  <2>2. ASSUME NEW c \in Cancellers, CancellerStep(c) PROVE SeriesInv'
    <3>1. /\ canceller' \in [Cancellers -> CancellerRecords]
          /\ \A e \in Cancellers : canceller'[e].at = "save" => canceller'[e].kid \in Kids
      <4>0. canceller[c] \in CancellerRecords /\ series.ids \subseteq KidIds
        BY <2>0 DEF SeriesRecords
      <4>1. CASE LoadSeries(c)
        <5>1. PICK ks \in SUBSET series.ids : canceller' = [canceller EXCEPT ![c] =
                 [at |-> "loop", todo |-> ks, kid |-> Nought, status |-> series.status]]
          BY <4>1 DEF LoadSeries
        <5>2. [at |-> "loop", todo |-> ks, kid |-> Nought, status |-> series.status]
                \in CancellerRecords
          BY <2>0, <4>0 DEF CancellerRecords, SeriesRecords, KidIds
        <5> QED BY <2>0, <5>1, <5>2
      <4>2. CASE CancelKid(c)
        <5>1. canceller' = [canceller EXCEPT ![c].at = "loop", ![c].kid = Nought]
          BY <4>2 DEF CancelKid
        <5> QED BY <2>0, <4>0, <5>1 DEF CancellerRecords, KidIds
      <4>3. CASE CancelSeries(c)
        <5>1. [NewCanceller EXCEPT !.at = "done"] \in CancellerRecords
          BY DEF NewCanceller, CancellerRecords, KidIds, SeriesStatuses
        <5>2. canceller' = [canceller EXCEPT ![c] = [NewCanceller EXCEPT !.at = "done"]]
          BY <4>3 DEF CancelSeries
        <5> QED BY <2>0, <5>1, <5>2 DEF NewCanceller
      <4>4. ASSUME NEW k \in Kids, LoadKid(c, k)
            PROVE  /\ canceller' \in [Cancellers -> CancellerRecords]
                   /\ \A e \in Cancellers : canceller'[e].at = "save" => canceller'[e].kid \in Kids
        <5>1. canceller' = [canceller EXCEPT
                ![c].todo = @ \ {k},
                ![c].at = IF kid[k].status = "live" THEN "save" ELSE "loop",
                ![c].kid = IF kid[k].status = "live" THEN k ELSE Nought]
          BY <4>4 DEF LoadKid
        <5> QED BY <2>0, <4>0, <5>1 DEF CancellerRecords, KidIds
      <4> QED BY <2>2, <4>1, <4>2, <4>3, <4>4 DEF CancellerStep
    <3>2. /\ UNCHANGED <<maker, occ>> /\ series' \in SeriesRecords
      BY <2>0, <2>2 DEF CancellerStep, LoadSeries, LoadKid, CancelKid, CancelSeries,
                        SeriesRecords, SeriesStatuses
    <3>3. kid' = kid \/ kid' = [kid EXCEPT ![canceller[c].kid].status = "cancelled"]
      BY <2>2 DEF CancellerStep, LoadSeries, LoadKid, CancelKid, CancelSeries
    <3>4. /\ kid' \in [Kids -> KidRecords]
          /\ \A x \in Kids : kid'[x].date = kid[x].date /\ kid'[x].tagged = kid[x].tagged
      <4>1. \A x \in Kids : [kid[x] EXCEPT !.status = "cancelled"] \in KidRecords
        BY <2>0 DEF KidRecords
      <4> QED BY <2>0, <3>3, <4>1 DEF KidRecords
    <3> QED BY <2>1, <3>1, <3>2, <3>4
  <2>3. ASSUME NEW x \in Kids, KidMoves(x) PROVE SeriesInv'
    BY <2>0, <2>1, <2>3 DEF KidMoves, KidRecords
  <2>4. ASSUME NEW g \in Guests, Invite(g) \/ Rsvp(g) PROVE SeriesInv'
    BY <2>0, <2>1, <2>4 DEF Invite, Rsvp
  <2>5. CASE UNCHANGED seriesVars
    BY <2>0, <2>1, <2>5 DEF seriesVars
  <2> QED BY <2>2, <2>3, <2>4, <2>5, MakerStepKeeps DEF SeriesNext
<1>3. SeriesInv => OccurrencesOwn
  BY DEF SeriesInv, AttemptsInv, CreatedTagged, TaggedFor, AttemptsApart, Attempts,
         OccurrencesOwn
<1> QED BY <1>1, <1>2, <1>3, PTL DEF SeriesSpec
-----------------------------------------------------------------------------
(***************************************************************************)
(* Prices.  While the host edits nothing else, the total of the preview is *)
(* what the published rules and the previewed one amount to.               *)
(***************************************************************************)
PreviewInv ==
  /\ edits \in Nat /\ preview.edits \in 0..edits
  /\ rule = [r \in Rules |-> rule[r]]
  /\ \A r \in Rules : rule[r] = [status |-> rule[r].status, times |-> rule[r].times,
                                 plus |-> rule[r].plus, least |-> rule[r].least]
  /\ preview.rule \in Rules /\ preview.edits = edits =>
       quotePrice(preview.hours, price, Terms(Previewed(preview.rule))) = preview.total

(* Publishing a rule gives the price its preview announced, whatever was   *)
(* published before, as long as the host changes nothing else, for all     *)
(* rates, packages and changes and however many edits went before.         *)
THEOREM PreviewsHold == PricingSpec => []PreviewHolds
<1>1. PricingInit => PreviewInv
  BY RulesAssumption DEF PricingInit, PreviewInv, NoPreview, NoRule
<1>2. PreviewInv /\ [PricingNext]_pricingVars => PreviewInv'
  <2> SUFFICES ASSUME PreviewInv, [PricingNext]_pricingVars PROVE PreviewInv'
    OBVIOUS
  <2>1. ASSUME NEW r \in Rules, NEW c \in Changes, NEW least \in {0, 8},
               NEW s \in {"draft", "active"}, createPricingRule(r, c, least, s)
        PROVE  PreviewInv'
    BY <2>1 DEF PreviewInv, createPricingRule
  <2>2. ASSUME NEW r \in Rules, publishPricingRule(r) PROVE PreviewInv'
    <3>1. /\ rule' = [rule EXCEPT ![r].status = "active"]
          /\ UNCHANGED <<price, preview>> /\ edits' \in Nat /\ preview'.edits \in 0..edits'
          /\ edits' = IF preview.rule = r THEN edits ELSE edits + 1
      BY <2>2 DEF PreviewInv, publishPricingRule
    <3>2. /\ rule' = [s \in Rules |-> rule'[s]]
          /\ \A s \in Rules :
               /\ rule'[s] = [status |-> rule'[s].status, times |-> rule'[s].times,
                              plus |-> rule'[s].plus, least |-> rule'[s].least]
               /\ rule'[s].times = rule[s].times /\ rule'[s].plus = rule[s].plus
               /\ rule'[s].least = rule[s].least
               /\ rule'[s].status = IF s = r THEN "active" ELSE rule[s].status
      BY <3>1 DEF PreviewInv
    <3>3. CASE preview.rule # r
      BY <3>1, <3>2, <3>3 DEF PreviewInv
    <3>4. CASE preview.rule = r
      <4>1. Previewed(r)' = Previewed(r)
        BY <3>2 DEF Previewed, Published
      <4>2. Previewed(r) \subseteq Rules
        BY DEF Previewed, Published
      <4>3. Terms(Previewed(r))' = Terms(Previewed(r))
        <5> HIDE DEF Previewed
        <5> QED BY <3>2, <4>1, <4>2 DEF Terms
      <4> QED BY <3>1, <3>2, <3>4, <4>3 DEF PreviewInv
    <3> QED BY <3>3, <3>4
  <2>3. ASSUME NEW r \in Rules, NEW h \in Lengths, previewPricingRule(r, h)
        PROVE  PreviewInv'
    <3>1. Terms(Previewed(r))' = Terms(Previewed(r))
      BY <2>3 DEF previewPricingRule, Terms, Previewed, Published
    <3>2. /\ preview' = [rule |-> r, hours |-> h, edits |-> edits,
                         total |-> quotePrice(h, price, Terms(Previewed(r)))]
          /\ UNCHANGED <<price, rule, edits>>
      BY <2>3 DEF previewPricingRule
    <3> QED BY <3>1, <3>2 DEF PreviewInv
  <2>4. ASSUME NEW rate \in Rates, SetRate(rate) PROVE PreviewInv'
    BY <2>4 DEF PreviewInv, SetRate
  <2>5. CASE UNCHANGED pricingVars
    BY <2>5 DEF PreviewInv, pricingVars, Terms, Previewed, Published
  <2> QED BY <2>1, <2>2, <2>3, <2>4, <2>5 DEF PricingNext
<1>3. PreviewInv => PreviewHolds
  <2> SUFFICES ASSUME PreviewInv, preview.rule \in Published, preview.edits = edits
               PROVE  quotePrice(preview.hours, price, Terms(Published)) = preview.total
    BY DEF PreviewHolds
  <2>1. Previewed(preview.rule) = Published /\ preview.rule \in Rules
    BY DEF Previewed, Published
  <2> HIDE DEF Previewed, Published
  <2> QED BY <2>1 DEF PreviewInv
<1> QED BY <1>1, <1>2, <1>3, PTL DEF PricingSpec
-----------------------------------------------------------------------------
(***************************************************************************)
(* The wizard.  The button stands for the one booking request under way:   *)
(* while it is on there is none, and a request that was accepted has made  *)
(* the only booking.                                                       *)
(***************************************************************************)
(* What the argument needs of a record is that it has certain fields. *)
CallShape(a) == {"at", "for", "answer"} \subseteq DOMAIN a
PageShape(p) == {"busy", "left"} \subseteq DOMAIN p
BookedShape ==
  /\ booked = [w \in Spaces \X Times |-> booked[w]]
  /\ \A w \in Spaces \X Times : "by" \in DOMAIN booked[w]

Submitting(q) == call[q].for = "submit"
Accepted(q) == call[q].at = "created" /\ call[q].answer = "yes"
Made == {w \in Spaces \X Times : booked[w].by = "customer"}

WizardTyped ==
  /\ call = [q \in Requests |-> call[q]]
  /\ \A q \in Requests : CallShape(call[q])
  /\ PageShape(page) /\ PageShape(draft) /\ BookedShape

CallsSound ==
  /\ \A q \in Requests : call[q].at \in {"creating", "created"} => Submitting(q)
  /\ \A q, r \in Requests : Submitting(q) /\ Submitting(r) => q = r
  /\ ~page.busy \/ page.left => \A q \in Requests : ~Submitting(q)

BookingMade ==
  \/ unsure
  \/ Made = {}
  \/ (\E w : Made = {w}) /\ (page.left \/ \E q \in Requests : Accepted(q))

WizardInv == WizardTyped /\ CallsSound /\ BookingMade

(* A step that takes no answer to a booking request. *)
LEMMA PageStep ==
  ASSUME WizardInv, WizardTyped',
         page'.busy = page.busy, page'.left = page.left, UNCHANGED <<booked, unsure>>,
         \A q \in Requests :
           \/ call'[q].at = call[q].at /\ call'[q].for = call[q].for
                /\ call'[q].answer = call[q].answer
           \/ call'[q].at \notin {"creating", "created"} /\ call[q].at \notin {"creating", "created"}
                /\ (Submitting(q)' => Submitting(q))
  PROVE  WizardInv'
<1>1. CallsSound'
  BY DEF WizardInv, CallsSound, Submitting
<1>2. BookingMade'
  BY DEF WizardInv, BookingMade, Made, Accepted
<1> QED BY <1>1, <1>2 DEF WizardInv

LEMMA BecomeStep ==
  ASSUME WizardInv, NEW p, PageShape(p), p.busy = page.busy, p.left = page.left, Become(p)
  PROVE  WizardInv'
<1>1. page' = p /\ draft' = p /\ UNCHANGED <<call, booked, unsure>>
  BY DEF Become
<1>2. WizardTyped'
  BY <1>1 DEF WizardInv, WizardTyped, BookedShape
<1> QED BY <1>1, <1>2, PageStep DEF WizardInv

LEMMA PersistedShape ==
  ASSUME NEW p, PageShape(p)
  PROVE  /\ PageShape(Persisted(p))
         /\ Persisted(p).busy = p.busy /\ Persisted(p).left = p.left
BY DEF PageShape, Persisted

LEMMA FetchStep ==
  ASSUME WizardInv, NEW q \in Requests, NEW p, PageShape(p), NEW for, Fetch(q, p, for),
         p.left = page.left,
         \/ for # "submit" /\ p.busy = page.busy
         \/ for = "submit" /\ p.busy /\ ~page.busy /\ ~page.left
  PROVE  WizardInv'
<1> DEFINE asked == [Quiet EXCEPT !.at = "quoting", !.for = for,
                       !.choice = [p.choice EXCEPT !.coupon = @ \/ p.typed]]
<1>1. /\ call' = [call EXCEPT ![q] = asked] /\ page' = p /\ call[q] = Quiet
      /\ UNCHANGED <<draft, booked, unsure>>
  BY DEF Fetch
<1>2. CallShape(asked) /\ asked.at = "quoting" /\ asked.for = for /\ Quiet.at = "none"
  BY DEF CallShape, Quiet
<1> HIDE DEF asked
<1>3. WizardTyped'
  BY <1>1, <1>2 DEF WizardInv, WizardTyped, BookedShape
<1>4. call'[q] = asked /\ \A r \in Requests \ {q} : call'[r] = call[r]
  BY <1>1 DEF WizardInv, WizardTyped
<1>5. CallsSound'
  BY <1>1, <1>2, <1>4 DEF WizardInv, CallsSound, Submitting
<1>6. BookingMade'
  BY <1>1, <1>2, <1>4 DEF WizardInv, BookingMade, Made, Accepted
<1> QED BY <1>3, <1>5, <1>6 DEF WizardInv

LEMMA CustomerStep ==
  ASSUME WizardInv,
         \/ \E s \in Spaces, t \in Times : Pick(s, t)
         \/ \E t \in Times : checkAvailability(t)
         \/ syncAddOnsFromUi \/ TypeCoupon
         \/ \E n \in {1, 2} : setStep(n)
  PROVE  WizardInv'
<1>0. PageShape(page)
  BY DEF WizardInv, WizardTyped
<1>1. ASSUME NEW s \in Spaces, NEW t \in Times, Pick(s, t) PROVE WizardInv'
  <2> DEFINE p == [page EXCEPT !.chosen = TRUE, !.choice.space = s, !.choice.time = t]
  <2>1. PageShape(p) /\ p.busy = page.busy /\ p.left = page.left
    BY <1>0 DEF PageShape
  <2>2. Become(Persisted(p))
    BY <1>1 DEF Pick
  <2> HIDE DEF p
  <2> QED BY <2>1, <2>2, PersistedShape, BecomeStep
<1>2. ASSUME NEW t \in Times, checkAvailability(t) PROVE WizardInv'
  <2>1. PageShape(page)' /\ page'.busy = page.busy /\ page'.left = page.left
    BY <1>0, <1>2 DEF PageShape, checkAvailability
  <2>2. WizardTyped'
    BY <1>2, <2>1 DEF WizardInv, WizardTyped, BookedShape, checkAvailability
  <2> QED BY <1>2, <2>1, <2>2, PageStep DEF checkAvailability
<1>3. CASE syncAddOnsFromUi
  <2> DEFINE p == [page EXCEPT !.choice.extra = ~@]
  <2>1. PageShape(p) /\ p.busy = page.busy /\ p.left = page.left
    BY <1>0 DEF PageShape
  <2>2. Become(Persisted(p))
    BY <1>3 DEF syncAddOnsFromUi
  <2> HIDE DEF p
  <2> QED BY <2>1, <2>2, PersistedShape, BecomeStep
<1>4. CASE TypeCoupon
  <2>1. PageShape(page)' /\ page'.busy = page.busy /\ page'.left = page.left
    BY <1>0, <1>4 DEF PageShape, TypeCoupon
  <2>2. WizardTyped'
    BY <1>4, <2>1 DEF WizardInv, WizardTyped, BookedShape, TypeCoupon
  <2> QED BY <1>4, <2>1, <2>2, PageStep DEF TypeCoupon
<1>5. ASSUME NEW n \in {1, 2}, setStep(n) PROVE WizardInv'
  <2> DEFINE p == [page EXCEPT !.step = n]
  <2>1. PageShape(p) /\ p.busy = page.busy /\ p.left = page.left
    BY <1>0 DEF PageShape
  <2>2. Become(Persisted(p))
    BY <1>5 DEF setStep
  <2> HIDE DEF p
  <2> QED BY <2>1, <2>2, PersistedShape, BecomeStep
<1> QED BY <1>1, <1>2, <1>3, <1>4, <1>5

LEMMA QuoteStep ==
  ASSUME WizardInv, NEW q \in Requests,
         \/ goStep3(q) \/ applyCoupon(q) \/ refreshQuote(q) \/ submitBooking(q)
         \/ AnswerQuote(q) \/ ReceiveQuote(q)
  PROVE  WizardInv'
<1>0. /\ PageShape(page) /\ PageShape(draft) /\ CallShape(call[q])
      /\ call = [r \in Requests |-> call[r]]
  BY DEF WizardInv, WizardTyped
<1>1. CASE goStep3(q) \/ refreshQuote(q)
  BY <1>0, <1>1, FetchStep DEF goStep3, refreshQuote
<1>2. CASE applyCoupon(q)
  <2> DEFINE p == [page EXCEPT !.choice.coupon = page.typed]
  <2>1. PageShape(p) /\ p.busy = page.busy /\ p.left = page.left
    BY <1>0 DEF PageShape
  <2>2. Fetch(q, p, "coupon")
    BY <1>2 DEF applyCoupon
  <2> HIDE DEF p
  <2> QED BY <2>1, <2>2, FetchStep
<1>3. CASE submitBooking(q)
  <2> DEFINE p == [page EXCEPT !.busy = TRUE]
  <2>1. PageShape(p) /\ p.busy /\ p.left = page.left
    BY <1>0 DEF PageShape
  <2>2. Fetch(q, p, "submit") /\ ~page.busy /\ ~page.left
    BY <1>3 DEF submitBooking, MaySubmit, Fetch, Click
  <2> HIDE DEF p
  <2> QED BY <2>1, <2>2, FetchStep
<1>4. CASE AnswerQuote(q)
  <2>1. PICK answer, quote :
          call' = [call EXCEPT ![q].at = "quoted", ![q].answer = answer,
                               ![q].quote = quote, ![q].edits = edits]
    BY <1>4 DEF AnswerQuote
  <2>2. /\ call[q].at = "quoting" /\ UNCHANGED <<page, draft, booked, unsure>>
    BY <1>4 DEF AnswerQuote
  <2>3. /\ CallShape(call'[q]) /\ call'[q].at = "quoted" /\ call'[q].for = call[q].for
        /\ call' = [r \in Requests |-> call'[r]]
        /\ \A r \in Requests \ {q} : call'[r] = call[r]
    BY <1>0, <2>1 DEF CallShape
  <2>4. WizardTyped'
    BY <2>2, <2>3 DEF WizardInv, WizardTyped, BookedShape
  <2> QED BY <2>2, <2>3, <2>4, PageStep DEF Submitting
<1>5. CASE ReceiveQuote(q)
  <2>1. /\ call' = [call EXCEPT ![q] = Quiet] /\ UNCHANGED <<booked, unsure>>
        /\ call[q].at = "quoted" /\ call[q].for # "submit"
    BY <1>5 DEF ReceiveQuote
  <2>2. CallShape(Quiet) /\ Quiet.at = "none" /\ Quiet.for = "none"
    BY DEF CallShape, Quiet
  <2> HIDE DEF Quiet
  <2>3. /\ call'[q] = Quiet /\ \A r \in Requests \ {q} : call'[r] = call[r]
        /\ call' = [r \in Requests |-> call'[r]]
    BY <1>0, <2>1
  <2>4. /\ PageShape(page)' /\ page'.busy = page.busy /\ page'.left = page.left
        /\ draft' = page' \/ draft' = draft
    <3> DEFINE a == call[q]
               shown == IF a.for # "coupon" \/ page.step = 3 THEN Shown(page, a.quote) ELSE page
    <3>1. PageShape(shown) /\ shown.busy = page.busy /\ shown.left = page.left
      BY <1>0 DEF PageShape, Shown
    <3>2. /\ PageShape([shown EXCEPT !.step = 3])
          /\ [shown EXCEPT !.step = 3].busy = page.busy
          /\ [shown EXCEPT !.step = 3].left = page.left
      <4> HIDE DEF shown
      <4> QED BY <3>1 DEF PageShape
    <3>3. /\ page' = IF a.answer = "no" THEN page
                     ELSE IF a.for = "step" THEN Persisted([shown EXCEPT !.step = 3])
                     ELSE IF a.for = "coupon" THEN Persisted(shown) ELSE shown
          /\ draft' = page' \/ draft' = draft
      BY <1>5 DEF ReceiveQuote
    <3> HIDE DEF shown
    <3> QED BY <1>0, <3>1, <3>2, <3>3, PersistedShape
  <2>5. WizardTyped'
    BY <1>0, <2>1, <2>2, <2>3, <2>4 DEF WizardInv, WizardTyped, BookedShape
  <2> QED BY <2>1, <2>2, <2>3, <2>4, <2>5, PageStep DEF Submitting
<1> QED BY <1>1, <1>2, <1>3, <1>4, <1>5

(* The answers to a booking request, and the request itself. *)
LEMMA SubmitStep ==
  ASSUME WizardInv, NEW q \in Requests, ReceiveForSubmit(q) \/ ReceiveCreate(q) \/ Lose(q)
  PROVE  WizardInv'
<1>0. /\ PageShape(page) /\ PageShape(draft) /\ CallShape(call[q])
      /\ call = [r \in Requests |-> call[r]] /\ \A r \in Requests : CallShape(call[r])
      /\ BookedShape /\ CallsSound /\ BookingMade
  BY DEF WizardInv, WizardTyped
<1>1. CallShape(Quiet) /\ Quiet.at = "none" /\ Quiet.for = "none"
  BY DEF CallShape, Quiet
<1>2. PageShape(Blank)
  BY DEF PageShape, Blank
<1> HIDE DEF Quiet, Blank
<1>3. CASE ReceiveForSubmit(q)
  <2>0. /\ call[q].at = "quoted" /\ Submitting(q) /\ ~page.left
        /\ UNCHANGED <<draft, booked, unsure>>
    BY <1>3 DEF ReceiveForSubmit, Submitting
  <2>1. CASE call[q].answer = "no"
    <3>1. page' = [page EXCEPT !.busy = FALSE] /\ call' = [call EXCEPT ![q] = Quiet]
      BY <1>3, <2>1 DEF ReceiveForSubmit
    <3>2. PageShape(page)' /\ ~page'.busy /\ ~page'.left
      BY <1>0, <2>0, <3>1 DEF PageShape
    <3>3. /\ call'[q] = Quiet /\ \A r \in Requests \ {q} : call'[r] = call[r]
          /\ call' = [r \in Requests |-> call'[r]]
      BY <1>0, <3>1
    <3>4. WizardTyped'
      BY <1>0, <1>1, <2>0, <3>2, <3>3 DEF WizardTyped, BookedShape
    <3>5. CallsSound'
      BY <1>0, <1>1, <2>0, <3>2, <3>3 DEF CallsSound, Submitting
    <3>6. BookingMade'
      BY <1>0, <1>1, <2>0, <3>2, <3>3 DEF BookingMade, Made, Accepted, CallsSound, Submitting
    <3> QED BY <3>4, <3>5, <3>6 DEF WizardInv
  <2>2. CASE call[q].answer # "no"
    <3>1. /\ page' = [page EXCEPT !.quote = call[q].quote]
          /\ \E c : call' = [call EXCEPT ![q].at = "creating", ![q].choice = c]
      BY <1>3, <2>2 DEF ReceiveForSubmit, Shown
    <3>2. PageShape(page)' /\ page'.busy = page.busy /\ page'.left = page.left
      BY <1>0, <3>1 DEF PageShape
    <3>3. /\ CallShape(call[q])' /\ call'[q].at = "creating" /\ call'[q].for = call[q].for
          /\ \A r \in Requests \ {q} : call'[r] = call[r]
          /\ call' = [r \in Requests |-> call'[r]]
      BY <1>0, <3>1 DEF CallShape
    <3>4. WizardTyped'
      BY <1>0, <2>0, <3>2, <3>3 DEF WizardTyped, BookedShape
    <3>5. CallsSound'
      BY <1>0, <2>0, <3>2, <3>3 DEF CallsSound, Submitting
    <3>6. BookingMade'
      BY <1>0, <2>0, <3>2, <3>3 DEF BookingMade, Made, Accepted
    <3> QED BY <3>4, <3>5, <3>6 DEF WizardInv
  <2> QED BY <2>1, <2>2
<1>4. CASE ReceiveCreate(q)
  <2>0. /\ call[q].at = "created" /\ Submitting(q) /\ ~page.left
        /\ UNCHANGED <<booked, unsure>> /\ call' = [call EXCEPT ![q] = Quiet]
        /\ draft' = draft \/ draft' = Blank
        /\ page' = IF call[q].answer = "yes" THEN [page EXCEPT !.left = TRUE]
                   ELSE [page EXCEPT !.busy = FALSE]
    BY <1>0, <1>4 DEF ReceiveCreate, CallsSound
  <2>1. /\ PageShape(page)'
        /\ IF call[q].answer = "yes" THEN page'.left ELSE ~page'.busy /\ ~page'.left
    BY <1>0, <2>0 DEF PageShape
  <2>2. /\ call'[q] = Quiet /\ \A r \in Requests \ {q} : call'[r] = call[r]
        /\ call' = [r \in Requests |-> call'[r]]
    BY <1>0, <2>0
  <2>3. \A r \in Requests : ~Submitting(r)'
    BY <1>0, <1>1, <2>0, <2>2 DEF CallsSound, Submitting
  <2>4. WizardTyped'
    BY <1>0, <1>1, <1>2, <2>0, <2>1, <2>2 DEF WizardTyped, BookedShape
  <2>5. CallsSound'
    BY <1>0, <1>1, <2>0, <2>2, <2>3 DEF CallsSound, Submitting
  <2>6. BookingMade'
    <3>1. \A r \in Requests : Accepted(r) => r = q
      BY <1>0, <2>0 DEF CallsSound, Accepted
    <3>2. call[q].answer # "yes" => unsure \/ Made = {}
      BY <1>0, <2>0, <3>1 DEF BookingMade, Accepted
    <3> QED BY <1>0, <2>0, <2>1, <3>2 DEF BookingMade, Made
  <2> QED BY <2>4, <2>5, <2>6 DEF WizardInv
<1>5. CASE Lose(q)
  <2>0. /\ ~page.left /\ UNCHANGED <<draft, booked>> /\ call' = [call EXCEPT ![q] = Quiet]
        /\ unsure' = (unsure \/ call[q].at = "created")
        /\ page' = IF Submitting(q) THEN [page EXCEPT !.busy = FALSE] ELSE page
    BY <1>5 DEF Lose, Submitting
  <2>1. /\ PageShape(page)' /\ ~page'.left
        /\ IF Submitting(q) THEN ~page'.busy ELSE page'.busy = page.busy
    BY <1>0, <2>0 DEF PageShape
  <2>2. /\ call'[q] = Quiet /\ \A r \in Requests \ {q} : call'[r] = call[r]
        /\ call' = [r \in Requests |-> call'[r]]
    BY <1>0, <2>0
  <2>3. WizardTyped'
    BY <1>0, <1>1, <2>0, <2>1, <2>2 DEF WizardTyped, BookedShape
  <2>4. CallsSound'
    BY <1>0, <1>1, <2>0, <2>1, <2>2 DEF CallsSound, Submitting
  <2>5. BookingMade'
    <3>1. CASE unsure'
      BY <3>1 DEF BookingMade
    <3>2. CASE ~unsure' /\ Made # {}
      <4>1. PICK r \in Requests : Accepted(r) /\ r # q
        BY <1>0, <2>0, <3>2 DEF BookingMade, Accepted
      <4>2. Accepted(r)'
        BY <2>2, <4>1 DEF Accepted
      <4> QED BY <1>0, <2>0, <3>2, <4>2 DEF BookingMade, Made
    <3>3. CASE Made = {}
      BY <2>0, <3>3 DEF BookingMade, Made
    <3> QED BY <3>1, <3>2, <3>3
  <2> QED BY <2>3, <2>4, <2>5 DEF WizardInv
<1> QED BY <1>3, <1>4, <1>5

LEMMA CreateStep ==
  ASSUME WizardInv, NEW q \in Requests, AnswerCreate(q)
  PROVE  WizardInv'
<1>0. /\ CallShape(call[q]) /\ PageShape(page) /\ PageShape(draft)
      /\ call = [r \in Requests |-> call[r]] /\ \A r \in Requests : CallShape(call[r])
      /\ BookedShape /\ CallsSound /\ BookingMade
  BY DEF WizardInv, WizardTyped
<1> DEFINE s == <<call[q].choice.space, call[q].choice.time>>
           free == booked[s] = Free
<1> DEFINE c == call[q].choice
           b == [by |-> "customer", asked |-> call[q].quote,
                 price |-> createdPrice(Length[c.time], c.extra, c.coupon),
                 same |-> call[q].edits = edits
                          /\ call[q].quote = quoteBooking(Length[c.time], c.extra, c.coupon)]
<1>1. /\ call[q].at = "creating" /\ UNCHANGED <<page, draft, unsure>>
      /\ call' = [call EXCEPT ![q].at = "created",
                              ![q].answer = IF free THEN "yes" ELSE "no"]
      /\ booked' = IF ~free THEN booked ELSE [booked EXCEPT ![s] = b]
  BY DEF AnswerCreate
<1>7. "by" \in DOMAIN b
  OBVIOUS
<1> HIDE DEF b
<1>2. /\ call'[q].at = "created" /\ call'[q].for = call[q].for /\ CallShape(call[q])'
      /\ call'[q].answer = IF free THEN "yes" ELSE "no"
      /\ \A r \in Requests \ {q} : call'[r] = call[r]
      /\ call' = [r \in Requests |-> call'[r]]
  <2> HIDE DEF free
  <2> QED BY <1>0, <1>1 DEF CallShape
<1>3. /\ BookedShape'
      /\ ~free => booked' = booked
      /\ \A w \in Spaces \X Times : w = s \/ booked'[w] = booked[w]
  <2> HIDE DEF s
  <2> QED BY <1>0, <1>1, <1>7 DEF BookedShape
<1> HIDE DEF s, free
<1>4. WizardTyped'
  BY <1>0, <1>1, <1>2, <1>3 DEF WizardTyped
<1>5. CallsSound'
  BY <1>0, <1>1, <1>2 DEF CallsSound, Submitting
<1>6. BookingMade'
  <2>1. CASE unsure
    BY <1>1, <2>1 DEF BookingMade
  <2>2. CASE ~unsure
    <3>1. \A r \in Requests : ~Accepted(r)
      BY <1>0, <1>1 DEF CallsSound, Accepted
    <3>2. ~page.left
      BY <1>0, <1>1 DEF CallsSound
    <3>3. Made = {}
      BY <1>0, <2>2, <3>1, <3>2 DEF BookingMade
    <3>4. Made' \subseteq {s} /\ (~free => Made' = {})
      BY <1>3, <3>3 DEF Made
    <3>5. free => Accepted(q)'
      BY <1>2 DEF Accepted
    <3> QED BY <3>4, <3>5 DEF BookingMade
  <2> QED BY <2>1, <2>2
<1> QED BY <1>4, <1>5, <1>6 DEF WizardInv

LEMMA RestoreStep ==
  ASSUME WizardInv, restoreDraft
  PROVE  WizardInv'
<1>0. PageShape(draft) /\ BookedShape /\ CallsSound /\ BookingMade
  BY DEF WizardInv, WizardTyped
<1>1. CallShape(Quiet) /\ Quiet.at = "none" /\ Quiet.for = "none"
  BY DEF CallShape, Quiet
<1> HIDE DEF Quiet
<1>2. /\ ~page.left /\ call' = [q \in Requests |-> Quiet] /\ UNCHANGED <<draft, booked>>
      /\ \E t : page' = [draft EXCEPT !.typed = t, !.busy = FALSE]
      /\ unsure' = (unsure \/ \E q \in Requests : call[q].at \in {"creating", "created"})
  BY DEF restoreDraft, Click
<1>3. PageShape(page)' /\ ~page'.busy
  BY <1>0, <1>2 DEF PageShape
<1>4. WizardTyped'
  BY <1>0, <1>1, <1>2, <1>3 DEF WizardTyped, BookedShape
<1>5. CallsSound'
  BY <1>1, <1>2 DEF CallsSound, Submitting
<1>6. BookingMade'
  BY <1>0, <1>2 DEF BookingMade, Made, Accepted
<1> QED BY <1>4, <1>5, <1>6 DEF WizardInv

LEMMA OtherStep ==
  ASSUME WizardInv, NEW s \in Spaces, NEW t \in Times, OtherBooks(s, t)
  PROVE  WizardInv'
<1>0. BookedShape /\ Free.by = "nobody" /\ WizardTyped
  BY DEF WizardInv, WizardTyped, Free
<1>1. /\ UNCHANGED <<page, draft, call, unsure>> /\ booked[<<s, t>>] = Free
      /\ booked' = [booked EXCEPT ![<<s, t>>] = [Free EXCEPT !.by = "other"]]
  BY DEF OtherBooks
<1>2. [Free EXCEPT !.by = "other"].by = "other" /\ "by" \in DOMAIN [Free EXCEPT !.by = "other"]
  BY DEF Free
<1> HIDE DEF Free
<1>3. BookedShape' /\ Made' = Made
  BY <1>0, <1>1, <1>2 DEF BookedShape, Made
<1> QED BY <1>0, <1>1, <1>3 DEF WizardInv, WizardTyped, CallsSound, BookingMade, Submitting, Accepted

LEMMA OneAsked ==
  ASSUME WizardInv PROVE OneBooking
<1> DEFINE asked == {q \in Requests : \/ call[q].at = "creating"
                                      \/ call[q].at = "created" /\ call[q].answer = "no"}
<1>0. {w \in Spaces \X Times : booked[w[1], w[2]].by = "customer"} = Made
  <2>1. \A w \in Spaces \X Times : w = <<w[1], w[2]>>
    OBVIOUS
  <2> QED BY <2>1 DEF Made
<1> SUFFICES ASSUME ~unsure PROVE Cardinality(asked) + Cardinality(Made) <= 1
  BY <1>0 DEF OneBooking
<1>1. \A q \in asked : \A r \in Requests : Submitting(r) => r = q
  BY DEF WizardInv, CallsSound
<1>2. asked = {} \/ \E q \in Requests : asked = {q}
  BY <1>1 DEF WizardInv, CallsSound
<1>3. asked # {} => Made = {}
  <2> SUFFICES ASSUME NEW q \in asked PROVE Made = {}
    OBVIOUS
  <2>1. ~page.left
    BY DEF WizardInv, CallsSound
  <2>2. \A r \in Requests : ~Accepted(r)
    BY <1>1 DEF WizardInv, CallsSound, Accepted
  <2> QED BY <2>1, <2>2 DEF WizardInv, BookingMade
<1>4. Made = {} \/ \E w : Made = {w}
  BY DEF WizardInv, BookingMade
<1> HIDE DEF asked
<1>5. /\ asked = {} => Cardinality(asked) = 0
      /\ (\E q \in Requests : asked = {q}) => Cardinality(asked) = 1
      /\ Made = {} => Cardinality(Made) = 0
      /\ (\E w : Made = {w}) => Cardinality(Made) = 1
  BY FS_EmptySet, FS_Singleton
<1> QED BY <1>2, <1>3, <1>4, <1>5

(* However the customer clicks, goes back, reloads and chooses anew while  *)
(* answers are on their way, one visit of the wizard has one booking, made *)
(* or under way, for any number of requests and clicks; only a lost answer *)
(* to a booking request can lead to a second one.                          *)
THEOREM OneBookingHolds == WizardSpec => []OneBooking
<1>1. PricingInit /\ WizardInit => WizardInv
  <2> SUFFICES ASSUME WizardInit PROVE WizardInv
    OBVIOUS
  <2>1. WizardTyped /\ Made = {}
    <3>1. CallShape(Quiet) /\ PageShape(Blank)
      BY DEF CallShape, PageShape, Quiet, Blank
    <3>2. "by" \in DOMAIN Free /\ Free.by = "nobody"
      BY DEF Free
    <3> HIDE DEF Free, Quiet, Blank
    <3>3. /\ booked = [w \in Spaces \X Times |-> booked[w]]
          /\ \A w \in Spaces \X Times : booked[w] = Free
      BY DEF WizardInit
    <3> QED BY <3>1, <3>2, <3>3 DEF WizardInit, WizardTyped, BookedShape, Made
  <2>2. CallsSound
    BY DEF WizardInit, CallsSound, Submitting, Quiet
  <2> QED BY <2>1, <2>2 DEF WizardInv, BookingMade
<1>2. WizardInv /\ [WizardNext]_<<wizardVars, pricingVars>> => WizardInv'
  <2> SUFFICES ASSUME WizardInv, [WizardNext]_<<wizardVars, pricingVars>> PROVE WizardInv'
    OBVIOUS
  <2>1. CASE UNCHANGED wizardVars
    BY <2>1 DEF wizardVars, WizardInv, WizardTyped, CallsSound, BookingMade, BookedShape,
                Submitting, Accepted, Made
  <2>2. CASE WizardNext
    BY <2>1, <2>2, CustomerStep, QuoteStep, SubmitStep, CreateStep, RestoreStep, OtherStep
       DEF WizardNext
  <2> QED BY <2>1, <2>2
<1>3. WizardInv => OneBooking
  BY OneAsked
<1> QED BY <1>1, <1>2, <1>3, PTL DEF WizardSpec
-----------------------------------------------------------------------------
=============================================================================
