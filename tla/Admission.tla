------------------------------ MODULE Admission ------------------------------
(***************************************************************************)
(* Who may book a space, and who is told that it closes: the checks that   *)
(* createBooking makes before its transaction (the space's status, the     *)
(* kill switch, the blackouts), the feature flags with the cache that each *)
(* instance keeps of them, and a host's closures (hostBulkService).        *)
(*                                                                         *)
(* One space and the flag kill_switch_bookings.  What happens inside the   *)
(* transactions of createBooking and reschedule is the module Booking's;   *)
(* here each of them is one step.  Time is counted in ticks.               *)
(***************************************************************************)
EXTENDS Integers, FiniteSets

CONSTANTS
  Bookings,    \* calls of createBooking
  Customers,
  CustomerOf,  \* who calls
  Instances,   \* processes of the monolith
  InstanceOf,  \* where the call runs
  Slots,       \* of the space's calendar
  Closures,    \* blackouts a host may create
  TTL,         \* ticks that an answer about a flag is served, 30 s in the code
  MaxSwitches, \* bound on changes of the flag
  MaxMoves,    \* bound on reschedules and changes of the space's status
  Missing      \* no entry, no call

ASSUME AdmissionAssumption ==
  /\ CustomerOf \in [Bookings -> Customers] /\ InstanceOf \in [Bookings -> Instances]
  /\ TTL \in Nat \ {0} /\ MaxSwitches \in Nat /\ MaxMoves \in Nat

VARIABLES
  open,     \* the space is "available"
  flag,     \* the flag in the database: TRUE stops new bookings
  cache,    \* isEnabled's answers by instance and customer
  upsert,   \* upsertFlag under way: its instance, or Missing
  booking,  \* createBooking, and then the booking
  closure,  \* blackouts and the calls that create them
  late,     \* history: ticks since the flag stops bookings
  switches, moves

admissionVars == <<open, flag, cache, upsert, booking, closure, late, switches, moves>>

Windows == {{s, t} : s, t \in Slots}

(* passed: history, closures created between its look at the blackouts and *)
(* its insertion; moved: history, it was rescheduled.                      *)
NoOrder == [at |-> "none", window |-> {}, seen |-> FALSE, passed |-> {}, moved |-> FALSE]
NoClosure ==
  [at |-> "none", window |-> {}, toTell |-> {}, told |-> {}, missed |-> {}, gone |-> FALSE]

AdmissionInit ==
  /\ open \in BOOLEAN /\ flag \in BOOLEAN
  /\ cache = [i \in Instances |-> [c \in Customers |-> Missing]]
  /\ upsert = Missing
  /\ booking = [o \in Bookings |-> NoOrder]
  /\ closure = [b \in Closures |-> NoClosure]
  /\ late = (IF flag THEN TTL ELSE 0)
  /\ switches = 0 /\ moves = 0
-----------------------------------------------------------------------------
Meets(v, w) == v \cap w # {}
Booked(o) == booking[o].at \in {"booked", "in-use"}

(* createBooking's conflict query. *)
Conflicts(o, w) == \E p \in Bookings \ {o} : Booked(p) /\ Meets(booking[p].window, w)

(* Mutant of InForce: the customers are told before the blackout is there. *)
InForceOnceTold ==
  {b \in Closures : closure[b].at \in {"done", "silent", "stopped"} /\ ~closure[b].gone}

(* The blackouts in the collection. *)
InForce == {b \in Closures : closure[b].at # "none" /\ ~closure[b].gone}

NewOrder(o, r) == booking' = [booking EXCEPT ![o] = r]
Refuse(o) == NewOrder(o, NoOrder)
Goes(o, step) == NewOrder(o, [booking[o] EXCEPT !.at = step])

(* createBooking reads the space. *)
Create(o, w) ==
  /\ booking[o] = NoOrder /\ open
  /\ NewOrder(o, [NoOrder EXCEPT !.at = "switch", !.window = w])
  /\ UNCHANGED <<open, flag, cache, upsert, closure, late, switches, moves>>

(* isEnabled with an answer in the cache. *)
AskCache(o) ==
  /\ booking[o].at = "switch"
  /\ LET entry == cache[InstanceOf[o]][CustomerOf[o]] IN
     /\ entry # Missing
     /\ IF entry.on THEN Refuse(o) ELSE Goes(o, "blackouts")
  /\ UNCHANGED <<open, flag, cache, upsert, closure, late, switches, moves>>

(* isEnabled without one reads the database and then keeps what it read.   *)
AskFlag(o) ==
  /\ booking[o].at = "switch" /\ cache[InstanceOf[o]][CustomerOf[o]] = Missing
  /\ NewOrder(o, [booking[o] EXCEPT !.at = "answer", !.seen = flag])
  /\ UNCHANGED <<open, flag, cache, upsert, closure, late, switches, moves>>

KeepAnswer(o) ==
  /\ booking[o].at = "answer"
  /\ cache' = [cache EXCEPT ![InstanceOf[o]][CustomerOf[o]] =
       [on |-> booking[o].seen, age |-> 0]]
  /\ IF booking[o].seen THEN Refuse(o)
     ELSE NewOrder(o, [booking[o] EXCEPT !.at = "blackouts", !.seen = FALSE])
  /\ UNCHANGED <<open, flag, upsert, closure, late, switches, moves>>

(* The look at the blackouts, before the transaction. *)
ReadBlackouts(o) ==
  /\ booking[o].at = "blackouts"
  /\ IF \E b \in InForce : Meets(closure[b].window, booking[o].window)
     THEN Refuse(o) ELSE Goes(o, "insert")
  /\ UNCHANGED <<open, flag, cache, upsert, closure, late, switches, moves>>

(* Fraud check, prices, lock and transaction. *)
Insert(o) ==
  /\ booking[o].at = "insert"
  /\ IF Conflicts(o, booking[o].window) THEN Refuse(o) ELSE Goes(o, "booked")
  /\ UNCHANGED <<open, flag, cache, upsert, closure, late, switches, moves>>

(* A database that fails refuses the order with 503, at every check. *)
CheckFails(o) ==
  /\ booking[o].at \in {"switch", "answer", "blackouts", "insert"}
  /\ Refuse(o)
  /\ UNCHANGED <<open, flag, cache, upsert, closure, late, switches, moves>>
-----------------------------------------------------------------------------
(* rescheduleBooking asks for conflicts only, not for blackouts. *)
Reschedule(o, w) ==
  /\ booking[o].at = "booked" /\ w # booking[o].window /\ moves < MaxMoves
  /\ ~Conflicts(o, w)
  /\ NewOrder(o, [booking[o] EXCEPT !.window = w, !.moved = TRUE])
  /\ moves' = moves + 1
  /\ UNCHANGED <<open, flag, cache, upsert, closure, late, switches>>

CheckIn(o) ==
  /\ booking[o].at = "booked" /\ Goes(o, "in-use")
  /\ UNCHANGED <<open, flag, cache, upsert, closure, late, switches, moves>>

(* Cancelled, expired or completed. *)
Ends(o) ==
  /\ Booked(o) /\ Goes(o, "ended")
  /\ UNCHANGED <<open, flag, cache, upsert, closure, late, switches, moves>>
-----------------------------------------------------------------------------
(* upsertFlag empties the cache of its own instance, then writes. *)
UpsertFlag(i) ==
  /\ upsert = Missing /\ switches < MaxSwitches
  /\ upsert' = i /\ switches' = switches + 1
  /\ cache' = [cache EXCEPT ![i] = [c \in Customers |-> Missing]]
  /\ UNCHANGED <<open, flag, booking, closure, late, moves>>

WriteFlag ==
  /\ upsert # Missing /\ upsert' = Missing
  /\ flag' = ~flag /\ late' = 0
  /\ UNCHANGED <<open, cache, booking, closure, switches, moves>>

(* Mutant of Aged: an entry is served in its last tick, and one more. *)
AgedLonger(e) ==
  IF e = Missing THEN Missing
  ELSE IF e.age > TTL THEN Missing ELSE [e EXCEPT !.age = @ + 1]

(* _getCached: an entry whose time is over is dropped. *)
Aged(e) ==
  IF e = Missing THEN Missing
  ELSE IF e.age + 1 = TTL THEN Missing ELSE [e EXCEPT !.age = @ + 1]

(* A read of the flag takes less than a tick. *)
Tick ==
  /\ \A o \in Bookings : booking[o].at # "answer"
  /\ cache' = [i \in Instances |-> [c \in Customers |-> Aged(cache[i][c])]]
  /\ late' = (IF flag /\ late < TTL THEN late + 1 ELSE late)
  /\ <<cache, late>>' # <<cache, late>>
  /\ UNCHANGED <<open, flag, upsert, booking, closure, switches, moves>>
-----------------------------------------------------------------------------
SetOpen(available) ==
  /\ moves < MaxMoves /\ moves' = moves + 1 /\ open' = available
  /\ UNCHANGED <<flag, cache, upsert, booking, closure, late, switches>>

bulkUpdateSpaces == \E available \in BOOLEAN : SetOpen(available)

(* An administrator suspends the space, or restores it, by a load and a    *)
(* save; the status it loads is overwritten, except by a request_change,   *)
(* which leaves it alone.                                                  *)
moderateListing == \E restored \in BOOLEAN : SetOpen(restored)

NewClosure(b, r) == closure' = [closure EXCEPT ![b] = r]

(* createBlackoutWithNotify: the blackout is created. *)
CreateBlackout(b, w, notify) ==
  /\ closure[b].at = "none"
  /\ NewClosure(b, [NoClosure EXCEPT !.window = w,
       !.at = IF notify THEN "created" ELSE "silent"])
  /\ booking' = [o \in Bookings |->
       IF booking[o].at = "insert" /\ Meets(booking[o].window, w)
       THEN [booking[o] EXCEPT !.passed = @ \cup {b}] ELSE booking[o]]
  /\ UNCHANGED <<open, flag, cache, upsert, late, switches, moves>>

(* The customers of the bookings it finds: every active status but in-use. *)
Affected(w) ==
  {CustomerOf[o] : o \in {p \in Bookings : booking[p].at = "booked" /\ Meets(booking[p].window, w)}}

ListAffected(b) ==
  /\ closure[b].at = "created"
  /\ NewClosure(b, [closure[b] EXCEPT !.at = "telling", !.toTell = Affected(closure[b].window)])
  /\ UNCHANGED <<open, flag, cache, upsert, booking, late, switches, moves>>

(* Each customer is notified once.  When that fails notifyUser returns     *)
(* null, and the customer is counted as notified all the same.             *)
Tell(b, c) ==
  /\ closure[b].at = "telling" /\ c \in closure[b].toTell
  /\ \/ NewClosure(b, [closure[b] EXCEPT !.toTell = @ \ {c}, !.told = @ \cup {c}])
     \/ NewClosure(b, [closure[b] EXCEPT !.toTell = @ \ {c}, !.missed = @ \cup {c}])
  /\ UNCHANGED <<open, flag, cache, upsert, booking, late, switches, moves>>

(* The alternatives that it suggests at the end change nothing. *)
Answer(b) ==
  /\ closure[b].at = "telling" /\ closure[b].toTell = {}
  /\ NewClosure(b, [closure[b] EXCEPT !.at = "done"])
  /\ UNCHANGED <<open, flag, cache, upsert, booking, late, switches, moves>>

(* The database fails, or the process stops: nobody goes on telling. *)
ClosureStops(b) ==
  /\ closure[b].at \in {"created", "telling"}
  /\ NewClosure(b, [closure[b] EXCEPT !.at = "stopped"])
  /\ UNCHANGED <<open, flag, cache, upsert, booking, late, switches, moves>>

deleteBlackout(b) ==
  /\ b \in InForce
  /\ NewClosure(b, [closure[b] EXCEPT !.gone = TRUE])
  /\ UNCHANGED <<open, flag, cache, upsert, booking, late, switches, moves>>
-----------------------------------------------------------------------------
OrderNext(o) ==
  \/ \E w \in Windows : Create(o, w) \/ Reschedule(o, w)
  \/ AskCache(o) \/ AskFlag(o) \/ KeepAnswer(o) \/ ReadBlackouts(o) \/ Insert(o)
  \/ CheckFails(o) \/ CheckIn(o) \/ Ends(o)

SwitchNext == WriteFlag \/ Tick \/ \E i \in Instances : UpsertFlag(i)

ClosureNext(b) ==
  \/ \E w \in Windows, notify \in BOOLEAN : CreateBlackout(b, w, notify)
  \/ ListAffected(b) \/ Answer(b) \/ ClosureStops(b) \/ deleteBlackout(b)
  \/ \E c \in Customers : Tell(b, c)

AdmissionNext ==
  \/ \E o \in Bookings : OrderNext(o)
  \/ \E b \in Closures : ClosureNext(b)
  \/ SwitchNext \/ bulkUpdateSpaces \/ moderateListing

AdmissionSpec == AdmissionInit /\ [][AdmissionNext]_admissionVars
-----------------------------------------------------------------------------
(* A customer whose booking meets a blackout has been told of it, unless   *)
(* the notification failed, the order was past its look at the blackouts   *)
(* when the blackout came, or the booking was moved into it: none of these *)
(* is seen or checked again.                                               *)
BlackoutsTold ==
  \A b \in InForce, o \in Bookings :
    closure[b].at = "done" /\ booking[o].at = "booked"
      /\ Meets(booking[o].window, closure[b].window)
    => \/ CustomerOf[o] \in closure[b].told \cup closure[b].missed
       \/ b \in booking[o].passed \/ booking[o].moved

(* Once the kill switch is written, orders get past it for less than the   *)
(* time that answers are cached, on every instance and even if an instance *)
(* keeps an older answer after its cache was emptied.                      *)
SwitchBinds ==
  [][\A o \in Bookings :
       flag /\ booking[o].at \in {"switch", "answer"} /\ booking'[o].at = "blackouts"
       => late < TTL]_admissionVars
=============================================================================
