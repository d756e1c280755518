------------------------------ MODULE Booking ------------------------------
(***************************************************************************)
(* The life of the bookings of one space: bookingService, the expiry and   *)
(* completion job, rescheduleService, checkInService, the customer's       *)
(* payment report and the part of the payment gateway that touches a       *)
(* booking.                                                                *)
(*                                                                         *)
(* A step is what the database does indivisibly: one update of a document, *)
(* one multi-document transaction.  A handler that reads a document, awaits*)
(* and then saves it is several steps, and what it read may be stale.      *)
(*                                                                         *)
(* Time is abstract.  HoldExpiresAt is "none", "live" or "stale"; the      *)
(* guards that compare now with StartTime or EndTime (not in the past,     *)
(* check-in window, no-show grace, end of use) may hold at any moment.     *)
(***************************************************************************)
EXTENDS Integers, FiniteSets

CONSTANTS
  Bookings,      \* identifiers of the bookings that may be created
  NumSlots,      \* the space's timeline is the slots 1..NumSlots
  Buffer,        \* BufferBeforeMinutes + CleanupAfterMinutes, in slots
  Movers,        \* concurrent rescheduleBooking calls
  None           \* nobody

ASSUME BookingConstants ==
  /\ NumSlots \in Nat /\ Buffer \in Nat
  /\ None \notin Bookings

VARIABLES
  status,    \* Booking.Status, "none" before the document exists
  win,       \* the slots of [StartTime, EndTime)
  hold,      \* Booking.HoldExpiresAt
  slot,      \* BookingSlot: the booking a slot belongs to
  checkout,  \* the booking's gateway session: closed, being created, open
  lock,      \* holder of the lock booking:space:<id>
  txn,       \* the createBooking call of each booking
  doomed,    \* the open transactions that will meet a write conflict
  sweep,     \* the running expireStaleHolds
  closing,   \* cancelBookingByCustomer and markNoShow calls
  reporting, \* bookings confirmPayment has loaded as pending
  moves      \* rescheduleBooking calls

db == <<status, win, hold, slot>>
procs == <<sweep, closing, reporting, moves>>
vars == <<status, win, hold, slot, checkout, lock, txn, doomed, sweep,
          closing, reporting, moves>>

Slots == 1 .. NumSlots
Windows == {w \in SUBSET Slots :
              w # {} /\ \E a, z \in Slots : w = a .. z}

(* The statuses the code reaches.  draft, hold, awaiting_payment, rejected *)
(* and cancel_requested occur in queries only: nothing sets them.          *)
Statuses == {"none", "pending", "payment_under_review", "confirmed",
             "in-use", "completed", "cancelled", "expired", "no_show"}
ActiveStatuses == {"pending", "payment_under_review", "confirmed", "in-use"}
Closers == {"cancelled", "no_show"}

Closable == [c \in Closers |->
               IF c = "cancelled"
                 THEN {"pending", "payment_under_review", "confirmed"}
                 ELSE {"pending", "confirmed"}]
Reschedulable == {"pending", "payment_under_review", "confirmed"}

(* bookingService.allowedTransitions, restricted to these statuses. *)
AllowedTransitions == [s \in Statuses |->
  CASE s = "pending" -> {"confirmed", "payment_under_review", "cancelled"}
    [] s = "payment_under_review" -> {"confirmed", "cancelled"}
    [] s = "confirmed" -> {"in-use", "cancelled"}
    [] s = "in-use" -> {"completed"}
    [] OTHER -> {}]

Active(b) == status[b] \in ActiveStatuses
SlotsOf(b) == {s \in Slots : slot[s] = b}
IsStale(b) == status[b] = "pending" /\ hold[b] = "stale"

(* Two windows closer than k slots; with k = 0 they share a slot. *)
Near(v, w, k) == \E x \in v, y \in w : x <= y + k /\ y <= x + k

(* The slot table after the bookings of gone lost every slot. *)
Freed(gone) == [s \in Slots |-> IF slot[s] \in gone THEN None ELSE slot[s]]

IdleTxn == [pc |-> "idle", win |-> {}, expire |-> {}, writes |-> {}]
IdleSweep == [pc |-> "idle", ids |-> {}]
IdleMove == [pc |-> "idle", booking |-> None, to |-> {}, old |-> {},
             wasPending |-> FALSE]

(* An open transaction that will write a document somebody else changed    *)
(* after its snapshot can only end in a write conflict.                    *)
Touched(bs, ss) ==
  doomed \cup {t \in Bookings :
                /\ txn[t].pc = "open"
                /\ txn[t].expire \cap bs # {} \/ txn[t].writes \cap ss # {}}

Init ==
  /\ status = [b \in Bookings |-> "none"]
  /\ win = [b \in Bookings |-> {}]
  /\ hold = [b \in Bookings |-> "none"]
  /\ slot = [s \in Slots |-> None]
  /\ checkout = [b \in Bookings |-> "closed"]
  /\ lock = None
  /\ txn = [b \in Bookings |-> IdleTxn]
  /\ doomed = {}
  /\ sweep = IdleSweep
  /\ closing = [b \in Bookings |-> [c \in Closers |-> "idle"]]
  /\ reporting = {}
  /\ moves = [m \in Movers |-> IdleMove]

(***************************************************************************)
(* createBooking: the lock, then one snapshot transaction.                 *)
(***************************************************************************)
others == <<checkout, procs>>

AcquireLock(b) ==
  /\ status[b] = "none" /\ txn[b].pc = "idle" /\ lock = None
  /\ lock' = b
  /\ txn' = [txn EXCEPT ![b] = [IdleTxn EXCEPT !.pc = "locked"]]
  /\ UNCHANGED <<db, doomed, others>>

(* The TTL of 8 s ends, of a lock a crash left behind or under a call. *)
LockLapses ==
  /\ lock # None
  /\ lock' = None
  /\ UNCHANGED <<db, txn, doomed, others>>

Released(b) == IF lock = b THEN None ELSE lock

StaleNow == {x \in Bookings : IsStale(x)}

(* The conflict query, or a slot of w that is still taken. *)
Refused(w) ==
  \/ \E x \in Bookings \ StaleNow : Active(x) /\ Near(win[x], w, Buffer)
  \/ \E s \in w : slot[s] # None /\ slot[s] \notin StaleNow

(* Mutant of TxnBegin: no unique index, so insertions never conflict. *)
TxnBeginUnindexed(b, w) ==
  /\ txn[b].pc = "locked"
  /\ ~Refused(w)
  /\ txn' = [txn EXCEPT ![b] =
       [pc |-> "open", win |-> w, expire |-> StaleNow, writes |-> {}]]
  /\ UNCHANGED <<db, lock, doomed, others>>

(* Everything the transaction reads, it reads at its snapshot. *)
TxnBegin(b, w) ==
  /\ txn[b].pc = "locked"
  /\ ~Refused(w)
  /\ txn' = [txn EXCEPT ![b] =
       [pc |-> "open", win |-> w, expire |-> StaleNow,
        writes |-> w \cup {s \in Slots : slot[s] \in StaleNow}]]
  /\ UNCHANGED <<db, lock, doomed, others>>

(* ConflictError, or one of the later steps (add-on stock, coupon) throws:  *)
(* the transaction is rolled back and the lock released.                    *)
CreateFails(b) ==
  /\ \/ txn[b].pc = "locked" /\ \E w \in Windows : Refused(w)
     \/ txn[b].pc = "open"
  /\ txn' = [txn EXCEPT ![b] = IdleTxn]
  /\ doomed' = doomed \ {b}
  /\ lock' = Released(b)
  /\ UNCHANGED <<db, others>>

(* WriteConflict is transient: withTransaction starts over. *)
TxnRetry(b) ==
  /\ txn[b].pc = "open" /\ b \in doomed
  /\ txn' = [txn EXCEPT ![b] = [IdleTxn EXCEPT !.pc = "locked"]]
  /\ doomed' = doomed \ {b}
  /\ UNCHANGED <<db, lock, others>>

(* Stale holds expire, the booking and its slots appear: pending with a    *)
(* hold, or confirmed at once when the space has instant book.             *)
TxnCommit(b, new) ==
  /\ txn[b].pc = "open" /\ b \notin doomed
  /\ status' = [x \in Bookings |->
                  IF x = b THEN new
                  ELSE IF x \in txn[b].expire THEN "expired" ELSE status[x]]
  /\ hold' = [hold EXCEPT ![b] = IF new = "pending" THEN "live" ELSE "none"]
  /\ win' = [win EXCEPT ![b] = txn[b].win]
  /\ slot' = [s \in Slots |-> IF s \in txn[b].win THEN b
                              ELSE Freed(txn[b].expire)[s]]
  /\ doomed' = Touched(txn[b].expire \cup {b}, txn[b].writes) \ {b}
  /\ txn' = [txn EXCEPT ![b] = IdleTxn]
  /\ lock' = Released(b)
  /\ UNCHANGED others

Create(b) ==
  \/ AcquireLock(b)
  \/ \E w \in Windows : TxnBegin(b, w)
  \/ CreateFails(b)
  \/ TxnRetry(b)
  \/ \E new \in {"pending", "confirmed"} : TxnCommit(b, new)

(***************************************************************************)
(* Handlers that are one conditional update or one transaction.            *)
(***************************************************************************)
SetStatus(b, s) ==
  /\ status' = [status EXCEPT ![b] = s]
  /\ doomed' = Touched({b}, {})
  /\ UNCHANGED <<win, hold, slot, checkout, lock, txn, procs>>

Confirm(b) ==
  /\ status[b] \in {"pending", "payment_under_review"}
  /\ SetStatus(b, "confirmed")

CheckIn(b) ==
  /\ status[b] = "confirmed"
  /\ SetStatus(b, "in-use")

(* The job once EndTime is past, or the host's check-out. *)
Complete(b) ==
  /\ status[b] = "in-use"
  /\ SetStatus(b, "completed")

(* Mutant of HostCancel: the slots stay. *)
HostCancelKeepsSlots(b) ==
  /\ "cancelled" \in AllowedTransitions[status[b]]
  /\ SetStatus(b, "cancelled")

HostCancel(b) ==
  /\ "cancelled" \in AllowedTransitions[status[b]]
  /\ status' = [status EXCEPT ![b] = "cancelled"]
  /\ slot' = Freed({b})
  /\ doomed' = Touched({b}, SlotsOf(b))
  /\ UNCHANGED <<win, hold, checkout, lock, txn, procs>>

(* The clock passes HoldExpiresAt. *)
HoldLapses(b) ==
  /\ status[b] = "pending" /\ hold[b] = "live"
  /\ hold' = [hold EXCEPT ![b] = "stale"]
  /\ UNCHANGED <<status, win, slot, lock, txn, doomed, others>>

(***************************************************************************)
(* expireStaleHolds: find, check the gateway, update, delete.              *)
(***************************************************************************)
SweepFind ==
  /\ sweep.pc = "idle" /\ StaleNow # {}
  /\ sweep' = [pc |-> "found", ids |-> StaleNow]
  /\ UNCHANGED <<db, checkout, lock, txn, doomed, closing, reporting, moves>>

SweepCheckGateway ==
  LET ids == {b \in sweep.ids : checkout[b] # "open"} IN
  /\ sweep.pc = "found"
  /\ sweep' = IF ids = {} THEN IdleSweep ELSE [pc |-> "checked", ids |-> ids]
  /\ UNCHANGED <<db, checkout, lock, txn, doomed, closing, reporting, moves>>

(* Mutants of SweepExpire: no status filter; a filter that leaves pending  *)
(* out, as if holds had a status of their own.                             *)
SweepExpireUnfiltered ==
  /\ sweep.pc = "checked"
  /\ status' = [b \in Bookings |->
                  IF b \in sweep.ids THEN "expired" ELSE status[b]]
  /\ sweep' = [sweep EXCEPT !.pc = "updated"]
  /\ doomed' = Touched(sweep.ids, {})
  /\ UNCHANGED <<win, hold, slot, checkout, lock, txn, closing, reporting,
                 moves>>
SweepExpireHoldsOnly ==
  /\ sweep.pc = "checked"
  /\ sweep' = [sweep EXCEPT !.pc = "updated"]
  /\ UNCHANGED <<db, txn, doomed, checkout, lock, closing, reporting, moves>>

SweepExpire ==
  LET hit == {b \in sweep.ids : status[b] = "pending"} IN
  /\ sweep.pc = "checked"
  /\ status' = [b \in Bookings |-> IF b \in hit THEN "expired" ELSE status[b]]
  /\ sweep' = [sweep EXCEPT !.pc = "updated"]
  /\ doomed' = Touched(hit, {})
  /\ UNCHANGED <<win, hold, slot, checkout, lock, txn, closing, reporting,
                 moves>>

(* Every id loses its slots, those the update skipped included. *)
SweepFree ==
  /\ sweep.pc = "updated"
  /\ slot' = Freed(sweep.ids)
  /\ doomed' = Touched({}, {s \in Slots : slot[s] \in sweep.ids})
  /\ sweep' = IdleSweep
  /\ UNCHANGED <<status, win, hold, checkout, lock, txn, closing, reporting,
                 moves>>

Sweep == SweepFind \/ SweepCheckGateway \/ SweepExpire \/ SweepFree

(***************************************************************************)
(* cancelBookingByCustomer (and each booking of cancelSeries), markNoShow: *)
(* load and check, save the new status whatever it is by now, free.        *)
(***************************************************************************)
CloseLoad(b, c) ==
  /\ closing[b][c] = "idle" /\ status[b] \in Closable[c]
  /\ closing' = [closing EXCEPT ![b][c] = "loaded"]
  /\ UNCHANGED <<db, checkout, lock, txn, doomed, sweep, reporting, moves>>

CloseSave(b, c) ==
  /\ closing[b][c] = "loaded"
  /\ status' = [status EXCEPT ![b] = c]
  /\ doomed' = Touched({b}, {})
  /\ closing' = [closing EXCEPT ![b][c] = "saved"]
  /\ UNCHANGED <<win, hold, slot, checkout, lock, txn, sweep, reporting,
                 moves>>

CloseFree(b, c) ==
  /\ closing[b][c] = "saved"
  /\ slot' = Freed({b})
  /\ doomed' = Touched({}, SlotsOf(b))
  /\ closing' = [closing EXCEPT ![b][c] = "idle"]
  /\ UNCHANGED <<status, win, hold, checkout, lock, txn, sweep, reporting,
                 moves>>

CustomerCancel(b) == CloseLoad(b, "cancelled") \/ CloseSave(b, "cancelled")
                       \/ CloseFree(b, "cancelled")
MarkNoShow(b) == CloseLoad(b, "no_show") \/ CloseSave(b, "no_show")
                   \/ CloseFree(b, "no_show")

(***************************************************************************)
(* confirmPayment: a customer reports a bank transfer.                     *)
(***************************************************************************)
ReportLoad(b) ==
  /\ b \notin reporting /\ status[b] = "pending"
  /\ reporting' = reporting \cup {b}
  /\ UNCHANGED <<db, checkout, lock, txn, doomed, sweep, closing, moves>>

ReportSave(b) ==
  /\ b \in reporting
  /\ status' = [status EXCEPT ![b] = "payment_under_review"]
  /\ doomed' = Touched({b}, {})
  /\ reporting' = reporting \ {b}
  /\ UNCHANGED <<win, hold, slot, checkout, lock, txn, sweep, closing, moves>>

ConfirmPayment(b) == ReportLoad(b) \/ ReportSave(b)

(***************************************************************************)
(* The gateway: createCheckoutSession loads the booking, asks the provider *)
(* for a session and only then records it; handleWebhook ends it.          *)
(***************************************************************************)
CheckoutBegin(b) ==
  /\ checkout[b] = "closed" /\ Active(b)
  /\ checkout' = [checkout EXCEPT ![b] = "opening"]
  /\ UNCHANGED <<db, lock, txn, doomed, procs>>

CheckoutOpens(b) ==
  /\ checkout[b] = "opening"
  /\ checkout' = [checkout EXCEPT ![b] = "open"]
  /\ UNCHANGED <<db, lock, txn, doomed, procs>>

(* A paid session whose amount is credited. *)
CheckoutSettles(b) ==
  /\ checkout[b] = "open" /\ Active(b)
  /\ checkout' = [checkout EXCEPT ![b] = "closed"]
  /\ IF status[b] = "pending"
       THEN /\ status' = [status EXCEPT ![b] = "payment_under_review"]
            /\ doomed' = Touched({b}, {})
       ELSE UNCHANGED <<status, doomed>>
  /\ UNCHANGED <<win, hold, slot, lock, txn, procs>>

(* The session expired or failed, the money is an overpayment, or the      *)
(* booking is over: no booking changes.  An opening session may fail too.  *)
CheckoutCloses(b) ==
  /\ checkout[b] # "closed"
  /\ checkout' = [checkout EXCEPT ![b] = "closed"]
  /\ UNCHANGED <<db, lock, txn, doomed, procs>>

Checkout(b) == CheckoutBegin(b) \/ CheckoutOpens(b) \/ CheckoutSettles(b)
                 \/ CheckoutCloses(b)

(***************************************************************************)
(* rescheduleBooking: no lock and no transaction.                          *)
(***************************************************************************)
MoveLoad(m, b, w) ==
  /\ moves[m].pc = "idle" /\ status[b] \in Reschedulable
  /\ moves' = [moves EXCEPT ![m] =
       [pc |-> "loaded", booking |-> b, to |-> w, old |-> {},
        wasPending |-> status[b] = "pending"]]
  /\ UNCHANGED <<db, checkout, lock, txn, doomed, sweep, closing, reporting>>

MoveRelease(m) ==
  LET b == moves[m].booking IN
  /\ moves[m].pc = "loaded"
  /\ moves' = [moves EXCEPT ![m].pc = "released", ![m].old = SlotsOf(b)]
  /\ slot' = Freed({b})
  /\ doomed' = Touched({}, SlotsOf(b))
  /\ UNCHANGED <<status, win, hold, checkout, lock, txn, sweep, closing,
                 reporting>>

(* The conflict query leaves the space's buffers out. *)
MoveCheck(m) ==
  LET clash == \E x \in Bookings \ {moves[m].booking} :
                  Active(x) /\ Near(win[x], moves[m].to, 0) IN
  /\ moves[m].pc = "released"
  /\ moves' = [moves EXCEPT ![m].pc = IF clash THEN "failed" ELSE "checked"]
  /\ UNCHANGED <<db, checkout, lock, txn, doomed, sweep, closing, reporting>>

(* Mutant of FreePrefix: no unique index. *)
Everything(want) == want

(* The slots of want up to the first that is taken. *)
FreePrefix(want) ==
  {s \in want : \A t \in want : t <= s => slot[t] = None}

MoveInsert(m) ==
  LET got == FreePrefix(moves[m].to) IN
  /\ moves[m].pc = "checked"
  /\ slot' = [s \in Slots |-> IF s \in got THEN moves[m].booking ELSE slot[s]]
  /\ doomed' = Touched({}, got)
  /\ moves' = [moves EXCEPT ![m].pc =
                 IF got = moves[m].to THEN "secured" ELSE "failed"]
  /\ UNCHANGED <<status, win, hold, checkout, lock, txn, sweep, closing,
                 reporting>>

(* Best effort: the old slots that are still free. *)
MoveRestore(m) ==
  LET back == {s \in moves[m].old : slot[s] = None} IN
  /\ moves[m].pc = "failed"
  /\ slot' = [s \in Slots |-> IF s \in back THEN moves[m].booking ELSE slot[s]]
  /\ doomed' = Touched({}, back)
  /\ moves' = [moves EXCEPT ![m] = IdleMove]
  /\ UNCHANGED <<status, win, hold, checkout, lock, txn, sweep, closing,
                 reporting>>

MoveSave(m) ==
  LET b == moves[m].booking IN
  /\ moves[m].pc = "secured"
  /\ win' = [win EXCEPT ![b] = moves[m].to]
  /\ hold' = [hold EXCEPT ![b] = IF moves[m].wasPending THEN "live" ELSE @]
  /\ doomed' = Touched({b}, {})
  /\ moves' = [moves EXCEPT ![m] = IdleMove]
  /\ UNCHANGED <<status, slot, checkout, lock, txn, sweep, closing,
                 reporting>>

Reschedule(m) ==
  \/ \E b \in Bookings, w \in Windows : MoveLoad(m, b, w)
  \/ MoveRelease(m) \/ MoveCheck(m) \/ MoveInsert(m)
  \/ MoveRestore(m) \/ MoveSave(m)

(***************************************************************************)
(* The server process stops: what the handlers remembered is gone, what    *)
(* they wrote stays, and the open transactions are rolled back.  The lock  *)
(* stays until its TTL.                                                    *)
(***************************************************************************)
Crash ==
  /\ sweep' = IdleSweep
  /\ closing' = [b \in Bookings |-> [c \in Closers |-> "idle"]]
  /\ reporting' = {}
  /\ moves' = [m \in Movers |-> IdleMove]
  /\ txn' = [b \in Bookings |-> IdleTxn]
  /\ doomed' = {}
  /\ checkout' = [b \in Bookings |->
                    IF checkout[b] = "opening" THEN "closed" ELSE checkout[b]]
  /\ UNCHANGED <<db, lock>>

Next ==
  \/ \E b \in Bookings :
       \/ Create(b) \/ Confirm(b) \/ CheckIn(b) \/ Complete(b)
       \/ HostCancel(b) \/ HoldLapses(b)
       \/ CustomerCancel(b) \/ MarkNoShow(b)
       \/ ConfirmPayment(b) \/ Checkout(b)
  \/ \E m \in Movers : Reschedule(m)
  \/ LockLapses \/ Sweep \/ Crash

Spec == Init /\ [][Next]_vars
-----------------------------------------------------------------------------
TxnRecords ==
  [pc : {"idle", "locked", "open"}, win : SUBSET Slots,
   expire : SUBSET Bookings, writes : SUBSET Slots]
MoveRecords ==
  [pc : {"idle", "loaded", "released", "checked", "secured", "failed"},
   booking : Bookings \cup {None}, to : SUBSET Slots, old : SUBSET Slots,
   wasPending : BOOLEAN]

(* The type of every variable of the model. *)
TypeOK ==
  /\ status \in [Bookings -> Statuses]
  /\ win \in [Bookings -> SUBSET Slots]
  /\ hold \in [Bookings -> {"none", "live", "stale"}]
  /\ slot \in [Slots -> Bookings \cup {None}]
  /\ checkout \in [Bookings -> {"closed", "opening", "open"}]
  /\ lock \in Bookings \cup {None}
  /\ txn \in [Bookings -> TxnRecords]
  /\ doomed \subseteq Bookings
  /\ sweep \in [pc : {"idle", "found", "checked", "updated"},
                ids : SUBSET Bookings]
  /\ closing \in [Bookings -> [Closers -> {"idle", "loaded", "saved"}]]
  /\ reporting \subseteq Bookings
  /\ moves \in [Movers -> MoveRecords]

(* No double booking: two bookings that both count as active for the       *)
(* conflict query never share a slot of the timeline, whatever the         *)
(* interleaving of createBooking with itself and the other handlers.       *)
NoDoubleBooking ==
  \A a, b \in Bookings :
    a # b /\ Active(a) /\ Active(b) => win[a] \cap win[b] = {}

(* The space's buffer and cleanup time lies between any two active         *)
(* bookings.  The slot index cannot see buffers: only the lock around the  *)
(* conflict query and the insertion keeps two createBooking calls apart.   *)
BufferRespected ==
  \A a, b \in Bookings :
    a # b /\ Active(a) /\ Active(b) => ~Near(win[a], win[b], Buffer)

(* The two records of an occupied time agree: an active booking owns       *)
(* exactly the BookingSlot rows of its window, so the unique index         *)
(* protects every active booking.                                          *)
ActiveHoldsSlots == \A b \in Bookings : Active(b) => SlotsOf(b) = win[b]

(* Slots are given back: a booking that is cancelled, expired or marked as *)
(* no-show owns slots only while a handler that will delete them runs.     *)
ClosedFreesSlots ==
  \A b \in Bookings :
    status[b] \in {"cancelled", "expired", "no_show"} /\ SlotsOf(b) # {} =>
      \/ \E c \in Closers : closing[b][c] = "saved"
      \/ sweep.pc = "updated" /\ b \in sweep.ids

(* A status only moves along allowedTransitions, to expired when a pending *)
(* hold runs out, or to no_show from the statuses markNoShow accepts; in   *)
(* particular nothing leaves a terminal status and a guest who has         *)
(* checked in is never cancelled.                                          *)
LegalChange(s, t) ==
  \/ s = t \/ t \in AllowedTransitions[s]
  \/ s = "none" /\ t \in {"pending", "confirmed"}
  \/ s = "pending" /\ t = "expired"
  \/ s \in Closable["no_show"] /\ t = "no_show"

(* A hold that has run out and has no checkout in progress does not stay   *)
(* so for ever: the job (or a createBooking) expires it, or somebody moves *)
(* the booking on.                                                         *)
StaleHoldsReleased ==
  \A b \in Bookings : []<>~(IsStale(b) /\ checkout[b] = "closed")

(* The space's calendar: an active booking holds its window.  Every step   *)
(* of the handlers is a step of the calendar or leaves it alone.           *)
BookedWindows == [b \in Bookings |-> IF Active(b) THEN win[b] ELSE {}]
Cal == INSTANCE Calendar WITH Clients <- Bookings, held <- BookedWindows
ImplementsCalendar == Cal!CalendarSpec
=============================================================================
