---------------------------- MODULE BookingProofs ----------------------------
(***************************************************************************)
(* Theorems about Booking.tla and the scenes of MCBookingScenes.tla, for   *)
(* every set of bookings, every timeline, every buffer and all scenes of   *)
(* the handlers that keep the calendar: ScenesOrderly leaves out           *)
(* confirmPayment, which saves a stale read over an expiry, and allows one *)
(* rescheduleBooking at a time, away from the expiry job, because it gives *)
(* up a booking's slots before it has others.                              *)
(***************************************************************************)
EXTENDS MCBookingScenes, TLAPS

LEMMA ConstantFacts ==
  /\ NumSlots \in Nat /\ Buffer \in Nat /\ None \notin Bookings
  /\ \A w \in Windows : w \subseteq Slots /\ w # {}
<1> QED BY BookingConstants DEF Windows

LEMMA TypeInit == Init => TypeOK
<1> QED BY DEF Init, TypeOK, TxnRecords, MoveRecords, IdleTxn, IdleSweep,
           IdleMove, Statuses, Slots, Closers

LEMMA TouchedType ==
  ASSUME TypeOK, NEW bs, NEW ss
  PROVE  Touched(bs, ss) \subseteq Bookings /\ doomed \subseteq Touched(bs, ss)
<1> QED BY DEF Touched, TypeOK

LEMMA FreedType ==
  ASSUME TypeOK, NEW gone
  PROVE  Freed(gone) \in [Slots -> Bookings \cup {None}]
<1> QED BY DEF TypeOK, Freed

LEMMA StaleType == StaleNow \subseteq Bookings
<1> QED BY DEF StaleNow

LEMMA StepKeepsType == TypeOK /\ [Next]_vars => TypeOK'
<1> SUFFICES ASSUME TypeOK, [Next]_vars PROVE TypeOK'
  OBVIOUS
<1> USE ConstantFacts, TouchedType, FreedType, StaleType
    DEF TypeOK, others, procs, db, Statuses
<1>1. CASE UNCHANGED vars
  BY <1>1 DEF vars
<1>2. ASSUME NEW b \in Bookings, Create(b) PROVE TypeOK'
  <2>1. CASE AcquireLock(b)
    BY <2>1 DEF AcquireLock, IdleTxn, TxnRecords
  <2>2. CASE \E w \in Windows : TxnBegin(b, w)
    BY <2>2 DEF TxnBegin, TxnRecords
  <2>3. CASE CreateFails(b)
    BY <2>3 DEF CreateFails, IdleTxn, TxnRecords, Released
  <2>4. CASE TxnRetry(b)
    BY <2>4 DEF TxnRetry, IdleTxn, TxnRecords
  <2>5. ASSUME NEW new \in {"pending", "confirmed"}, TxnCommit(b, new)
        PROVE  TypeOK'
    BY <2>5 DEF TxnCommit, IdleTxn, TxnRecords, Released
  <2> QED BY <1>2, <2>1, <2>2, <2>3, <2>4, <2>5 DEF Create
<1>3. ASSUME NEW b \in Bookings,
             \/ Confirm(b) \/ CheckIn(b) \/ Complete(b)
             \/ HostCancel(b) \/ HoldLapses(b)
      PROVE  TypeOK'
  <2>1. ASSUME NEW s \in Statuses, SetStatus(b, s) PROVE TypeOK'
    BY <2>1 DEF SetStatus
  <2>2. CASE HostCancel(b)
    BY <2>2 DEF HostCancel
  <2>3. CASE HoldLapses(b)
    BY <2>3 DEF HoldLapses
  <2> QED BY <1>3, <2>1, <2>2, <2>3 DEF Confirm, CheckIn, Complete
<1>4. ASSUME NEW b \in Bookings, NEW c \in Closers,
             CloseLoad(b, c) \/ CloseSave(b, c) \/ CloseFree(b, c)
      PROVE  TypeOK'
  <2>1. ASSUME NEW pc \in {"idle", "loaded", "saved"},
               closing' = [closing EXCEPT ![b][c] = pc]
        PROVE  closing' \in [Bookings -> [Closers -> {"idle", "loaded", "saved"}]]
    <3>1. closing[b] \in [Closers -> {"idle", "loaded", "saved"}]
      OBVIOUS
    <3>2. [closing[b] EXCEPT ![c] = pc]
            \in [Closers -> {"idle", "loaded", "saved"}]
      BY <3>1
    <3>3. closing' = [closing EXCEPT ![b] = [closing[b] EXCEPT ![c] = pc]]
      BY <2>1
    <3> QED BY <3>2, <3>3
  <2>2. CASE CloseLoad(b, c)
    BY <2>1, <2>2 DEF CloseLoad
  <2>3. CASE CloseSave(b, c)
    <3>1. c \in Statuses
      BY DEF Closers
    <3>2. status' \in [Bookings -> Statuses]
      BY <2>3, <3>1 DEF CloseSave
    <3> QED BY <2>1, <2>3, <3>2 DEF CloseSave
  <2>4. CASE CloseFree(b, c)
    BY <2>1, <2>4 DEF CloseFree
  <2> QED BY <1>4, <2>2, <2>3, <2>4
<1>5. ASSUME NEW b \in Bookings, ConfirmPayment(b) \/ Checkout(b)
      PROVE  TypeOK'
  <2>1. CASE ConfirmPayment(b)
    BY <2>1 DEF ConfirmPayment, ReportLoad, ReportSave
  <2>2. CASE CheckoutBegin(b) \/ CheckoutOpens(b) \/ CheckoutCloses(b)
    BY <2>2 DEF CheckoutBegin, CheckoutOpens, CheckoutCloses
  <2>3. CASE CheckoutSettles(b)
    <3>1. CASE status[b] = "pending"
      BY <2>3, <3>1 DEF CheckoutSettles
    <3>2. CASE status[b] # "pending"
      BY <2>3, <3>2 DEF CheckoutSettles
    <3> QED BY <3>1, <3>2
  <2> QED BY <1>5, <2>1, <2>2, <2>3 DEF Checkout
<1>6. CASE LockLapses
  BY <1>6 DEF LockLapses
<1>7. CASE Sweep
  BY <1>7 DEF Sweep, SweepFind, SweepCheckGateway, SweepExpire, SweepFree,
              IdleSweep
<1>8. ASSUME NEW m \in Movers, Reschedule(m) PROVE TypeOK'
  <2> DEFINE b == moves[m].booking
  <2>0. moves[m] \in MoveRecords
    OBVIOUS
  <2>1. CASE \E x \in Bookings, w \in Windows : MoveLoad(m, x, w)
    BY <2>1 DEF MoveLoad, MoveRecords
  <2>2. CASE MoveRelease(m)
    <3>1. moves' = [moves EXCEPT ![m] =
                      [@ EXCEPT !.pc = "released", !.old = SlotsOf(b)]]
      BY <2>2 DEF MoveRelease
    <3>2. [moves[m] EXCEPT !.pc = "released", !.old = SlotsOf(b)]
            \in MoveRecords
      BY <2>0 DEF MoveRecords, SlotsOf
    <3>3. moves' \in [Movers -> MoveRecords]
      BY <3>1, <3>2
    <3> QED BY <2>2, <3>3 DEF MoveRelease
  <2>3. CASE MoveCheck(m)
    <3>1. PICK pc \in {"failed", "checked"} :
            moves' = [moves EXCEPT ![m] = [@ EXCEPT !.pc = pc]]
      BY <2>3 DEF MoveCheck
    <3>2. [moves[m] EXCEPT !.pc = pc] \in MoveRecords
      BY <2>0 DEF MoveRecords
    <3>3. moves' \in [Movers -> MoveRecords]
      BY <3>1, <3>2
    <3> QED BY <2>3, <3>3 DEF MoveCheck
  <2>4. CASE MoveInsert(m)
    <3>1. PICK pc \in {"failed", "secured"} :
            moves' = [moves EXCEPT ![m] = [@ EXCEPT !.pc = pc]]
      BY <2>4 DEF MoveInsert
    <3>2. [moves[m] EXCEPT !.pc = pc] \in MoveRecords
      BY <2>0 DEF MoveRecords
    <3>3. moves' \in [Movers -> MoveRecords]
      BY <3>1, <3>2
    <3>4. FreePrefix(moves[m].to) = {} \/ b \in Bookings \cup {None}
      BY <2>0 DEF MoveRecords
    <3>5. slot' \in [Slots -> Bookings \cup {None}]
      BY <2>4, <3>4 DEF MoveInsert
    <3> QED BY <2>4, <3>3, <3>5 DEF MoveInsert
  <2>5. CASE MoveRestore(m)
    <3>1. slot' \in [Slots -> Bookings \cup {None}]
      BY <2>0, <2>5 DEF MoveRestore, MoveRecords
    <3>2. IdleMove \in MoveRecords
      BY DEF IdleMove, MoveRecords
    <3>3. moves' \in [Movers -> MoveRecords]
      BY <2>5, <3>2 DEF MoveRestore
    <3> QED BY <2>5, <3>1, <3>3 DEF MoveRestore
  <2>6. CASE MoveSave(m)
    <3>1. moves[m].to \subseteq Slots
      BY <2>0 DEF MoveRecords
    <3>2. win' \in [Bookings -> SUBSET Slots]
      BY <2>6, <3>1 DEF MoveSave
    <3>3. hold' \in [Bookings -> {"none", "live", "stale"}]
      BY <2>6 DEF MoveSave
    <3>4. IdleMove \in MoveRecords
      BY DEF IdleMove, MoveRecords
    <3>5. moves' \in [Movers -> MoveRecords]
      BY <2>6, <3>4 DEF MoveSave
    <3> QED BY <2>6, <3>2, <3>3, <3>5 DEF MoveSave
  <2> QED BY <1>8, <2>1, <2>2, <2>3, <2>4, <2>5, <2>6 DEF Reschedule
<1>9. CASE Crash
  BY <1>9 DEF Crash, IdleSweep, IdleMove, IdleTxn, TxnRecords, MoveRecords
<1> QED BY <1>1, <1>2, <1>3, <1>4, <1>5, <1>6, <1>7, <1>8, <1>9
        DEF Next, CustomerCancel, MarkNoShow, Closers

(* Every variable keeps its type, whatever handlers run and interleave.    *)
THEOREM TypeCorrect == Spec => []TypeOK
<1> QED BY TypeInit, StepKeepsType, PTL DEF Spec
(* A scene only leaves handlers out. *)
LEMMA SceneStep == [SceneNext]_<<vars, scene>> => [Next]_vars /\ UNCHANGED scene
<1> SUFFICES ASSUME [SceneNext]_<<vars, scene>>
             PROVE  (Next \/ UNCHANGED vars) /\ UNCHANGED scene
  OBVIOUS
<1>1. CASE UNCHANGED <<vars, scene>>
  BY <1>1
<1>2. CASE SceneNext
  BY <1>2 DEF SceneNext, Next, Plays
<1> QED BY <1>1, <1>2
-----------------------------------------------------------------------------
(***************************************************************************)
(* The inductive invariant, part by part.  What keeps an open transaction  *)
(* correct until it commits, although other steps change what its snapshot *)
(* has read: it is doomed, or its reads still hold.                        *)
(***************************************************************************)
Open(t) == txn[t].pc = "open"
Sound(t) == Open(t) /\ t \notin doomed

(* Only the status of an existing booking is ever saved by a closer, and   *)
(* nobody revives what it has saved.                                       *)
CloseKnown ==
  \A b \in Bookings, c \in Closers :
    /\ closing[b][c] # "idle" => status[b] # "none"
    /\ closing[b][c] = "saved" => ~Active(b)

(* A booking that is still being created does not exist yet. *)
TxnFresh ==
  \A b \in Bookings :
    /\ txn[b].pc # "idle" => status[b] = "none"
    /\ Open(b) => txn[b].win # {}

(* What a sound transaction will expire is still pending. *)
ExpirePending ==
  \A t \in Bookings : Sound(t) =>
    \A x \in txn[t].expire : status[x] = "pending"

(* What a sound transaction will insert is free, or is freed by it. *)
TxnReserves ==
  \A t \in Bookings : Sound(t) =>
    /\ txn[t].win \subseteq txn[t].writes
    /\ \A s \in txn[t].win : slot[s] = None \/ slot[s] \in txn[t].expire

StatusInv == TypeOK /\ CloseKnown /\ TxnFresh /\ ExpirePending /\ TxnReserves

(* What a sound transaction will insert is still free of active bookings.  *)
TxnExcludes ==
  \A t \in Bookings : Sound(t) =>
    \A x \in Bookings \ txn[t].expire :
      x # t /\ Active(x) => win[x] \cap txn[t].win = {}

WinKnown == \A b \in Bookings : Active(b) => win[b] # {}

(* From its check to its save, a reschedule's new window is free of the    *)
(* other active bookings; one that slipped in after the check has its      *)
(* slots, and once the reschedule has inserted its own none can.           *)
MoveInv ==
  /\ \A m \in Movers : moves[m].pc # "idle" =>
       /\ moves[m].booking \in Bookings /\ moves[m].to # {}
       /\ status[moves[m].booking] # "none"
  /\ \A m \in Movers : moves[m].pc = "secured" /\ Active(moves[m].booking) =>
       \A s \in moves[m].to : slot[s] = moves[m].booking
  /\ \A m \in Movers :
       moves[m].pc \in {"checked", "secured"} /\ Active(moves[m].booking) =>
         \A x \in Bookings \ {moves[m].booking} : Active(x) =>
           \/ win[x] \cap moves[m].to = {}
           \/ moves[m].pc = "checked" /\ win[x] \subseteq SlotsOf(x)

(* The scenes in which the code keeps the calendar.                        *)
Orderly ==
  /\ "report" \notin scene
  /\ "move" \in scene => "sweep" \notin scene /\ \A m, n \in Movers : m = n

BookingInv ==
  /\ Orderly /\ StatusInv /\ TxnExcludes /\ WinKnown /\ NoDoubleBooking
  /\ "move" \in scene => MoveInv

(* What the steps outside createBooking have in common: an existing status *)
(* changes, no booking becomes active, whoever meant to expire it is       *)
(* doomed, and so is whoever meant to write a slot that changes.           *)
Ordinary ==
  /\ UNCHANGED txn /\ doomed \subseteq doomed'
  /\ \A x \in Bookings : status'[x] # status[x] =>
       /\ status[x] # "none" /\ status'[x] # "none"
       /\ status'[x] \in ActiveStatuses => status[x] \in ActiveStatuses
       /\ \A t \in Bookings : Open(t) /\ x \in txn[t].expire => t \in doomed'
  /\ \A s \in Slots : slot'[s] # slot[s] =>
       \A t \in Bookings : Open(t) /\ s \in txn[t].writes => t \in doomed'

(* Apart from the expiry job and a reschedule, they leave the slots of a   *)
(* booking that stays active alone.                                        *)
Gentle ==
  /\ UNCHANGED <<win, moves>>
  /\ \A s \in Slots : slot'[s] # slot[s] =>
       slot'[s] = None /\ \A x \in Bookings : Active(x)' => slot[s] # x

LEMMA InvInit ==
  ASSUME Orderly
  PROVE  Init => BookingInv
<1> SUFFICES ASSUME Init PROVE BookingInv
  OBVIOUS
<1>1. TypeOK
  BY TypeInit
<1>2. TxnFresh /\ ExpirePending /\ TxnReserves /\ TxnExcludes
  BY DEF Init, IdleTxn, TxnFresh, ExpirePending, TxnReserves, TxnExcludes, Sound,
         Open
<1>3. CloseKnown /\ NoDoubleBooking /\ WinKnown
  BY DEF Init, CloseKnown, NoDoubleBooking, WinKnown, Active, ActiveStatuses
<1>4. MoveInv
  BY DEF Init, MoveInv, IdleMove
<1> QED BY <1>1, <1>2, <1>3, <1>4 DEF BookingInv, StatusInv

(* Changing the status of one existing booking without reviving it, and    *)
(* freeing some of the slots of what is not active, is ordinary and gentle *)
(* when Touched names the booking and the slots.                           *)
LEMMA OneStatus ==
  ASSUME TypeOK, NEW b \in Bookings, NEW s, NEW ss,
         status[b] # "none", s # "none",
         s \in ActiveStatuses => status[b] \in ActiveStatuses,
         status' = [status EXCEPT ![b] = s], doomed' = Touched({b}, ss),
         UNCHANGED <<win, txn, moves>>,
         \/ UNCHANGED slot
         \/ slot' = Freed({b}) /\ ss = SlotsOf(b) /\ s \notin ActiveStatuses
  PROVE  Ordinary /\ Gentle
<1>1. \A x \in Bookings : status'[x] # status[x] => x = b /\ status'[x] = s
  BY DEF TypeOK
<1>2. \A t \in Bookings : Open(t) /\ b \in txn[t].expire => t \in doomed'
  BY DEF Touched, Open
<1>3. CASE UNCHANGED slot
  BY <1>1, <1>2, <1>3, TouchedType DEF Ordinary, Gentle
<1>4. CASE slot' = Freed({b}) /\ ss = SlotsOf(b) /\ s \notin ActiveStatuses
  <2>1. \A z \in Slots : slot'[z] # slot[z] =>
          slot[z] = b /\ z \in ss /\ slot'[z] = None
    BY <1>4 DEF Freed, SlotsOf
  <2>2. \A z \in Slots : slot'[z] # slot[z] =>
          \A t \in Bookings : Open(t) /\ z \in txn[t].writes => t \in doomed'
    BY <2>1 DEF Touched, Open
  <2>3. ~Active(b)'
    BY <1>4 DEF Active, TypeOK
  <2> QED BY <1>1, <1>2, <2>1, <2>2, <2>3, TouchedType DEF Ordinary, Gentle
<1> QED BY <1>3, <1>4

(* Changing no status, and only slots that Touched names, is ordinary.     *)
LEMMA NoStatus ==
  ASSUME TypeOK, NEW ss, UNCHANGED <<txn, status>>,
         doomed' = Touched({}, ss),
         \A s \in Slots : slot'[s] # slot[s] => s \in ss
  PROVE  Ordinary
<1>1. \A s \in Slots : s \in ss =>
        \A t \in Bookings : Open(t) /\ s \in txn[t].writes => t \in doomed'
  BY DEF Touched, Open
<1> QED BY <1>1, TouchedType DEF Ordinary

LEMMA NoChange ==
  ASSUME TypeOK, UNCHANGED <<txn, status, slot>>, doomed \subseteq doomed'
  PROVE  Ordinary
<1> QED BY DEF Ordinary

(* Every step of an orderly scene is a step of createBooking, a crash or   *)
(* ordinary, and gentle unless it is the expiry job's or a reschedule's.   *)
LEMMA StepKinds ==
  ASSUME Orderly, TypeOK, CloseKnown, SceneNext
  PROVE  \/ Ordinary /\ Gentle
         \/ "sweep" \in scene /\ Sweep /\ Ordinary /\ UNCHANGED <<win, moves>>
         \/ "move" \in scene /\ Ordinary /\ \E m \in Movers : Reschedule(m)
         \/ \E b \in Bookings : Create(b)
         \/ Crash
<1> USE TouchedType DEF procs, db, others
<1>1. ASSUME UNCHANGED <<win, moves, slot>> PROVE Gentle
  BY <1>1 DEF Gentle
<1>2. ASSUME NEW b \in Bookings,
             \/ Confirm(b) \/ CheckIn(b) \/ Complete(b)
             \/ HostCancel(b) \/ HoldLapses(b)
      PROVE  Ordinary /\ Gentle
  <2>1. CASE Confirm(b) \/ CheckIn(b) \/ Complete(b)
    BY <2>1, OneStatus
       DEF Confirm, CheckIn, Complete, SetStatus, ActiveStatuses
  <2>2. CASE HostCancel(b)
    <3>1. status[b] # "none"
      BY <2>2 DEF HostCancel, AllowedTransitions, TypeOK, Statuses
    <3>2. "cancelled" \notin ActiveStatuses
      BY DEF ActiveStatuses
    <3> QED BY <2>2, <3>1, <3>2, OneStatus DEF HostCancel
  <2>3. CASE HoldLapses(b)
    BY <2>3, <1>1, NoChange DEF HoldLapses
  <2> QED BY <1>2, <2>1, <2>2, <2>3
<1>3. ASSUME NEW b \in Bookings, NEW c \in Closers,
             CloseLoad(b, c) \/ CloseSave(b, c) \/ CloseFree(b, c)
      PROVE  Ordinary /\ Gentle
  <2>1. CASE CloseLoad(b, c)
    BY <2>1, <1>1, NoChange DEF CloseLoad
  <2>2. CASE CloseSave(b, c)
    <3>1. status[b] # "none"
      BY <2>2 DEF CloseSave, CloseKnown
    <3>2. c \notin ActiveStatuses /\ c # "none"
      BY DEF ActiveStatuses, Closers
    <3> QED BY <2>2, <3>1, <3>2, OneStatus DEF CloseSave
  <2>3. CASE CloseFree(b, c)
    <3>1. /\ slot' = Freed({b}) /\ doomed' = Touched({}, SlotsOf(b))
          /\ UNCHANGED <<status, txn, win, moves>>
      BY <2>3 DEF CloseFree
    <3>2. \A s \in Slots : slot'[s] # slot[s] =>
            s \in SlotsOf(b) /\ slot[s] = b /\ slot'[s] = None
      BY <3>1 DEF Freed, SlotsOf
    <3>3. ~Active(b)'
      BY <2>3, <3>1 DEF CloseFree, CloseKnown, Active
    <3>4. Ordinary
      BY <3>1, <3>2, NoStatus
    <3> QED BY <3>1, <3>2, <3>3, <3>4 DEF Gentle
  <2> QED BY <1>3, <2>1, <2>2, <2>3
<1>4. ASSUME NEW b \in Bookings, Checkout(b) PROVE Ordinary /\ Gentle
  <2>1. CASE CheckoutBegin(b) \/ CheckoutOpens(b) \/ CheckoutCloses(b)
    BY <2>1, <1>1, NoChange DEF CheckoutBegin, CheckoutOpens, CheckoutCloses
  <2>2. CASE CheckoutSettles(b) /\ status[b] = "pending"
    BY <2>2, OneStatus DEF CheckoutSettles, ActiveStatuses
  <2>3. CASE CheckoutSettles(b) /\ status[b] # "pending"
    BY <2>3, <1>1, NoChange DEF CheckoutSettles
  <2> QED BY <1>4, <2>1, <2>2, <2>3 DEF Checkout
<1>5. CASE LockLapses
  BY <1>5, <1>1, NoChange DEF LockLapses
<1>6. ASSUME Sweep PROVE Ordinary /\ UNCHANGED <<win, moves>>
  <2>0. UNCHANGED <<win, moves, txn>>
    BY <1>6 DEF Sweep, SweepFind, SweepCheckGateway, SweepExpire, SweepFree
  <2>1. CASE SweepFind \/ SweepCheckGateway
    BY <2>0, <2>1, NoChange DEF SweepFind, SweepCheckGateway
  <2>2. CASE SweepExpire
    <3> DEFINE hit == {b \in sweep.ids : status[b] = "pending"}
    <3>1. \A x \in Bookings : status'[x] # status[x] =>
            /\ status[x] = "pending" /\ status'[x] = "expired"
            /\ x \in hit
      BY <2>2 DEF SweepExpire
    <3>2. \A t, x \in Bookings :
            Open(t) /\ x \in txn[t].expire /\ x \in hit => t \in doomed'
      BY <2>2 DEF SweepExpire, Touched, Open
    <3>3. UNCHANGED <<slot, txn>> /\ doomed \subseteq doomed'
      BY <2>2 DEF SweepExpire
    <3> HIDE DEF hit
    <3> QED BY <2>0, <3>1, <3>2, <3>3 DEF Ordinary, ActiveStatuses
  <2>3. CASE SweepFree
    <3>1. /\ slot' = Freed(sweep.ids) /\ UNCHANGED <<status, txn>>
          /\ doomed' = Touched({}, {s \in Slots : slot[s] \in sweep.ids})
      BY <2>3 DEF SweepFree
    <3>2. \A s \in Slots : slot'[s] # slot[s] =>
            s \in {z \in Slots : slot[z] \in sweep.ids}
      BY <3>1 DEF Freed
    <3> QED BY <2>0, <3>1, <3>2, NoStatus
  <2> QED BY <1>6, <2>0, <2>1, <2>2, <2>3 DEF Sweep
<1>7. ASSUME NEW m \in Movers, Reschedule(m) PROVE Ordinary
  <2>1. CASE \E b \in Bookings, w \in Windows : MoveLoad(m, b, w)
    BY <2>1, NoChange DEF MoveLoad
  <2>2. CASE MoveRelease(m)
    BY <2>2, NoStatus DEF MoveRelease, Freed, SlotsOf
  <2>3. CASE MoveCheck(m) \/ MoveSave(m)
    BY <2>3, NoChange DEF MoveCheck, MoveSave
  <2>4. CASE MoveInsert(m)
    <3>1. /\ UNCHANGED <<status, txn>>
          /\ doomed' = Touched({}, FreePrefix(moves[m].to))
          /\ \A s \in Slots : slot'[s] # slot[s] => s \in FreePrefix(moves[m].to)
      BY <2>4 DEF MoveInsert
    <3> QED BY <3>1, NoStatus
  <2>5. CASE MoveRestore(m)
    <3> DEFINE back == {s \in moves[m].old : slot[s] = None}
    <3>1. /\ UNCHANGED <<status, txn>> /\ doomed' = Touched({}, back)
          /\ \A s \in Slots : slot'[s] # slot[s] => s \in back
      BY <2>5 DEF MoveRestore
    <3> QED BY <3>1, NoStatus
  <2> QED BY <1>7, <2>1, <2>2, <2>3, <2>4, <2>5 DEF Reschedule
<1> QED BY <1>2, <1>3, <1>4, <1>5, <1>6, <1>7
        DEF SceneNext, Plays, Orderly, CustomerCancel, MarkNoShow, Closers

(* StatusInv is kept by every ordinary step ...                            *)
LEMMA OrdinaryKeepsStatus ==
  ASSUME StatusInv, Ordinary
  PROVE  TxnFresh' /\ ExpirePending' /\ TxnReserves'
<1>1. \A t \in Bookings : (Sound(t))' => Sound(t) /\ t \notin doomed'
  BY DEF Ordinary, Sound, Open
<1>2. TxnFresh'
  BY DEF Ordinary, StatusInv, TxnFresh, Open
<1>3. ExpirePending'
  <2> SUFFICES ASSUME NEW t \in Bookings, (Sound(t))', NEW x \in txn'[t].expire
               PROVE  status'[x] = "pending"
    BY DEF ExpirePending
  <2>1. Sound(t) /\ Open(t) /\ t \notin doomed' /\ txn' = txn
    BY <1>1 DEF Sound, Ordinary
  <2>2. x \in Bookings /\ status[x] = "pending"
    BY <2>1 DEF StatusInv, ExpirePending, TypeOK, TxnRecords
  <2> QED BY <2>1, <2>2 DEF Ordinary
<1>4. TxnReserves'
  <2> SUFFICES ASSUME NEW t \in Bookings, (Sound(t))'
               PROVE  /\ txn'[t].win \subseteq txn'[t].writes
                      /\ \A s \in txn'[t].win :
                           slot'[s] = None \/ slot'[s] \in txn'[t].expire
    BY DEF TxnReserves
  <2>1. Sound(t) /\ Open(t) /\ t \notin doomed' /\ txn' = txn
    BY <1>1 DEF Sound, Ordinary
  <2>2. txn[t].win \subseteq Slots
    BY DEF StatusInv, TypeOK, TxnRecords
  <2>3. /\ txn[t].win \subseteq txn[t].writes
        /\ \A s \in txn[t].win : slot[s] = None \/ slot[s] \in txn[t].expire
    BY <2>1 DEF StatusInv, TxnReserves
  <2>4. \A s \in txn[t].win : slot'[s] = slot[s]
    BY <2>1, <2>2, <2>3 DEF Ordinary
  <2> QED BY <2>1, <2>3, <2>4
<1> QED BY <1>2, <1>3, <1>4

(* ... by the steps that only start or end transactions ...                *)
LEMMA TxnEndKeepsStatus ==
  ASSUME StatusInv, UNCHANGED <<status, slot>>,
         \A t \in Bookings :
           /\ txn'[t].pc # "idle" => txn[t].pc # "idle" \/ status[t] = "none"
           /\ txn'[t].pc = "open" =>
                txn'[t] = txn[t] /\ (t \in doomed => t \in doomed')
  PROVE  TxnFresh' /\ ExpirePending' /\ TxnReserves'
<1>1. \A t \in Bookings : (Sound(t))' => Sound(t) /\ txn'[t] = txn[t]
  BY DEF Sound, Open
<1>2. TxnFresh'
  BY DEF StatusInv, TxnFresh, Open
<1>3. ExpirePending'
  BY <1>1 DEF StatusInv, ExpirePending
<1>4. TxnReserves'
  BY <1>1 DEF StatusInv, TxnReserves
<1> QED BY <1>2, <1>3, <1>4

(* ... when a transaction reads ...                                        *)
LEMMA BeginFacts ==
  ASSUME TypeOK, NEW b \in Bookings, NEW w \in Windows, TxnBegin(b, w)
  PROVE  /\ txn'[b] = [pc |-> "open", win |-> w, expire |-> StaleNow,
                       writes |-> w \cup {s \in Slots : slot[s] \in StaleNow}]
         /\ \A t \in Bookings : t # b => txn'[t] = txn[t]
         /\ UNCHANGED <<status, win, slot, doomed>>
<1> QED BY DEF TxnBegin, db, TypeOK

LEMMA BeginKeepsStatus ==
  ASSUME StatusInv, NEW b \in Bookings, NEW w \in Windows, TxnBegin(b, w)
  PROVE  TxnFresh' /\ ExpirePending' /\ TxnReserves'
<1>1. /\ txn'[b] = [pc |-> "open", win |-> w, expire |-> StaleNow,
                    writes |-> w \cup {s \in Slots : slot[s] \in StaleNow}]
      /\ \A t \in Bookings : t # b => txn'[t] = txn[t]
      /\ UNCHANGED <<status, win, slot, doomed>>
  BY BeginFacts DEF StatusInv
<1>2. w # {} /\ txn[b].pc = "locked"
  BY ConstantFacts DEF TxnBegin
<1>3. \A x \in StaleNow : status[x] = "pending"
  BY DEF StaleNow, IsStale
<1>4. \A s \in w : slot[s] = None \/ slot[s] \in StaleNow
  BY DEF TxnBegin, Refused
<1>5. TxnFresh'
  BY <1>1, <1>2 DEF StatusInv, TxnFresh, Open
<1>6. ExpirePending'
  BY <1>1, <1>3 DEF StatusInv, ExpirePending, Sound, Open
<1>7. TxnReserves'
  <2> SUFFICES ASSUME NEW t \in Bookings, (Sound(t))'
               PROVE  /\ txn'[t].win \subseteq txn'[t].writes
                      /\ \A s \in txn'[t].win :
                           slot[s] = None \/ slot[s] \in txn'[t].expire
    BY <1>1 DEF TxnReserves
  <2>1. CASE t = b
    BY <2>1, <1>1, <1>4
  <2>2. CASE t # b
    <3>1. Sound(t) /\ txn'[t] = txn[t]
      BY <2>2, <1>1 DEF Sound, Open
    <3> QED BY <3>1 DEF StatusInv, TxnReserves
  <2> QED BY <2>1, <2>2
<1> QED BY <1>5, <1>6, <1>7

(* ... and when a sound one commits: the open ones it interferes with are  *)
(* doomed, because they would write a document or a slot it has written.   *)
LEMMA CommitFacts ==
  ASSUME StatusInv, NEW b \in Bookings,
         NEW new \in {"pending", "confirmed"}, TxnCommit(b, new)
  PROVE  /\ Sound(b) /\ status[b] = "none" /\ txn[b].win # {}
         /\ txn[b].win \subseteq txn[b].writes
         /\ \A x \in txn[b].expire : status[x] = "pending"
         /\ \A s \in txn[b].win : slot[s] = None \/ slot[s] \in txn[b].expire
         /\ status' = [x \in Bookings |->
               IF x = b THEN new ELSE IF x \in txn[b].expire THEN "expired"
               ELSE status[x]]
         /\ win'[b] = txn[b].win /\ txn'[b] = IdleTxn
         /\ \A x \in Bookings : x # b => win'[x] = win[x] /\ txn'[x] = txn[x]
         /\ \A x \in Bookings : x # b /\ Active(x)' =>
               Active(x) /\ x \notin txn[b].expire
         /\ \A t \in Bookings : (Sound(t))' =>
               /\ t # b /\ Sound(t) /\ txn'[t] = txn[t]
               /\ txn[t].expire \cap (txn[b].expire \cup {b}) = {}
               /\ txn[t].writes \cap txn[b].writes = {}
         /\ \A s \in Slots : s \in txn[b].win => slot'[s] = b
         /\ \A s \in Slots : s \notin txn[b].win =>
               slot'[s] = IF slot[s] \in txn[b].expire THEN None ELSE slot[s]
<1>1. Sound(b) /\ status[b] = "none" /\ txn[b].win # {}
  BY DEF TxnCommit, Sound, Open, StatusInv, TxnFresh
<1>2. /\ txn[b].win \subseteq txn[b].writes
      /\ \A x \in txn[b].expire : status[x] = "pending"
      /\ \A s \in txn[b].win : slot[s] = None \/ slot[s] \in txn[b].expire
  BY <1>1 DEF StatusInv, TxnReserves, ExpirePending
<1>3. /\ status' = [x \in Bookings |->
                      IF x = b THEN new ELSE IF x \in txn[b].expire THEN "expired"
                      ELSE status[x]]
      /\ win' = [win EXCEPT ![b] = txn[b].win]
      /\ txn' = [txn EXCEPT ![b] = IdleTxn]
      /\ doomed' = Touched(txn[b].expire \cup {b}, txn[b].writes) \ {b}
  BY DEF TxnCommit
<1>4. /\ win'[b] = txn[b].win /\ txn'[b] = IdleTxn
      /\ \A x \in Bookings : x # b => win'[x] = win[x] /\ txn'[x] = txn[x]
  BY <1>3 DEF StatusInv, TypeOK
<1>5. \A x \in Bookings : x # b /\ Active(x)' => Active(x) /\ x \notin txn[b].expire
  BY <1>3 DEF Active, ActiveStatuses
<1>6. \A t \in Bookings : (Sound(t))' =>
        /\ t # b /\ Sound(t) /\ txn'[t] = txn[t]
        /\ txn[t].expire \cap (txn[b].expire \cup {b}) = {}
        /\ txn[t].writes \cap txn[b].writes = {}
  BY <1>3, <1>4 DEF Sound, Open, Touched, IdleTxn
<1>7. \A s \in Slots : s \in txn[b].win => slot'[s] = b
  BY DEF TxnCommit
<1>8. \A s \in Slots : s \notin txn[b].win =>
        slot'[s] = IF slot[s] \in txn[b].expire THEN None ELSE slot[s]
  BY DEF TxnCommit, Freed
<1> QED BY <1>1, <1>2, <1>3, <1>4, <1>5, <1>6, <1>7, <1>8

LEMMA CommitKeepsStatus ==
  ASSUME StatusInv, NEW b \in Bookings,
         NEW new \in {"pending", "confirmed"}, TxnCommit(b, new)
  PROVE  TxnFresh' /\ ExpirePending' /\ TxnReserves'
<1>1. TxnFresh'
  <2> SUFFICES ASSUME NEW t \in Bookings
               PROVE  /\ txn'[t].pc # "idle" => status'[t] = "none"
                      /\ txn'[t].pc = "open" => txn'[t].win # {}
    BY DEF TxnFresh, Open
  <2>1. CASE t = b
    BY <2>1, CommitFacts DEF IdleTxn
  <2>2. CASE t # b
    BY <2>2, CommitFacts DEF StatusInv, TxnFresh, Open
  <2> QED BY <2>1, <2>2
<1>2. ExpirePending'
  BY CommitFacts DEF StatusInv, ExpirePending, TypeOK, TxnRecords
<1>3. TxnReserves'
  <2> SUFFICES ASSUME NEW t \in Bookings, (Sound(t))'
               PROVE  /\ txn'[t].win \subseteq txn'[t].writes
                      /\ \A s \in txn'[t].win :
                           slot'[s] = None \/ slot'[s] \in txn'[t].expire
    BY DEF TxnReserves
  <2>1. /\ Sound(t) /\ txn'[t] = txn[t]
        /\ txn[t].writes \cap txn[b].writes = {}
        /\ txn[b].win \subseteq txn[b].writes
    BY CommitFacts
  <2>2. /\ txn[t].win \subseteq txn[t].writes /\ txn[t].win \subseteq Slots
        /\ \A s \in txn[t].win : slot[s] = None \/ slot[s] \in txn[t].expire
    BY <2>1 DEF StatusInv, TxnReserves, TypeOK, TxnRecords
  <2>3. \A s \in txn[t].win : slot'[s] = None \/ slot'[s] = slot[s]
    BY <2>1, <2>2, CommitFacts
  <2> QED BY <2>1, <2>2, <2>3
<1> QED BY <1>1, <1>2, <1>3

LEMMA CreateKeepsStatus ==
  ASSUME StatusInv, NEW b \in Bookings, Create(b)
  PROVE  TxnFresh' /\ ExpirePending' /\ TxnReserves'
<1>1. CASE AcquireLock(b)
  BY <1>1, TxnEndKeepsStatus DEF AcquireLock, IdleTxn, db, StatusInv, TypeOK
<1>2. CASE CreateFails(b)
  BY <1>2, TxnEndKeepsStatus DEF CreateFails, IdleTxn, db, StatusInv, TypeOK
<1>3. CASE TxnRetry(b)
  BY <1>3, TxnEndKeepsStatus DEF TxnRetry, IdleTxn, db, StatusInv, TypeOK
<1> QED BY <1>1, <1>2, <1>3, BeginKeepsStatus, CommitKeepsStatus DEF Create

LEMMA CrashKeepsStatus ==
  ASSUME StatusInv, Crash
  PROVE  TxnFresh' /\ ExpirePending' /\ TxnReserves'
<1> QED BY TxnEndKeepsStatus DEF Crash, IdleTxn, db

(* No step takes a booking back to "none" or revives it; a closer starts   *)
(* from and saves another status.                                          *)
LEMMA NotRevived ==
  ASSUME Orderly, StatusInv, SceneNext
  PROVE  \A b \in Bookings : status[b] # "none" =>
           status'[b] # "none" /\ (Active(b)' => Active(b))
<1>1. CASE Ordinary
  BY <1>1 DEF Ordinary, Active
<1>2. CASE Crash
  BY <1>2 DEF Crash, db, Active
<1>3. ASSUME NEW b \in Bookings, Create(b)
      PROVE  \A x \in Bookings : status[x] # "none" =>
               status'[x] # "none" /\ (Active(x)' => Active(x))
  <2>1. ASSUME NEW new \in {"pending", "confirmed"}, TxnCommit(b, new)
        PROVE  \A x \in Bookings : status[x] # "none" =>
                 status'[x] # "none" /\ (Active(x)' => Active(x))
    <3>1. /\ status[b] = "none"
          /\ \A x \in Bookings : x # b /\ Active(x)' => Active(x)
          /\ status' = [x \in Bookings |->
               IF x = b THEN new ELSE IF x \in txn[b].expire THEN "expired"
               ELSE status[x]]
      BY <2>1, CommitFacts
    <3> QED BY <3>1
  <2>2. CASE ~ \E new \in {"pending", "confirmed"} : TxnCommit(b, new)
    BY <2>2, <1>3
       DEF Create, AcquireLock, TxnBegin, CreateFails, TxnRetry, db, Active
  <2> QED BY <2>1, <2>2
<1> QED BY <1>1, <1>2, <1>3, StepKinds DEF StatusInv

LEMMA CloseKnownKeeps ==
  ASSUME Orderly, StatusInv, SceneNext
  PROVE  CloseKnown'
<1>1. \A b \in Bookings, c \in Closers :
        /\ closing'[b][c] # "idle" => closing[b][c] # "idle" \/ status[b] # "none"
        /\ closing'[b][c] = "saved" =>
             closing[b][c] = "saved" \/ status'[b] = c
  <2>1. ASSUME NEW b \in Bookings, NEW c \in Closers,
               CloseLoad(b, c) \/ CloseSave(b, c) \/ CloseFree(b, c)
        PROVE  \A x \in Bookings, d \in Closers :
                 /\ closing'[x][d] # "idle" =>
                      closing[x][d] # "idle" \/ status[x] # "none"
                 /\ closing'[x][d] = "saved" =>
                      closing[x][d] = "saved" \/ status'[x] = d
    <3>1. status[b] # "none" \/ closing[b][c] # "idle"
      BY <2>1 DEF CloseLoad, CloseSave, CloseFree, Closable, Closers
    <3>2. \A x \in Bookings, d \in Closers :
            (x # b \/ d # c) => closing'[x][d] = closing[x][d]
      BY <2>1 DEF CloseLoad, CloseSave, CloseFree, StatusInv, TypeOK
    <3>3. closing'[b][c] = "saved" => status'[b] = c
      BY <2>1 DEF CloseLoad, CloseSave, CloseFree, StatusInv, TypeOK
    <3> QED BY <3>1, <3>2, <3>3
  <2>2. CASE Crash
    BY <2>2 DEF Crash
  <2>3. CASE UNCHANGED closing
    BY <2>3
  <2>4. \/ UNCHANGED closing \/ Crash
        \/ \E b \in Bookings, c \in Closers :
              CloseLoad(b, c) \/ CloseSave(b, c) \/ CloseFree(b, c)
    BY DEF SceneNext, Plays, Orderly, others, procs, CustomerCancel, MarkNoShow,
           Closers, Create, AcquireLock, TxnBegin, CreateFails, TxnRetry,
           TxnCommit, Confirm, CheckIn, Complete, SetStatus, HostCancel,
           HoldLapses, Checkout, CheckoutBegin, CheckoutOpens,
           CheckoutSettles, CheckoutCloses, LockLapses, Sweep, SweepFind,
           SweepCheckGateway, SweepExpire, SweepFree, Reschedule, MoveLoad,
           MoveRelease, MoveCheck, MoveInsert, MoveRestore, MoveSave
  <2> QED BY <2>1, <2>2, <2>3, <2>4
<1>2. \A c \in Closers : c \notin ActiveStatuses
  BY DEF Closers, ActiveStatuses
<1> QED BY <1>1, <1>2, NotRevived DEF StatusInv, CloseKnown, Active

LEMMA StatusStep ==
  ASSUME Orderly, StatusInv, [SceneNext]_<<vars, scene>>
  PROVE  StatusInv'
<1>1. CASE SceneNext
  <2>1. TypeOK'
    BY StepKeepsType, SceneStep DEF StatusInv
  <2>2. TxnFresh' /\ ExpirePending' /\ TxnReserves'
    BY <1>1, StepKinds, OrdinaryKeepsStatus, CreateKeepsStatus, CrashKeepsStatus
       DEF StatusInv
  <2> QED BY <1>1, <2>1, <2>2, CloseKnownKeeps DEF StatusInv
<1>2. CASE UNCHANGED <<vars, scene>>
  BY <1>2 DEF vars, StatusInv, TypeOK, CloseKnown, TxnFresh, ExpirePending,
              TxnReserves, Open, Sound, Active
<1> QED BY <1>1, <1>2
-----------------------------------------------------------------------------
(***************************************************************************)
(* Windows of active bookings do not meet.                                 *)
(***************************************************************************)
LEMMA NearWhenShared ==
  ASSUME NEW v, NEW w \in SUBSET Slots, NEW k \in Nat, v \cap w # {}
  PROVE  Near(v, w, k)
<1>1. PICK s \in v : s \in w
  OBVIOUS
<1>2. s \in Int
  BY <1>1, ConstantFacts DEF Slots
<1>3. s <= s + k
  BY <1>2
<1> QED BY <1>1, <1>3 DEF Near

LEMMA OrdinaryExcludes ==
  ASSUME BookingInv, Ordinary, UNCHANGED win
  PROVE  TxnExcludes' /\ WinKnown' /\ NoDoubleBooking'
<1>1. \A x \in Bookings : Active(x)' => Active(x)
  BY DEF Ordinary, Active
<1>2. \A t \in Bookings : (Sound(t))' => Sound(t) /\ txn'[t] = txn[t]
  BY DEF Ordinary, Sound, Open
<1>3. TxnExcludes'
  BY <1>1, <1>2 DEF BookingInv, TxnExcludes
<1>4. WinKnown' /\ NoDoubleBooking'
  BY <1>1 DEF BookingInv, WinKnown, NoDoubleBooking
<1> QED BY <1>3, <1>4

LEMMA TxnEndExcludes ==
  ASSUME BookingInv, UNCHANGED <<status, win>>,
         \A t \in Bookings : txn'[t].pc = "open" =>
           txn'[t] = txn[t] /\ (t \in doomed => t \in doomed')
  PROVE  TxnExcludes' /\ WinKnown' /\ NoDoubleBooking'
<1>1. \A t \in Bookings : (Sound(t))' => Sound(t) /\ txn'[t] = txn[t]
  BY DEF Sound, Open
<1>2. TxnExcludes'
  BY <1>1 DEF BookingInv, TxnExcludes, Active
<1>3. WinKnown' /\ NoDoubleBooking'
  BY DEF BookingInv, WinKnown, NoDoubleBooking, Active
<1> QED BY <1>2, <1>3

(* A transaction that begins sees no active booking near its window.       *)
LEMMA BeginExcludes ==
  ASSUME BookingInv, NEW b \in Bookings, NEW w \in Windows, TxnBegin(b, w)
  PROVE  TxnExcludes' /\ WinKnown' /\ NoDoubleBooking'
<1>1. /\ txn'[b].win = w /\ txn'[b].expire = StaleNow
      /\ \A t \in Bookings : t # b => txn'[t] = txn[t]
      /\ UNCHANGED <<status, win, doomed>>
  <2>1. TypeOK
    BY DEF BookingInv, StatusInv
  <2>2. /\ txn'[b] = [pc |-> "open", win |-> w, expire |-> StaleNow,
                      writes |-> w \cup {s \in Slots : slot[s] \in StaleNow}]
        /\ \A t \in Bookings : t # b => txn'[t] = txn[t]
        /\ UNCHANGED <<status, win, slot, doomed>>
    BY <2>1, BeginFacts
  <2> QED BY <2>2
<1>2. \A x \in Bookings \ StaleNow : Active(x) => win[x] \cap w = {}
  BY NearWhenShared, ConstantFacts DEF TxnBegin, Refused
<1>3. TxnExcludes'
  <2> SUFFICES ASSUME NEW t \in Bookings, (Sound(t))',
                      NEW x \in Bookings \ txn'[t].expire, x # t, Active(x)
               PROVE  win[x] \cap txn'[t].win = {}
    BY <1>1 DEF TxnExcludes, Active
  <2>1. CASE t = b
    BY <2>1, <1>1, <1>2
  <2>2. CASE t # b
    <3>1. Sound(t) /\ txn'[t] = txn[t]
      BY <2>2, <1>1 DEF Sound, Open
    <3> QED BY <3>1 DEF BookingInv, TxnExcludes
  <2> QED BY <2>1, <2>2
<1>4. WinKnown' /\ NoDoubleBooking'
  BY <1>1 DEF BookingInv, WinKnown, NoDoubleBooking, Active
<1> QED BY <1>3, <1>4

(* What a sound transaction inserts is apart from everything active, and   *)
(* from whatever another sound one will insert.                            *)
LEMMA CommitExcludes ==
  ASSUME BookingInv, NEW b \in Bookings,
         NEW new \in {"pending", "confirmed"}, TxnCommit(b, new)
  PROVE  TxnExcludes' /\ WinKnown' /\ NoDoubleBooking'
<1> DEFINE E == txn[b].expire
           W == txn[b].win
<1>1. /\ W # {} /\ W \subseteq txn[b].writes
      /\ win'[b] = W /\ \A x \in Bookings : x # b => win'[x] = win[x]
      /\ \A x \in Bookings : x # b /\ Active(x)' => Active(x) /\ x \notin E
  BY CommitFacts DEF BookingInv
<1>2. \A x \in Bookings \ E : x # b /\ Active(x) => win[x] \cap W = {}
  BY CommitFacts DEF BookingInv, TxnExcludes
<1>3. \A t \in Bookings : (Sound(t))' =>
        /\ t # b /\ Sound(t) /\ txn'[t] = txn[t]
        /\ txn[t].writes \cap txn[b].writes = {}
  BY CommitFacts DEF BookingInv
<1> HIDE DEF E, W
<1>4. TxnExcludes'
  <2> SUFFICES ASSUME NEW t \in Bookings, (Sound(t))',
                      NEW x \in Bookings \ txn[t].expire, x # t, Active(x)'
               PROVE  win'[x] \cap txn[t].win = {}
    BY <1>3 DEF TxnExcludes
  <2>1. txn[t].win \subseteq txn[t].writes
    BY <1>3 DEF BookingInv, StatusInv, TxnReserves
  <2>2. CASE x = b
    BY <2>1, <2>2, <1>1, <1>3
  <2>3. CASE x # b
    BY <2>3, <1>1, <1>3 DEF BookingInv, TxnExcludes
  <2> QED BY <2>2, <2>3
<1>5. WinKnown'
  BY <1>1 DEF BookingInv, WinKnown
<1>6. NoDoubleBooking'
  <2> SUFFICES ASSUME NEW x \in Bookings, NEW y \in Bookings, x # y,
                      Active(x)', Active(y)'
               PROVE  win'[x] \cap win'[y] = {}
    BY DEF NoDoubleBooking
  <2>1. CASE x = b
    BY <2>1, <1>1, <1>2
  <2>2. CASE y = b
    BY <2>2, <1>1, <1>2
  <2>3. CASE x # b /\ y # b
    BY <2>3, <1>1 DEF BookingInv, NoDoubleBooking
  <2> QED BY <2>1, <2>2, <2>3
<1> QED BY <1>4, <1>5, <1>6

(* A reschedule saves a window whose slots it has: neither an active       *)
(* booking nor what a sound transaction will insert meets it.              *)
LEMMA MoveSaveExcludes ==
  ASSUME BookingInv, MoveInv, NEW m \in Movers, MoveSave(m)
  PROVE  TxnExcludes' /\ WinKnown' /\ NoDoubleBooking'
<1> DEFINE b == moves[m].booking
           to == moves[m].to
<1>1. /\ b \in Bookings /\ to # {} /\ moves[m].pc = "secured"
      /\ win' = [win EXCEPT ![b] = to] /\ UNCHANGED <<status, slot, txn>>
      /\ doomed' = Touched({b}, {})
  BY DEF MoveSave, MoveInv
<1>2. win'[b] = to /\ \A x \in Bookings : x # b => win'[x] = win[x]
  BY <1>1 DEF BookingInv, StatusInv, TypeOK
<1>3. Active(b) =>
        /\ \A s \in to : slot[s] = b
        /\ \A x \in Bookings \ {b} : Active(x) => win[x] \cap to = {}
  BY <1>1 DEF MoveInv
<1>4. \A t \in Bookings : (Sound(t))' => Sound(t)
  BY <1>1, TouchedType DEF Sound, Open, BookingInv, StatusInv
<1> HIDE DEF b, to
<1>5. TxnExcludes'
  <2> SUFFICES ASSUME NEW t \in Bookings, (Sound(t))',
                      NEW x \in Bookings \ txn[t].expire, x # t, Active(x)
               PROVE  win'[x] \cap txn[t].win = {}
    BY <1>1 DEF TxnExcludes, Active
  <2>1. CASE x = b
    <3>1. \A s \in txn[t].win : slot[s] = None \/ slot[s] \in txn[t].expire
      BY <1>4 DEF BookingInv, StatusInv, TxnReserves
    <3> QED BY <2>1, <3>1, <1>2, <1>3, ConstantFacts
  <2>2. CASE x # b
    BY <2>2, <1>2, <1>4 DEF BookingInv, TxnExcludes
  <2> QED BY <2>1, <2>2
<1>6. WinKnown'
  BY <1>1, <1>2 DEF BookingInv, WinKnown, Active
<1>7. NoDoubleBooking'
  BY <1>1, <1>2, <1>3 DEF BookingInv, NoDoubleBooking, Active
<1> QED BY <1>5, <1>6, <1>7

(* The window of a reschedule under way stays its own.                     *)
LEMMA GentleKeepsMove ==
  ASSUME BookingInv, MoveInv, Ordinary, Gentle
  PROVE  MoveInv'
<1>1. /\ UNCHANGED <<win, moves>>
      /\ \A x \in Bookings : Active(x)' => Active(x)
      /\ \A x \in Bookings : status[x] # "none" => status'[x] # "none"
  BY DEF Ordinary, Gentle, Active
<1>2. \A s \in Slots, x \in Bookings : slot[s] = x /\ Active(x)' => slot'[s] = x
  BY DEF Gentle
<1>3. \A m \in Movers : moves[m].to \subseteq Slots
  BY DEF BookingInv, StatusInv, TypeOK, MoveRecords
<1>4. ASSUME NEW m \in Movers, moves[m].pc = "secured",
             Active(moves[m].booking)', NEW s \in moves[m].to
      PROVE  slot'[s] = moves[m].booking
  <2>1. moves[m].booking \in Bookings /\ Active(moves[m].booking)
    BY <1>1, <1>4 DEF MoveInv
  <2>2. slot[s] = moves[m].booking
    BY <1>4, <2>1 DEF MoveInv
  <2> QED BY <1>1, <1>2, <1>3, <1>4, <2>1, <2>2
<1>5. \A x \in Bookings : Active(x)' => SlotsOf(x) \subseteq SlotsOf(x)'
  BY <1>2 DEF SlotsOf
<1>6. ASSUME NEW m \in Movers, moves[m].pc \in {"checked", "secured"},
             Active(moves[m].booking)',
             NEW x \in Bookings \ {moves[m].booking}, Active(x)'
      PROVE  \/ win[x] \cap moves[m].to = {}
             \/ moves[m].pc = "checked" /\ win[x] \subseteq SlotsOf(x)'
  <2>1. moves[m].booking \in Bookings
    BY <1>6 DEF MoveInv
  <2>2. \/ win[x] \cap moves[m].to = {}
        \/ moves[m].pc = "checked" /\ win[x] \subseteq SlotsOf(x)
    BY <1>1, <1>6, <2>1 DEF MoveInv
  <2> QED BY <1>5, <1>6, <2>2
<1>7. \A m \in Movers : moves'[m].pc # "idle" =>
        /\ moves'[m].booking \in Bookings /\ moves'[m].to # {}
        /\ status'[moves'[m].booking] # "none"
  BY <1>1 DEF MoveInv
<1> QED BY <1>1, <1>4, <1>6, <1>7 DEF MoveInv

LEMMA CommitKeepsMove ==
  ASSUME BookingInv, MoveInv, NEW b \in Bookings,
         NEW new \in {"pending", "confirmed"}, TxnCommit(b, new)
  PROVE  MoveInv'
<1> DEFINE E == txn[b].expire
           W == txn[b].win
<1>1. /\ win'[b] = W /\ \A x \in Bookings : x # b => win'[x] = win[x]
      /\ \A x \in Bookings : x # b /\ Active(x)' => Active(x) /\ x \notin E
      /\ status[b] = "none"
      /\ \A x \in Bookings : status[x] # "none" => status'[x] # "none"
  BY CommitFacts DEF BookingInv
<1>2. /\ \A s \in W : slot[s] = None \/ slot[s] \in E
      /\ \A s \in Slots : s \in W => slot'[s] = b
      /\ \A s \in Slots : s \notin W =>
            slot'[s] = IF slot[s] \in E THEN None ELSE slot[s]
  BY CommitFacts DEF BookingInv
<1>3. UNCHANGED moves /\ W \subseteq Slots
  BY DEF TxnCommit, others, procs, BookingInv, StatusInv, TypeOK, TxnRecords
<1>4. \A m \in Movers : moves[m].to \subseteq Slots
  BY DEF BookingInv, StatusInv, TypeOK, MoveRecords
<1> HIDE DEF E, W
<1>5. \A s \in Slots, x \in Bookings :
        slot[s] = x /\ x # b /\ Active(x)' => slot'[s] = x /\ s \notin W
  BY <1>1, <1>2, ConstantFacts
<1>6. \A x \in Bookings : x # b /\ Active(x)' => SlotsOf(x) \subseteq SlotsOf(x)'
  BY <1>5 DEF SlotsOf
<1>7. win'[b] \subseteq SlotsOf(b)'
  BY <1>1, <1>2, <1>3 DEF SlotsOf
<1>8. \A m \in Movers : moves[m].pc # "idle" =>
        /\ moves[m].booking \in Bookings /\ moves[m].to # {}
        /\ status[moves[m].booking] # "none" /\ moves[m].booking # b
  BY <1>1 DEF MoveInv
<1>9. ASSUME NEW m \in Movers, moves[m].pc = "secured",
             Active(moves[m].booking)', NEW s \in moves[m].to
      PROVE  slot'[s] = moves[m].booking /\ s \notin W
  <2>1. moves[m].booking \in Bookings /\ moves[m].booking # b
    BY <1>8, <1>9
  <2>2. slot[s] = moves[m].booking
    BY <1>1, <1>3, <1>9, <2>1 DEF MoveInv
  <2> QED BY <1>3, <1>4, <1>5, <1>9, <2>1, <2>2
<1>10. ASSUME NEW m \in Movers, moves[m].pc \in {"checked", "secured"},
              Active(moves[m].booking)',
              NEW x \in Bookings \ {moves[m].booking}, Active(x)'
       PROVE  \/ win'[x] \cap moves[m].to = {}
              \/ moves[m].pc = "checked" /\ win'[x] \subseteq SlotsOf(x)'
  <2>1. CASE x = b
    BY <1>1, <1>7, <1>9, <1>10, <2>1
  <2>2. CASE x # b
    <3>1. \/ win[x] \cap moves[m].to = {}
          \/ moves[m].pc = "checked" /\ win[x] \subseteq SlotsOf(x)
      BY <1>1, <1>3, <1>8, <1>10, <2>2 DEF MoveInv
    <3> QED BY <1>1, <1>6, <1>10, <2>2, <3>1
  <2> QED BY <2>1, <2>2
<1>11. \A m \in Movers : moves'[m].pc # "idle" =>
        /\ moves'[m].booking \in Bookings /\ moves'[m].to # {}
        /\ status'[moves'[m].booking] # "none"
  BY <1>1, <1>3, <1>8
<1> QED BY <1>3, <1>9, <1>10, <1>11 DEF MoveInv

LEMMA CreateKeepsMove ==
  ASSUME BookingInv, MoveInv, NEW b \in Bookings, Create(b)
  PROVE  MoveInv'
<1>1. CASE \E new \in {"pending", "confirmed"} : TxnCommit(b, new)
  BY <1>1, CommitKeepsMove
<1>2. CASE ~ \E new \in {"pending", "confirmed"} : TxnCommit(b, new)
  <2>1. UNCHANGED <<status, win, slot, moves>>
    BY <1>2 DEF Create, AcquireLock, TxnBegin, CreateFails, TxnRetry, db,
                others, procs
  <2> QED BY <2>1 DEF MoveInv, Active, SlotsOf
<1> QED BY <1>1, <1>2

(* The steps of the only reschedule: it checks what is active, inserts the *)
(* slots if all are free, and is then the only one who has them.           *)
LEMMA RescheduleKeepsMove ==
  ASSUME BookingInv, MoveInv, \A m, n \in Movers : m = n,
         NEW m \in Movers, Reschedule(m)
  PROVE  MoveInv'
<1> DEFINE b == moves[m].booking
           to == moves[m].to
<1>1. moves[m] \in MoveRecords /\ to \subseteq Slots
  BY DEF BookingInv, StatusInv, TypeOK, MoveRecords
<1>2. ASSUME moves'[m].pc = "idle" PROVE MoveInv'
  BY <1>2 DEF MoveInv
<1>3. ASSUME moves'[m].pc # "idle", moves'[m].pc \notin {"checked", "secured"},
             moves'[m].booking \in Bookings, moves'[m].to # {},
             status'[moves'[m].booking] # "none"
      PROVE  MoveInv'
  BY <1>3 DEF MoveInv
<1>4. ASSUME NEW pc, moves' = [moves EXCEPT ![m].pc = pc]
      PROVE  moves'[m].pc = pc /\ moves'[m].booking = b /\ moves'[m].to = to
  <2>1. moves'[m] = [moves[m] EXCEPT !.pc = pc]
    BY <1>4 DEF BookingInv, StatusInv, TypeOK
  <2> QED BY <1>1, <2>1 DEF MoveRecords
<1>5. moves[m].pc # "idle" => b \in Bookings /\ to # {} /\ status[b] # "none"
  BY DEF MoveInv
<1>6. CASE \E x \in Bookings, w \in Windows : MoveLoad(m, x, w)
  <2>1. PICK x \in Bookings, w \in Windows : MoveLoad(m, x, w)
    BY <1>6
  <2>2. moves'[m] = [pc |-> "loaded", booking |-> x, to |-> w, old |-> {},
                     wasPending |-> status[x] = "pending"]
    BY <2>1 DEF MoveLoad, BookingInv, StatusInv, TypeOK
  <2>3. w # {} /\ status[x] # "none" /\ status' = status
    BY <2>1, ConstantFacts DEF MoveLoad, Reschedulable, db
  <2> QED BY <1>3, <2>2, <2>3
<1>7. CASE MoveRelease(m)
  <2>1. moves'[m] = [moves[m] EXCEPT !.pc = "released", !.old = SlotsOf(b)]
    BY <1>7 DEF MoveRelease, BookingInv, StatusInv, TypeOK
  <2>2. /\ moves'[m].pc = "released" /\ moves'[m].booking = b
        /\ moves'[m].to = to
    BY <1>1, <2>1 DEF MoveRecords
  <2>3. moves[m].pc # "idle" /\ status' = status
    BY <1>7 DEF MoveRelease
  <2> QED BY <1>3, <1>5, <2>2, <2>3
<1>8. CASE MoveCheck(m)
  <2> DEFINE clash == \E x \in Bookings \ {b} : Active(x) /\ Near(win[x], to, 0)
  <2>1. /\ moves' = [moves EXCEPT ![m].pc = IF clash THEN "failed" ELSE "checked"]
        /\ moves[m].pc = "released" /\ UNCHANGED <<status, win, slot>>
    BY <1>8 DEF MoveCheck, db
  <2>2. CASE clash
    <3>1. moves'[m].pc = "failed" /\ moves'[m].booking = b /\ moves'[m].to = to
      BY <1>4, <2>1, <2>2
    <3> QED BY <1>3, <1>5, <2>1, <3>1
  <2>3. CASE ~clash
    <3>1. moves'[m].pc = "checked" /\ moves'[m].booking = b /\ moves'[m].to = to
      BY <1>4, <2>1, <2>3
    <3>2. \A x \in Bookings \ {b} : Active(x) => win[x] \cap to = {}
      BY <1>1, <2>3, NearWhenShared
    <3> QED BY <1>5, <2>1, <3>1, <3>2 DEF MoveInv, Active
  <2> QED BY <2>2, <2>3
<1>9. CASE MoveInsert(m)
  <2> DEFINE got == FreePrefix(to)
  <2>1. /\ moves' = [moves EXCEPT ![m].pc = IF got = to THEN "secured" ELSE "failed"]
        /\ moves[m].pc = "checked" /\ UNCHANGED <<status, win>>
        /\ slot' = [s \in Slots |-> IF s \in got THEN b ELSE slot[s]]
    BY <1>9 DEF MoveInsert
  <2>2. CASE got # to
    <3>1. moves'[m].pc = "failed" /\ moves'[m].booking = b /\ moves'[m].to = to
      BY <1>4, <2>1, <2>2
    <3> QED BY <1>3, <1>5, <2>1, <3>1
  <2>3. CASE got = to
    <3>1. moves'[m].pc = "secured" /\ moves'[m].booking = b /\ moves'[m].to = to
      BY <1>4, <2>1, <2>3
    <3>2. \A s \in to : slot'[s] = b
      BY <1>1, <2>1, <2>3
    <3>3. \A s \in to : slot[s] = None
      <4>1. \A s \in to : s \in got /\ s \in Int
        BY <1>1, <2>3, ConstantFacts DEF Slots
      <4>2. \A s \in to : s <= s
        BY <4>1
      <4> QED BY <4>1, <4>2 DEF FreePrefix
    <3>4. \A x \in Bookings \ {b} : Active(b) /\ Active(x) => win[x] \cap to = {}
      <4> SUFFICES ASSUME NEW x \in Bookings \ {b}, Active(b), Active(x),
                          NEW s \in win[x] \cap to
                   PROVE  FALSE
        OBVIOUS
      <4>1. win[x] \subseteq SlotsOf(x)
        BY <2>1 DEF MoveInv
      <4> QED BY <3>3, <4>1, ConstantFacts DEF SlotsOf
    <3> QED BY <1>5, <2>1, <3>1, <3>2, <3>4 DEF MoveInv, Active
  <2> QED BY <2>2, <2>3
<1>10. CASE MoveRestore(m) \/ MoveSave(m)
  <2>1. moves'[m] = IdleMove
    BY <1>10 DEF MoveRestore, MoveSave, BookingInv, StatusInv, TypeOK
  <2> QED BY <1>2, <2>1 DEF IdleMove
<1> QED BY <1>6, <1>7, <1>8, <1>9, <1>10 DEF Reschedule

LEMMA BookingStep ==
  ASSUME BookingInv, [SceneNext]_<<vars, scene>>
  PROVE  BookingInv'
<1>1. Orderly' /\ StatusInv'
  BY StatusStep, SceneStep DEF BookingInv, Orderly
<1>2. CASE UNCHANGED <<vars, scene>>
  <2>1. TxnExcludes' /\ WinKnown' /\ NoDoubleBooking'
    BY <1>2, TxnEndExcludes DEF vars
  <2>2. MoveInv => MoveInv'
    BY <1>2 DEF vars, MoveInv, Active, SlotsOf
  <2> QED BY <1>1, <1>2, <2>1, <2>2 DEF BookingInv
<1>3. CASE SceneNext
  <2>1. CASE Ordinary /\ Gentle
    <3>1. TxnExcludes' /\ WinKnown' /\ NoDoubleBooking'
      BY <2>1, OrdinaryExcludes DEF Gentle
    <3> QED BY <1>1, <2>1, <3>1, SceneStep, GentleKeepsMove DEF BookingInv
  <2>2. CASE "sweep" \in scene /\ Ordinary /\ UNCHANGED <<win, moves>>
    <3>1. "move" \notin scene'
      BY <2>2, SceneStep DEF BookingInv, Orderly
    <3> QED BY <1>1, <2>2, <3>1, OrdinaryExcludes DEF BookingInv
  <2>3. ASSUME "move" \in scene, Ordinary, NEW m \in Movers, Reschedule(m)
        PROVE  BookingInv'
    <3>1. MoveInv'
      BY <2>3, RescheduleKeepsMove DEF BookingInv, Orderly
    <3>2. CASE MoveSave(m)
      <4>1. TxnExcludes' /\ WinKnown' /\ NoDoubleBooking'
        BY <2>3, <3>2, MoveSaveExcludes DEF BookingInv
      <4> QED BY <1>1, <3>1, <4>1 DEF BookingInv
    <3>3. CASE ~MoveSave(m)
      <4>1. UNCHANGED win
        BY <2>3, <3>3 DEF Reschedule, MoveLoad, MoveRelease, MoveCheck,
                          MoveInsert, MoveRestore, db
      <4> QED BY <1>1, <2>3, <3>1, <4>1, OrdinaryExcludes DEF BookingInv
    <3> QED BY <3>2, <3>3
  <2>4. ASSUME NEW b \in Bookings, Create(b) PROVE BookingInv'
    <3>1. TxnExcludes' /\ WinKnown' /\ NoDoubleBooking'
      <4>1. CASE AcquireLock(b)
        BY <4>1, TxnEndExcludes
           DEF AcquireLock, IdleTxn, db, BookingInv, StatusInv, TypeOK
      <4>2. CASE CreateFails(b)
        BY <4>2, TxnEndExcludes
           DEF CreateFails, IdleTxn, db, BookingInv, StatusInv, TypeOK
      <4>3. CASE TxnRetry(b)
        BY <4>3, TxnEndExcludes
           DEF TxnRetry, IdleTxn, db, BookingInv, StatusInv, TypeOK
      <4> QED BY <2>4, <4>1, <4>2, <4>3, BeginExcludes, CommitExcludes DEF Create
    <3> QED BY <1>1, <2>4, <3>1, SceneStep, CreateKeepsMove DEF BookingInv
  <2>5. CASE Crash
    <3>1. TxnExcludes' /\ WinKnown' /\ NoDoubleBooking'
      BY <2>5, TxnEndExcludes DEF Crash, IdleTxn, db
    <3>2. MoveInv'
      BY <2>5 DEF Crash, MoveInv, IdleMove
    <3> QED BY <1>1, <3>1, <3>2 DEF BookingInv
  <2> QED BY <1>3, <2>1, <2>2, <2>3, <2>4, <2>5, StepKinds
          DEF BookingInv, StatusInv
<1> QED BY <1>2, <1>3

ScenesOrderly ==
  \A sc \in Scenes :
    /\ "report" \notin sc
    /\ "move" \in sc => "sweep" \notin sc /\ \A m, n \in Movers : m = n

LEMMA BookingCorrect == ScenesOrderly /\ SceneSpec => []BookingInv
<1>1. ScenesOrderly /\ SceneInit => BookingInv
  BY InvInit DEF ScenesOrderly, SceneInit, Orderly
<1>2. BookingInv /\ [SceneNext]_<<vars, scene>> => BookingInv'
  BY BookingStep
<1> QED BY <1>1, <1>2, PTL DEF SceneSpec

(* No double booking, however many createBooking calls, cancellations,     *)
(* sweeps and crashes interleave, even when the lock lapses, because the   *)
(* transaction and the unique index suffice; and with one reschedule at a  *)
(* time beside them, because it inserts its slots before its window.       *)
THEOREM NoDoubleBookingHolds == ScenesOrderly /\ SceneSpec => []NoDoubleBooking
<1>1. BookingInv => NoDoubleBooking
  BY DEF BookingInv
<1> QED BY <1>1, BookingCorrect, PTL

(* Every step of the handlers is a step of the abstract calendar.          *)
LEMMA CalendarStep ==
  ASSUME BookingInv, [SceneNext]_<<vars, scene>>
  PROVE  [Cal!CalendarNext]_BookedWindows
<1>1. ASSUME Ordinary, UNCHANGED win
      PROVE  \E gone \in SUBSET Bookings : Cal!Free(gone)
  <2> DEFINE gone == {b \in Bookings : ~Active(b)'}
  <2>1. BookedWindows' = [b \in Bookings |->
                           IF b \in gone THEN {} ELSE BookedWindows[b]]
    BY <1>1 DEF BookedWindows, Ordinary, Active
  <2> QED BY <2>1 DEF Cal!Free
<1>2. ASSUME UNCHANGED <<status, win>> PROVE UNCHANGED BookedWindows
  BY <1>2 DEF BookedWindows, Active
<1>3. ASSUME NEW b \in Bookings, NEW new \in {"pending", "confirmed"},
             TxnCommit(b, new)
      PROVE  Cal!Reserve(b, txn[b].win, txn[b].expire)
  <2>1. /\ Sound(b) /\ status[b] = "none" /\ txn[b].win # {}
        /\ \A x \in txn[b].expire : status[x] = "pending"
        /\ win'[b] = txn[b].win /\ \A d \in Bookings : d # b => win'[d] = win[d]
        /\ status' = [x \in Bookings |->
               IF x = b THEN new ELSE IF x \in txn[b].expire THEN "expired"
               ELSE status[x]]
    BY <1>3, CommitFacts DEF BookingInv
  <2>2. BookedWindows[b] = {}
    BY <2>1 DEF BookedWindows, Active, ActiveStatuses
  <2>3. \A d \in Bookings \ (txn[b].expire \cup {b}) :
          BookedWindows[d] \cap txn[b].win = {}
    BY <2>1 DEF BookedWindows, BookingInv, TxnExcludes
  <2>4. BookedWindows' = [d \in Bookings |->
          IF d = b THEN txn[b].win
          ELSE IF d \in txn[b].expire THEN {} ELSE BookedWindows[d]]
    <3>1. Active(b)'
      BY <2>1 DEF Active, ActiveStatuses
    <3>2. \A d \in Bookings : d # b =>
            /\ d \in txn[b].expire => ~Active(d)'
            /\ d \notin txn[b].expire => (Active(d)' <=> Active(d))
      BY <2>1 DEF Active, ActiveStatuses
    <3> QED BY <2>1, <3>1, <3>2 DEF BookedWindows
  <2>5. b \notin txn[b].expire
    BY <2>1
  <2> QED BY <2>1, <2>2, <2>3, <2>4, <2>5 DEF Cal!Reserve
<1>4. ASSUME NEW b \in Bookings, Create(b),
             ~ \E new \in {"pending", "confirmed"} : TxnCommit(b, new)
      PROVE  UNCHANGED <<status, win>>
  BY <1>4 DEF Create, AcquireLock, TxnBegin, CreateFails, TxnRetry, db
<1>5. ASSUME NEW b \in Bookings
      PROVE  txn[b].win \in SUBSET Slots /\ txn[b].expire \in SUBSET Bookings
  BY DEF BookingInv, StatusInv, TypeOK, TxnRecords
<1>6. CASE Ordinary /\ UNCHANGED win
  BY <1>1, <1>6 DEF Cal!CalendarNext
<1>7. CASE Crash
  BY <1>2, <1>7 DEF Crash, db
<1>8. ASSUME NEW b \in Bookings, Create(b)
      PROVE  [Cal!CalendarNext]_BookedWindows
  BY <1>2, <1>3, <1>4, <1>5, <1>8 DEF Cal!CalendarNext
<1>9. ASSUME "move" \in scene, NEW m \in Movers, MoveSave(m)
      PROVE  [Cal!CalendarNext]_BookedWindows
  <2> DEFINE b == moves[m].booking
             to == moves[m].to
  <2>1. /\ b \in Bookings /\ to # {} /\ to \in SUBSET Slots
        /\ win' = [win EXCEPT ![b] = to] /\ UNCHANGED status
    BY <1>9 DEF MoveSave, BookingInv, MoveInv, StatusInv, TypeOK, MoveRecords
  <2>2. win'[b] = to /\ \A x \in Bookings : x # b => win'[x] = win[x]
    BY <2>1 DEF BookingInv, StatusInv, TypeOK
  <2>3. CASE Active(b)
    <3>1. \A x \in Bookings \ {b} : Active(x) => win[x] \cap to = {}
      BY <1>9, <2>3 DEF MoveSave, BookingInv, MoveInv
    <3>2. BookedWindows[b] # {}
      BY <2>1, <2>3 DEF BookedWindows, BookingInv, WinKnown
    <3>3. BookedWindows' = [BookedWindows EXCEPT ![b] = to]
      BY <2>1, <2>2, <2>3 DEF BookedWindows, Active
    <3>4. \A d \in Bookings \ {b} : BookedWindows[d] \cap to = {}
      BY <3>1 DEF BookedWindows
    <3>5. Cal!Exchange(b, to)
      BY <2>1, <3>2, <3>3, <3>4 DEF Cal!Exchange
    <3> QED BY <2>1, <3>5 DEF Cal!CalendarNext
  <2>4. CASE ~Active(b)
    BY <2>1, <2>2, <2>4 DEF BookedWindows, Active
  <2> QED BY <2>3, <2>4
<1>10. ASSUME NEW m \in Movers, Reschedule(m), ~MoveSave(m)
       PROVE  UNCHANGED win
  BY <1>10 DEF Reschedule, MoveLoad, MoveRelease, MoveCheck, MoveInsert,
               MoveRestore, db
<1>11. CASE UNCHANGED <<vars, scene>>
  BY <1>2, <1>11 DEF vars
<1>12. CASE SceneNext
  BY <1>6, <1>7, <1>8, <1>9, <1>10, <1>12, StepKinds
     DEF BookingInv, StatusInv, Gentle
<1> QED BY <1>11, <1>12

(* The handlers implement the calendar.                                    *)
THEOREM CalendarImplemented == ScenesOrderly /\ SceneSpec => ImplementsCalendar
<1>1. SceneInit => Cal!CalendarInit
  BY DEF SceneInit, Init, Cal!CalendarInit, BookedWindows, Active, ActiveStatuses
<1>2. BookingInv /\ [SceneNext]_<<vars, scene>> => [Cal!CalendarNext]_BookedWindows
  BY CalendarStep
<1> QED BY <1>1, <1>2, BookingCorrect, PTL
        DEF SceneSpec, ImplementsCalendar, Cal!CalendarSpec

(* Without customer cancellation and markNoShow, which save a status they  *)
(* have read before, every status change is one the code lists.            *)
LEMMA LegalStep ==
  ASSUME BookingInv, [SceneNext]_<<vars, scene>>,
         "cancel" \notin scene, "noShow" \notin scene
  PROVE  \A x \in Bookings : LegalChange(status[x], status'[x])
<1> USE DEF LegalChange
<1>1. ASSUME UNCHANGED status
      PROVE  \A x \in Bookings : LegalChange(status[x], status'[x])
  BY <1>1
<1>2. ASSUME NEW b \in Bookings, NEW s \in Statuses,
             s \in AllowedTransitions[status[b]],
             status' = [status EXCEPT ![b] = s]
      PROVE  \A x \in Bookings : LegalChange(status[x], status'[x])
  BY <1>2 DEF BookingInv, StatusInv, TypeOK
<1>3. /\ {"confirmed", "payment_under_review", "cancelled"}
           \subseteq AllowedTransitions["pending"]
      /\ "confirmed" \in AllowedTransitions["payment_under_review"]
      /\ "in-use" \in AllowedTransitions["confirmed"]
      /\ "completed" \in AllowedTransitions["in-use"]
  BY DEF AllowedTransitions, Statuses
<1>4. {"confirmed", "payment_under_review", "cancelled", "in-use", "completed"}
        \subseteq Statuses
  BY DEF Statuses
<1>5. ASSUME NEW b \in Bookings,
             Confirm(b) \/ CheckIn(b) \/ Complete(b) \/ HostCancel(b)
      PROVE  \A x \in Bookings : LegalChange(status[x], status'[x])
  <2>1. CASE Confirm(b)
    BY <2>1, <1>2, <1>3, <1>4 DEF Confirm, SetStatus
  <2>2. CASE CheckIn(b)
    BY <2>2, <1>2, <1>3, <1>4 DEF CheckIn, SetStatus
  <2>3. CASE Complete(b)
    BY <2>3, <1>2, <1>3, <1>4 DEF Complete, SetStatus
  <2>4. CASE HostCancel(b)
    BY <2>4, <1>2, <1>4 DEF HostCancel
  <2> QED BY <1>5, <2>1, <2>2, <2>3, <2>4
<1>6. ASSUME NEW b \in Bookings, Checkout(b) \/ HoldLapses(b)
      PROVE  \A x \in Bookings : LegalChange(status[x], status'[x])
  <2>1. CASE CheckoutSettles(b) /\ status[b] = "pending"
    BY <2>1, <1>2, <1>3, <1>4 DEF CheckoutSettles
  <2>2. CASE ~(CheckoutSettles(b) /\ status[b] = "pending")
    BY <2>2, <1>1, <1>6 DEF Checkout, CheckoutBegin, CheckoutOpens,
       CheckoutSettles, CheckoutCloses, HoldLapses, db
  <2> QED BY <2>1, <2>2
<1>7. CASE Sweep
  BY <1>7, <1>1 DEF Sweep, SweepFind, SweepCheckGateway, SweepExpire,
                    SweepFree, db
<1>8. ASSUME NEW b \in Bookings, NEW new \in {"pending", "confirmed"},
             TxnCommit(b, new)
      PROVE  \A x \in Bookings : LegalChange(status[x], status'[x])
  <2>1. /\ status[b] = "none" /\ \A x \in txn[b].expire : status[x] = "pending"
        /\ status' = [x \in Bookings |->
               IF x = b THEN new ELSE IF x \in txn[b].expire THEN "expired"
               ELSE status[x]]
    BY <1>8, CommitFacts DEF BookingInv
  <2> QED BY <2>1
<1>9. ASSUME NEW b \in Bookings, Create(b)
      PROVE  \A x \in Bookings : LegalChange(status[x], status'[x])
  <2>1. CASE \E new \in {"pending", "confirmed"} : TxnCommit(b, new)
    BY <2>1, <1>8
  <2>2. CASE ~ \E new \in {"pending", "confirmed"} : TxnCommit(b, new)
    BY <2>2, <1>9, <1>1
       DEF Create, AcquireLock, TxnBegin, CreateFails, TxnRetry, db
  <2> QED BY <2>1, <2>2
<1>10. CASE LockLapses \/ Crash \/ UNCHANGED <<vars, scene>>
  BY <1>10, <1>1 DEF LockLapses, Crash, vars, db
<1>11. ASSUME NEW m \in Movers, Reschedule(m)
       PROVE  \A x \in Bookings : LegalChange(status[x], status'[x])
  BY <1>1, <1>11 DEF Reschedule, MoveLoad, MoveRelease, MoveCheck, MoveInsert,
                     MoveRestore, MoveSave, db
<1> QED BY <1>5, <1>6, <1>7, <1>9, <1>10, <1>11
        DEF SceneNext, Plays, BookingInv, Orderly

(* What a reader of allowedTransitions expects, where the code keeps it:   *)
(* nothing leaves a terminal status, a checked-in guest is not cancelled.  *)
THEOREM TransitionsAreLawful == ScenesOrderly /\ SceneSpec => Lawful
<1>1. BookingInv /\ [SceneNext]_<<vars, scene>> =>
        [scene \cap {"cancel", "noShow"} # {}
           \/ \A b \in Bookings : LegalChange(status[b], status'[b])]_vars
  BY LegalStep
<1> QED BY <1>1, BookingCorrect, PTL DEF SceneSpec, Lawful
-----------------------------------------------------------------------------
(***************************************************************************)
(* Buffers: the unique index does not see them, so this argument needs the *)
(* lock, and that the lock outlives the call that holds it.                *)
(***************************************************************************)
(* Whoever is in createBooking's critical section holds the lock. *)
LockGuards == \A t \in Bookings : txn[t].pc # "idle" => lock = t

(* No booking has become active near the window of an open transaction. *)
TxnKeepsAway ==
  \A t \in Bookings : Open(t) =>
    \A x \in Bookings \ txn[t].expire :
      x # t /\ Active(x) => ~Near(win[x], txn[t].win, Buffer)

LEMMA NearSymmetric ==
  ASSUME NEW v, NEW w, NEW k, Near(v, w, k)
  PROVE  Near(w, v, k)
<1> QED BY DEF Near

LEMMA LockGuardsKept ==
  ASSUME "lapse" \notin scene, TypeOK, LockGuards, SceneNext
  PROVE  LockGuards'
<1> USE DEF LockGuards, TypeOK
<1>1. CASE UNCHANGED <<lock, txn>>
  BY <1>1
<1>2. ASSUME NEW b \in Bookings, Create(b) PROVE LockGuards'
  <2>1. CASE AcquireLock(b)
    <3>1. \A t \in Bookings : txn[t].pc = "idle"
      BY <2>1, ConstantFacts DEF AcquireLock
    <3> QED BY <2>1, <3>1 DEF AcquireLock
  <2>2. CASE \E w \in Windows : TxnBegin(b, w)
    BY <2>2 DEF TxnBegin
  <2>3. CASE CreateFails(b)
    <3>1. lock = b
      BY <2>3 DEF CreateFails
    <3> QED BY <2>3, <3>1 DEF CreateFails, IdleTxn
  <2>4. CASE TxnRetry(b)
    BY <2>4 DEF TxnRetry
  <2>5. CASE \E new \in {"pending", "confirmed"} : TxnCommit(b, new)
    <3>1. lock = b
      BY <2>5 DEF TxnCommit
    <3> QED BY <2>5, <3>1 DEF TxnCommit, IdleTxn
  <2> QED BY <1>2, <2>1, <2>2, <2>3, <2>4, <2>5 DEF Create
<1>3. CASE LockLapses /\ txn[lock].pc = "idle"
  <2>1. \A t \in Bookings : txn[t].pc = "idle"
    BY <1>3
  <2> QED BY <1>3, <2>1 DEF LockLapses
<1>4. CASE Crash
  BY <1>4 DEF Crash, IdleTxn
<1>5. ASSUME NEW b \in Bookings,
             \/ Confirm(b) \/ CheckIn(b) \/ Complete(b) \/ HostCancel(b)
             \/ HoldLapses(b) \/ CustomerCancel(b) \/ MarkNoShow(b)
             \/ ConfirmPayment(b) \/ Checkout(b)
      PROVE  UNCHANGED <<lock, txn>>
  BY <1>5 DEF others, procs, CustomerCancel, MarkNoShow, CloseLoad, CloseSave,
     CloseFree, Confirm, CheckIn, Complete, SetStatus, HostCancel, HoldLapses,
     Checkout, CheckoutBegin, CheckoutOpens, CheckoutSettles, CheckoutCloses,
     ConfirmPayment, ReportLoad, ReportSave
<1>6. ASSUME NEW m \in Movers, Reschedule(m) PROVE UNCHANGED <<lock, txn>>
  BY <1>6 DEF Reschedule, MoveLoad, MoveRelease, MoveCheck, MoveInsert,
              MoveRestore, MoveSave
<1>7. ASSUME Sweep PROVE UNCHANGED <<lock, txn>>
  BY <1>7 DEF Sweep, SweepFind, SweepCheckGateway, SweepExpire, SweepFree
<1> QED BY <1>1, <1>2, <1>3, <1>4, <1>5, <1>6, <1>7 DEF SceneNext, Plays

LEMMA BufferStep ==
  ASSUME BookingInv, LockGuards, TxnKeepsAway, BufferRespected,
         "move" \notin scene, SceneNext
  PROVE  TxnKeepsAway' /\ BufferRespected'
<1>0. TypeOK
  BY DEF BookingInv, StatusInv
<1>1. ASSUME UNCHANGED <<win, txn>>, \A x \in Bookings : Active(x)' => Active(x)
      PROVE  TxnKeepsAway' /\ BufferRespected'
  BY <1>1 DEF TxnKeepsAway, BufferRespected, Open
<1>2. ASSUME UNCHANGED <<status, win>>,
             \A t \in Bookings : Open(t)' => txn'[t] = txn[t]
      PROVE  TxnKeepsAway' /\ BufferRespected'
  <2>1. \A t \in Bookings : Open(t)' => Open(t)
    BY <1>2 DEF Open
  <2> QED BY <1>2, <2>1 DEF TxnKeepsAway, BufferRespected, Active
<1>3. ASSUME NEW b \in Bookings, NEW w \in Windows, TxnBegin(b, w)
      PROVE  TxnKeepsAway' /\ BufferRespected'
  <2>1. /\ txn'[b].win = w /\ txn'[b].expire = StaleNow
        /\ \A t \in Bookings : t # b => txn'[t] = txn[t]
        /\ UNCHANGED <<status, win>>
    BY <1>0, <1>3 DEF TxnBegin, TypeOK, db
  <2>2. \A x \in Bookings \ StaleNow : Active(x) => ~Near(win[x], w, Buffer)
    BY <1>3 DEF TxnBegin, Refused
  <2>3. TxnKeepsAway'
    <3> SUFFICES ASSUME NEW t \in Bookings, Open(t)'
                 PROVE  \A x \in Bookings \ txn'[t].expire :
                          x # t /\ Active(x) =>
                            ~Near(win[x], txn'[t].win, Buffer)
      BY <2>1 DEF TxnKeepsAway, Active
    <3>1. CASE t = b
      BY <3>1, <2>1, <2>2
    <3>2. CASE t # b
      BY <3>2, <2>1 DEF TxnKeepsAway, Open
    <3> QED BY <3>1, <3>2
  <2> QED BY <2>1, <2>3 DEF BufferRespected, Active
<1>4. ASSUME NEW b \in Bookings, NEW new \in {"pending", "confirmed"},
             TxnCommit(b, new)
      PROVE  TxnKeepsAway' /\ BufferRespected'
  <2>1. /\ win'[b] = txn[b].win
        /\ \A x \in Bookings : x # b =>
             win'[x] = win[x] /\ (Active(x)' => Active(x) /\ x \notin txn[b].expire)
    BY <1>0, <1>4 DEF TxnCommit, TypeOK, Active, ActiveStatuses
  <2>2. \A t \in Bookings : ~Open(t)'
    <3>1. lock = b /\ \A t \in Bookings : txn[t].pc # "idle" => t = b
      BY <1>4 DEF TxnCommit, LockGuards
    <3> QED BY <1>0, <1>4, <3>1 DEF TxnCommit, Open, IdleTxn, TypeOK
  <2>3. \A x \in Bookings \ txn[b].expire :
          x # b /\ Active(x) => ~Near(win[x], txn[b].win, Buffer)
    BY <1>4 DEF TxnCommit, TxnKeepsAway, Open
  <2>4. BufferRespected'
    <3> SUFFICES ASSUME NEW x \in Bookings, NEW y \in Bookings, x # y,
                        Active(x)', Active(y)', Near(win'[x], win'[y], Buffer)
                 PROVE  FALSE
      BY DEF BufferRespected
    <3>1. CASE x = b
      BY <3>1, <2>1, <2>3, NearSymmetric
    <3>2. CASE y = b
      BY <3>2, <2>1, <2>3
    <3>3. CASE x # b /\ y # b
      BY <3>3, <2>1 DEF BufferRespected
    <3> QED BY <3>1, <3>2, <3>3
  <2> QED BY <2>2, <2>4 DEF TxnKeepsAway
<1>5. ASSUME NEW b \in Bookings, AcquireLock(b) \/ CreateFails(b) \/ TxnRetry(b)
      PROVE  TxnKeepsAway' /\ BufferRespected'
  <2>1. \A t \in Bookings : Open(t)' => txn'[t] = txn[t]
    BY <1>0, <1>5 DEF AcquireLock, CreateFails, TxnRetry, IdleTxn, Open, TypeOK
  <2>2. UNCHANGED <<status, win>>
    BY <1>5 DEF AcquireLock, CreateFails, TxnRetry, db
  <2> QED BY <1>2, <2>1, <2>2
<1>6. CASE Ordinary /\ UNCHANGED win
  BY <1>1, <1>6 DEF Ordinary, Active
<1>7. CASE Crash
  BY <1>2, <1>7 DEF Crash, db, IdleTxn, Open
<1>8. CASE \E b \in Bookings : Create(b)
  BY <1>8, <1>3, <1>4, <1>5 DEF Create
<1> QED BY <1>6, <1>7, <1>8, StepKinds DEF Gentle, BookingInv, StatusInv

-----------------------------------------------------------------------------
(***************************************************************************)
(* Slots: who is active has the slots of its window, unless the expiry job *)
(* or a reschedule took them; who is closed gives them back.               *)
(***************************************************************************)
SlotsKnown ==
  \A s \in Slots, b \in Bookings : slot[s] = b => status[b] # "none"

LEMMA HeldStep ==
  ASSUME BookingInv, ActiveHoldsSlots, SlotsKnown,
         "sweep" \notin scene, "move" \notin scene, SceneNext
  PROVE  ActiveHoldsSlots' /\ SlotsKnown'
<1>1. ASSUME Ordinary, Gentle PROVE ActiveHoldsSlots' /\ SlotsKnown'
  <2>1. \A b \in Bookings : Active(b)' => Active(b)
    BY <1>1 DEF Ordinary, Active
  <2>2. \A s \in Slots, b \in Bookings : Active(b)' => (slot'[s] = b <=> slot[s] = b)
    BY <1>1, ConstantFacts DEF Gentle
  <2>3. \A b \in Bookings : Active(b)' => SlotsOf(b)' = SlotsOf(b)
    BY <2>2 DEF SlotsOf
  <2>4. ActiveHoldsSlots'
    BY <1>1, <2>1, <2>3 DEF Gentle, ActiveHoldsSlots
  <2>5. \A s \in Slots, b \in Bookings : slot'[s] = b => slot[s] = b
    BY <1>1, ConstantFacts DEF Gentle
  <2>6. SlotsKnown'
    BY <2>5, NotRevived DEF SlotsKnown, BookingInv
  <2> QED BY <2>4, <2>6
<1>2. ASSUME UNCHANGED <<status, win, slot>> PROVE ActiveHoldsSlots' /\ SlotsKnown'
  BY <1>2 DEF ActiveHoldsSlots, SlotsKnown, Active, SlotsOf
<1>3. ASSUME NEW b \in Bookings, NEW new \in {"pending", "confirmed"},
             TxnCommit(b, new)
      PROVE  ActiveHoldsSlots' /\ SlotsKnown'
  <2> DEFINE E == txn[b].expire
             W == txn[b].win
  <2>1. /\ status[b] = "none"
        /\ win'[b] = W /\ \A x \in Bookings : x # b => win'[x] = win[x]
        /\ \A x \in Bookings : x # b /\ Active(x)' => Active(x) /\ x \notin E
        /\ \A s \in W : slot[s] = None \/ slot[s] \in E
        /\ \A s \in Slots : s \in W => slot'[s] = b
        /\ \A s \in Slots : s \notin W =>
              slot'[s] = IF slot[s] \in E THEN None ELSE slot[s]
        /\ status' = [x \in Bookings |->
             IF x = b THEN new ELSE IF x \in E THEN "expired" ELSE status[x]]
    BY <1>3, CommitFacts DEF BookingInv
  <2>2. W \subseteq Slots
    BY DEF BookingInv, StatusInv, TypeOK, TxnRecords
  <2> HIDE DEF E, W
  <2>3. \A s \in Slots : slot[s] # b
    BY <2>1 DEF SlotsKnown
  <2>4. SlotsOf(b)' = W
    <3>1. \A s \in Slots : slot'[s] = b <=> s \in W
      BY <2>1, <2>3, ConstantFacts
    <3> QED BY <2>2, <3>1 DEF SlotsOf
  <2>5. \A x \in Bookings : x # b /\ Active(x)' => SlotsOf(x)' = SlotsOf(x)
    <3>1. \A x \in Bookings, s \in Slots :
            x # b /\ Active(x)' => (slot'[s] = x <=> slot[s] = x)
      BY <2>1, ConstantFacts
    <3> QED BY <3>1 DEF SlotsOf
  <2>6. ActiveHoldsSlots'
    BY <2>1, <2>4, <2>5 DEF ActiveHoldsSlots
  <2>7. SlotsKnown'
    <3> SUFFICES ASSUME NEW s \in Slots, NEW x \in Bookings, slot'[s] = x
                 PROVE  status'[x] # "none"
      BY DEF SlotsKnown
    <3>1. CASE s \in W
      BY <2>1, <3>1
    <3>2. CASE s \notin W
      BY <2>1, <3>2, ConstantFacts DEF SlotsKnown
    <3> QED BY <3>1, <3>2
  <2> QED BY <2>6, <2>7
<1>4. ASSUME NEW b \in Bookings, Create(b),
             ~ \E new \in {"pending", "confirmed"} : TxnCommit(b, new)
      PROVE  UNCHANGED <<status, win, slot>>
  BY <1>4 DEF Create, AcquireLock, TxnBegin, CreateFails, TxnRetry, db
<1>5. CASE Crash
  BY <1>2, <1>5 DEF Crash, db
<1> QED BY <1>1, <1>2, <1>3, <1>4, <1>5, StepKinds DEF BookingInv, StatusInv

Closed(b) == status[b] \in {"cancelled", "expired", "no_show"}

(* A handler that closes a booking frees its slots, or is going to.        *)
LEMMA FreedStep ==
  ASSUME BookingInv, ClosedFreesSlots,
         "crash" \notin scene, "move" \notin scene, SceneNext
  PROVE  ClosedFreesSlots'
<1> DEFINE Due(b) == \/ \E c \in Closers : closing[b][c] = "saved"
                     \/ sweep.pc = "updated" /\ b \in sweep.ids
<1>0. /\ TypeOK
      /\ \A b \in Bookings : Closed(b) /\ SlotsOf(b) # {} => Due(b)
  BY DEF BookingInv, StatusInv, ClosedFreesSlots, Closed
<1>1. SUFFICES ASSUME NEW b \in Bookings, Closed(b)', SlotsOf(b)' # {}
               PROVE  Due(b)'
  BY DEF ClosedFreesSlots, Closed
<1>2. ASSUME Closed(b), SlotsOf(b)' \subseteq SlotsOf(b),
             sweep' = sweep \/ sweep.pc # "updated",
             \A c \in Closers : closing[b][c] = "saved" => closing'[b][c] = "saved"
      PROVE  Due(b)'
  BY <1>0, <1>1, <1>2
<1>3. ASSUME UNCHANGED <<slot, sweep, closing>>,
             \A x \in Bookings : Closed(x)' => Closed(x)
      PROVE  Due(b)'
  <2>1. SlotsOf(b)' = SlotsOf(b) /\ Closed(b)
    BY <1>1, <1>3 DEF SlotsOf
  <2> QED BY <1>2, <1>3, <2>1
<1>4. ASSUME NEW x \in Bookings, NEW t, status' = [status EXCEPT ![x] = t],
             t \notin {"cancelled", "expired", "no_show"}
      PROVE  \A y \in Bookings : Closed(y)' => Closed(y)
  BY <1>0, <1>4 DEF Closed, TypeOK
<1>5. ASSUME NEW gone, slot' = Freed(gone)
      PROVE  SlotsOf(b)' \subseteq SlotsOf(b) /\ b \notin gone
  <2>1. \A s \in Slots : slot'[s] = b => slot[s] = b /\ slot[s] \notin gone
    BY <1>5, ConstantFacts DEF Freed
  <2> QED BY <1>1, <2>1 DEF SlotsOf
<1>6. ASSUME NEW x \in Bookings,
             \/ Confirm(x) \/ CheckIn(x) \/ Complete(x) \/ HoldLapses(x)
      PROVE  Due(b)'
  <2>1. UNCHANGED <<slot, sweep, closing>>
    BY <1>6 DEF Confirm, CheckIn, Complete, HoldLapses, SetStatus, others, procs
  <2>2. \A y \in Bookings : Closed(y)' => Closed(y)
    BY <1>4, <1>6 DEF Confirm, CheckIn, Complete, HoldLapses, SetStatus, Closed
  <2> QED BY <1>3, <2>1, <2>2
<1>7. ASSUME NEW x \in Bookings, HostCancel(x) PROVE Due(b)'
  <2>1. /\ slot' = Freed({x}) /\ status' = [status EXCEPT ![x] = "cancelled"]
        /\ UNCHANGED <<sweep, closing>>
    BY <1>7 DEF HostCancel, procs
  <2>2. x # b /\ SlotsOf(b)' \subseteq SlotsOf(b)
    BY <1>5, <2>1
  <2>3. Closed(b)
    BY <1>0, <1>1, <2>1, <2>2 DEF Closed, TypeOK
  <2> QED BY <1>2, <2>1, <2>2, <2>3
<1>8. ASSUME NEW x \in Bookings, Checkout(x) PROVE Due(b)'
  <2>1. UNCHANGED <<slot, sweep, closing>>
    BY <1>8 DEF Checkout, CheckoutBegin, CheckoutOpens, CheckoutSettles,
                CheckoutCloses, db, procs
  <2>2. CASE CheckoutSettles(x) /\ status[x] = "pending"
    BY <1>3, <1>4, <2>1, <2>2 DEF CheckoutSettles
  <2>3. CASE ~(CheckoutSettles(x) /\ status[x] = "pending")
    <3>1. UNCHANGED status
      BY <1>8, <2>3 DEF Checkout, CheckoutBegin, CheckoutOpens,
                        CheckoutSettles, CheckoutCloses, db
    <3> QED BY <1>3, <2>1, <3>1 DEF Closed
  <2> QED BY <2>2, <2>3
<1>9. ASSUME NEW x \in Bookings, NEW c \in Closers,
             CloseLoad(x, c) \/ CloseSave(x, c) \/ CloseFree(x, c)
      PROVE  Due(b)'
  <2>1. \A y \in Bookings, d \in Closers :
          (y # x \/ d # c) => closing'[y][d] = closing[y][d]
    BY <1>0, <1>9 DEF CloseLoad, CloseSave, CloseFree, TypeOK
  <2>2. CASE CloseLoad(x, c)
    <3>1. closing[x][c] = "idle" /\ UNCHANGED <<status, slot, sweep>>
      BY <2>2 DEF CloseLoad, db
    <3>2. Closed(b) /\ SlotsOf(b)' = SlotsOf(b)
      BY <1>1, <3>1 DEF Closed, SlotsOf
    <3> QED BY <1>2, <2>1, <3>1, <3>2
  <2>3. CASE CloseSave(x, c)
    <3>1. /\ closing'[x][c] = "saved" /\ UNCHANGED <<slot, sweep>>
          /\ status' = [status EXCEPT ![x] = c]
      BY <1>0, <2>3 DEF CloseSave, TypeOK
    <3>2. CASE x = b
      BY <3>1, <3>2
    <3>3. CASE x # b
      <4>1. Closed(b) /\ SlotsOf(b)' = SlotsOf(b)
        BY <1>0, <1>1, <3>1, <3>3 DEF Closed, SlotsOf, TypeOK
      <4> QED BY <1>2, <2>1, <3>1, <3>3, <4>1
    <3> QED BY <3>2, <3>3
  <2>4. CASE CloseFree(x, c)
    <3>1. slot' = Freed({x}) /\ UNCHANGED <<status, sweep>>
      BY <2>4 DEF CloseFree
    <3>2. x # b /\ SlotsOf(b)' \subseteq SlotsOf(b)
      BY <1>5, <3>1
    <3>3. Closed(b)
      BY <1>1, <3>1 DEF Closed
    <3> QED BY <1>2, <2>1, <3>1, <3>2, <3>3
  <2> QED BY <1>9, <2>2, <2>3, <2>4
<1>10. CASE LockLapses
  BY <1>3, <1>10 DEF LockLapses, others, procs, db, Closed
<1>11. CASE SweepFind \/ SweepCheckGateway
  <2>1. sweep.pc # "updated" /\ UNCHANGED <<status, slot, closing>>
    BY <1>11 DEF SweepFind, SweepCheckGateway, db
  <2>2. Closed(b) /\ SlotsOf(b)' = SlotsOf(b)
    BY <1>1, <2>1 DEF Closed, SlotsOf
  <2> QED BY <1>2, <2>1, <2>2
<1>12. CASE SweepExpire
  <2>1. /\ sweep.pc = "checked" /\ UNCHANGED <<slot, closing>>
        /\ sweep' = [sweep EXCEPT !.pc = "updated"]
        /\ status'[b] # status[b] => b \in sweep.ids
    BY <1>12 DEF SweepExpire
  <2>2. sweep'.pc = "updated" /\ sweep'.ids = sweep.ids
    BY <1>0, <2>1 DEF TypeOK
  <2>3. CASE b \in sweep.ids
    BY <2>2, <2>3
  <2>4. CASE b \notin sweep.ids
    <3>1. Closed(b) /\ SlotsOf(b)' = SlotsOf(b)
      BY <1>1, <2>1, <2>4 DEF Closed, SlotsOf
    <3> QED BY <1>2, <2>1, <3>1
  <2> QED BY <2>3, <2>4
<1>13. CASE SweepFree
  <2>1. slot' = Freed(sweep.ids) /\ UNCHANGED <<status, closing>>
    BY <1>13 DEF SweepFree
  <2>2. b \notin sweep.ids /\ SlotsOf(b)' \subseteq SlotsOf(b) /\ Closed(b)
    BY <1>1, <1>5, <2>1 DEF Closed
  <2>3. \E c \in Closers : closing[b][c] = "saved"
    <3>1. SlotsOf(b) # {}
      BY <1>1, <2>2
    <3> QED BY <1>0, <2>2, <3>1
  <2> QED BY <2>1, <2>3
<1>14. ASSUME NEW x \in Bookings, NEW new \in {"pending", "confirmed"},
              TxnCommit(x, new)
       PROVE  Due(b)'
  <2>1. /\ \A s \in Slots : s \in txn[x].win => slot'[s] = x
        /\ \A s \in Slots : s \notin txn[x].win =>
              slot'[s] = IF slot[s] \in txn[x].expire THEN None ELSE slot[s]
        /\ status' = [y \in Bookings |->
             IF y = x THEN new ELSE IF y \in txn[x].expire THEN "expired"
             ELSE status[y]]
    BY <1>14, CommitFacts DEF BookingInv
  <2>2. UNCHANGED <<sweep, closing>>
    BY <1>14 DEF TxnCommit, others, procs
  <2>3. x # b
    BY <1>1, <2>1 DEF Closed
  <2>4. PICK s \in Slots : slot'[s] = b
    BY <1>1 DEF SlotsOf
  <2>5. b \notin txn[x].expire
    BY <2>1, <2>3, <2>4, ConstantFacts
  <2>6. \A z \in Slots : slot'[z] = b => slot[z] = b
    BY <2>1, <2>3, ConstantFacts
  <2>7. Closed(b) /\ SlotsOf(b)' \subseteq SlotsOf(b)
    BY <1>1, <2>1, <2>3, <2>5, <2>6 DEF Closed, SlotsOf
  <2> QED BY <1>2, <2>2, <2>7
<1>15. ASSUME NEW x \in Bookings, Create(x),
              ~ \E new \in {"pending", "confirmed"} : TxnCommit(x, new)
       PROVE  Due(b)'
  <2>1. UNCHANGED <<status, slot, sweep, closing>>
    BY <1>15 DEF Create, AcquireLock, TxnBegin, CreateFails, TxnRetry, db,
                 others, procs
  <2> QED BY <1>3, <2>1 DEF Closed
<1> QED BY <1>6, <1>7, <1>8, <1>9, <1>10, <1>11, <1>12, <1>13, <1>14, <1>15
        DEF SceneNext, Plays, Sweep, CustomerCancel, MarkNoShow, Closers,
            BookingInv, Orderly

(* What each scene keeps beside BookingInv.                                *)
KeptInv ==
  /\ "lapse" \in scene \/ LockGuards
  /\ scene \cap {"lapse", "move"} # {} \/ (TxnKeepsAway /\ BufferRespected)
  /\ scene \cap {"sweep", "move"} # {} \/ (ActiveHoldsSlots /\ SlotsKnown)
  /\ scene \cap {"crash", "move"} # {} \/ ClosedFreesSlots

LEMMA KeptInit ==
  ASSUME Init
  PROVE  KeptInv
<1>1. LockGuards /\ TxnKeepsAway
  BY DEF Init, IdleTxn, LockGuards, TxnKeepsAway, Open
<1>2. BufferRespected /\ ActiveHoldsSlots
  BY DEF Init, BufferRespected, ActiveHoldsSlots, Active, ActiveStatuses
<1>3. SlotsKnown /\ ClosedFreesSlots
  BY ConstantFacts DEF Init, SlotsKnown, ClosedFreesSlots
<1> QED BY <1>1, <1>2, <1>3 DEF KeptInv

LEMMA KeptStep ==
  ASSUME BookingInv, KeptInv, [SceneNext]_<<vars, scene>>
  PROVE  KeptInv'
<1>1. CASE UNCHANGED <<vars, scene>>
  BY <1>1 DEF vars, KeptInv, LockGuards, TxnKeepsAway, BufferRespected,
     ActiveHoldsSlots, SlotsKnown, ClosedFreesSlots, Open, Active, SlotsOf
<1>2. CASE SceneNext
  <2>1. scene' = scene /\ TypeOK
    BY SceneStep DEF BookingInv, StatusInv
  <2>2. "lapse" \in scene \/ LockGuards'
    BY <1>2, <2>1, LockGuardsKept DEF KeptInv
  <2>3. scene \cap {"lapse", "move"} # {} \/ (TxnKeepsAway' /\ BufferRespected')
    BY <1>2, BufferStep DEF KeptInv
  <2>4. scene \cap {"sweep", "move"} # {} \/ (ActiveHoldsSlots' /\ SlotsKnown')
    BY <1>2, HeldStep DEF KeptInv
  <2>5. scene \cap {"crash", "move"} # {} \/ ClosedFreesSlots'
    BY <1>2, FreedStep DEF KeptInv
  <2> QED BY <2>1, <2>2, <2>3, <2>4, <2>5 DEF KeptInv
<1> QED BY <1>1, <1>2

(* The slots tell what the bookings occupy: active bookings keep their     *)
(* buffers unless the lock lapses under a createBooking, own their slots   *)
(* unless the expiry job deletes those of bookings its update skipped, and *)
(* closed ones give theirs back unless the process stops in between.       *)
THEOREM CalendarIsKept == ScenesOrderly /\ SceneSpec => []CalendarKept
<1>1. SceneInit => KeptInv
  BY KeptInit DEF SceneInit
<1>2. BookingInv /\ KeptInv /\ [SceneNext]_<<vars, scene>> => KeptInv'
  BY KeptStep
<1>3. KeptInv => CalendarKept
  BY DEF KeptInv, CalendarKept, BufferKept, SlotsHeld, SlotsFreed, Slow
<1> QED BY <1>1, <1>2, <1>3, BookingCorrect, PTL DEF SceneSpec
=============================================================================
