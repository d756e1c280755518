-------------------------- MODULE MCBookingScenes --------------------------
(***************************************************************************)
(* With every handler at once the code keeps few promises.  A behaviour of *)
(* SceneSpec therefore plays one scene: the optional handlers that run in  *)
(* it, and whether a createBooking may outlive its lock ("lapse").  Each   *)
(* property is stated for the scenes in which the code keeps it.           *)
(***************************************************************************)
EXTENDS MCBooking

CONSTANT Scenes  \* sets of handlers, with "move" and "lapse"

VARIABLE scene

Plays(h) == h \in scene /\ UNCHANGED scene

SceneInit == Init /\ scene \in Scenes

SceneNext ==
  \/ \E b \in Bookings :
       \/ Create(b) /\ UNCHANGED scene
       \/ Confirm(b) /\ UNCHANGED scene
       \/ CheckIn(b) /\ UNCHANGED scene
       \/ Complete(b) /\ UNCHANGED scene
       \/ HostCancel(b) /\ UNCHANGED scene
       \/ HoldLapses(b) /\ UNCHANGED scene
       \/ Plays("cancel") /\ CustomerCancel(b)
       \/ Plays("noShow") /\ MarkNoShow(b)
       \/ Plays("report") /\ ConfirmPayment(b)
       \/ Plays("checkout") /\ Checkout(b)
  \/ LockLapses /\ UNCHANGED scene /\ ("lapse" \in scene \/ txn[lock].pc = "idle")
  \/ Plays("sweep") /\ Sweep
  \/ \E m \in Movers : Plays("move") /\ Reschedule(m)
  \/ Plays("crash") /\ Crash

SceneSpec == SceneInit /\ [][SceneNext]_<<vars, scene>>

(* The expiry job runs every minute on every instance. *)
FairScenes == SceneSpec /\ WF_<<vars, scene>>(Sweep /\ Plays("sweep"))
-----------------------------------------------------------------------------
(* Booking's properties, in the scenes in which the code keeps them.       *)
Slow == "lapse" \in scene
BufferKept == Slow \/ "move" \in scene \/ BufferRespected
SlotsHeld == scene \cap {"sweep", "move"} # {} \/ ActiveHoldsSlots
SlotsFreed == scene \cap {"crash", "move"} # {} \/ ClosedFreesSlots

(* The slots tell what the bookings occupy: active bookings keep their     *)
(* distance and own their slots, closed ones give them back.               *)
CalendarKept == BufferKept /\ SlotsHeld /\ SlotsFreed

(* Every change of a status follows the table of transitions.              *)
Lawful ==
  [][scene \cap {"cancel", "noShow"} # {}
       \/ \A b \in Bookings : LegalChange(status[b], status'[b])]_vars
=============================================================================
