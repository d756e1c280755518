------------------------------ MODULE Calendar ------------------------------
(***************************************************************************)
(* What the booking subsystem promises about one space: a calendar in      *)
(* which every client (a booking) holds a set of time slots, no slot is    *)
(* held by two clients, a client is given its slots in one indivisible     *)
(* step and gives all of them back in one step.  Booking.tla is the        *)
(* detailed specification that is shown to implement this one.             *)
(***************************************************************************)
CONSTANTS Clients, Slots

VARIABLE held       \* held[c]: the slots client c occupies, {} when none

CalendarInit == held = [c \in Clients |-> {}]

(* c, which holds nothing, takes the slots w; the clients of gone lose     *)
(* theirs in the same step.                                                *)
Reserve(c, w, gone) ==
  /\ held[c] = {} /\ c \notin gone /\ w # {}
  /\ \A d \in Clients \ (gone \cup {c}) : held[d] \cap w = {}
  /\ held' = [d \in Clients |-> IF d = c THEN w
                                ELSE IF d \in gone THEN {} ELSE held[d]]

(* The clients of gone give back what they hold. *)
Free(gone) ==
  held' = [d \in Clients |-> IF d \in gone THEN {} ELSE held[d]]

(* c exchanges its slots for w. *)
Exchange(c, w) ==
  /\ held[c] # {} /\ w # {}
  /\ \A d \in Clients \ {c} : held[d] \cap w = {}
  /\ held' = [held EXCEPT ![c] = w]

CalendarNext ==
  \/ \E gone \in SUBSET Clients : Free(gone)
  \/ \E c \in Clients, w \in SUBSET Slots : Exchange(c, w)
  \/ \E c \in Clients, w \in SUBSET Slots, gone \in SUBSET Clients :
        Reserve(c, w, gone)

CalendarSpec == CalendarInit /\ [][CalendarNext]_held
=============================================================================
