----------------------------- MODULE MCBooking -----------------------------
(* Small instances of Booking.tla.  Bookings and movers are model values;  *)
(* they are interchangeable, so safety runs may identify permuted states.  *)
EXTENDS Booking, TLC

Symmetry == Permutations(Bookings) \cup Permutations(Movers)
=============================================================================
