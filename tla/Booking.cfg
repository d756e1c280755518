SPECIFICATION SceneSpec
CONSTANTS
  Bookings = {b1, b2}
  NumSlots = 3
  Buffer = 1
  Movers = {m1}
  Scenes = {{"sweep", "crash", "lapse"}, {"sweep", "cancel"},
            {"sweep", "checkout"}, {"cancel", "noShow"}, {"move"}}
  None = None
  b1 = b1
  b2 = b2
  m1 = m1
SYMMETRY Symmetry
INVARIANTS NoDoubleBooking CalendarKept
PROPERTIES Lawful ImplementsCalendar
CHECK_DEADLOCK FALSE
