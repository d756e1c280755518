SPECIFICATION FairScenes
CONSTANTS
  Bookings = {b1, b2}
  NumSlots = 2
  Buffer = 0
  Movers = {}
  Scenes = {{"sweep", "checkout", "report"}, {"sweep", "cancel", "noShow"}}
  None = None
  b1 = b1
  b2 = b2
PROPERTY StaleHoldsReleased
CHECK_DEADLOCK FALSE
