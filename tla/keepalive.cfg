SPECIFICATION FairSpec
CONSTANTS
  Interval = 6
  Wait = 4
  Poll = 2
  MaxUnread = 2
  Peers = {"whole", "pieces", "any"}
INVARIANTS TypeOK SilentDropped AnsweringKept
PROPERTIES PiecesKept ClosedIsLeft
