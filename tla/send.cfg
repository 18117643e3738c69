SPECIFICATION Spec
CONSTANTS
  self = self  alice = alice  None = None
  Sender <- TwoSenders
  MaxPackets = 3
SYMMETRY Symmetry
INVARIANTS TypeOK FramesWhole DecryptsUnlessOverlapped
PROPERTIES SendsInOrder
