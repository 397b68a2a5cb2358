SPECIFICATION FairSpec
CONSTANTS
  MaxMessages = 3
  Capacity = 1
  Nothing = Nothing
  Stop = Stop
INVARIANTS TypeOK NothingLost DeliveredInOrder
PROPERTIES ResponsesArrive SessionEnds WorkersReleased NoTaskLeft
