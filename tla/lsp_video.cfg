SPECIFICATION LspSpec
CONSTANTS
  Sent <- Stream
  Announced <- Heads
  Completing <- Ends
  Foreign = {14}
  FirstSequence = 8388604
  SequenceSpace <- Wrap
  MaxRepeats = 2
  MaxMalformed = 1
  None = None
CHECK_DEADLOCK FALSE
INVARIANTS
  WholeFrames
  CleanRunDelivered
