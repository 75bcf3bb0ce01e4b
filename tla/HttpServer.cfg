CONSTANTS
  MaxHeader = 4
  Chunk = 2
  BufferSize = 2
  MaxResponses = 2
  Plans <- MCPlans
SPECIFICATION MCSpec
INVARIANTS RepliesInOrder RequestsHandledWhole ContentReadBack
PROPERTIES EveryRequestEnds
CHECK_DEADLOCK FALSE
