SPECIFICATION DocSpec
CONSTANTS
  Writers = {"host"}
  Kinds = {"mailbox"}
  MaxSaves = 3
INVARIANTS
  EnqueueIsIdempotent
CHECK_DEADLOCK FALSE
