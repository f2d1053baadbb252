SPECIFICATION Spec
CONSTANTS
  Capacity = 4
  MaxPerUpdate = 4
  MaxBatch = 2
  MaxEvents = 6
PROPERTY QueuedShown
