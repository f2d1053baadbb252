SPECIFICATION Spec
CONSTANTS
  Capacity = 4
  MaxPerUpdate = 4
  MaxBatch = 2
  MaxEvents = 8
INVARIANTS
  TypeOK
  OmissionsExact
  ShownInOrder
PROPERTIES
  BacklogDrains
  OmissionReported
  StopEndsWorker
