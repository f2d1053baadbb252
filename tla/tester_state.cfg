SPECIFICATION ViewsSpec
CONSTANTS
  SourceIds = {1, 2}
  Codes <- MCCodes
  ChangeLists <- MCChangeLists
  MaxFrames = 2
  MaxLog = 2
  MaxHistory = 4
  Descriptions <- MCDescriptions
  MaxSamples = 5
  Durations = {0, 1, 2}
  MaxObserved = 6
INVARIANTS
  SourcesFromHistory
  ValuesFromHistory
  HistoryRetained
  SelectionListed
  ViewsShowEvidence
  SummaryOfNewest
