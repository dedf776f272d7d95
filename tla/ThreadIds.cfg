SPECIFICATION IdsSpec
CONSTANTS
  Client = {"main"}
  MaxJobs = 6
  NoId = NoId
INVARIANTS SlotsAreNotShared IdsAreInRange
