CONSTANTS
  Capacity = 3
  MaxTexts = 5
  MaxBatch = 2
SPECIFICATION ReadSpec
INVARIANTS SeenOutcomeIsRecorded CompletedMeansAll NoTaskLeavesARequestLive
PROPERTIES AbandonedEnds StoppedIsHeard
CHECK_DEADLOCK FALSE
