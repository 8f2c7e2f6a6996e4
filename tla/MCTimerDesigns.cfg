CONSTANTS
  durations <- MCDurations
  ne = 4
  loopsize = 6
  Values = {100, 200, 300, 400, 500}
SPECIFICATION TimerDesigns
INVARIANTS AssertsHold SameRunning QueuesHoldRunning CountersAddUp AllDueExpired SaneAfterRepair
PROPERTY RepairEnds
