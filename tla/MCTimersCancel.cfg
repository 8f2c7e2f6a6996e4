CONSTANTS
  durations <- MCDurations
  ne = 4
  loopsize = 6
SPECIFICATION Spec
INVARIANT CanceledBeforeItExpires
