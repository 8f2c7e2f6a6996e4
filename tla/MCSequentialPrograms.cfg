CONSTANTS
  Conditions = {0, 1, 2, 3}
  Required = {2, 3}
  SIZE_OF_STAT = 3
  BOUND_OF_LOOP = 2
  CycleTimes = {0, 1, 3, 5, 12, 200}
  width = 8
  Nsi = {1, 2, 5}
  first_peak_nsi = 3
  stop_count = 2
  Deltas = {1, 2, 13}
  max_delta = 5
  number_of_data_points = 4
  min_count1 = 2
  min_count2 = 2
  target_count = 2
  mma_samples = 2
  w32 = 3
  w64 = 4
  oq_capacity = 2
  oq_loops = 5
SPECIFICATION SequentialPrograms
INVARIANTS RunsIffSatisfied CountersTell ScriptsPass KernelModuleRight DeltaIsFrequent SamplesAgree QueueUsedRight
PROPERTY Diagram
