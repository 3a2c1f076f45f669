CONSTANTS
  Tasks <- MCTasks
  Bodies <- MCBodies
  Endings <- MCEndings
  NoSignal = "none"
  MaxOutput = 4
  Window = 2
  PipeSize = 1
  ReadLength = 2
  Nobody = Nobody
SPECIFICATION Spec
INVARIANTS TypeOK OutputIsComplete StatusTellsTheEnd
PROPERTIES EndsIfItFits ExecuteEnds StreamsAnyAmount
CHECK_DEADLOCK FALSE
