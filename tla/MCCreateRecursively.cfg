SPECIFICATION Spec
CONSTANTS
  LinkTarget <- MCLinkTarget
  Tasks <- MCTasks
  Trees <- MCTrees
  Targets <- MCTargets
  Paths <- MCPaths
INVARIANTS
  ReturnedMeansThere
PROPERTY CreatorsAgree
CHECK_DEADLOCK FALSE
