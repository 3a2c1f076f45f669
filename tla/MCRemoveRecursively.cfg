SPECIFICATION Spec
CONSTANTS
  LinkTarget <- MCLinkTarget
  Trees <- MCTrees
  Targets <- MCTargets
  Paths <- MCPaths
  MaxChanges = 3
  Unreadable = {"?"}
INVARIANTS
  TypeOK
  OnlyNewLinksLeadAway
PROPERTIES
  ReturnedMeansGone
  RemovesAll
  Terminates
CHECK_DEADLOCK FALSE
