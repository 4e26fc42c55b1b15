SPECIFICATION Spec
CONSTANTS
  Sorted <- MCSorted
  Kind <- MCKind
  Hits <- MCHits
  Hidden <- MCHidden
  Root <- MCRoot
  LinkAt <- Link
  Targets <- MCTargets
  Turning <- MCTurning
  LeadsTo <- OutD
  Loose <- MCLoose
  Absent <- MCAbsent
  RuleSets <- MCRuleSets
  Calls <- MCCalls
  Commands <- MCCommands
  Texts <- MCTexts
  Ranges <- MCRanges
  ReadMax = 3
  MaxEdits = 2
  MaxFaults = 1
INVARIANTS
  ReachIsGranted
  AnswersAreWhole
PROPERTY UnattendedGitReads
