SPECIFICATION LoadSpec
CONSTANTS
  Candidates <- MCCandidates
  MissionFiles <- MCMissionFiles
  BoardFiles <- MCBoardFiles
  NameOrder <- MCNameOrder
  MaxEdits = 1
INVARIANTS
  DatabaseTypeOK
  ValidNeverThrows
  SameHashesSameRules
  BoardHashIgnoresFileNames
