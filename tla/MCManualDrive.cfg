CONSTANTS
  Percents = {0, 1, 100}
  Reassignments <- MCReassignments
  InitialStored <- MCInitialStored
SPECIFICATION Spec
INVARIANTS
  TypeOK
  SettingsSurviveReload
  EveryPressAccepted
  CompatDrivesTheSame
