CONSTANTS
  Configs <- MCConfigs
  Requests <- MCRequests
SPECIFICATION Spec
INVARIANTS
  TypeOK
  EstopAlwaysAuthorized
  CompetitionIsAutonomous
  PermissionsOnlyPermit
