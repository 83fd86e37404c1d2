SPECIFICATION Spec
CONSTANTS
  Newest = 3
  MaxBackups = 3
  MaxData = 2
  BackupLimit = 2
  ReleaseLimit = 2
INVARIANTS
  InstalledIsConsistent
  FailedUpgradeIsUndone
  CommittedIsReversible
PROPERTIES
  DatabaseIsKept
