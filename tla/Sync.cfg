SPECIFICATION SyncSpec
CONSTANTS
  NoRecord = NoRecord
  Keys = {k1}
  Devices = {1, 2}
  Payloads = {1}
  Times = {1, 2}
  MaxChanges = 2
  MaxPackages = 2
  Replicas = {r1, r2}
  Versions <- SomeVersions
  DevicePriority <- Ranks
  Readers = {1, 2}
  ProgressRecords <- SomeProgress
  Instants = {0, 1}
  MaxRecordsPerBook = 2
INVARIANTS
  TypeOK
  SharedIsLatest
  AcknowledgedIsShared
  JournalIsValid
  PoliciesKeepTheirWord
  ProgressAgrees
PROPERTIES
  SharedNeverRegresses
CHECK_DEADLOCK FALSE
