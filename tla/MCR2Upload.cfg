SPECIFICATION UploadSpec
CONSTANTS
  Files <- MCFiles
  Revisions = {"r1", "r2"}
  Size <- MCSize
  Sized <- MCSized
  Absent = Absent
  NoManifest = NoManifest
  Workers = 2
  Retries = 2
  MaxRuns = 2
INVARIANTS
  UploadTypeOK
PROPERTIES
  ManifestIsBacked
CHECK_DEADLOCK FALSE
