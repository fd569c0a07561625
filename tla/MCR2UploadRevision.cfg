SPECIFICATION UploadSpec
CONSTANTS
  Files <- MCFiles
  Revisions = {"r1", "r2"}
  Size <- MCEqualSize
  Sized <- MCSized
  Absent = Absent
  NoManifest = NoManifest
  Workers = 2
  Retries = 2
  MaxRuns = 2
INVARIANTS
  ManifestNamesItsContent
CHECK_DEADLOCK FALSE
