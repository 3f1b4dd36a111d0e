CONSTANTS
  Tab = {t1}
  Exports = {{"pck", "wasm"}, {"pck"}}
  NewWorker = {TRUE}
  Releases = 2
  MaxBuilds = 2
  PageLoadsDetector = TRUE
SPECIFICATION FairSpec
INVARIANTS TypeOK ManifestComplete GameIsOneRelease
PROPERTIES DeliversReleases OldPagesAreTold TakeoversEnd
CHECK_DEADLOCK FALSE
