CONSTANTS
  Tab = {t1}
  Exports = {{"pck", "wasm"}, {"pck"}}
  NewWorker = {TRUE}
  Releases = 2
  MaxBuilds = 2
  PageLoadsDetector = TRUE
SPECIFICATION Spec
INVARIANT KeptIsServed
CHECK_DEADLOCK FALSE
