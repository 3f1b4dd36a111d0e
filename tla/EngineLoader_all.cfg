CONSTANTS
  ProgramSize = 2
  PackSize = 2
  DOWNLOAD_ATTEMPTS_MAX = 4
SPECIFICATION FairSpec
INVARIANTS TypeOK StartsComplete ProgressHonest NoticeIsFinal
PROPERTIES ProgressNeverFalls LoadingEnds
CHECK_DEADLOCK FALSE
