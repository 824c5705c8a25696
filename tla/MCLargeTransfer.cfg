\* Uploads and downloads, with drivers, listeners, the source and the restorer
\* failing, and a caller that may kill the transfer at any time.  A transfer
\* ends, and a download whose restorer died may stop: no deadlock check.
SPECIFICATION LargeSpec

CONSTANTS
  Workers <- MCWorkers
  NumJobs = 3
  MaxRetries = 1

CHECK_DEADLOCK FALSE

INVARIANTS
  NothingLost
  AtMostOneEach
  OnePlace
  LargeTypeOK
  UploadResultTrue
  KillCleans
  DownloadResultTrue
  ReadsWholeChunk
  TransitVolumeFits

PROPERTIES
  KilledEnds
  TransferEnds
