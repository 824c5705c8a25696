\* The acceptance test of a killed upload expects its path in the cloud to be
\* empty.  kill deletes the chunks and leaves the manifest.
SPECIFICATION LargeSpec

CONSTANTS
  Workers <- MCWorkers
  NumJobs = 3
  MaxRetries = 1

CHECK_DEADLOCK FALSE

INVARIANT PathCleaned
