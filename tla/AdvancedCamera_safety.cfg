CONSTANTS
    Durations <- MCDurations
    MaxJobs <- MCMaxJobs
SPECIFICATION FairSpec
INVARIANT BusyHasWorker
INVARIANT ExposureThreadDeadline
 
PROPERTY BusyClears
