CONSTANTS
    Durations <- MCDurations
    MaxJobs <- MCMaxJobs
SPECIFICATION Spec
INVARIANT AbortedNeverCompletes
