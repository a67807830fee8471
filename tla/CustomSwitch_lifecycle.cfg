\* MyCustomSwitch with two SET_TEMPERATURE commands and 0.25 s ticks.
CONSTANTS
    TickRate = 4
    MaxSets = 2
SPECIFICATION FairSpec
PROPERTY TaskRunnerSpec
