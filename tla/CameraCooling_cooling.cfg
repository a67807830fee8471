\* Two SET_COOLER commands, to -10 degrees and to an out-of-range -40.
CONSTANTS
    Targets <- MCTargets
    NoTemp = NoTemp
    MaxSets = 2
SPECIFICATION FairSpec
INVARIANT SensorInRange
PROPERTY CoolingSettles
