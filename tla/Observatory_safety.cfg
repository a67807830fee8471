CONSTANT ShotBound = 2
SPECIFICATION FairSpec
PROPERTY NoCommandAfterStop
