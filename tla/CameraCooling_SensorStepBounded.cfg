\* Can one update of update_loop move the sensor further than its power?
CONSTANTS
    Targets <- MCScenarioTargets
    NoTemp = NoTemp
    MaxSets = 1
SPECIFICATION Spec
PROPERTY SensorStepBounded
