\* CustomFilterWheel: the monitor writes, then sleeps 2 s; stop() joins 2 s.
CONSTANTS
    Device = "filterwheel"
    TickRate = 4
SPECIFICATION FairSpec
PROPERTY TaskRunnerSpec
