CONSTANT ProgressSteps = 10
SPECIFICATION FairSpec
PROPERTY PollEnds
