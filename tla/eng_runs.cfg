SPECIFICATION FairSpec
CONSTANTS
    Clients = {c1}
    WorkerCount = 1
    MaxThreads = 2
    JobCap = 1
    MaxJobs = 2
    MaxDescs = 1
    MaxStops = 1
    Discipline = "callbacks"
INVARIANTS TypeOK QueueAlive StopIsComplete
PROPERTIES CallsAnswered TimersRun StopReturns
CHECK_DEADLOCK FALSE
