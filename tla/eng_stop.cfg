SPECIFICATION FairSpec
CONSTANTS
    Clients = {c1}
    WorkerCount = 1
    MaxThreads = 4
    JobCap = 2
    MaxJobs = 1
    MaxDescs = 1
    MaxStops = 1
    Discipline = "calls"
PROPERTY CallsAnswered
CHECK_DEADLOCK FALSE
