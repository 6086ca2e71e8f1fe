\* Two fair worker threads and a program that may stop.
CONSTANTS
    w1 = w1  w2 = w2  c1 = c1  c2 = c2  c3 = c3
    AnyThread = AnyThread  Nil = Nil  Root = Root
    Workers = {w1, w2}
    UseCaller = FALSE
    Callbacks = {c1, c2}
    UserFibers = {}
    Batch <- NoBatch
    Spawned = {c2}
    TimerJobs = {c2}
    Pin <- NoPins
    HoldJobs = {c1}
    ReadyJobs = {}
    MaxYields = 1
SPECIFICATION IOFairSpec
INVARIANTS WaitersCovered
PROPERTIES StopReturns  
