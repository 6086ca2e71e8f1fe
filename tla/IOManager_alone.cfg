\* A default-constructed IOManager: the caller's thread is the only one.
CONSTANTS
    w1 = w1  w2 = w2  c1 = c1  c2 = c2  c3 = c3
    AnyThread = AnyThread  Nil = Nil  Root = Root
    Workers = {}
    UseCaller = TRUE
    Callbacks = {c1, c2, c3}
    UserFibers = {}
    Batch <- NoBatch
    Spawned = {c2, c3}
    TimerJobs = {c2}
    Pin <- NoPins
    HoldJobs = {c1, c2}
    ReadyJobs = {c1, c2}
    MaxYields = 1
SPECIFICATION IOStoppedSpec
INVARIANT IOStopDrains
PROPERTY StopReturns
