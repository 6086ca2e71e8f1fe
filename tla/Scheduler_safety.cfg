\* use_caller with one further thread, jobs that hold and yield.
CONSTANTS
    w1 = w1  w2 = w2  c1 = c1  c2 = c2  c3 = c3  f1 = f1
    AnyThread = AnyThread  Nil = Nil  Root = Root
    Workers = {w1}
    UseCaller = TRUE
    Callbacks = {c1, c2}
    UserFibers = {f1}
    Batch <- Pair
    Spawned = {}
    Pin <- NoPins
    HoldJobs = {c1, f1}
    ReadyJobs = {c1, c2, f1}
    MaxYields = 1
SPECIFICATION Spec
INVARIANTS TypeOK CountersExact FiberMutex AssertsHold NothingLost ClaimedOnce
PROPERTY PoolSteps
