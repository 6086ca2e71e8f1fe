\* Two worker threads, fair; jobs yield to ready, one is pinned, one is spawned.
CONSTANTS
    w1 = w1  w2 = w2  c1 = c1  c2 = c2  c3 = c3  f1 = f1
    AnyThread = AnyThread  Nil = Nil  Root = Root
    Workers = {w1, w2}
    UseCaller = FALSE
    Callbacks = {c1, c2}
    UserFibers = {f1}
    Batch <- NoBatch
    Spawned = {c2}
    Pin <- PinF1
    HoldJobs = {}
    ReadyJobs = {c1, c2, f1}
    MaxYields = 1
SPECIFICATION FairSpec
INVARIANT StopDrains
PROPERTIES ImplementsPool StopReturns
