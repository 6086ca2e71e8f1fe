\* Two worker threads and a program that stops.
CONSTANTS
    w1 = w1  w2 = w2  c1 = c1  c2 = c2  c3 = c3
    AnyThread = AnyThread  Nil = Nil  Root = Root
    Workers = {w1, w2}
    UseCaller = FALSE
    Callbacks = {c1, c2, c3}
    UserFibers = {}
    Batch <- NoBatch
    Spawned = {c2, c3}
    TimerJobs = {c2, c3}
    Pin <- NoPins
    HoldJobs = {}
    ReadyJobs = {}
    MaxYields = 0
SPECIFICATION IOSpec
INVARIANT IOStopDrains
