\* One fiber in a call with a timeout; the peer may stay silent.
CONSTANTS
    r1 = r1  r2 = r2  k1 = k1  t1 = t1  t2 = t2  Nil = Nil  fd = fd
    Fds = {fd}
    Jobs = {r1}
    Readers = {r1}
    Connectors = {}
    Timed = {r1}
    Threads = {t1}
    MaxWaits = 2
    MaxFiles = 1
    FileOf <- OneFile
    Closes = FALSE
    Cancels = FALSE
    Fails = FALSE
SPECIFICATION HookFairSpec
PROPERTY TimeoutHonoured
CHECK_DEADLOCK FALSE
