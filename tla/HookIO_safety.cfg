\* A reader on one file and a reader and a connecting fiber on the next file with the
\* same descriptor; timeouts, cancels, a close and failures of the peer.
CONSTANTS
    r1 = r1  r2 = r2  k1 = k1  t1 = t1  t2 = t2  Nil = Nil  fd = fd
    Fds = {fd}
    Jobs = {r1, r2, k1}
    Readers = {r1, r2}
    Connectors = {k1}
    Timed = {r1}
    Threads = {t1}
    MaxWaits = 2
    MaxFiles = 2
    FileOf <- TwoFiles
    Closes = TRUE
    Cancels = TRUE
    Fails = TRUE
SPECIFICATION HookSpec
INVARIANTS WaitsClean TimeoutHasCause
 
CHECK_DEADLOCK FALSE
