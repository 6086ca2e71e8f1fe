\* One descriptor with both events, idle threads that keep running.
CONSTANTS
    j1 = j1  j2 = j2  t1 = t1  t2 = t2  f1 = f1  f2 = f2  Nil = Nil
    Jobs = {j1, j2}
    Threads = {t1, t2}
    Fds = {f1}
SPECIFICATION FairSpec
INVARIANTS PendingKept RegistrationsAgree ResumedOnce
PROPERTY ReadyIsServed
