\* Four threads: three can spin while a fourth is inside.
SPECIFICATION Spec
CONSTANT Threads = {t1, t2, t3, t4}
INVARIANT LockInv
PROPERTY ImplementsMutex SomeoneEnters
