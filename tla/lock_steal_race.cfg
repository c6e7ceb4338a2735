SPECIFICATION Spec
CONSTANTS
    a1 = a1
    a2 = a2
    b1 = b1
    pa = pa
    pb = pb
    None = None
    Callers = {a1, a2, b1}
    Procs = {pa, pb}
    ProcOf <- TwoProcesses
    Timeout <- DefaultTimeouts
    StaleLockAge = 3
    Overhead = 1
    MaxFaults = 1
    MaxCalls <- Calls
INVARIANT MutualExclusion
CHECK_DEADLOCK FALSE
