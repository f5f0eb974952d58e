\* Two calls of Start and two of Stop, in any order.
CONSTANTS
    Workers = {w1, w2}
    Stops = {s1, s2}
SPECIFICATION Spec
CHECK_DEADLOCK FALSE
INVARIANTS WorkerTypeOK SafeToClose
PROPERTIES StopReturns 
