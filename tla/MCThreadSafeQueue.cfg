SPECIFICATION Spec
CONSTANTS
    Producers = {hw, p2}
    Consumers = {c1, main}
    Observers = {hw, main}
    Values = {a, b}
    MaxSize = 1
    None = None
INVARIANTS MonitorInv NoLostWakeup
PROPERTY ImplementsBoundedQueue
