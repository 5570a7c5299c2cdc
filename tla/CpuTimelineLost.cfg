CONSTANTS
    Setter = {s1}
    Waiter = {w1}
    MaxValue = 1
    MaxSignalCalls = 1
SPECIFICATION SignalFairSpec
PROPERTY ReachedWaitsEnd
