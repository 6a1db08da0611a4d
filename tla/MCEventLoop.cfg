SPECIFICATION FairSpec

CONSTANTS
    c1 = c1
    c2 = c2
    t1 = t1
    t2 = t2
    t3 = t3
    io1 = io1
    wakeup = wakeup
    Callers <- MCCallers
    Tasks <- MCTasks
    IoChannels <- MCIoChannels
    WakeupChannel = wakeup
    EventfdMax <- MCEventfdMax

INVARIANTS
    TypeOK
    NoLostWakeup
    NoLostQuit

PROPERTIES
    ImplementsTaskQueue
    QueuedIsCalled
    QuitLeavesLoop
