SPECIFICATION FairSpec
CONSTANTS
    t1 = t1
    t2 = t2
    none = none
    Threads <- MCThreads
    NoThread = none
    Chatty <- MCChatty
    Capacity = 1
    CounterModulus = 3
INVARIANTS
    IInv
    Accounted
    NothingLeft
    OneConsumer
PROPERTIES
    StopReturns
    FirstCallReturns
    CatchesUp
