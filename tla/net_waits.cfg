SPECIFICATION FairSpec
CONSTANTS
    Threads = {t1, t2}
    Callbacks = {c1}
    NumFds = 1
    MaxOps = 2
    MaxGenerations = 2
    Nobody = Nobody
INVARIANTS TypeOK WaiterServed PeerIsOwn CallbackOnce
PROPERTIES AnswersItsAsker SuccessIsConnected EveryWaitEnds
CHECK_DEADLOCK FALSE
