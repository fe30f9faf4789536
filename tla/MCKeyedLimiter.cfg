CONSTANTS
    k1 = k1
    k2 = k2
    c1 = c1
    c2 = c2
    c3 = c3
    c4 = c4
    c5 = c5
    Keys <- MCKeys
    Clients <- MCClients
    ClientKey <- MCClientKey
    Concurrency = 2
SPECIFICATION FairLimiterSpec
INVARIANTS LeasesCounted
PROPERTIES ImplementsFifoSemaphore EveryWaiterServed
