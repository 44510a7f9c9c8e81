\* The sleeps of the code; PostgreSQL and RabbitMQ ready before, at or after the instants
\* that matter; delays within and beyond the margins of 6765 ms and 17711 ms.
CONSTANTS
    CacheSleep = 46368
    BusinessSleep = 17711
    QueueSleep = 4181
    DbSleep = 6765
    ConsumerSleep = 28657
    Boots <- MCBoots
    Skews <- MCSkews
    Delays <- MCDelays
SPECIFICATION FairSpec
\* A start comes to its end.
CHECK_DEADLOCK FALSE
INVARIANTS
    NobodyDies
    NoCreateRace
    ServingIsPrepared
PROPERTIES
    AllServe
