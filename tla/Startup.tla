------------------------------- MODULE Startup -------------------------------
(***************************************************************************)
(* The start-up of the servers.  No process waits for another: each sleeps *)
(* a fixed number of milliseconds and then expects the database, the tables*)
(* or the queue to be there.  The clock `now' stops at every instant at    *)
(* which a process has something to do.                                    *)
(*                                                                         *)
(* Sources: v2 Program.cs of the three servers, QueueHelper.cs, DbHelper.cs*)
(* BaseRepository.cs and CreateTable of the repositories.  PostgreSQL and  *)
(* RabbitMQ are external: each accepts connections from some instant on.   *)
(***************************************************************************)
EXTENDS Integers, FiniteSets

CONSTANTS
    CacheSleep,     \* 46368 ms
    BusinessSleep,  \* 17711 ms
    QueueSleep,     \* 4181 ms
    DbSleep,        \* 6765 ms
    ConsumerSleep,  \* 28657 ms
    Boots,          \* when PostgreSQL and RabbitMQ may become ready
    Skews,          \* when a container may have started its program
    Delays          \* how long a call, or the start of a task, may take

ASSUME TimeAssumption ==
    /\ {CacheSleep, BusinessSleep, QueueSleep, DbSleep, ConsumerSleep} \subseteq Nat
    /\ Boots \subseteq Nat /\ Skews \subseteq Nat /\ Delays \subseteq Nat /\ 0 \in Delays

Mains == {"cache", "business", "consumer"}
Tasks == {"publisher", "inserter"}          \* of the business server
Processes == Mains \cup Tasks
Tables == {"customer", "file"}
Never == -1

VARIABLES
    now,
    pc, due,        \* where a process is; when it goes on
    skew,           \* when its container started
    latency,        \* the longest delay of this start
    dbReady, brokerReady,
    stdinOpen,      \* is there a standard input for Console.ReadLine to wait on?
    database, tables, queue,   \* what has been created
    missing         \* tables a process has found missing and not yet created

envVars == <<skew, latency, dbReady, brokerReady, stdinOpen>>
storeVars == <<database, tables, queue, missing>>
vars == <<now, pc, due, envVars, storeVars>>

Init ==
    /\ now = 0
    /\ skew \in [Mains -> Skews]
    /\ latency \in Delays
    /\ dbReady \in Boots /\ brokerReady \in Boots
    /\ stdinOpen \in BOOLEAN
    \* A first start, or one after an earlier one that may have stopped anywhere.
    /\ database \in BOOLEAN
    /\ tables \in IF database THEN {{}, {"customer"}, Tables} ELSE {{}}
    /\ queue = FALSE
    /\ missing = [p \in Processes |-> {}]
    /\ pc = [p \in Processes |->
               IF p = "cache" THEN "customer" ELSE IF p = "business" THEN "queue"
               ELSE IF p = "consumer" THEN "connect" ELSE "none"]
    /\ due = [p \in Processes |->
               IF p = "cache" THEN skew[p] + CacheSleep
               ELSE IF p = "business" THEN skew[p] + BusinessSleep + QueueSleep
               ELSE IF p = "consumer" THEN skew[p] + ConsumerSleep ELSE Never]

Wakes(p, label) == pc[p] = label /\ due[p] = now
DelaysNow == {d \in Delays : d <= latency}

\* The next step of p, some delay from now.
Continue(p, label) ==
    /\ pc' = [pc EXCEPT ![p] = label]
    /\ \E d \in DelaysNow : due' = [due EXCEPT ![p] = now + d]

\* p has nothing more to do at a time of its own.
Rest(p, label) ==
    /\ pc' = [pc EXCEPT ![p] = label]
    /\ due' = [due EXCEPT ![p] = Never]

Die(p) == Rest(p, "dead")

DbUp == now >= dbReady
BrokerUp == now >= brokerReady

\* Time passes until the next instant at which somebody goes on.
Tick ==
    LET pending == {due[p] : p \in {q \in Processes : due[q] # Never}} IN
    \E t \in pending :
        /\ t > now /\ \A u \in pending : t <= u
        /\ now' = t
        /\ UNCHANGED <<pc, due, envVars, storeVars>>

-----------------------------------------------------------------------------
(* The business server's Main.                                             *)

\* Mutant: the sample is run on the main thread.
PublishOnMain ==
    /\ Wakes("business", "queue")
    /\ Rest("business", "publishing")
    /\ UNCHANGED <<now, envVars, storeVars>>

\* DoQueueSamples starts its task, then DoDbSamples sleeps.
StartPublisher ==
    /\ Wakes("business", "queue")
    /\ pc' = [pc EXCEPT !["business"] = "db", !["publisher"] = "connect"]
    /\ \E d, e \in DelaysNow :
         due' = [due EXCEPT !["business"] = now + DbSleep + d, !["publisher"] = now + e]
    /\ UNCHANGED <<now, envVars, storeVars>>

\* Mutant: the task sleeps once more.
SleepTwice ==
    /\ Wakes("business", "db")
    /\ pc' = [pc EXCEPT !["business"] = "listening", !["inserter"] = "database"]
    /\ \E e \in DelaysNow :
         due' = [due EXCEPT !["business"] = Never, !["inserter"] = now + DbSleep + e]
    /\ UNCHANGED <<now, envVars, storeVars>>

\* DoDbSamples starts its task, then StartServer listens.
StartInserter ==
    /\ Wakes("business", "db")
    /\ pc' = [pc EXCEPT !["business"] = "listening", !["inserter"] = "database"]
    /\ \E e \in DelaysNow :
         due' = [due EXCEPT !["business"] = Never, !["inserter"] = now + e]
    /\ UNCHANGED <<now, envVars, storeVars>>

-----------------------------------------------------------------------------
(* The publisher, and the consumer that leaves QueueDeclare to it.         *)

\* CreateConnection throws when nobody listens.
PublisherConnects ==
    /\ Wakes("publisher", "connect")
    /\ IF BrokerUp THEN Continue("publisher", "declare") ELSE Die("publisher")
    /\ UNCHANGED <<now, envVars, storeVars>>

\* Mutant: the publisher leaves QueueDeclare to the consumer as well.
DeclareNothing ==
    /\ Wakes("publisher", "declare")
    /\ Rest("publisher", "publishing")
    /\ UNCHANGED <<now, envVars, storeVars>>

PublisherDeclares ==
    /\ Wakes("publisher", "declare")
    /\ queue' = TRUE
    /\ Rest("publisher", "publishing")
    /\ UNCHANGED <<now, envVars, database, tables, missing>>

ConsumerConnects ==
    /\ Wakes("consumer", "connect")
    /\ IF BrokerUp THEN Continue("consumer", "consume") ELSE Die("consumer")
    /\ UNCHANGED <<now, envVars, storeVars>>

\* BasicConsume on a queue that is not declared throws.
ConsumerConsumes ==
    /\ Wakes("consumer", "consume")
    /\ IF queue THEN Rest("consumer", "listening") ELSE Die("consumer")
    /\ UNCHANGED <<now, envVars, storeVars>>

-----------------------------------------------------------------------------
(* Tables: by the inserter, after the database, and by the cache server.   *)

\* Every exception is caught: the server is not there, or the database is.
CreateDatabaseIfNotExists ==
    /\ Wakes("inserter", "database")
    /\ database' = (database \/ DbUp)
    /\ Continue("inserter", "customer")
    /\ UNCHANGED <<now, envVars, tables, queue, missing>>

CreateAt == [customer |-> "create customer", file |-> "create file"]
LoadAt == [customer |-> "load customer", file |-> "load file"]

\* Where a process goes after the table t.
After(p, t) ==
    IF p = "cache" THEN LoadAt[t] ELSE IF t = "customer" THEN "file" ELSE "inserting"

\* What follows the creating or finding of a table.  The insert loop has no end.
Proceed(p, t) ==
    IF After(p, t) = "inserting" THEN Rest(p, "inserting") ELSE Continue(p, After(p, t))

\* TableExists opens the database "ipc".
CheckTable(p, t) ==
    /\ Wakes(p, t)
    /\ IF ~DbUp \/ ~database THEN Die(p) /\ UNCHANGED missing
       ELSE IF t \in tables THEN Proceed(p, t) /\ UNCHANGED missing
       ELSE /\ missing' = [missing EXCEPT ![p] = @ \cup {t}]
            /\ Continue(p, CreateAt[t])
    /\ UNCHANGED <<now, envVars, database, tables, queue>>

\* CREATE TABLE IF NOT EXISTS.  Two at once: the second does nothing, or fails on a
\* catalog index, as PostgreSQL does not lock what does not exist yet.
CreateTable(p, t) ==
    /\ Wakes(p, CreateAt[t])
    /\ missing' = [missing EXCEPT ![p] = @ \ {t}]
    /\ tables' = tables \cup {t}
    /\ Proceed(p, t) \/ (t \in tables /\ Die(p))
    /\ UNCHANGED <<now, envVars, database, queue>>

\* Mutant: the files are not loaded.
LoadCustomersOnly(t) ==
    /\ Wakes("cache", LoadAt[t])
    /\ Rest("cache", "listening")
    /\ UNCHANGED <<now, envVars, storeVars>>

\* GetAll into a dictionary; after the files the cache server listens.  It finds the
\* database up, since CheckTable has: one that goes away again is not modelled.
Load(t) ==
    /\ Wakes("cache", LoadAt[t])
    /\ IF t = "customer" THEN Continue("cache", "file") ELSE Rest("cache", "listening")
    /\ UNCHANGED <<now, envVars, storeVars>>

\* Console.ReadLine returns at once on an empty standard input: Main ends, and with it
\* the background tasks of the process.
ReadLineReturns(p) ==
    /\ pc[p] = "listening" /\ ~stdinOpen
    /\ LET ends == IF p = "business" THEN {p} \cup Tasks ELSE {p} IN
       /\ pc' = [q \in Processes |-> IF q \in ends THEN "exited" ELSE pc[q]]
       /\ due' = [q \in Processes |-> IF q \in ends THEN Never ELSE due[q]]
    /\ UNCHANGED <<now, envVars, storeVars>>

-----------------------------------------------------------------------------
Step ==
    \/ StartPublisher \/ StartInserter
    \/ PublisherConnects \/ PublisherDeclares \/ ConsumerConnects \/ ConsumerConsumes
    \/ CreateDatabaseIfNotExists
    \/ \E p \in {"cache", "inserter"}, t \in Tables : CheckTable(p, t) \/ CreateTable(p, t)
    \/ \E t \in Tables : Load(t)
    \/ \E p \in Mains : ReadLineReturns(p)

Next == Tick \/ Step

Spec == Init /\ [][Next]_vars
\* Time passes and processes run.
FairSpec == Spec /\ WF_vars(Next)

-----------------------------------------------------------------------------
Labels ==
    {"none", "queue", "db", "listening", "connect", "declare", "publishing", "consume",
     "database", "customer", "create customer", "load customer", "file", "create file",
     "load file", "inserting", "dead", "exited"}

\* A process whose time has come cannot be overtaken by the clock.
TypeOK ==
    /\ now \in Nat
    /\ pc \in [Processes -> Labels]
    /\ due \in [Processes -> Nat \cup {Never}]
    /\ \A p \in Processes : due[p] # Never => now <= due[p]
    /\ skew \in [Mains -> Skews] /\ latency \in Delays
    /\ dbReady \in Boots /\ brokerReady \in Boots
    /\ stdinOpen \in BOOLEAN /\ database \in BOOLEAN /\ queue \in BOOLEAN
    /\ tables \subseteq Tables /\ missing \in [Processes -> SUBSET Tables]

PublisherAt == skew["business"] + BusinessSleep + QueueSleep
InserterAt == PublisherAt + DbSleep

\* The business server stays, the broker is ready for the publisher, and two delays fit
\* before the consumer.
QueueTimely ==
    /\ stdinOpen
    /\ brokerReady <= PublisherAt
    /\ PublisherAt + 2 * latency < skew["consumer"] + ConsumerSleep

\* The same of PostgreSQL and the inserter, whose six delays fit before the cache.
TablesTimely ==
    /\ stdinOpen
    /\ dbReady <= InserterAt
    /\ InserterAt + 6 * latency < skew["cache"] + CacheSleep

\* The sleeps suffice.  Whoever starts, and in whatever state an earlier start left the
\* database, nobody dies of something missing and no two processes create one table at
\* once, provided that the sleeps' differences cover the delays.
NobodyDies ==
    /\ QueueTimely => pc["publisher"] # "dead" /\ pc["consumer"] # "dead"
    /\ TablesTimely => pc["inserter"] # "dead" /\ pc["cache"] # "dead"

\* The tables are created once: when they are timely, no process has found missing a
\* table that is there.
NoCreateRace == TablesTimely => \A p \in Processes : missing[p] \cap tables = {}

\* A server that listens has what its handlers rely on.
ServingIsPrepared ==
    /\ pc["cache"] = "listening" => database /\ tables = Tables
    /\ pc["consumer"] = "listening" => queue
    /\ pc["inserter"] = "inserting" => database /\ tables = Tables

\* The business server always comes to listen, though both its tasks may have died; in
\* a timely start with a standard input all five end up working, and stay.
AllServe ==
    /\ <>(pc["business"] \in {"listening", "exited"})
    /\ QueueTimely /\ TablesTimely =>
         <>[](/\ \A p \in Mains : pc[p] = "listening"
              /\ pc["publisher"] = "publishing" /\ pc["inserter"] = "inserting")

=============================================================================
