---------------------------- MODULE StartupProofs ----------------------------
(***************************************************************************)
(* For every length of the sleeps, every delay and every skew: nobody dies *)
(* in a timely start, no table is created twice, and who serves is         *)
(* prepared.                                                               *)
(***************************************************************************)
EXTENDS Startup, TLAPS

\* The times are numbers.
LEMMA Times ==
    ASSUME TypeOK
    PROVE  /\ latency \in Nat /\ skew \in [Mains -> Nat] /\ DelaysNow \subseteq 0..latency
           /\ dbReady \in Nat /\ brokerReady \in Nat
           /\ PublisherAt \in Nat /\ InserterAt \in Nat
  <1>1. latency \in Nat /\ dbReady \in Nat /\ brokerReady \in Nat
    BY TimeAssumption DEF TypeOK
  <1>2. skew \in [Mains -> Nat]
    BY TimeAssumption DEF TypeOK
  <1>3. DelaysNow \subseteq 0..latency
    <2>1. Delays \subseteq Nat
      BY TimeAssumption
    <2>2. \A d \in DelaysNow : d \in Nat /\ d <= latency
      BY <2>1 DEF DelaysNow
    <2>. QED  BY <1>1, <2>2
  <1>4. BusinessSleep \in Nat /\ QueueSleep \in Nat /\ DbSleep \in Nat
    BY TimeAssumption
  <1>5. skew["business"] \in Nat
    BY <1>2 DEF Mains
  <1>. QED  BY <1>1, <1>2, <1>3, <1>4, <1>5 DEF PublisherAt, InserterAt

\* The labels of the two tables.
LEMMA LabelsOfTables ==
    ASSUME NEW t \in Tables, NEW p \in Processes
    PROVE  /\ CreateAt[t] \in Labels /\ LoadAt[t] \in Labels /\ After(p, t) \in Labels
           /\ t = "customer" \/ t = "file"
           /\ CreateAt["customer"] = "create customer" /\ CreateAt["file"] = "create file"
           /\ LoadAt["customer"] = "load customer" /\ LoadAt["file"] = "load file"
  <1>1. t = "customer" \/ t = "file"
    BY DEF Tables
  <1>2. /\ CreateAt["customer"] = "create customer" /\ CreateAt["file"] = "create file"
        /\ LoadAt["customer"] = "load customer" /\ LoadAt["file"] = "load file"
    BY DEF CreateAt, LoadAt
  <1>3. /\ CreateAt[t] \in Labels /\ LoadAt[t] \in Labels
    BY <1>1, <1>2 DEF Labels
  <1>4. After(p, t) \in Labels
    BY <1>3 DEF After, Labels
  <1>. QED  BY <1>1, <1>2, <1>3, <1>4

LEMMA ContinueType ==
    ASSUME TypeOK, NEW p \in Processes, NEW l \in Labels, Continue(p, l)
    PROVE  /\ pc' = [pc EXCEPT ![p] = l] /\ pc' \in [Processes -> Labels]
           /\ due' \in [Processes -> Nat \cup {Never}]
           /\ \A q \in Processes : q # p => due'[q] = due[q]
           /\ due'[p] \in Nat /\ now <= due'[p] /\ due'[p] <= now + latency
  <1>1. PICK d \in DelaysNow : due' = [due EXCEPT ![p] = now + d]
    BY DEF Continue
  <1>2. d \in Nat /\ d <= latency /\ now \in Nat
    BY <1>1, Times DEF TypeOK
  <1>3. pc' = [pc EXCEPT ![p] = l]
    BY DEF Continue
  <1>4. pc' \in [Processes -> Labels]
    BY <1>3 DEF TypeOK
  <1>5. due' \in [Processes -> Nat \cup {Never}] /\ \A q \in Processes : q # p => due'[q] = due[q]
    BY <1>1, <1>2 DEF TypeOK
  <1>6. due'[p] = now + d
    BY <1>1 DEF TypeOK
  <1>7. latency \in Nat
    BY Times
  <1>. QED  BY <1>2, <1>3, <1>4, <1>5, <1>6, <1>7

LEMMA RestType ==
    ASSUME TypeOK, NEW p \in Processes, NEW l \in Labels, Rest(p, l)
    PROVE  /\ pc' = [pc EXCEPT ![p] = l] /\ pc' \in [Processes -> Labels]
           /\ due' = [due EXCEPT ![p] = Never]
           /\ due' \in [Processes -> Nat \cup {Never}]
  BY DEF Rest, TypeOK

\* A step that lets p go on or rest keeps the types.
LEMMA MoveType ==
    ASSUME TypeOK, NEW p \in Processes, NEW l \in Labels,
           Continue(p, l) \/ Rest(p, l),
           now' = now, UNCHANGED envVars,
           database' \in BOOLEAN, queue' \in BOOLEAN, tables' \subseteq Tables,
           missing' \in [Processes -> SUBSET Tables]
    PROVE  TypeOK'
  <1>1. /\ pc' \in [Processes -> Labels] /\ due' \in [Processes -> Nat \cup {Never}]
        /\ \A q \in Processes : due'[q] # Never => now <= due'[q]
    <2>1. CASE Continue(p, l)
      BY <2>1, ContinueType DEF TypeOK
    <2>2. CASE Rest(p, l)
      BY <2>2, RestType DEF TypeOK
    <2>. QED  BY <2>1, <2>2
  <1>. QED  BY <1>1 DEF TypeOK, envVars

LEMMA Named ==
    /\ {"cache", "business", "consumer", "publisher", "inserter"} = Processes
    /\ {"cache", "business", "consumer"} = Mains
  BY DEF Processes, Mains, Tasks

LEMMA InitType == Init => TypeOK
  <1>. SUFFICES ASSUME Init PROVE TypeOK
    OBVIOUS
  <1>1. pc \in [Processes -> Labels]
    BY DEF Init, Labels
  <1>2. skew \in [Mains -> Nat]
    BY TimeAssumption DEF Init
  <1>3. skew["cache"] \in Nat /\ skew["business"] \in Nat /\ skew["consumer"] \in Nat
    BY <1>2, Named
  <1>4. CacheSleep \in Nat /\ BusinessSleep \in Nat /\ QueueSleep \in Nat /\ ConsumerSleep \in Nat
    BY TimeAssumption
  <1>5. \A p \in Processes : due[p] \in Nat \cup {Never}
    BY <1>3, <1>4 DEF Init
  <1>6. due \in [Processes -> Nat \cup {Never}] /\ \A p \in Processes : due[p] # Never => now <= due[p]
    BY <1>5 DEF Init
  <1>7. tables \subseteq Tables
    BY DEF Init, Tables
  <1>. QED  BY <1>1, <1>6, <1>7 DEF Init, TypeOK

LEMMA NextType == TypeOK /\ [Next]_vars => TypeOK'
  <1>. SUFFICES ASSUME TypeOK, [Next]_vars PROVE TypeOK'
    OBVIOUS
  <1>l. {"dead", "listening", "publishing", "consume", "declare", "customer", "file",
         "inserting", "database", "connect", "db"} \subseteq Labels
    BY DEF Labels
  <1>1. CASE UNCHANGED vars
    BY <1>1 DEF vars, envVars, storeVars, TypeOK
  <1>2. CASE Tick
    BY <1>2 DEF Tick, envVars, storeVars, TypeOK
  <1>3. CASE StartPublisher
    <2>1. PICK d \in DelaysNow, e \in DelaysNow :
            due' = [due EXCEPT !["business"] = now + DbSleep + d, !["publisher"] = now + e]
      BY <1>3 DEF StartPublisher
    <2>2. d \in Nat /\ e \in Nat /\ DbSleep \in Nat
      BY Times, TimeAssumption
    <2>3. due' \in [Processes -> Nat \cup {Never}] /\ \A p \in Processes : due'[p] # Never => now <= due'[p]
      BY <2>1, <2>2, Named DEF TypeOK
    <2>. QED  BY <1>3, <2>3, <1>l, Named DEF StartPublisher, envVars, storeVars, TypeOK
  <1>4. CASE StartInserter
    <2>1. PICK e \in DelaysNow :
            due' = [due EXCEPT !["business"] = Never, !["inserter"] = now + e]
      BY <1>4 DEF StartInserter
    <2>2. e \in Nat
      BY Times
    <2>3. due' \in [Processes -> Nat \cup {Never}] /\ \A p \in Processes : due'[p] # Never => now <= due'[p]
      BY <2>1, <2>2, Named DEF TypeOK
    <2>. QED  BY <1>4, <2>3, <1>l, Named DEF StartInserter, envVars, storeVars, TypeOK
  <1>5. CASE PublisherConnects
    BY <1>5, <1>l, MoveType, Named DEF PublisherConnects, Die, storeVars, TypeOK
  <1>6. CASE PublisherDeclares
    BY <1>6, <1>l, MoveType, Named DEF PublisherDeclares, TypeOK
  <1>7. CASE ConsumerConnects
    BY <1>7, <1>l, MoveType, Named DEF ConsumerConnects, Die, storeVars, TypeOK
  <1>8. CASE ConsumerConsumes
    BY <1>8, <1>l, MoveType, Named DEF ConsumerConsumes, Die, storeVars, TypeOK
  <1>9. CASE CreateDatabaseIfNotExists
    <2>1. database' \in BOOLEAN
      BY <1>9 DEF CreateDatabaseIfNotExists, TypeOK
    <2>. QED  BY <1>9, <2>1, <1>l, MoveType, Named DEF CreateDatabaseIfNotExists, TypeOK
  <1>10. ASSUME NEW p \in {"cache", "inserter"}, NEW t \in Tables, CheckTable(p, t)
         PROVE  TypeOK'
    <2>1. p \in Processes /\ CreateAt[t] \in Labels /\ After(p, t) \in Labels
      BY LabelsOfTables, Named
    <2>2. missing' \in [Processes -> SUBSET Tables]
      BY <1>10, <2>1 DEF CheckTable, TypeOK
    <2>3. \E l \in Labels : Continue(p, l) \/ Rest(p, l)
      BY <1>10, <2>1, <1>l DEF CheckTable, Proceed, Die
    <2>. QED  BY <1>10, <2>1, <2>2, <2>3, MoveType DEF CheckTable, TypeOK
  <1>11. ASSUME NEW p \in {"cache", "inserter"}, NEW t \in Tables, CreateTable(p, t)
         PROVE  TypeOK'
    <2>1. p \in Processes /\ After(p, t) \in Labels
      BY LabelsOfTables, Named
    <2>2. missing' \in [Processes -> SUBSET Tables] /\ tables' \subseteq Tables
      BY <1>11, <2>1 DEF CreateTable, TypeOK
    <2>3. \E l \in Labels : Continue(p, l) \/ Rest(p, l)
      BY <1>11, <2>1, <1>l DEF CreateTable, Proceed, Die
    <2>. QED  BY <1>11, <2>1, <2>2, <2>3, MoveType DEF CreateTable, TypeOK
  <1>12. ASSUME NEW t \in Tables, Load(t)
         PROVE  TypeOK'
    BY <1>12, <1>l, MoveType, Named DEF Load, storeVars, TypeOK
  <1>13. ASSUME NEW p \in Mains, ReadLineReturns(p)
         PROVE  TypeOK'
    <2>. DEFINE ends == IF p = "business" THEN {p} \cup Tasks ELSE {p}
    <2>1. /\ pc' = [q \in Processes |-> IF q \in ends THEN "exited" ELSE pc[q]]
          /\ due' = [q \in Processes |-> IF q \in ends THEN Never ELSE due[q]]
          /\ UNCHANGED <<now, envVars, storeVars>>
      BY <1>13 DEF ReadLineReturns
    <2>. HIDE DEF ends
    <2>2. pc' \in [Processes -> Labels]
      BY <2>1 DEF TypeOK, Labels
    <2>3. due' \in [Processes -> Nat \cup {Never}] /\ \A q \in Processes : due'[q] # Never => now <= due'[q]
      BY <2>1 DEF TypeOK
    <2>. QED  BY <2>1, <2>2, <2>3 DEF TypeOK, envVars, storeVars
  <1>. QED  BY <1>1, <1>2, <1>3, <1>4, <1>5, <1>6, <1>7, <1>8, <1>9, <1>10, <1>11, <1>12, <1>13
            DEF Next, Step

\* Every reachable state is well typed, and the clock overtakes nobody.
THEOREM TypeCorrect == Spec => []TypeOK
  BY InitType, NextType, PTL DEF Spec

-----------------------------------------------------------------------------
(* What has been prepared.                                                 *)

\* Where a process has come to tells what the database and the broker hold.
Prepared ==
    /\ pc["consumer"] = "listening" => queue
    /\ pc["inserter"] = "create customer" => database
    /\ pc["inserter"] \in {"file", "create file"} => database /\ "customer" \in tables
    /\ pc["inserter"] = "inserting" => database /\ tables = Tables
    /\ pc["cache"] = "create customer" => database
    /\ pc["cache"] \in {"load customer", "file", "create file"} =>
         database /\ "customer" \in tables
    /\ pc["cache"] \in {"load file", "listening"} => database /\ tables = Tables

\* A step of another process, while nothing that exists goes away.
LEMMA PreparedFrame ==
    ASSUME TypeOK, Prepared, NEW p \in Processes, NEW l \in Labels,
           Continue(p, l) \/ Rest(p, l),
           database => database', queue => queue', tables \subseteq tables', tables' \subseteq Tables,
           p = "consumer" => (l = "listening" => queue'),
           p = "inserter" =>
             /\ l = "create customer" => database'
             /\ l \in {"file", "create file"} => database' /\ "customer" \in tables'
             /\ l = "inserting" => database' /\ tables' = Tables,
           p = "cache" =>
             /\ l = "create customer" => database'
             /\ l \in {"load customer", "file", "create file"} =>
                  database' /\ "customer" \in tables'
             /\ l \in {"load file", "listening"} => database' /\ tables' = Tables
    PROVE  Prepared'
  <1>1. pc' = [pc EXCEPT ![p] = l]
    BY DEF Continue, Rest
  <1>2. \A q \in Processes : pc'[q] = IF q = p THEN l ELSE pc[q]
    BY <1>1 DEF TypeOK
  <1>3. CASE p = "consumer"
    BY <1>2, <1>3, Named DEF Prepared
  <1>4. CASE p = "inserter"
    BY <1>2, <1>4, Named DEF Prepared
  <1>5. CASE p = "cache"
    BY <1>2, <1>5, Named DEF Prepared
  <1>6. CASE p \notin {"consumer", "inserter", "cache"}
    BY <1>2, <1>6, Named DEF Prepared
  <1>. QED  BY <1>3, <1>4, <1>5, <1>6

LEMMA NextPrepared == TypeOK /\ Prepared /\ [Next]_vars => Prepared'
  <1>. SUFFICES ASSUME TypeOK, Prepared, [Next]_vars PROVE Prepared'
    OBVIOUS
  <1>l. {"dead", "listening", "publishing", "consume", "declare", "customer", "file",
         "inserting", "database", "connect", "db"} \subseteq Labels
    BY DEF Labels
  <1>t. tables \subseteq Tables
    BY DEF TypeOK
  <1>1. CASE UNCHANGED vars
    BY <1>1 DEF vars, storeVars, Prepared
  <1>2. CASE Tick
    <2>1. UNCHANGED <<pc, storeVars>>
      BY <1>2, Zenon DEF Tick
    <2>. QED  BY <2>1 DEF storeVars, Prepared
  <1>3. CASE StartPublisher
    BY <1>3, Named DEF StartPublisher, storeVars, TypeOK, Prepared
  <1>4. CASE StartInserter
    BY <1>4, Named DEF StartInserter, storeVars, TypeOK, Prepared
  <1>5. CASE PublisherConnects
    BY <1>5, <1>l, <1>t, PreparedFrame, Named DEF PublisherConnects, Die, storeVars
  <1>6. CASE PublisherDeclares
    BY <1>6, <1>l, <1>t, PreparedFrame, Named DEF PublisherDeclares
  <1>7. CASE ConsumerConnects
    BY <1>7, <1>l, <1>t, PreparedFrame, Named DEF ConsumerConnects, Die, storeVars
  <1>8. CASE ConsumerConsumes
    BY <1>8, <1>l, <1>t, PreparedFrame, Named DEF ConsumerConsumes, Die, storeVars
  <1>9. CASE CreateDatabaseIfNotExists
    BY <1>9, <1>l, <1>t, PreparedFrame, Named DEF CreateDatabaseIfNotExists
  <1>10. ASSUME NEW p \in {"cache", "inserter"}, NEW t \in Tables, CheckTable(p, t)
         PROVE  Prepared'
    <2>. /\ p \in Processes /\ CreateAt[t] \in Labels /\ After(p, t) \in Labels
         /\ UNCHANGED <<database, tables, queue>> /\ pc[p] = t
      BY <1>10, LabelsOfTables, Named DEF CheckTable, Wakes
    <2>1. CASE Die(p)
      BY <2>1, <1>l, <1>t, PreparedFrame DEF Die
    <2>2. CASE t \in tables /\ database /\ Proceed(p, t)
      <3>1. Continue(p, After(p, t)) \/ Rest(p, After(p, t))
        BY <2>2, LabelsOfTables DEF Proceed
      <3>2. After(p, t) = IF p = "cache" THEN IF t = "customer" THEN "load customer" ELSE "load file"
                          ELSE IF t = "customer" THEN "file" ELSE "inserting"
        BY LabelsOfTables DEF After
      <3>3. t = "file" => "customer" \in tables
        BY DEF Prepared
      <3>4. t = "file" => tables = Tables
        BY <2>2, <3>3, <1>t DEF Tables
      <3>. QED  BY <2>2, <3>1, <3>2, <3>4, <1>t, LabelsOfTables, PreparedFrame
    <2>3. CASE database /\ Continue(p, CreateAt[t])
      <3>1. CreateAt[t] = IF t = "customer" THEN "create customer" ELSE "create file"
        BY LabelsOfTables
      <3>2. t = "file" => "customer" \in tables
        BY DEF Prepared
      <3>. QED  BY <2>3, <3>1, <3>2, <1>t, LabelsOfTables, PreparedFrame
    <2>. QED  BY <1>10, <2>1, <2>2, <2>3 DEF CheckTable
  <1>11. ASSUME NEW p \in {"cache", "inserter"}, NEW t \in Tables, CreateTable(p, t)
         PROVE  Prepared'
    <2>. /\ p \in Processes /\ After(p, t) \in Labels
         /\ UNCHANGED <<database, queue>> /\ pc[p] = CreateAt[t] /\ tables' = tables \cup {t}
      BY <1>11, LabelsOfTables, Named DEF CreateTable, Wakes
    <2>1. CASE Die(p)
      BY <2>1, <1>l, <1>t, PreparedFrame DEF Die
    <2>2. CASE Proceed(p, t)
      <3>1. Continue(p, After(p, t)) \/ Rest(p, After(p, t))
        BY <2>2, LabelsOfTables DEF Proceed
      <3>2. After(p, t) = IF p = "cache" THEN IF t = "customer" THEN "load customer" ELSE "load file"
                          ELSE IF t = "customer" THEN "file" ELSE "inserting"
        BY LabelsOfTables DEF After
      <3>3. database /\ (t = "file" => "customer" \in tables)
        BY LabelsOfTables DEF Prepared
      <3>4. t = "file" => tables' = Tables
        BY <3>3, <1>t DEF Tables
      <3>. QED  BY <3>1, <3>2, <3>3, <3>4, <1>t, LabelsOfTables, PreparedFrame
    <2>. QED  BY <1>11, <2>1, <2>2 DEF CreateTable
  <1>12. ASSUME NEW t \in Tables, Load(t)
         PROVE  Prepared'
    <2>1. pc["cache"] = LoadAt[t] /\ UNCHANGED <<database, tables, queue>>
      BY <1>12 DEF Load, Wakes, storeVars
    <2>. QED  BY <1>12, <2>1, <1>l, <1>t, LabelsOfTables, PreparedFrame, Named DEF Load, Prepared
  <1>13. ASSUME NEW p \in Mains, ReadLineReturns(p)
         PROVE  Prepared'
    <2>1. /\ \A q \in Processes : pc'[q] \in {pc[q], "exited"}
          /\ UNCHANGED <<database, tables, queue>>
      BY <1>13 DEF ReadLineReturns, storeVars
    <2>. QED  BY <2>1, Named DEF Prepared
  <1>. QED  BY <1>1, <1>2, <1>3, <1>4, <1>5, <1>6, <1>7, <1>8, <1>9, <1>10, <1>11, <1>12, <1>13
            DEF Next, Step

\* A server that listens has what its handlers rely on, after any start whatever.
THEOREM ServersPrepared == Spec => []ServingIsPrepared
  <1>1. Init => Prepared
    <2>1. Init => pc["consumer"] = "connect" /\ pc["inserter"] = "none" /\ pc["cache"] = "customer"
      BY Named DEF Init
    <2>. QED  BY <2>1 DEF Prepared
  <1>2. Prepared => ServingIsPrepared
    BY DEF Prepared, ServingIsPrepared
  <1>. QED  BY <1>1, <1>2, TypeCorrect, NextPrepared, PTL DEF Spec

-----------------------------------------------------------------------------
(* The queue: the publisher declares it before the consumer asks for it.   *)

PublisherOnTime ==
    /\ pc["business"] = "queue" => due["business"] = PublisherAt
    /\ pc["publisher"] \in {"none", "connect", "declare", "publishing"}
    /\ pc["publisher"] = "none" => pc["business"] = "queue"
    /\ pc["publisher"] = "connect" =>
         due["publisher"] >= PublisherAt /\ due["publisher"] <= PublisherAt + latency
    /\ pc["publisher"] = "declare" =>
         due["publisher"] >= PublisherAt /\ due["publisher"] <= PublisherAt + 2 * latency
    /\ pc["publisher"] = "publishing" => queue

ConsumerOnTime ==
    /\ pc["consumer"] \in {"connect", "consume", "listening"}
    /\ pc["consumer"] \in {"connect", "consume"} =>
         due["consumer"] >= skew["consumer"] + ConsumerSleep

QueueOnTime == QueueTimely => PublisherOnTime /\ ConsumerOnTime

\* A step that concerns neither the publisher, the consumer nor the first sleep of
\* the business server.
LEMMA QueueFrame ==
    ASSUME PublisherOnTime, ConsumerOnTime, UNCHANGED envVars, queue => queue',
           \A q \in {"publisher", "consumer"} : pc'[q] = pc[q] /\ due'[q] = due[q],
           pc'["business"] = pc["business"] /\ due'["business"] = due["business"]
    PROVE  PublisherOnTime' /\ ConsumerOnTime'
  BY DEF PublisherOnTime, ConsumerOnTime, envVars, PublisherAt

LEMMA ContinueFrame ==
    ASSUME TypeOK, NEW p \in Processes, NEW l \in Labels, Continue(p, l) \/ Rest(p, l)
    PROVE  /\ pc'[p] = l
           /\ \A q \in Processes : q # p => pc'[q] = pc[q] /\ due'[q] = due[q]
  BY ContinueType, RestType DEF TypeOK

LEMMA NextQueueOnTime == TypeOK /\ QueueOnTime /\ [Next]_vars => QueueOnTime'
  <1>. SUFFICES ASSUME TypeOK, QueueOnTime, [Next]_vars, QueueTimely'
                PROVE PublisherOnTime' /\ ConsumerOnTime'
    BY DEF QueueOnTime
  <1>l. {"dead", "listening", "publishing", "consume", "declare", "customer", "file",
         "inserting", "database", "connect", "db"} \subseteq Labels
    BY DEF Labels
  <1>e. UNCHANGED envVars
    BY Zenon DEF Next, Step, vars, Tick, StartPublisher, StartInserter, PublisherConnects,
       PublisherDeclares, ConsumerConnects, ConsumerConsumes, CreateDatabaseIfNotExists,
       CheckTable, CreateTable, Load, ReadLineReturns
  <1>i. /\ QueueTimely /\ PublisherOnTime /\ ConsumerOnTime /\ stdinOpen
        /\ brokerReady <= PublisherAt
        /\ PublisherAt + 2 * latency < skew["consumer"] + ConsumerSleep
    BY <1>e DEF QueueOnTime, QueueTimely, envVars, PublisherAt
  <1>n. /\ now \in Nat /\ latency \in Nat /\ PublisherAt \in Nat /\ PublisherAt' = PublisherAt
        /\ skew["consumer"] \in Nat /\ ConsumerSleep \in Nat /\ brokerReady \in Nat
        /\ latency' = latency /\ skew' = skew
        /\ due["publisher"] \in Nat \cup {Never} /\ due["consumer"] \in Nat \cup {Never}
        /\ due["business"] \in Nat \cup {Never} /\ Never = -1
    BY <1>e, Times, TimeAssumption, Named DEF TypeOK, envVars, PublisherAt, Never
  <1>f. ASSUME NEW p \in {"cache", "inserter"}, NEW l \in Labels, Continue(p, l) \/ Rest(p, l),
               queue' = queue
        PROVE  PublisherOnTime' /\ ConsumerOnTime'
    BY <1>f, <1>e, <1>i, ContinueFrame, QueueFrame, Named
  <1>1. CASE UNCHANGED vars
    BY <1>1, <1>i, <1>e, QueueFrame DEF vars, storeVars
  <1>2. CASE Tick
    <2>1. UNCHANGED <<pc, due, storeVars>>
      BY <1>2, Zenon DEF Tick
    <2>. QED  BY <2>1, <1>i, <1>e, QueueFrame DEF storeVars
  <1>3. CASE StartPublisher
    <2>1. PICK d \in DelaysNow, e \in DelaysNow :
            due' = [due EXCEPT !["business"] = now + DbSleep + d, !["publisher"] = now + e]
      BY <1>3 DEF StartPublisher
    <2>2. e \in Nat /\ e <= latency
      BY Times
    <2>3. now = PublisherAt
      BY <1>3, <1>i DEF StartPublisher, Wakes, PublisherOnTime
    <2>4. /\ pc' = [pc EXCEPT !["business"] = "db", !["publisher"] = "connect"]
          /\ queue' = queue
      BY <1>3 DEF StartPublisher, storeVars
    <2>5. /\ pc'["business"] = "db" /\ pc'["publisher"] = "connect" /\ pc'["consumer"] = pc["consumer"]
          /\ due'["publisher"] = now + e /\ due'["consumer"] = due["consumer"]
      BY <2>1, <2>4, Named DEF TypeOK
    <2>. QED  BY <2>2, <2>3, <2>5, <1>n, <1>i DEF PublisherOnTime, ConsumerOnTime
  <1>4. CASE StartInserter
    <2>1. PICK e \in DelaysNow :
            due' = [due EXCEPT !["business"] = Never, !["inserter"] = now + e]
      BY <1>4 DEF StartInserter
    <2>2. pc' = [pc EXCEPT !["business"] = "listening", !["inserter"] = "database"]
          /\ queue' = queue /\ pc["business"] = "db"
      BY <1>4 DEF StartInserter, storeVars, Wakes
    <2>3. /\ pc'["business"] = "listening"
          /\ \A q \in {"publisher", "consumer"} : pc'[q] = pc[q] /\ due'[q] = due[q]
      BY <2>1, <2>2, Named DEF TypeOK
    <2>. QED  BY <2>2, <2>3, <1>n, <1>i DEF PublisherOnTime, ConsumerOnTime
  <1>5. CASE PublisherConnects
    <2>1. now >= PublisherAt /\ now <= PublisherAt + latency
      BY <1>5, <1>i DEF PublisherConnects, Wakes, PublisherOnTime
    <2>2. Continue("publisher", "declare") /\ queue' = queue
      BY <1>5, <2>1, <1>i, <1>n DEF PublisherConnects, BrokerUp, storeVars
    <2>3. /\ pc'["publisher"] = "declare" /\ now <= due'["publisher"]
          /\ due'["publisher"] <= now + latency /\ due'["publisher"] \in Nat
          /\ \A q \in Processes : q # "publisher" => pc'[q] = pc[q] /\ due'[q] = due[q]
      BY <2>2, <1>l, Named, ContinueFrame, ContinueType
    <2>4. 2 * latency = latency + latency
      BY <1>n
    <2>. QED  BY <2>1, <2>2, <2>3, <2>4, <1>n, <1>i, Named DEF PublisherOnTime, ConsumerOnTime
  <1>6. CASE PublisherDeclares
    <2>1. /\ pc'["publisher"] = "publishing" /\ queue'
          /\ \A q \in Processes : q # "publisher" => pc'[q] = pc[q] /\ due'[q] = due[q]
      BY <1>6, <1>l, Named, ContinueFrame DEF PublisherDeclares
    <2>. QED  BY <2>1, <1>n, <1>i, Named DEF PublisherOnTime, ConsumerOnTime
  <1>7. CASE ConsumerConnects
    <2>1. now >= skew["consumer"] + ConsumerSleep
      BY <1>7, <1>i DEF ConsumerConnects, Wakes, ConsumerOnTime
    <2>2. Continue("consumer", "consume") /\ queue' = queue
      <3>1. 0 <= 2 * latency
        BY <1>n
      <3>. QED  BY <3>1, <1>7, <2>1, <1>i, <1>n DEF ConsumerConnects, BrokerUp, storeVars
    <2>3. /\ pc'["consumer"] = "consume" /\ now <= due'["consumer"] /\ due'["consumer"] \in Nat
          /\ \A q \in Processes : q # "consumer" => pc'[q] = pc[q] /\ due'[q] = due[q]
      BY <2>2, <1>l, Named, ContinueFrame, ContinueType
    <2>4. due'["consumer"] >= skew["consumer"] + ConsumerSleep
      BY <2>1, <2>3, <1>n
    <2>. QED  BY <2>2, <2>3, <2>4, <1>n, <1>i, Named DEF PublisherOnTime, ConsumerOnTime
  <1>8. CASE ConsumerConsumes
    <2>1. now >= skew["consumer"] + ConsumerSleep
      BY <1>8, <1>i DEF ConsumerConsumes, Wakes, ConsumerOnTime
    <2>2. pc["publisher"] = "publishing"
      <3>1. \A p \in Processes : due[p] # Never => now <= due[p]
        BY DEF TypeOK
      <3>2. PublisherAt + latency <= PublisherAt + 2 * latency /\ PublisherAt <= PublisherAt + 2 * latency
        BY <1>n
      <3>. QED  BY <2>1, <3>1, <3>2, <1>n, <1>i, Named DEF PublisherOnTime
    <2>3. Rest("consumer", "listening") /\ queue' = queue
      BY <1>8, <2>2, <1>i DEF ConsumerConsumes, PublisherOnTime, storeVars
    <2>4. /\ pc'["consumer"] = "listening"
          /\ \A q \in Processes : q # "consumer" => pc'[q] = pc[q] /\ due'[q] = due[q]
      BY <2>3, <1>l, Named, ContinueFrame
    <2>. QED  BY <2>3, <2>4, <1>n, <1>i, Named DEF PublisherOnTime, ConsumerOnTime
  <1>9. CASE CreateDatabaseIfNotExists
    BY <1>9, <1>f, <1>l DEF CreateDatabaseIfNotExists
  <1>10. ASSUME NEW p \in {"cache", "inserter"}, NEW t \in Tables, CheckTable(p, t)
         PROVE  PublisherOnTime' /\ ConsumerOnTime'
    <2>1. p \in Processes /\ CreateAt[t] \in Labels /\ After(p, t) \in Labels
      BY LabelsOfTables, Named
    <2>. QED  BY <1>10, <1>f, <1>l, <2>1 DEF CheckTable, Proceed, Die
  <1>11. ASSUME NEW p \in {"cache", "inserter"}, NEW t \in Tables, CreateTable(p, t)
         PROVE  PublisherOnTime' /\ ConsumerOnTime'
    <2>1. p \in Processes /\ After(p, t) \in Labels
      BY LabelsOfTables, Named
    <2>. QED  BY <1>11, <1>f, <1>l, <2>1 DEF CreateTable, Proceed, Die
  <1>12. ASSUME NEW t \in Tables, Load(t)
         PROVE  PublisherOnTime' /\ ConsumerOnTime'
    BY <1>12, <1>f, <1>l DEF Load, storeVars
  <1>13. ASSUME NEW p \in Mains, ReadLineReturns(p)
         PROVE  FALSE
    BY <1>13, <1>i DEF ReadLineReturns
  <1>. QED  BY <1>1, <1>2, <1>3, <1>4, <1>5, <1>6, <1>7, <1>8, <1>9, <1>10, <1>11, <1>12, <1>13
            DEF Next, Step

LEMMA InitQueueOnTime == Init => QueueOnTime
  <1>. SUFFICES ASSUME Init PROVE PublisherOnTime /\ ConsumerOnTime
    BY DEF QueueOnTime
  <1>1. /\ pc["consumer"] = "connect" /\ pc["publisher"] = "none" /\ pc["business"] = "queue"
        /\ due["business"] = skew["business"] + BusinessSleep + QueueSleep
        /\ due["consumer"] = skew["consumer"] + ConsumerSleep
    BY Named DEF Init
  <1>2. skew["consumer"] + ConsumerSleep \in Nat
    BY InitType, Times, TimeAssumption, Named
  <1>. QED  BY <1>1, <1>2 DEF PublisherOnTime, ConsumerOnTime, PublisherAt

-----------------------------------------------------------------------------
(* The tables: the inserter has made them before the cache server asks.    *)

\* The number of delays after InserterAt within which the inserter leaves a label.
Lateness == [l \in Labels |->
    IF l = "database" THEN 2 ELSE IF l = "customer" THEN 3 ELSE IF l = "create customer" THEN 4
    ELSE IF l = "file" THEN 5 ELSE 6]

Before == {"database", "customer", "create customer", "file", "create file"}

InserterOnTime ==
    /\ pc["business"] = "queue" => due["business"] = PublisherAt
    /\ pc["business"] = "db" =>
         due["business"] >= InserterAt /\ due["business"] <= InserterAt + latency
    /\ pc["inserter"] = "none" <=> pc["business"] \in {"queue", "db"}
    /\ pc["inserter"] \in Before \cup {"none", "inserting"}
    /\ pc["inserter"] \in Before =>
         /\ due["inserter"] >= InserterAt
         /\ due["inserter"] <= InserterAt + Lateness[pc["inserter"]] * latency
    /\ pc["inserter"] \in Before \ {"database"} => database
    /\ \A t \in Tables : pc["inserter"] = CreateAt[t] => t \notin tables
    /\ \A t \in missing["inserter"] : pc["inserter"] = CreateAt[t]

CacheOnTime ==
    /\ pc["cache"] \in {"customer", "load customer", "file", "load file", "listening"}
    /\ pc["cache"] = "customer" => due["cache"] = skew["cache"] + CacheSleep
    /\ pc["cache"] # "customer" => pc["inserter"] = "inserting" /\ dbReady <= now
    /\ \A p \in Processes : p # "inserter" => missing[p] = {}

TablesOnTime == TablesTimely => InserterOnTime /\ CacheOnTime

LEMMA LatenessValues ==
    /\ Lateness["database"] = 2 /\ Lateness["customer"] = 3 /\ Lateness["create customer"] = 4
    /\ Lateness["file"] = 5 /\ Lateness["create file"] = 6
    /\ \A l \in Before : \E n \in 0..6 : Lateness[l] = n
  <1>1. /\ Lateness["database"] = 2 /\ Lateness["customer"] = 3 /\ Lateness["create customer"] = 4
        /\ Lateness["file"] = 5 /\ Lateness["create file"] = 6
    BY DEF Lateness, Labels
  <1>2. ASSUME NEW l \in Before
        PROVE  \E n \in 0..6 : Lateness[l] = n
    <2>1. \/ Lateness[l] = 2 \/ Lateness[l] = 3 \/ Lateness[l] = 4 \/ Lateness[l] = 5
          \/ Lateness[l] = 6
      BY <1>1, Zenon DEF Before
    <2>2. {2, 3, 4, 5, 6} \subseteq 0..6
      OBVIOUS
    <2>. QED  BY <2>1, <2>2, Zenon
  <1>. QED  BY <1>1, <1>2

\* Going on from a label to a later one costs at most a delay.
LEMMA LatenessSteps ==
    ASSUME NEW d \in Nat
    PROVE  /\ (Lateness["database"] + 1) * d <= Lateness["customer"] * d
           /\ (Lateness["customer"] + 1) * d <= Lateness["create customer"] * d
           /\ (Lateness["customer"] + 1) * d <= Lateness["file"] * d
           /\ (Lateness["create customer"] + 1) * d <= Lateness["file"] * d
           /\ (Lateness["file"] + 1) * d <= Lateness["create file"] * d
  <1>1. /\ (2 + 1) * d <= 3 * d /\ (3 + 1) * d <= 4 * d /\ (3 + 1) * d <= 5 * d
        /\ (4 + 1) * d <= 5 * d /\ (5 + 1) * d <= 6 * d
    OBVIOUS
  <1>. QED  BY <1>1, LatenessValues, Zenon

\* A step that concerns neither the inserter, the cache server nor Main before them.
LEMMA TablesFrame ==
    ASSUME InserterOnTime, CacheOnTime, UNCHANGED <<envVars, tables, database, missing>>,
           now \in Nat, now' \in Nat, now <= now', dbReady \in Nat,
           \A q \in {"inserter", "cache"} : pc'[q] = pc[q] /\ due'[q] = due[q],
           pc'["business"] = pc["business"] /\ due'["business"] = due["business"]
    PROVE  InserterOnTime' /\ CacheOnTime'
  <1>1. InserterOnTime'
    BY DEF InserterOnTime, envVars, PublisherAt, InserterAt
  <1>2. CacheOnTime'
    <2>1. /\ pc'["cache"] = pc["cache"] /\ due'["cache"] = due["cache"]
          /\ pc'["inserter"] = pc["inserter"]
          /\ skew' = skew /\ dbReady' = dbReady /\ missing' = missing
      BY DEF envVars
    <2>2. ASSUME pc["cache"] # "customer" PROVE dbReady <= now'
      <3>1. dbReady <= now
        BY <2>2, Zenon DEF CacheOnTime
      <3>2. \A x, y, z \in Nat : x <= y /\ y <= z => x <= z
        OBVIOUS
      <3>. QED  BY <3>1, <3>2, Zenon
    <2>3. CacheOnTime' <=>
            /\ pc["cache"] \in {"customer", "load customer", "file", "load file", "listening"}
            /\ pc["cache"] = "customer" => due["cache"] = skew["cache"] + CacheSleep
            /\ pc["cache"] # "customer" => pc["inserter"] = "inserting" /\ dbReady <= now'
            /\ \A p \in Processes : p # "inserter" => missing[p] = {}
      BY <2>1, Zenon DEF CacheOnTime
    <2>. QED  BY <2>2, <2>3 DEF CacheOnTime
  <1>. QED  BY <1>1, <1>2

\* The inserter goes on in time.
LEMMA InserterFrame ==
    ASSUME TypeOK, InserterOnTime, CacheOnTime, UNCHANGED <<envVars, now>>,
           NEW p \in Processes, p = "inserter", NEW l \in Before \cup {"inserting"},
           Continue(p, l) \/ (l = "inserting" /\ Rest(p, l)),
           pc["inserter"] \in Before, due["inserter"] = now,
           l \in Before =>
             (Lateness[pc["inserter"]] + 1) * latency <= Lateness[l] * latency,
           l \in Before \ {"database"} => database',
           \A t \in Tables : l = CreateAt[t] => t \notin tables',
           \A t \in missing'["inserter"] : l = CreateAt[t],
           \A q \in Processes : q # "inserter" => missing'[q] = missing[q]
    PROVE  InserterOnTime' /\ CacheOnTime'
  <1>1. l \in Labels /\ Before \subseteq Labels /\ "inserter" \in Processes /\ "inserting" \notin Before
        /\ "none" \notin Before
    BY Named DEF Labels, Before
  <1>2. /\ pc'["inserter"] = l
        /\ \A q \in Processes : q # "inserter" => pc'[q] = pc[q] /\ due'[q] = due[q]
    BY <1>1, ContinueFrame
  <1>3. /\ now \in Nat /\ latency \in Nat /\ InserterAt \in Nat /\ PublisherAt \in Nat
        /\ InserterAt' = InserterAt /\ PublisherAt' = PublisherAt /\ latency' = latency
        /\ skew' = skew /\ dbReady' = dbReady /\ now' = now
    BY Times DEF TypeOK, envVars, InserterAt, PublisherAt
  <1>4. /\ now >= InserterAt
        /\ now <= InserterAt + Lateness[pc["inserter"]] * latency
    BY DEF InserterOnTime
  <1>5. ASSUME l \in Before
        PROVE  due'["inserter"] >= InserterAt /\ due'["inserter"] <= InserterAt + Lateness[l] * latency
    <2>1. Continue(p, l)
      BY <1>5, <1>1
    <2>2. due'["inserter"] \in Nat /\ now <= due'["inserter"] /\ due'["inserter"] <= now + latency
      BY <2>1, <1>1, ContinueType
    <2>3. /\ Lateness[l] \in Nat /\ Lateness[pc["inserter"]] \in Nat
      <3>1. \A m \in Before : Lateness[m] \in Nat
        <4>. SUFFICES ASSUME NEW m \in Before PROVE Lateness[m] \in Nat
          OBVIOUS
        <4>1. PICK n \in 0..6 : Lateness[m] = n
          BY LatenessValues
        <4>. QED  BY <4>1
      <3>. QED  BY <1>5, <3>1
    <2>4. (Lateness[pc["inserter"]] + 1) * latency = Lateness[pc["inserter"]] * latency + latency
      BY <2>3, <1>3
    <2>. DEFINE x == Lateness[pc["inserter"]] * latency  y == Lateness[l] * latency
    <2>5. x \in Nat /\ y \in Nat /\ x + latency <= y
      BY <2>3, <2>4, <1>3, <1>5
    <2>. HIDE DEF x, y
    <2>6. due'["inserter"] >= InserterAt /\ due'["inserter"] <= InserterAt + y
      <3>1. now <= InserterAt + x
        BY <1>4 DEF x
      <3>. QED  BY <3>1, <2>2, <2>5, <1>3, <1>4
    <2>. QED  BY <2>6 DEF y
  <1>6. pc'["business"] = pc["business"] /\ due'["business"] = due["business"]
        /\ pc'["cache"] = pc["cache"] /\ due'["cache"] = due["cache"]
    BY <1>2, Named
  <1>7. InserterOnTime'
    BY <1>1, <1>2, <1>3, <1>5, <1>6 DEF InserterOnTime
  <1>8. CacheOnTime'
    <2>1. pc["cache"] = "customer"
      BY <1>1 DEF CacheOnTime
    <2>. QED  BY <2>1, <1>2, <1>3, <1>6 DEF CacheOnTime
  <1>. QED  BY <1>7, <1>8

\* When the cache server wakes, the inserter is done with the tables.
LEMMA CacheComesLater ==
    ASSUME TypeOK, TablesTimely, InserterOnTime, CacheOnTime, now = due["cache"],
           pc["cache"] # "listening"
    PROVE  pc["inserter"] = "inserting" /\ DbUp
  <1>1. CASE pc["cache"] # "customer"
    BY <1>1 DEF CacheOnTime, DbUp
  <1>2. CASE pc["cache"] = "customer"
    <2>1. /\ now \in Nat /\ latency \in Nat /\ InserterAt \in Nat /\ PublisherAt \in Nat
          /\ dbReady \in Nat /\ DbSleep \in Nat /\ InserterAt = PublisherAt + DbSleep
          /\ Never = -1
      BY Times, TimeAssumption DEF TypeOK, InserterAt, Never
    <2>2. InserterAt + 6 * latency < now
      BY <1>2 DEF CacheOnTime, TablesTimely
    <2>3. \A p \in Processes : due[p] # Never => now <= due[p]
      BY DEF TypeOK
    <2>4. pc["business"] \notin {"queue", "db"}
      <3>1. latency <= 6 * latency
        BY <2>1
      <3>2. due["business"] \in Nat \cup {Never} /\ "business" \in Processes
        BY Named DEF TypeOK
      <3>3. /\ pc["business"] = "queue" => due["business"] = PublisherAt
            /\ pc["business"] = "db" =>
                 due["business"] >= InserterAt /\ due["business"] <= InserterAt + latency
        BY DEF InserterOnTime
      <3>4. PublisherAt <= InserterAt /\ PublisherAt # Never
        BY <2>1
      <3>. QED  BY <2>1, <2>2, <2>3, <3>1, <3>2, <3>3, <3>4
    <2>5. pc["inserter"] \notin Before
      <3>. SUFFICES ASSUME pc["inserter"] \in Before PROVE FALSE
        OBVIOUS
      <3>1. \E n \in 0..6 : Lateness[pc["inserter"]] = n
        BY LatenessValues
      <3>2. PICK n \in 0..6 : Lateness[pc["inserter"]] = n
        BY <3>1
      <3>3. n * latency <= 6 * latency
        BY <2>1
      <3>4. /\ due["inserter"] >= InserterAt /\ due["inserter"] <= InserterAt + n * latency
        BY <3>2 DEF InserterOnTime
      <3>5. due["inserter"] \in Nat \cup {Never} /\ "inserter" \in Processes
        BY Named DEF TypeOK
      <3>6. now <= due["inserter"]
        BY <2>1, <2>3, <3>4, <3>5
      <3>. HIDE DEF InserterAt
      <3>7. n * latency \in Nat
        BY <2>1
      <3>. QED  BY <2>1, <2>2, <3>3, <3>4, <3>5, <3>6, <3>7
    <2>6. dbReady <= now
      BY <2>1, <2>2 DEF TablesTimely
    <2>. QED  BY <2>4, <2>5, <2>6 DEF InserterOnTime, DbUp
  <1>. QED  BY <1>1, <1>2

\* The cache server finds every table and goes on.
LEMMA CacheFrame ==
    ASSUME TypeOK, TablesTimely, InserterOnTime, CacheOnTime,
           UNCHANGED <<envVars, now, database, tables, missing>>,
           pc["cache"] # "listening", now = due["cache"],
           NEW p \in Processes, p = "cache",
           NEW l \in {"load customer", "file", "load file", "listening"},
           Continue(p, l) \/ Rest(p, l)
    PROVE  InserterOnTime' /\ CacheOnTime'
  <1>1. l \in Labels
    BY DEF Labels
  <1>2. /\ pc'["cache"] = l
        /\ \A q \in Processes : q # "cache" => pc'[q] = pc[q] /\ due'[q] = due[q]
    BY <1>1, ContinueFrame, Named
  <1>3. pc["inserter"] = "inserting" /\ dbReady <= now
    BY CacheComesLater DEF DbUp
  <1>4. InserterOnTime'
    BY <1>2, Named DEF InserterOnTime, envVars, PublisherAt, InserterAt
  <1>5. CacheOnTime'
    <2>1. l # "customer" /\ pc'["inserter"] = "inserting" /\ dbReady' <= now'
      BY <1>2, <1>3, Named DEF envVars
    <2>. QED  BY <2>1, <1>2 DEF CacheOnTime
  <1>. QED  BY <1>4, <1>5

LEMMA NextTablesOnTime ==
    TypeOK /\ Prepared /\ TablesOnTime /\ [Next]_vars => TablesOnTime'
  <1>. SUFFICES ASSUME TypeOK, Prepared, TablesOnTime, [Next]_vars, TablesTimely'
                PROVE InserterOnTime' /\ CacheOnTime'
    BY DEF TablesOnTime
  <1>l. {"dead", "listening", "publishing", "consume", "declare", "customer", "file",
         "inserting", "database", "connect", "db"} \subseteq Labels
    BY DEF Labels
  <1>e. UNCHANGED envVars
    BY Zenon DEF Next, Step, vars, Tick, StartPublisher, StartInserter, PublisherConnects,
       PublisherDeclares, ConsumerConnects, ConsumerConsumes, CreateDatabaseIfNotExists,
       CheckTable, CreateTable, Load, ReadLineReturns
  <1>i. /\ TablesTimely /\ InserterOnTime /\ CacheOnTime /\ stdinOpen /\ dbReady <= InserterAt
    BY <1>e DEF TablesOnTime, TablesTimely, envVars, PublisherAt, InserterAt
  <1>n. /\ now \in Nat /\ latency \in Nat /\ PublisherAt \in Nat /\ PublisherAt' = PublisherAt
        /\ InserterAt = PublisherAt + DbSleep /\ InserterAt' = InserterAt /\ InserterAt \in Nat
        /\ DbSleep \in Nat /\ dbReady \in Nat /\ latency' = latency
    BY <1>e, Times, TimeAssumption DEF envVars, PublisherAt, InserterAt, TypeOK
  <1>b. /\ "inserting" \notin Before /\ "none" \notin Before /\ "database" \in Before
        /\ Before \subseteq Labels
    BY DEF Before, Labels
  <1>f. ASSUME NEW p \in {"publisher", "consumer"}, NEW l \in Labels,
               Continue(p, l) \/ Rest(p, l),
               UNCHANGED <<now, tables, database, missing>>
        PROVE  InserterOnTime' /\ CacheOnTime'
    BY <1>f, <1>e, <1>i, <1>n, ContinueFrame, TablesFrame, Named
  <1>1. CASE UNCHANGED vars
    BY <1>1, <1>i, <1>e, <1>n, TablesFrame DEF vars, storeVars
  <1>2. CASE Tick
    <2>1. UNCHANGED <<pc, due, storeVars>>
      BY <1>2, Zenon DEF Tick
    <2>2. now' \in Nat /\ now <= now'
      BY <1>2, NextType, <1>n DEF Tick, TypeOK
    <2>. QED  BY <2>1, <2>2, <1>i, <1>e, <1>n, TablesFrame DEF storeVars
  <1>3. CASE StartPublisher
    <2>1. PICK d \in DelaysNow, e \in DelaysNow :
            due' = [due EXCEPT !["business"] = now + DbSleep + d, !["publisher"] = now + e]
      BY <1>3 DEF StartPublisher
    <2>2. d \in Nat /\ d <= latency
      BY Times
    <2>3. now = PublisherAt /\ UNCHANGED <<now, database, tables, missing>> /\ pc["business"] = "queue"
          /\ pc' = [pc EXCEPT !["business"] = "db", !["publisher"] = "connect"]
      BY <1>3, <1>i DEF StartPublisher, Wakes, InserterOnTime, storeVars
    <2>4. /\ pc'["business"] = "db" /\ due'["business"] = now + DbSleep + d
          /\ \A q \in {"inserter", "cache"} : pc'[q] = pc[q] /\ due'[q] = due[q]
      BY <2>1, <2>3, Named DEF TypeOK
    <2>5. due'["business"] >= InserterAt /\ due'["business"] <= InserterAt + latency
      BY <2>2, <2>3, <2>4, <1>n
    <2>6. InserterOnTime'
      BY <2>3, <2>4, <2>5, <1>n, <1>i DEF InserterOnTime
    <2>7. CacheOnTime'
      BY <2>3, <2>4, <1>e, <1>i DEF CacheOnTime, envVars
    <2>. QED  BY <2>6, <2>7
  <1>4. CASE StartInserter
    <2>1. PICK e \in DelaysNow :
            due' = [due EXCEPT !["business"] = Never, !["inserter"] = now + e]
      BY <1>4 DEF StartInserter
    <2>2. e \in Nat /\ e <= latency
      BY Times
    <2>3. /\ now >= InserterAt /\ now <= InserterAt + latency
          /\ UNCHANGED <<now, database, tables, missing>>
          /\ pc' = [pc EXCEPT !["business"] = "listening", !["inserter"] = "database"]
          /\ pc["business"] = "db"
      BY <1>4, <1>i DEF StartInserter, Wakes, InserterOnTime, storeVars
    <2>4. /\ pc'["business"] = "listening" /\ pc'["inserter"] = "database" /\ due'["inserter"] = now + e
          /\ pc'["cache"] = pc["cache"] /\ due'["cache"] = due["cache"]
      BY <2>1, <2>3, Named DEF TypeOK
    <2>5. due'["inserter"] >= InserterAt /\ due'["inserter"] <= InserterAt + 2 * latency
      BY <2>2, <2>3, <2>4, <1>n
    <2>6. pc["inserter"] # "inserting" /\ missing["inserter"] = {}
      <3>1. pc["inserter"] \in {"none", "database", "customer", "file", "create customer", "create file", "inserting"}
        BY <1>i DEF InserterOnTime, Before
      \* Main starts the inserter once.
      <3>2. pc["inserter"] = "none"
        BY <1>i, <2>3 DEF InserterOnTime
      <3>3. \A t \in Tables : CreateAt[t] # "none"
        BY LabelsOfTables, Named
      <3>4. missing["inserter"] \subseteq Tables
        BY Named DEF TypeOK
      <3>. QED  BY <3>2, <3>3, <3>4, <1>i DEF InserterOnTime
    <2>7. \A t \in Tables : CreateAt[t] # "database"
      BY LabelsOfTables, Named
    <2>8. InserterOnTime'
      BY <2>3, <2>4, <2>5, <2>6, <2>7, <1>n, <1>b, LatenessValues DEF InserterOnTime
    <2>9. CacheOnTime'
      BY <2>3, <2>4, <2>6, <1>e, <1>i DEF CacheOnTime, envVars
    <2>. QED  BY <2>8, <2>9
  <1>5. CASE PublisherConnects
    BY <1>5, <1>f, <1>l DEF PublisherConnects, Die, storeVars
  <1>6. CASE PublisherDeclares
    BY <1>6, <1>f, <1>l DEF PublisherDeclares
  <1>7. CASE ConsumerConnects
    BY <1>7, <1>f, <1>l DEF ConsumerConnects, Die, storeVars
  <1>8. CASE ConsumerConsumes
    BY <1>8, <1>f, <1>l DEF ConsumerConsumes, Die, storeVars
  <1>9. CASE CreateDatabaseIfNotExists
    <2>1. /\ pc["inserter"] = "database" /\ due["inserter"] = now
          /\ UNCHANGED <<now, tables, missing>> /\ Continue("inserter", "customer")
          /\ database' = (database \/ DbUp)
      BY <1>9 DEF CreateDatabaseIfNotExists, Wakes
    <2>2. database'
      <3>1. now >= InserterAt
        BY <2>1, <1>b, <1>i DEF InserterOnTime
      <3>2. now >= dbReady
        BY <3>1, <1>i, <1>n
      <3>. QED  BY <2>1, <3>2 DEF DbUp
    <2>3. \A t \in Tables : CreateAt[t] \notin {"database", "customer"}
      BY LabelsOfTables, Named
    <2>4. missing["inserter"] = {}
      <3>1. missing["inserter"] \subseteq Tables
        BY Named DEF TypeOK
      <3>2. \A t \in missing["inserter"] : CreateAt[t] = "database"
        BY <2>1, <1>i DEF InserterOnTime
      <3>. QED  BY <2>3, <3>1, <3>2
    <2>5. (Lateness["database"] + 1) * latency <= Lateness["customer"] * latency
      BY <1>n, LatenessSteps
    <2>6. "customer" \in Before
      BY DEF Before
    <2>. QED  BY <2>1, <2>2, <2>3, <2>4, <2>5, <2>6, <1>b, <1>e, <1>i, Named, InserterFrame
  <1>10. ASSUME NEW p \in {"cache", "inserter"}, NEW t \in Tables, CheckTable(p, t)
         PROVE  InserterOnTime' /\ CacheOnTime'
    <2>1. /\ pc[p] = t /\ due[p] = now /\ UNCHANGED <<now, database, tables>>
          /\ (t = "customer" \/ t = "file") /\ p \in Processes
      BY <1>10, LabelsOfTables, Named DEF CheckTable, Wakes
    <2>2. CASE p = "inserter"
      <3>1. t \in Before \ {"database"} /\ DbUp /\ database
        <4>1. t \in Before \ {"database"}
          BY <2>1 DEF Before
        <4>2. now >= InserterAt /\ database
          BY <2>1, <2>2, <4>1, <1>i DEF InserterOnTime
        <4>3. now >= dbReady
          BY <4>2, <1>i, <1>n
        <4>. QED  BY <4>1, <4>2, <4>3 DEF DbUp
      <3>2. missing["inserter"] = {}
        <4>1. missing["inserter"] \subseteq Tables
          BY Named DEF TypeOK
        <4>2. \A u \in missing["inserter"] : CreateAt[u] = t
          BY <2>1, <2>2, <1>i DEF InserterOnTime
        <4>3. \A u \in Tables : CreateAt[u] # t
          BY <2>1, LabelsOfTables, Named
        <4>. QED  BY <4>1, <4>2, <4>3
      <3>3. CASE t \in tables /\ Proceed(p, t) /\ UNCHANGED missing
        <4>1. CASE t = "customer"
          <5>1. After(p, t) = "file" /\ After(p, t) # "inserting"
            BY <2>2, <4>1 DEF After
          <5>2. Continue(p, After(p, t))
            BY <3>3, <5>1 DEF Proceed
          <5>3. (Lateness[t] + 1) * latency <= Lateness[After(p, t)] * latency
            BY <4>1, <5>1, <1>n, LatenessSteps, Zenon
          <5>4. After(p, t) \in Before /\ \A u \in Tables : CreateAt[u] # After(p, t)
            BY <5>1, LabelsOfTables, Named DEF Before
          <5>. QED  BY <2>1, <2>2, <3>1, <3>2, <3>3, <5>2, <5>3, <5>4, <1>e, <1>i, InserterFrame
        <4>2. CASE t = "file"
          <5>1. After(p, t) = "inserting"
            BY <2>2, <4>2 DEF After
          <5>2. Rest(p, "inserting")
            BY <3>3, <5>1 DEF Proceed
          <5>3. \A u \in Tables : CreateAt[u] # "inserting"
            BY LabelsOfTables, Named
          <5>. QED  BY <2>1, <2>2, <3>1, <3>2, <3>3, <4>2, <5>2, <5>3, <1>b, <1>e, <1>i, InserterFrame
        <4>. QED  BY <2>1, <4>1, <4>2
      <3>4. CASE /\ t \notin tables /\ Continue(p, CreateAt[t])
                 /\ missing' = [missing EXCEPT ![p] = @ \cup {t}]
        <4>1. missing'["inserter"] = {t} /\ \A q \in Processes : q # "inserter" => missing'[q] = missing[q]
          BY <2>2, <3>2, <3>4, Named DEF TypeOK
        <4>2. CreateAt[t] \in Before /\ CreateAt[t] # "database"
          BY LabelsOfTables, Named DEF Before
        <4>3. (Lateness[t] + 1) * latency <= Lateness[CreateAt[t]] * latency
          <5>1. \/ t = "customer" /\ CreateAt[t] = "create customer"
                \/ t = "file" /\ CreateAt[t] = "create file"
            BY LabelsOfTables, Named
          <5>2. CASE t = "customer" /\ CreateAt[t] = "create customer"
            BY <5>2, <1>n, LatenessSteps, Zenon
          <5>3. CASE t = "file" /\ CreateAt[t] = "create file"
            BY <5>3, <1>n, LatenessSteps, Zenon
          <5>. QED  BY <5>1, <5>2, <5>3
        <4>4. \A u \in Tables : CreateAt[t] = CreateAt[u] => u = t
          BY LabelsOfTables, Named
        <4>. QED  BY <2>1, <2>2, <3>1, <3>4, <4>1, <4>2, <4>3, <4>4, <1>e, <1>i, InserterFrame
      <3>. QED  BY <1>10, <2>2, <3>1, <3>3, <3>4 DEF CheckTable
    <2>3. CASE p = "cache"
      <3>1. pc["inserter"] = "inserting" /\ DbUp /\ pc["cache"] # "listening"
        BY <2>1, <2>3, <1>i, CacheComesLater
      <3>2. database /\ t \in tables
        BY <3>1 DEF Prepared
      <3>3. After(p, t) = LoadAt[t]
        BY <2>3 DEF After
      <3>4. After(p, t) \in {"load customer", "load file"}
        BY <3>3, LabelsOfTables, Named
      <3>5. Continue(p, After(p, t)) /\ missing' = missing
        BY <1>10, <3>1, <3>2, <3>4 DEF CheckTable, Proceed
      <3>. QED  BY <2>1, <2>3, <3>1, <3>4, <3>5, <1>e, <1>i, CacheFrame
    <2>. QED  BY <2>2, <2>3
  <1>11. ASSUME NEW p \in {"cache", "inserter"}, NEW t \in Tables, CreateTable(p, t)
         PROVE  InserterOnTime' /\ CacheOnTime'
    <2>1. /\ pc[p] = CreateAt[t] /\ due[p] = now /\ UNCHANGED <<now, database>>
          /\ tables' = tables \cup {t} /\ missing' = [missing EXCEPT ![p] = @ \ {t}]
          /\ CreateAt[t] = "create customer" \/ CreateAt[t] = "create file"
      BY <1>11, LabelsOfTables, Named DEF CreateTable, Wakes
    <2>2. p = "inserter"
      BY <2>1, <1>i DEF CacheOnTime
    <2>3. t \notin tables
      BY <2>1, <2>2, <1>i DEF InserterOnTime
    <2>4. Proceed(p, t)
      BY <1>11, <2>3 DEF CreateTable
    <2>5. \A u \in Tables : CreateAt[t] = CreateAt[u] => u = t
      BY LabelsOfTables, Named
    <2>6. missing'["inserter"] = {}
          /\ \A q \in Processes : q # "inserter" => missing'[q] = missing[q]
      BY <2>1, <2>2, <2>5, <1>i, Named DEF InserterOnTime, TypeOK
    <2>7. CreateAt[t] \in Before \ {"database"} /\ database
      BY <2>1, <2>2, <1>i DEF InserterOnTime, Before
    <2>8. CASE t = "customer"
      <3>1. After(p, t) = "file" /\ After(p, t) # "inserting"
        BY <2>2, <2>8 DEF After
      <3>2. Continue(p, After(p, t))
        BY <2>4, <3>1 DEF Proceed
      <3>3. (Lateness[CreateAt[t]] + 1) * latency <= Lateness[After(p, t)] * latency
        <4>1. CreateAt[t] = "create customer"
          BY <2>8, LabelsOfTables, Named
        <4>. QED  BY <3>1, <4>1, <1>n, LatenessSteps, Zenon
      <3>4. After(p, t) \in Before /\ \A u \in Tables : CreateAt[u] # After(p, t)
        BY <3>1, LabelsOfTables, Named DEF Before
      <3>. QED  BY <2>1, <2>2, <2>6, <2>7, <3>2, <3>3, <3>4, <1>e, <1>i, Named, InserterFrame
    <2>9. CASE t = "file"
      <3>1. After(p, t) = "inserting"
        BY <2>2, <2>9 DEF After
      <3>2. Rest(p, "inserting")
        BY <2>4, <3>1 DEF Proceed
      <3>3. \A u \in Tables : CreateAt[u] # "inserting"
        BY LabelsOfTables, Named
      <3>. QED  BY <2>1, <2>2, <2>6, <2>7, <3>2, <3>3, <1>b, <1>e, <1>i, Named, InserterFrame
    <2>. QED  BY <2>8, <2>9, LabelsOfTables, Named
  <1>12. ASSUME NEW t \in Tables, Load(t)
         PROVE  InserterOnTime' /\ CacheOnTime'
    <2>1. /\ pc["cache"] = LoadAt[t] /\ due["cache"] = now
          /\ UNCHANGED <<now, database, tables, missing>>
          /\ Continue("cache", "file") \/ Rest("cache", "listening")
          /\ LoadAt[t] # "listening"
      BY <1>12, LabelsOfTables, Named DEF Load, Wakes, storeVars
    <2>. QED  BY <2>1, <1>e, <1>i, Named, CacheFrame
  <1>13. ASSUME NEW p \in Mains, ReadLineReturns(p)
         PROVE  FALSE
    BY <1>13, <1>i DEF ReadLineReturns
  <1>. QED  BY <1>1, <1>2, <1>3, <1>4, <1>5, <1>6, <1>7, <1>8, <1>9, <1>10, <1>11, <1>12, <1>13
            DEF Next, Step

LEMMA InitTablesOnTime == Init => TablesOnTime
  <1>. SUFFICES ASSUME Init PROVE InserterOnTime /\ CacheOnTime
    BY DEF TablesOnTime
  <1>1. /\ pc["cache"] = "customer" /\ pc["inserter"] = "none" /\ pc["business"] = "queue"
        /\ due["business"] = PublisherAt /\ due["cache"] = skew["cache"] + CacheSleep
        /\ \A p \in Processes : missing[p] = {}
    BY Named DEF Init, PublisherAt
  <1>2. \A t \in Tables : CreateAt[t] # "none"
    BY LabelsOfTables, Named
  <1>. QED  BY <1>1, <1>2, Named DEF InserterOnTime, CacheOnTime, Before

LEMMA OnTime == Spec => [](TypeOK /\ QueueOnTime /\ TablesOnTime)
  <1>1. Init => Prepared
    <2>1. Init => pc["consumer"] = "connect" /\ pc["inserter"] = "none" /\ pc["cache"] = "customer"
      BY Named DEF Init
    <2>. QED  BY <2>1 DEF Prepared
  <1>. QED  BY <1>1, TypeCorrect, NextPrepared, InitQueueOnTime, NextQueueOnTime,
               InitTablesOnTime, NextTablesOnTime, PTL DEF Spec

\* The sleeps suffice: when their differences cover the skew of the containers and the
\* delays of the calls, publisher, consumer, inserter and cache server find all that
\* they expect.
THEOREM SleepsSuffice == Spec => []NobodyDies
  <1>1. QueueOnTime /\ TablesOnTime => NobodyDies
    BY DEF QueueOnTime, TablesOnTime, PublisherOnTime, ConsumerOnTime, InserterOnTime,
           CacheOnTime, NobodyDies, Before
  <1>. QED  BY <1>1, OnTime, PTL

\* In such a start each table is created by one process.
THEOREM TablesCreatedOnce == Spec => []NoCreateRace
  <1>1. TypeOK /\ TablesOnTime => NoCreateRace
    <2>. SUFFICES ASSUME TypeOK, InserterOnTime, CacheOnTime, NEW p \in Processes
                  PROVE  missing[p] \cap tables = {}
      BY DEF TablesOnTime, NoCreateRace
    <2>1. CASE p = "inserter"
      <3>1. missing[p] \subseteq Tables
        BY DEF TypeOK
      <3>. QED  BY <2>1, <3>1 DEF InserterOnTime
    <2>2. CASE p # "inserter"
      BY <2>2 DEF CacheOnTime
    <2>. QED  BY <2>1, <2>2
  <1>. QED  BY <1>1, OnTime, PTL

-----------------------------------------------------------------------------
(* Where a start comes to rest: what AllServe rests on.                    *)

\* A process that is there has no time of its own only where it waits for others.
Resting == {"none", "listening", "publishing", "inserting", "dead", "exited"}

TableLabels == {"customer", "create customer", "file", "create file"}
Road == [cache     |-> TableLabels \cup {"load customer", "load file", "listening", "dead", "exited"},
         business  |-> {"queue", "db", "listening", "exited"},
         consumer  |-> {"connect", "consume", "listening", "dead", "exited"},
         publisher |-> {"none", "connect", "declare", "publishing", "dead", "exited"},
         inserter  |-> TableLabels \cup {"none", "database", "inserting", "dead", "exited"}]

\* Every process is on its road, and is due exactly where it rests not; a task has not
\* begun only as long as Main is still to begin it.
OnRoad ==
    /\ \A p \in Processes : pc[p] \in Road[p] /\ (due[p] = Never <=> pc[p] \in Resting)
    /\ pc["publisher"] = "none" => pc["business"] = "queue"
    /\ pc["inserter"] = "none" => pc["business"] \in {"queue", "db"}
    /\ stdinOpen => \A p \in Processes : pc[p] # "exited"

\* When nobody has anything left to do, Main of the business server has come to listen,
\* whatever became of its tasks, and every process that ended did so by dying or with
\* its Main; if the start was timely, all five are at work.
RestIsService == (\A p \in Processes : due[p] = Never) =>
    /\ pc["business"] \in {"listening", "exited"}
    /\ pc["cache"] \in {"listening", "dead", "exited"} /\ pc["consumer"] \in {"listening", "dead", "exited"}
    /\ pc["publisher"] \in {"publishing", "dead", "exited"}
    /\ pc["inserter"] \in {"inserting", "dead", "exited"}
    /\ QueueTimely /\ TablesTimely =>
         /\ \A p \in Mains : pc[p] = "listening"
         /\ pc["publisher"] = "publishing" /\ pc["inserter"] = "inserting"

LEMMA Roads ==
    /\ Road["business"] = {"queue", "db", "listening", "exited"}
    /\ Road["consumer"] = {"connect", "consume", "listening", "dead", "exited"}
    /\ Road["publisher"] = {"none", "connect", "declare", "publishing", "dead", "exited"}
    /\ Road["cache"] = TableLabels \cup {"load customer", "load file", "listening", "dead", "exited"}
    /\ Road["inserter"] = TableLabels \cup {"none", "database", "inserting", "dead", "exited"}
    /\ \A p \in Processes : "exited" \in Road[p]
  <1>1. /\ Road["business"] = {"queue", "db", "listening", "exited"}
        /\ Road["consumer"] = {"connect", "consume", "listening", "dead", "exited"}
        /\ Road["publisher"] = {"none", "connect", "declare", "publishing", "dead", "exited"}
        /\ Road["cache"] = TableLabels \cup {"load customer", "load file", "listening", "dead", "exited"}
        /\ Road["inserter"] = TableLabels \cup {"none", "database", "inserting", "dead", "exited"}
    BY DEF Road
  <1>. QED  BY <1>1, Named

\* A step of a process other than Main of the business server.
LEMMA RoadFrame ==
    ASSUME TypeOK, OnRoad, NEW p \in Processes \ {"business"}, NEW l \in Labels,
           l \in Road[p], l \notin {"none", "exited"},
           \/ Continue(p, l) /\ l \notin Resting
           \/ Rest(p, l) /\ l \in Resting,
           UNCHANGED envVars
    PROVE  OnRoad'
  <1>1. pc' = [pc EXCEPT ![p] = l] /\ \A q \in Processes : q # p => due'[q] = due[q]
    BY ContinueType, RestType DEF TypeOK
  <1>2. pc'[p] = l /\ \A q \in Processes : q # p => pc'[q] = pc[q]
    BY <1>1 DEF TypeOK
  <1>3. due'[p] = Never <=> l \in Resting
    <2>1. CASE Continue(p, l) /\ l \notin Resting
      BY <2>1, ContinueType DEF Never
    <2>2. CASE Rest(p, l) /\ l \in Resting
      BY <2>2, RestType DEF TypeOK
    <2>. QED  BY <2>1, <2>2
  <1>4. \A q \in Processes : pc'[q] \in Road[q] /\ (due'[q] = Never <=> pc'[q] \in Resting)
    BY <1>1, <1>2, <1>3 DEF OnRoad
  <1>5. stdinOpen' = stdinOpen
    BY DEF envVars
  <1>. QED  BY <1>2, <1>4, <1>5, Named DEF OnRoad

LEMMA NextOnRoad == TypeOK /\ OnRoad /\ [Next]_vars => OnRoad'
  <1>. SUFFICES ASSUME TypeOK, OnRoad, [Next]_vars PROVE OnRoad'
    OBVIOUS
  <1>l. {"dead", "listening", "publishing", "consume", "declare", "customer", "file",
         "inserting", "database", "connect", "db"} \subseteq Labels
    BY DEF Labels
  <1>1. CASE UNCHANGED vars
    BY <1>1 DEF vars, envVars, OnRoad
  <1>2. CASE Tick
    BY <1>2 DEF Tick, envVars, OnRoad
  <1>3. CASE StartPublisher
    <2>1. PICK d \in DelaysNow, e \in DelaysNow :
            due' = [due EXCEPT !["business"] = now + DbSleep + d, !["publisher"] = now + e]
      BY <1>3 DEF StartPublisher
    <2>2. d \in Nat /\ e \in Nat /\ DbSleep \in Nat /\ now \in Nat
      BY Times, TimeAssumption DEF TypeOK
    <2>3. /\ pc["business"] = "queue" /\ stdinOpen' = stdinOpen
          /\ pc' = [pc EXCEPT !["business"] = "db", !["publisher"] = "connect"]
      BY <1>3 DEF StartPublisher, Wakes, envVars
    <2>4. /\ pc'["business"] = "db" /\ due'["business"] # Never
          /\ pc'["publisher"] = "connect" /\ due'["publisher"] # Never
          /\ \A q \in Processes \ {"business", "publisher"} : pc'[q] = pc[q] /\ due'[q] = due[q]
      BY <2>1, <2>2, <2>3, Named DEF TypeOK, Never
    <2>5. \A q \in Processes : pc'[q] \in Road[q] /\ (due'[q] = Never <=> pc'[q] \in Resting)
      BY <2>4, Roads DEF OnRoad, Resting
    <2>. QED  BY <2>3, <2>4, <2>5, Named DEF OnRoad
  <1>4. CASE StartInserter
    <2>1. PICK e \in DelaysNow :
            due' = [due EXCEPT !["business"] = Never, !["inserter"] = now + e]
      BY <1>4 DEF StartInserter
    <2>2. e \in Nat /\ now \in Nat
      BY Times DEF TypeOK
    <2>3. /\ pc["business"] = "db" /\ stdinOpen' = stdinOpen
          /\ pc' = [pc EXCEPT !["business"] = "listening", !["inserter"] = "database"]
      BY <1>4 DEF StartInserter, Wakes, envVars
    <2>4. /\ pc'["business"] = "listening" /\ due'["business"] = Never
          /\ pc'["inserter"] = "database" /\ due'["inserter"] # Never
          /\ \A q \in Processes \ {"business", "inserter"} : pc'[q] = pc[q] /\ due'[q] = due[q]
      BY <2>1, <2>2, <2>3, Named DEF TypeOK, Never
    <2>5. \A q \in Processes : pc'[q] \in Road[q] /\ (due'[q] = Never <=> pc'[q] \in Resting)
      BY <2>4, Roads DEF OnRoad, Resting
    <2>. QED  BY <2>3, <2>4, <2>5, Named DEF OnRoad
  <1>5. CASE PublisherConnects
    BY <1>5, <1>l, RoadFrame, Roads, Named DEF PublisherConnects, Die, Resting
  <1>6. CASE PublisherDeclares
    BY <1>6, <1>l, RoadFrame, Roads, Named DEF PublisherDeclares, Resting
  <1>7. CASE ConsumerConnects
    BY <1>7, <1>l, RoadFrame, Roads, Named DEF ConsumerConnects, Die, Resting
  <1>8. CASE ConsumerConsumes
    BY <1>8, <1>l, RoadFrame, Roads, Named DEF ConsumerConsumes, Die, Resting
  <1>9. CASE CreateDatabaseIfNotExists
    BY <1>9, <1>l, RoadFrame, Roads, Named DEF CreateDatabaseIfNotExists, Resting, TableLabels
  <1>t. ASSUME NEW p \in {"cache", "inserter"}, NEW t \in Tables
        PROVE  /\ p \in Processes \ {"business"} /\ "dead" \in Road[p] /\ "dead" \in Resting
               /\ CreateAt[t] \in Road[p] \cap Labels
               /\ CreateAt[t] \notin Resting /\ CreateAt[t] \notin {"none", "exited"}
               /\ After(p, t) \in Road[p] \cap Labels /\ After(p, t) \notin {"none", "exited"}
               /\ After(p, t) = "inserting" <=> After(p, t) \in Resting
    BY LabelsOfTables, Roads, Named DEF After, Resting, TableLabels
  <1>10. ASSUME NEW p \in {"cache", "inserter"}, NEW t \in Tables, CheckTable(p, t)
         PROVE  OnRoad'
    BY <1>10, <1>t, <1>l, RoadFrame DEF CheckTable, Die, Proceed
  <1>11. ASSUME NEW p \in {"cache", "inserter"}, NEW t \in Tables, CreateTable(p, t)
         PROVE  OnRoad'
    BY <1>11, <1>t, <1>l, RoadFrame DEF CreateTable, Die, Proceed
  <1>12. ASSUME NEW t \in Tables, Load(t)
         PROVE  OnRoad'
    BY <1>12, <1>l, RoadFrame, Roads, Named DEF Load, Resting, TableLabels
  <1>13. ASSUME NEW p \in Mains, ReadLineReturns(p)
         PROVE  OnRoad'
    <2>. DEFINE ends == IF p = "business" THEN {p} \cup Tasks ELSE {p}
    <2>1. /\ pc' = [q \in Processes |-> IF q \in ends THEN "exited" ELSE pc[q]]
          /\ due' = [q \in Processes |-> IF q \in ends THEN Never ELSE due[q]]
          /\ pc[p] = "listening" /\ ~stdinOpen /\ stdinOpen' = stdinOpen
      BY <1>13 DEF ReadLineReturns, envVars
    <2>2. "business" \in ends => {"business", "publisher", "inserter"} \subseteq ends
      BY DEF Tasks
    <2>3. ("publisher" \in ends \/ "inserter" \in ends) => "business" \in ends
      BY Named
    <2>. HIDE DEF ends
    <2>4. \A q \in Processes : /\ pc'[q] = IF q \in ends THEN "exited" ELSE pc[q]
                               /\ due'[q] = IF q \in ends THEN Never ELSE due[q]
      BY <2>1
    <2>5. \A q \in Processes : pc'[q] \in Road[q] /\ (due'[q] = Never <=> pc'[q] \in Resting)
      BY <2>4, Roads DEF OnRoad, Resting
    <2>. QED  BY <2>1, <2>2, <2>3, <2>4, <2>5, Named DEF OnRoad
  <1>. QED  BY <1>1, <1>2, <1>3, <1>4, <1>5, <1>6, <1>7, <1>8, <1>9, <1>10, <1>11, <1>12, <1>13
            DEF Next, Step

LEMMA InitOnRoad == Init => OnRoad
  <1>. SUFFICES ASSUME Init PROVE OnRoad
    OBVIOUS
  <1>1. TypeOK /\ \A m \in Mains : skew[m] \in Nat
    BY InitType, Times
  <1>2. CacheSleep \in Nat /\ BusinessSleep \in Nat /\ QueueSleep \in Nat /\ ConsumerSleep \in Nat
    BY TimeAssumption
  <1>3. /\ pc["cache"] = "customer" /\ pc["business"] = "queue" /\ pc["consumer"] = "connect"
        /\ pc["publisher"] = "none" /\ pc["inserter"] = "none"
        /\ due["cache"] = skew["cache"] + CacheSleep
        /\ due["business"] = skew["business"] + BusinessSleep + QueueSleep
        /\ due["consumer"] = skew["consumer"] + ConsumerSleep
        /\ due["publisher"] = Never /\ due["inserter"] = Never
    BY Named DEF Init
  <1>4. due["cache"] # Never /\ due["business"] # Never /\ due["consumer"] # Never
    BY <1>1, <1>2, <1>3, Named DEF Never
  <1>. QED  BY <1>3, <1>4, Roads, Named DEF OnRoad, Resting, TableLabels

\* A start that has come to rest has come to work.
THEOREM StartsEndInService == Spec => []RestIsService
  <1>1. OnRoad /\ QueueOnTime /\ TablesOnTime => RestIsService
    <2>. SUFFICES ASSUME OnRoad, QueueOnTime, TablesOnTime, \A p \in Processes : due[p] = Never
                  PROVE  /\ pc["business"] \in {"listening", "exited"}
                         /\ pc["cache"] \in {"listening", "dead", "exited"}
                         /\ pc["consumer"] \in {"listening", "dead", "exited"}
                         /\ pc["publisher"] \in {"publishing", "dead", "exited"}
                         /\ pc["inserter"] \in {"inserting", "dead", "exited"}
                         /\ QueueTimely /\ TablesTimely =>
                              /\ \A p \in Mains : pc[p] = "listening"
                              /\ pc["publisher"] = "publishing" /\ pc["inserter"] = "inserting"
      BY DEF RestIsService
    <2>1. \A p \in Processes : pc[p] \in Road[p] \cap Resting
      BY DEF OnRoad
    <2>2. /\ pc["business"] \in {"listening", "exited"}
          /\ pc["cache"] \in {"listening", "dead", "exited"} /\ pc["consumer"] \in {"listening", "dead", "exited"}
          /\ pc["publisher"] \in {"none", "publishing", "dead", "exited"}
          /\ pc["inserter"] \in {"none", "inserting", "dead", "exited"}
      BY <2>1, Roads, Named DEF Resting, TableLabels
    <2>3. pc["publisher"] # "none" /\ pc["inserter"] # "none"
      BY <2>2 DEF OnRoad
    <2>4. ASSUME QueueTimely, TablesTimely
          PROVE  /\ \A p \in Processes : pc[p] # "exited"
                 /\ pc["publisher"] # "dead" /\ pc["consumer"] # "dead"
                 /\ pc["inserter"] # "dead" /\ pc["cache"] # "dead"
      BY <2>4 DEF OnRoad, QueueTimely, QueueOnTime, TablesOnTime, PublisherOnTime, ConsumerOnTime,
                  InserterOnTime, CacheOnTime, Before
    <2>. QED  BY <2>2, <2>3, <2>4, Named
  <1>. QED  BY <1>1, OnTime, InitOnRoad, NextOnRoad, PTL DEF Spec

=============================================================================
