----------------------------- MODULE CacheServer -----------------------------
(***************************************************************************)
(* The cache server and the table it caches, together with the business    *)
(* server's inserter that writes to the same table.                        *)
(*                                                                         *)
(* Every connection of the cache server has a handler, and the handlers    *)
(* run on the thread pool: they share one Dictionary without a lock, while *)
(* the database keeps ids unique.  An add looks the entity's id up in the  *)
(* dictionary, reads max(Id), inserts the row and only then adds it to the *)
(* dictionary; a list is added entity by entity.  The inserter reads       *)
(* max(Id) once per batch and never tells the cache.  The process may      *)
(* crash between any two steps; a restart reloads the table.               *)
(*                                                                         *)
(* CustomerCache and FileCache, and the two repositories, are the same     *)
(* code over two tables that share nothing: the module has one of them.    *)
(* Sources: v2 CacheHelper.cs, the cache server's ChannelHandler.cs and    *)
(* Program.cs, the repositories, the business server's DbHelper.cs.        *)
(***************************************************************************)
EXTENDS Integers, Sequences, FiniteSets

CONSTANTS
    Handlers,   \* the connections served at a time
    Rows,       \* contents of a row, its id aside
    SentIds,    \* ids a client may put into an entity (0: a new entity)
    MaxRows,    \* bound: rows the table takes before every insert fails
    MaxList,    \* bound: entities in one add command
    MaxBatch,   \* bound: records of one batch of the inserter (999 in the code)
    DbFaults,   \* may the database fail, before or after a commit?
    Unreadable  \* rows that GetAll throws on: their Path is null

ASSUME SentIdsAssumption == SentIds \subseteq Nat
ASSUME BoundsAssumption == MaxRows \in Nat /\ MaxList \in Nat /\ MaxBatch \in Nat
ASSUME FaultsAssumption == DbFaults \in BOOLEAN
ASSUME UnreadableAssumption == Unreadable \subseteq Rows

VARIABLES
    db,         \* the table: id -> row
    server,     \* the cache process: down, loading (table read), up
    cache,      \* the dictionary: id -> row
    corrupt,    \* two Adds have overlapped in this run of the process
    pc,         \* pc[h]: where handler h is; idle: waiting for a command
    todo,       \* todo[h]: entities of the command still to add
    id,         \* id[h]: the id the entity being added got from max(Id) + 1
    stored,     \* stored[h]: rows the current command has added so far
    overlap,    \* overlap[h]: rows of the Adds that overlap h's Add
    dirty,      \* handlers whose enumeration an Add has overtaken
    inserter,   \* the business server's inserter: where it is, its next id
    told,       \* history: <<id, row>> some client was told are there
    leftBehind  \* history: <<id, row>> that lists had added before they stopped

cacheVars   == <<server, cache, corrupt, dirty>>
handlerVars == <<pc, todo, id, stored, overlap>>
historyVars == <<told, leftBehind>>
vars == <<db, cacheVars, handlerVars, inserter, historyVars>>

Entities == [id: SentIds, row: Rows]
Adds     == UNION {[1..n -> Entities] : n \in 0..MaxList}

\* A partial function with one key set; the pairs of a partial function.
Put(f, k, v) == [i \in DOMAIN f \cup {k} |-> IF i = k THEN v ELSE f[i]]
PairsOf(f)   == {<<i, f[i]>> : i \in DOMAIN f}
Nothing      == [i \in {} |-> i]

\* select max(Id): 0 for an empty table.
MaxKey(f) == IF DOMAIN f = {} THEN 0
             ELSE CHOOSE i \in DOMAIN f : \A j \in DOMAIN f : j <= i
MaxId == MaxKey(db)

Init ==
    /\ db \in UNION {[1..n -> Rows] : n \in 0..MaxRows}
    /\ server = "down"
    /\ cache = Nothing
    /\ corrupt = FALSE
    /\ pc = [h \in Handlers |-> "idle"]
    /\ todo = [h \in Handlers |-> <<>>]
    /\ id = [h \in Handlers |-> 0]
    /\ stored = [h \in Handlers |-> {}]
    /\ overlap = [h \in Handlers |-> {}]
    /\ dirty = {}
    /\ inserter = [at |-> "counting", next |-> 0, left |-> 0]
    /\ told = {}
    /\ leftBehind = {}

At(h, label) == server = "up" /\ pc[h] = label
Goto(h, label) == pc' = [pc EXCEPT ![h] = label]
Entity(h) == Head(todo[h])
Adding == {h \in Handlers : pc[h] = "adding"}

-----------------------------------------------------------------------------
(* The process: main loads the table, then opens the server.  Each LoadX   *)
(* is one query, so a snapshot of its table.                               *)

\* Mutant: LoadCache forgotten in Main.
LoadNothing ==
    /\ server = "down"
    /\ server' = "loading"
    /\ cache' = Nothing
    /\ UNCHANGED <<db, corrupt, dirty, handlerVars, inserter, historyVars>>

\* GetString throws on a null Path: Main ends, and the server stays down.
Load ==
    /\ server = "down"
    /\ \A i \in DOMAIN db : db[i] \notin Unreadable
    /\ server' = "loading"
    /\ cache' = db
    /\ UNCHANGED <<db, corrupt, dirty, handlerVars, inserter, historyVars>>

StartServer ==
    /\ server = "loading"
    /\ server' = "up"
    /\ UNCHANGED <<db, cache, corrupt, dirty, handlerVars, inserter, historyVars>>

Crash ==
    /\ server # "down"
    /\ server' = "down"
    /\ cache' = Nothing
    /\ corrupt' = FALSE
    /\ dirty' = {}
    /\ pc' = [h \in Handlers |-> "idle"]
    /\ todo' = [h \in Handlers |-> <<>>]
    /\ id' = [h \in Handlers |-> 0]
    /\ stored' = [h \in Handlers |-> {}]
    /\ overlap' = [h \in Handlers |-> {}]
    /\ leftBehind' = leftBehind \cup UNION {stored[h] : h \in Handlers}
    /\ UNCHANGED <<db, inserter, told>>

-----------------------------------------------------------------------------
(* Reads.  What a dictionary answers after two Adds have overlapped is no  *)
(* promise, so told records nothing then.                                  *)

Tell(pairs) == told' = IF corrupt THEN told ELSE told \cup pairs

FindById(h, i) ==
    /\ At(h, "idle")
    /\ i \in DOMAIN cache
    /\ Tell({<<i, cache[i]>>})
    /\ UNCHANGED <<db, cacheVars, handlerVars, inserter, leftBehind>>

BeginQuery(h) ==
    /\ At(h, "idle")
    /\ Goto(h, "enumerating")
    /\ dirty' = dirty \ {h}
    /\ UNCHANGED <<db, server, cache, corrupt, todo, id, stored, overlap, inserter, historyVars>>

\* Where(...).ToList() reached the end: any row may have matched, or none.
EndQuery(h) ==
    /\ At(h, "enumerating")
    /\ h \notin dirty
    /\ \E matches \in {{}} \cup {{p} : p \in PairsOf(cache)} : Tell(matches)
    /\ Goto(h, "idle")
    /\ UNCHANGED <<db, cacheVars, todo, id, stored, overlap, inserter, leftBehind>>

\* The handler's finally closes the connection without an answer; a new
\* connection, with a new handler, may follow.
Drop(h) ==
    /\ Goto(h, "idle")
    /\ todo' = [todo EXCEPT ![h] = <<>>]
    /\ id' = [id EXCEPT ![h] = 0]
    /\ stored' = [stored EXCEPT ![h] = {}]
    /\ overlap' = [overlap EXCEPT ![h] = {}]
    /\ leftBehind' = leftBehind \cup stored[h]

\* MoveNext found the version of the dictionary changed.
QueryThrows(h) ==
    /\ At(h, "enumerating")
    /\ h \in dirty
    /\ Drop(h)
    /\ UNCHANGED <<db, cacheVars, inserter, told>>

-----------------------------------------------------------------------------
(* Adds.                                                                   *)

\* An empty list is answered IsOK = true at once.
ReceiveAdd(h, list) ==
    /\ At(h, "idle")
    /\ Goto(h, IF list = <<>> THEN "idle" ELSE "check")
    /\ todo' = [todo EXCEPT ![h] = list]
    /\ UNCHANGED <<db, cacheVars, id, stored, overlap, inserter, historyVars>>

\* ContainsKey may miss a key while another thread is inside Add.
KeyMissing(h) ==
    /\ At(h, "check")
    /\ Entity(h).id \in DOMAIN cache => Adding # {} \/ corrupt
    /\ Goto(h, "maxid")
    /\ UNCHANGED <<db, cacheVars, todo, id, stored, overlap, inserter, historyVars>>

\* CacheException: the answer is IsOK = false, earlier entities stay.
KeyHeld(h) ==
    /\ At(h, "check")
    /\ Entity(h).id \in DOMAIN cache
    /\ Drop(h)
    /\ UNCHANGED <<db, cacheVars, inserter, told>>

GetMaxId(h) ==
    /\ At(h, "maxid")
    /\ Goto(h, "insert")
    /\ id' = [id EXCEPT ![h] = MaxId + 1]
    /\ UNCHANGED <<db, cacheVars, todo, stored, overlap, inserter, historyVars>>

\* The query of max(Id) failed.
GetMaxIdThrows(h) ==
    /\ DbFaults
    /\ At(h, "maxid")
    /\ Drop(h)
    /\ UNCHANGED <<db, cacheVars, inserter, told>>

\* Mutant: INSERT ... ON CONFLICT DO NOTHING.
InsertIgnoresConflict(h) ==
    /\ At(h, "insert")
    /\ id[h] <= MaxRows
    /\ db' = IF id[h] \in DOMAIN db THEN db ELSE Put(db, id[h], Entity(h).row)
    /\ Goto(h, "dictionary")
    /\ UNCHANGED <<cacheVars, todo, id, stored, overlap, inserter, historyVars>>

\* Mutant: INSERT ... ON CONFLICT DO UPDATE.
InsertUpserts(h) ==
    /\ At(h, "insert")
    /\ id[h] <= MaxRows
    /\ db' = Put(db, id[h], Entity(h).row)
    /\ Goto(h, "dictionary")
    /\ UNCHANGED <<cacheVars, todo, id, stored, overlap, inserter, historyVars>>

\* Mutant: The transaction is never committed.
InsertUncommitted(h) ==
    /\ At(h, "insert")
    /\ id[h] \notin DOMAIN db /\ id[h] <= MaxRows
    /\ Goto(h, "dictionary")
    /\ UNCHANGED <<db, cacheVars, todo, id, stored, overlap, inserter, historyVars>>

Insert(h) ==
    /\ At(h, "insert")
    /\ id[h] \notin DOMAIN db /\ id[h] <= MaxRows
    /\ db' = Put(db, id[h], Entity(h).row)
    /\ Goto(h, "dictionary")
    /\ UNCHANGED <<cacheVars, todo, id, stored, overlap, inserter, historyVars>>

\* Mutant: The exception of the insert is swallowed.
InsertThrowsCaught(h) ==
    /\ At(h, "insert")
    /\ id[h] \in DOMAIN db \/ id[h] > MaxRows \/ DbFaults
    /\ Goto(h, "dictionary")
    /\ UNCHANGED <<db, cacheVars, todo, id, stored, overlap, inserter, historyVars>>

\* Mutant: The insert is retried with the id it failed with.
InsertRetried(h) ==
    /\ At(h, "insert")
    /\ id[h] \in DOMAIN db \/ id[h] > MaxRows \/ DbFaults
    /\ UNCHANGED vars

\* The primary key is taken, the table is full, or the database failed; the
\* PostgresException is no CacheException.
InsertThrows(h) ==
    /\ At(h, "insert")
    /\ id[h] \in DOMAIN db \/ id[h] > MaxRows \/ DbFaults
    /\ Drop(h)
    /\ UNCHANGED <<db, cacheVars, inserter, told>>

\* The commit took effect, its confirmation was lost.
InsertUnconfirmed(h) ==
    /\ DbFaults
    /\ At(h, "insert")
    /\ id[h] \notin DOMAIN db /\ id[h] <= MaxRows
    /\ db' = Put(db, id[h], Entity(h).row)
    /\ Drop(h)
    /\ UNCHANGED <<cacheVars, inserter, told>>

BeginDictionaryAdd(h) ==
    /\ At(h, "dictionary")
    /\ Goto(h, "adding")
    /\ overlap' = [g \in Handlers |->
           IF g = h THEN {Entity(k).row : k \in Adding}
           ELSE IF g \in Adding THEN overlap[g] \cup {Entity(h).row}
           ELSE overlap[g]]
    /\ UNCHANGED <<db, cacheVars, todo, id, stored, inserter, historyVars>>

\* The next entity of the list, or the answer IsOK = true.
NextEntity(h) ==
    LET done == stored[h] \cup {<<id[h], Entity(h).row>>} IN
    /\ overlap' = [overlap EXCEPT ![h] = {}]
    /\ todo' = [todo EXCEPT ![h] = Tail(@)]
    /\ IF Len(todo[h]) > 1
       THEN /\ Goto(h, "check")
            /\ stored' = [stored EXCEPT ![h] = done]
            /\ UNCHANGED <<id, told>>
       ELSE /\ Goto(h, "idle")
            /\ stored' = [stored EXCEPT ![h] = {}]
            /\ id' = [id EXCEPT ![h] = 0]
            /\ told' = IF corrupt' THEN told ELSE told \cup done

Overtake == dirty' = {h \in Handlers : pc[h] = "enumerating"}

\* Mutant: Only the last entity of a list reaches the dictionary.
EndDictionaryAddOfLast(h) ==
    /\ At(h, "adding")
    /\ overlap[h] = {}
    /\ cache' = IF Len(todo[h]) > 1 THEN cache ELSE Put(cache, id[h], Entity(h).row)
    /\ Overtake
    /\ UNCHANGED <<db, server, corrupt, inserter, leftBehind>>
    /\ NextEntity(h)

EndDictionaryAdd(h) ==
    /\ At(h, "adding")
    /\ overlap[h] = {}
    /\ cache' = Put(cache, id[h], Entity(h).row)
    /\ Overtake
    /\ UNCHANGED <<db, server, corrupt, inserter, leftBehind>>
    /\ NextEntity(h)

\* Undefined behaviour: two threads took the same slot or one of them grew the
\* table.  Any entry may become unreachable, and the new key may carry the row
\* of the other Add.
TornDictionary(h) ==
    /\ \E kept \in SUBSET (DOMAIN cache \cup {id[h]}),
          row \in overlap[h] \cup {Entity(h).row} :
           cache' = [i \in kept |-> Put(cache, id[h], row)[i]]
    /\ corrupt' = TRUE
    /\ Overtake

EndOverlappedAdd(h) ==
    /\ At(h, "adding")
    /\ overlap[h] # {}
    /\ TornDictionary(h)
    /\ NextEntity(h)
    /\ UNCHANGED <<db, server, inserter, leftBehind>>

\* An Add that met another one may also throw (index out of range).
OverlappedAddThrows(h) ==
    /\ At(h, "adding")
    /\ overlap[h] # {}
    /\ TornDictionary(h)
    /\ Drop(h)
    /\ UNCHANGED <<db, server, inserter, told>>

-----------------------------------------------------------------------------
(* The business server: batches of rows straight into the table.           *)

InserterAt(label) == inserter.at = label

InserterCounts ==
    /\ InserterAt("counting")
    /\ \E n \in 1..MaxBatch :
           inserter' = [at |-> "inserting", next |-> MaxId + 1, left |-> n]
    /\ UNCHANGED <<db, cacheVars, handlerVars, historyVars>>

InserterInserts ==
    /\ InserterAt("inserting")
    /\ inserter.next \notin DOMAIN db /\ inserter.next <= MaxRows
    /\ \E row \in Rows : db' = Put(db, inserter.next, row)
    /\ inserter' = IF inserter.left = 1
                   THEN [at |-> "counting", next |-> 0, left |-> 0]
                   ELSE [at |-> "inserting", next |-> inserter.next + 1,
                         left |-> inserter.left - 1]
    /\ UNCHANGED <<cacheVars, handlerVars, historyVars>>

\* The exception ends the Task of DoDbSamples, which nobody observes.
InserterDies ==
    /\ \/ InserterAt("inserting") /\ (inserter.next \in DOMAIN db \/ inserter.next > MaxRows)
       \/ inserter.at # "dead" /\ DbFaults
    /\ inserter' = [inserter EXCEPT !.at = "dead"]
    /\ UNCHANGED <<db, cacheVars, handlerVars, historyVars>>

\* The business server is started again.
InserterRestarts ==
    /\ inserter.at # "counting"
    /\ inserter' = [at |-> "counting", next |-> 0, left |-> 0]
    /\ UNCHANGED <<db, cacheVars, handlerVars, historyVars>>

-----------------------------------------------------------------------------
Serve(h) ==
    \/ EndQuery(h) \/ QueryThrows(h)
    \/ KeyMissing(h) \/ KeyHeld(h)
    \/ GetMaxId(h) \/ GetMaxIdThrows(h)
    \/ Insert(h) \/ InsertThrows(h) \/ InsertUnconfirmed(h)
    \/ BeginDictionaryAdd(h) \/ EndDictionaryAdd(h)
    \/ EndOverlappedAdd(h) \/ OverlappedAddThrows(h)

Receive(h) ==
    \/ \E i \in DOMAIN cache : FindById(h, i)
    \/ BeginQuery(h)
    \/ \E list \in Adds : ReceiveAdd(h, list)

Inserter == InserterCounts \/ InserterInserts \/ InserterDies \/ InserterRestarts

Next ==
    \/ Load \/ StartServer \/ Crash
    \/ \E h \in Handlers : Receive(h) \/ Serve(h)
    \/ Inserter

Spec == Init /\ [][Next]_vars

\* The thread pool runs every continuation in the end.
FairSpec == Spec /\ \A h \in Handlers : WF_vars(Serve(h))

-----------------------------------------------------------------------------
HandlerStates == {"idle", "enumerating", "check", "maxid", "insert", "dictionary", "adding"}

\* The values the variables take.  The ids of the table, of its rows in flight
\* and of the dictionary are positive integers.
TypeOK ==
    /\ DOMAIN db \subseteq Nat \ {0} /\ db \in [DOMAIN db -> Rows]
    /\ DOMAIN cache \subseteq Nat \ {0} /\ cache \in [DOMAIN cache -> Rows]
    /\ server \in {"down", "loading", "up"}
    /\ corrupt \in BOOLEAN
    /\ pc \in [Handlers -> HandlerStates]
    /\ todo \in [Handlers -> Seq(Entities)]
    /\ id \in [Handlers -> Nat]
    /\ stored \in [Handlers -> SUBSET (Nat \X Rows)]
    /\ overlap \in [Handlers -> SUBSET Rows]
    /\ dirty \subseteq Handlers
    /\ inserter \in [at: {"counting", "inserting", "dead"}, next: Nat, left: Nat]
    /\ told \subseteq Nat \X Rows
    /\ leftBehind \subseteq Nat \X Rows

\* No key is ever added twice: when a handler reaches Dictionary.Add its id is
\* in the table, is not in the dictionary, and is no other handler's.  Nothing
\* in CacheHelper.Add ensures it: ContainsKey looked at another id.
NoDuplicateKey ==
    \A h \in Handlers : pc[h] \in {"dictionary", "adding"} =>
        /\ id[h] \in DOMAIN db /\ db[id[h]] = Entity(h).row
        /\ id[h] \notin DOMAIN cache
        /\ \A g \in Handlers \ {h} : pc[g] \in {"dictionary", "adding"} => id[g] # id[h]

\* Until two Adds overlap, an entry of the dictionary is the table's row.
CacheWithinDb ==
    ~corrupt => \A i \in DOMAIN cache : i \in DOMAIN db /\ cache[i] = db[i]

\* What a client was told is there (by the OK of an add or by a read) is in the
\* table, whatever crashed since.
ToldStored == \A p \in told : p[1] \in DOMAIN db /\ db[p[1]] = p[2]

\* And it is found in the dictionary, before and after every restart, until two
\* Adds overlap.
ToldVisible ==
    server = "up" /\ ~corrupt =>
        \A p \in told : p[1] \in DOMAIN cache /\ cache[p[1]] = p[2]

\* What a list has added so far, and what it had added before it stopped, by a
\* refusal, an exception or a crash, is in the table for good, and whenever the
\* server serves and no two Adds overlapped it is in the dictionary: a list that
\* stops leaves at least its prefix.  (The entity it stopped at may be in the
\* table too: its insert may have been committed and not confirmed.)
PrefixStored ==
    \A h \in Handlers : \A p \in leftBehind \cup stored[h] :
        /\ p \in PairsOf(db)
        /\ server = "up" /\ ~corrupt => p \in PairsOf(cache)

\* The table is a log: nobody's insert leaves a gap in the ids or replaces a
\* row, although max(Id) is read long before it is used.
Log == INSTANCE RowLog WITH log <- db
TableIsLog == Log!Spec

\* A command is answered, or its connection closed.
CommandEnds == \A h \in Handlers : pc[h] # "idle" ~> pc[h] = "idle"

-----------------------------------------------------------------------------
(* A statement of the repository that the code does not keep.              *)

\* README.md:41, InsertCustomerToDBAndCache: what is added reaches both, and
\* they agree, whatever else is added meanwhile.
DbAndCacheAgree ==
    server = "up" => \A i \in DOMAIN cache : i \in DOMAIN db /\ cache[i] = db[i]

=============================================================================
