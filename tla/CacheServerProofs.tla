-------------------------- MODULE CacheServerProofs --------------------------
(***************************************************************************)
(* Proofs about CacheServer, for any handlers, rows, ids and bounds.       *)
(*                                                                         *)
(* The argument: the ids of the table are 1..max(Id), so an id that was    *)
(* max(Id) + 1 at some moment is either still the next one or taken, and   *)
(* every insert that succeeds appends (TableGrows).  A handler that comes  *)
(* to Dictionary.Add therefore owns the id of a fresh row, and what the    *)
(* dictionary holds, what lists have stored and what clients were told all *)
(* stay within the table.                                                  *)
(*                                                                         *)
(* That a command ends rests on a variant, Work, which only falls.         *)
(***************************************************************************)
EXTENDS CacheServer, SequenceTheorems, TLAPS

AddStates == {"check", "maxid", "insert", "dictionary", "adding"}

\* The ids of the table have no gap.
Contiguous == MaxId \in Nat /\ DOMAIN db = 1..MaxId

\* An id that waits to be inserted was max(Id) + 1 some time ago.
PendingIds ==
    /\ \A h \in Handlers : pc[h] = "insert" => id[h] \in 1..(MaxId + 1)
    /\ inserter.at = "inserting" =>
           inserter.next \in 1..(MaxId + 1) /\ inserter.left \in Nat \ {0}

\* A handler that adds has an entity to add; one that does not has stored
\* nothing; without a running server there is no handler and no damage.
HandlerInv ==
    /\ \A h \in Handlers : pc[h] \in AddStates => todo[h] # <<>>
    /\ \A h \in Handlers : pc[h] \notin AddStates => stored[h] = {}
    /\ server # "up" => \A h \in Handlers : pc[h] = "idle"
    /\ server = "down" => cache = Nothing

KeysInDb == DOMAIN cache \subseteq DOMAIN db

\* ToldVisible from the moment the table is loaded.
ToldLoaded ==
    server # "down" /\ ~corrupt =>
        \A p \in told : p[1] \in DOMAIN cache /\ cache[p[1]] = p[2]

\* PrefixStored from the moment the table is loaded.
PrefixLoaded ==
    \A h \in Handlers : \A p \in leftBehind \cup stored[h] :
        /\ p \in PairsOf(db)
        /\ server # "down" /\ ~corrupt => p \in PairsOf(cache)

IInv ==
    /\ TypeOK /\ Contiguous /\ PendingIds /\ HandlerInv /\ KeysInDb
    /\ NoDuplicateKey /\ CacheWithinDb /\ PrefixLoaded
    /\ ToldStored /\ ToldLoaded

-----------------------------------------------------------------------------
(* max(Id), and the entities of a command.                                 *)

\* The largest of the keys 1..n is n.
LEMMA MaxKeyOfRange ==
    ASSUME NEW f, NEW n \in Nat, DOMAIN f = 1..n
    PROVE  MaxKey(f) = n
<1>1. CASE n = 0
  BY <1>1 DEF MaxKey
<1>2. CASE n > 0
  <2>1. n \in DOMAIN f /\ \A j \in DOMAIN f : j <= n
    BY <1>2
  <2>2. DOMAIN f # {}
    BY <2>1
  <2>3. \A i \in DOMAIN f : (\A j \in DOMAIN f : j <= i) => i = n
    BY <2>1
  <2> QED BY <2>1, <2>2, <2>3 DEF MaxKey
<1> QED BY <1>1, <1>2

\* A command's list is a sequence of entities.
LEMMA AddsAreSequences ==
    ASSUME NEW list \in Adds
    PROVE  list \in Seq(Entities)
<1>1. PICK n \in 0..MaxList : list \in [1..n -> Entities]
  BY DEF Adds
<1>2. n \in Nat
  BY <1>1, BoundsAssumption
<1> QED BY <1>1, <1>2, SeqDef

\* The entity a busy handler is adding.
LEMMA EntityFacts ==
    ASSUME IInv, NEW h \in Handlers, pc[h] \in AddStates
    PROVE  /\ todo[h] \in Seq(Entities) /\ todo[h] # <<>>
           /\ Entity(h) \in Entities /\ Entity(h).row \in Rows
           /\ Tail(todo[h]) \in Seq(Entities)
           /\ Len(todo[h]) > 1 => Tail(todo[h]) # <<>>
<1>1. todo[h] \in Seq(Entities) /\ todo[h] # <<>>
  BY DEF IInv, TypeOK, HandlerInv
<1>2. Entity(h) \in Entities /\ Tail(todo[h]) \in Seq(Entities)
  BY <1>1, HeadTailProperties DEF Entity
<1>3. Entity(h).row \in Rows
  BY <1>2 DEF Entities
<1>4. Len(todo[h]) > 1 => Tail(todo[h]) # <<>>
  <2> SUFFICES ASSUME Len(todo[h]) > 1 PROVE Tail(todo[h]) # <<>>
    OBVIOUS
  <2>1. Len(Tail(todo[h])) = Len(todo[h]) - 1
    BY <1>1, HeadTailProperties
  <2>2. Len(todo[h]) \in Nat
    BY <1>1, LenProperties
  <2>3. Len(todo[h]) - 1 # 0
    <3>1. \A n \in Nat : n > 1 => n - 1 # 0
      OBVIOUS
    <3> QED BY <2>2, <3>1
  <2>4. Len(Tail(todo[h])) # 0
    BY <2>1, <2>3, Zenon
  <2> QED BY <2>4, EmptySeq
<1> QED BY <1>1, <1>2, <1>3, <1>4

-----------------------------------------------------------------------------
(* The table only grows.                                                   *)

Appends == \E row \in Rows : db' = Put(db, MaxId + 1, row)

\* The heart of the matter: whoever inserts, and however long ago it read
\* max(Id), a step leaves the table alone or appends the next id.
LEMMA TableGrows ==
    ASSUME IInv, [Next]_vars
    PROVE  UNCHANGED db \/ Appends
<1>1. ASSUME NEW h \in Handlers, Insert(h) \/ InsertUnconfirmed(h)
      PROVE  Appends
  <2>1. /\ pc[h] = "insert" /\ id[h] \notin DOMAIN db
        /\ db' = Put(db, id[h], Entity(h).row)
    BY <1>1 DEF Insert, InsertUnconfirmed, At
  <2>2. id[h] \in 1..(MaxId + 1) /\ MaxId \in Nat /\ DOMAIN db = 1..MaxId
    BY <2>1 DEF IInv, PendingIds, Contiguous
  <2>3. id[h] = MaxId + 1
    BY <2>1, <2>2
  <2>4. Entity(h).row \in Rows
    BY <2>1, EntityFacts DEF AddStates
  <2> QED BY <2>1, <2>3, <2>4 DEF Appends
<1>2. CASE InserterInserts
  <2>1. inserter.at = "inserting" /\ inserter.next \notin DOMAIN db
    BY <1>2 DEF InserterInserts, InserterAt
  <2>2. /\ inserter.next \in 1..(MaxId + 1) /\ MaxId \in Nat
        /\ DOMAIN db = 1..MaxId
    BY <2>1 DEF IInv, PendingIds, Contiguous
  <2>3. inserter.next = MaxId + 1
    BY <2>1, <2>2
  <2> QED BY <1>2, <2>3 DEF InserterInserts, Appends
<1>3. ASSUME Load \/ StartServer \/ Crash \/ InserterCounts \/ InserterDies
             \/ InserterRestarts
      PROVE  UNCHANGED db
  BY <1>3 DEF Load, StartServer, Crash, InserterCounts, InserterDies, InserterRestarts
<1>4. ASSUME NEW h \in Handlers, Receive(h)
      PROVE  UNCHANGED db
  BY <1>4 DEF Receive, FindById, BeginQuery, ReceiveAdd
<1>5. ASSUME NEW h \in Handlers, Serve(h), ~Insert(h), ~InsertUnconfirmed(h)
      PROVE  UNCHANGED db
  BY <1>5 DEF Serve, EndQuery, QueryThrows, KeyMissing, KeyHeld, GetMaxId, GetMaxIdThrows,
     InsertThrows, BeginDictionaryAdd, EndDictionaryAdd, EndOverlappedAdd,
     OverlappedAddThrows
<1>6. CASE UNCHANGED vars
  BY <1>6 DEF vars
<1> QED BY <1>1, <1>2, <1>3, <1>4, <1>5, <1>6 DEF Next, Inserter

\* Hence the ids stay contiguous, and every row stays where it is.
LEMMA TableSteps ==
    ASSUME IInv, [Next]_vars
    PROVE  /\ Contiguous'
           /\ MaxId' \in Nat /\ MaxId <= MaxId'
           /\ DOMAIN db' \subseteq Nat \ {0} /\ db' \in [DOMAIN db' -> Rows]
           /\ DOMAIN db \subseteq DOMAIN db'
           /\ \A i \in DOMAIN db : db'[i] = db[i]
<1>0. /\ MaxId \in Nat /\ DOMAIN db = 1..MaxId
      /\ DOMAIN db \subseteq Nat \ {0} /\ db \in [DOMAIN db -> Rows]
  BY DEF IInv, Contiguous, TypeOK
<1>1. CASE UNCHANGED db
  <2>1. MaxId' = MaxId
    BY <1>1 DEF MaxId
  <2> QED BY <1>0, <1>1, <2>1 DEF Contiguous
<1>2. CASE Appends
  <2>1. PICK row \in Rows : db' = Put(db, MaxId + 1, row)
    BY <1>2 DEF Appends
  <2>2. /\ DOMAIN db' = DOMAIN db \cup {MaxId + 1}
        /\ db' \in [DOMAIN db' -> Rows]
        /\ \A i \in DOMAIN db \ {MaxId + 1} : db'[i] = db[i]
    BY <1>0, <2>1 DEF Put
  <2>3. MaxId + 1 \in Nat /\ DOMAIN db' = 1..(MaxId + 1)
    BY <1>0, <2>2
  <2>4. MaxId' = MaxId + 1
    BY <2>3, MaxKeyOfRange DEF MaxId
  <2>5. MaxId + 1 \notin DOMAIN db
    BY <1>0
  <2> QED BY <1>0, <2>2, <2>3, <2>4, <2>5 DEF Contiguous
<1> QED BY <1>1, <1>2, TableGrows

-----------------------------------------------------------------------------
(* Each part of the invariant, action by action.                           *)

TypeCache ==
    /\ DOMAIN cache \subseteq Nat \ {0} /\ cache \in [DOMAIN cache -> Rows]
    /\ server \in {"down", "loading", "up"}
    /\ corrupt \in BOOLEAN
    /\ dirty \subseteq Handlers

TypeHandlers ==
    /\ pc \in [Handlers -> HandlerStates]
    /\ todo \in [Handlers -> Seq(Entities)]
    /\ id \in [Handlers -> Nat]
    /\ stored \in [Handlers -> SUBSET (Nat \X Rows)]
    /\ overlap \in [Handlers -> SUBSET Rows]

TypeRest ==
    /\ inserter \in [at: {"counting", "inserting", "dead"}, next: Nat, left: Nat]
    /\ told \subseteq Nat \X Rows
    /\ leftBehind \subseteq Nat \X Rows

TypeDb == DOMAIN db \subseteq Nat \ {0} /\ db \in [DOMAIN db -> Rows]

LEMMA TypeParts == TypeOK <=> TypeDb /\ TypeCache /\ TypeHandlers /\ TypeRest
BY DEF TypeOK, TypeDb, TypeCache, TypeHandlers, TypeRest

\* The dictionary holds rows under positive ids.
LEMMA TypeCacheStep ==
    ASSUME IInv, [Next]_vars
    PROVE  TypeCache'
<1>1. CASE Load
  BY <1>1 DEF Load, cacheVars, handlerVars, historyVars, TypeCache, IInv, TypeOK, Nothing
<1>2. CASE StartServer
  BY <1>2 DEF StartServer, cacheVars, handlerVars, historyVars, TypeCache, IInv, TypeOK,
     Nothing
<1>3. CASE Crash
  BY <1>3 DEF Crash, cacheVars, handlerVars, historyVars, TypeCache, IInv, TypeOK, Nothing
<1>4. CASE InserterCounts
  BY <1>4 DEF InserterCounts, InserterAt, cacheVars, handlerVars, historyVars, TypeCache,
     IInv, TypeOK, Nothing
<1>5. CASE InserterInserts
  BY <1>5 DEF InserterInserts, InserterAt, cacheVars, handlerVars, historyVars, TypeCache,
     IInv, TypeOK, Nothing
<1>6. CASE InserterDies
  BY <1>6 DEF InserterDies, InserterAt, cacheVars, handlerVars, historyVars, TypeCache,
     IInv, TypeOK, Nothing
<1>7. CASE InserterRestarts
  BY <1>7 DEF InserterRestarts, InserterAt, cacheVars, handlerVars, historyVars, TypeCache,
     IInv, TypeOK, Nothing
<1>8. ASSUME NEW h \in Handlers, Receive(h) \/ Serve(h)
      PROVE  TypeCache'
  <2>1. CASE \E i \in DOMAIN cache : FindById(h, i)
    BY <2>1 DEF FindById, At, Tell, cacheVars, handlerVars, historyVars, TypeCache, IInv,
       TypeOK, Nothing
  <2>2. CASE BeginQuery(h)
    BY <2>2 DEF BeginQuery, At, Goto, cacheVars, handlerVars, historyVars, TypeCache, IInv,
       TypeOK, Nothing
  <2>3. CASE EndQuery(h)
    BY <2>3 DEF EndQuery, At, Goto, Tell, cacheVars, handlerVars, historyVars, TypeCache,
       IInv, TypeOK, Nothing
  <2>4. CASE QueryThrows(h)
    BY <2>4 DEF QueryThrows, At, Drop, Goto, cacheVars, handlerVars, historyVars,
       TypeCache, IInv, TypeOK, Nothing
  <2>5. CASE \E list \in Adds : ReceiveAdd(h, list)
    BY <2>5 DEF ReceiveAdd, At, Goto, cacheVars, handlerVars, historyVars, TypeCache, IInv,
       TypeOK, Nothing
  <2>6. CASE KeyMissing(h)
    BY <2>6 DEF KeyMissing, At, Goto, cacheVars, handlerVars, historyVars, TypeCache, IInv,
       TypeOK, Nothing
  <2>7. CASE KeyHeld(h)
    BY <2>7 DEF KeyHeld, At, Drop, Goto, cacheVars, handlerVars, historyVars, TypeCache,
       IInv, TypeOK, Nothing
  <2>8. CASE GetMaxId(h)
    BY <2>8 DEF GetMaxId, At, Goto, cacheVars, handlerVars, historyVars, TypeCache, IInv,
       TypeOK, Nothing
  <2>9. CASE Insert(h)
    BY <2>9 DEF Insert, At, Goto, cacheVars, handlerVars, historyVars, TypeCache, IInv,
       TypeOK, Nothing
  <2>10. CASE InsertThrows(h)
    BY <2>10 DEF InsertThrows, At, Drop, Goto, cacheVars, handlerVars, historyVars,
       TypeCache, IInv, TypeOK, Nothing
  <2>11. CASE InsertUnconfirmed(h)
    BY <2>11 DEF InsertUnconfirmed, At, Drop, Goto, cacheVars, handlerVars, historyVars,
       TypeCache, IInv, TypeOK, Nothing
  <2>12. CASE BeginDictionaryAdd(h)
    BY <2>12 DEF BeginDictionaryAdd, At, Goto, cacheVars, handlerVars, historyVars,
       TypeCache, IInv, TypeOK, Nothing
  <2>13. CASE EndDictionaryAdd(h)
    <3>1. id[h] \in DOMAIN db /\ id[h] \in Nat \ {0} /\ Entity(h).row \in Rows
      BY <2>13, EntityFacts DEF EndDictionaryAdd, At, AddStates, IInv, NoDuplicateKey, TypeOK
    <3>2. cache' = Put(cache, id[h], Entity(h).row)
      BY <2>13 DEF EndDictionaryAdd
    <3>3. DOMAIN cache' \subseteq Nat \ {0} /\ cache' \in [DOMAIN cache' -> Rows]
      BY <3>1, <3>2 DEF Put, IInv, TypeOK
    <3> QED BY <2>13, <3>3 DEF EndDictionaryAdd, Overtake, TypeCache, IInv, TypeOK
  <2>14. CASE EndOverlappedAdd(h)
    <3>1. /\ id[h] \in Nat \ {0} /\ Entity(h).row \in Rows
          /\ overlap[h] \subseteq Rows
      BY <2>14, EntityFacts DEF EndOverlappedAdd, At, AddStates, IInv,
         NoDuplicateKey, TypeOK
    <3>2. PICK kept \in SUBSET (DOMAIN cache \cup {id[h]}),
               row \in overlap[h] \cup {Entity(h).row} :
               cache' = [i \in kept |-> Put(cache, id[h], row)[i]]
      BY <2>14 DEF EndOverlappedAdd, TornDictionary
    <3>3. /\ DOMAIN Put(cache, id[h], row) = DOMAIN cache \cup {id[h]}
          /\ Put(cache, id[h], row) \in [DOMAIN Put(cache, id[h], row) -> Rows]
      BY <3>1 DEF Put, IInv, TypeOK
    <3>4. DOMAIN cache' \subseteq Nat \ {0} /\ cache' \in [DOMAIN cache' -> Rows]
      BY <3>1, <3>2, <3>3 DEF IInv, TypeOK
    <3> QED BY <2>14, <3>4 DEF EndOverlappedAdd, TornDictionary, Overtake,
            TypeCache, IInv, TypeOK
  <2>15. CASE OverlappedAddThrows(h)
    <3>1. /\ id[h] \in Nat \ {0} /\ Entity(h).row \in Rows
          /\ overlap[h] \subseteq Rows
      BY <2>15, EntityFacts DEF OverlappedAddThrows, At, AddStates, IInv,
         NoDuplicateKey, TypeOK
    <3>2. PICK kept \in SUBSET (DOMAIN cache \cup {id[h]}),
               row \in overlap[h] \cup {Entity(h).row} :
               cache' = [i \in kept |-> Put(cache, id[h], row)[i]]
      BY <2>15 DEF OverlappedAddThrows, TornDictionary
    <3>3. /\ DOMAIN Put(cache, id[h], row) = DOMAIN cache \cup {id[h]}
          /\ Put(cache, id[h], row) \in [DOMAIN Put(cache, id[h], row) -> Rows]
      BY <3>1 DEF Put, IInv, TypeOK
    <3>4. DOMAIN cache' \subseteq Nat \ {0} /\ cache' \in [DOMAIN cache' -> Rows]
      BY <3>1, <3>2, <3>3 DEF IInv, TypeOK
    <3> QED BY <2>15, <3>4 DEF OverlappedAddThrows, TornDictionary, Overtake,
            TypeCache, IInv, TypeOK
  <2>16. CASE GetMaxIdThrows(h)
    BY <2>16 DEF GetMaxIdThrows, At, Drop, Goto, cacheVars, handlerVars, historyVars,
       TypeCache, IInv, TypeOK, Nothing
  <2> QED BY <1>8, <2>1, <2>2, <2>3, <2>4, <2>5, <2>6, <2>7, <2>8, <2>9,
             <2>10, <2>11, <2>12, <2>13, <2>14, <2>15, <2>16 DEF Receive, Serve
<1>9. CASE UNCHANGED vars
  BY <1>9 DEF vars, cacheVars, handlerVars, historyVars, TypeCache, IInv, TypeOK, Nothing
<1> QED BY <1>1, <1>2, <1>3, <1>4, <1>5, <1>6, <1>7, <1>8, <1>9 DEF Next,
           Inserter

\* The handlers keep sequences of entities, ids and sets of rows.
LEMMA TypeHandlersStep ==
    ASSUME IInv, [Next]_vars
    PROVE  TypeHandlers'
<1>1. CASE Load
  BY <1>1 DEF Load, cacheVars, handlerVars, historyVars, TypeHandlers, HandlerStates, IInv,
     TypeOK
<1>2. CASE StartServer
  BY <1>2 DEF StartServer, cacheVars, handlerVars, historyVars, TypeHandlers,
     HandlerStates, IInv, TypeOK
<1>3. CASE Crash
  BY <1>3, EmptySeq DEF Crash, TypeHandlers, HandlerStates, IInv, TypeOK
<1>4. CASE InserterCounts
  BY <1>4 DEF InserterCounts, InserterAt, cacheVars, handlerVars, historyVars,
     TypeHandlers, HandlerStates, IInv, TypeOK
<1>5. CASE InserterInserts
  BY <1>5 DEF InserterInserts, InserterAt, cacheVars, handlerVars, historyVars,
     TypeHandlers, HandlerStates, IInv, TypeOK
<1>6. CASE InserterDies
  BY <1>6 DEF InserterDies, InserterAt, cacheVars, handlerVars, historyVars, TypeHandlers,
     HandlerStates, IInv, TypeOK
<1>7. CASE InserterRestarts
  BY <1>7 DEF InserterRestarts, InserterAt, cacheVars, handlerVars, historyVars,
     TypeHandlers, HandlerStates, IInv, TypeOK
<1>8. ASSUME NEW h \in Handlers, Receive(h) \/ Serve(h)
      PROVE  TypeHandlers'
  <2>1. CASE \E i \in DOMAIN cache : FindById(h, i)
    BY <2>1 DEF FindById, At, Tell, cacheVars, handlerVars, historyVars, TypeHandlers,
       HandlerStates, IInv, TypeOK
  <2>2. CASE BeginQuery(h)
    BY <2>2 DEF BeginQuery, At, Goto, cacheVars, handlerVars, historyVars, TypeHandlers,
       HandlerStates, IInv, TypeOK
  <2>3. CASE EndQuery(h)
    BY <2>3 DEF EndQuery, At, Goto, Tell, cacheVars, handlerVars, historyVars,
       TypeHandlers, HandlerStates, IInv, TypeOK
  <2>4. CASE QueryThrows(h)
    BY <2>4, EmptySeq DEF QueryThrows, Drop, Goto, TypeHandlers, HandlerStates, IInv, TypeOK
  <2>5. CASE \E list \in Adds : ReceiveAdd(h, list)
    BY <2>5, AddsAreSequences DEF ReceiveAdd, Goto, TypeHandlers, HandlerStates,
       IInv, TypeOK
  <2>6. CASE KeyMissing(h)
    BY <2>6 DEF KeyMissing, At, Goto, cacheVars, handlerVars, historyVars, TypeHandlers,
       HandlerStates, IInv, TypeOK
  <2>7. CASE KeyHeld(h)
    BY <2>7, EmptySeq DEF KeyHeld, Drop, Goto, TypeHandlers, HandlerStates, IInv, TypeOK
  <2>8. CASE GetMaxId(h)
    BY <2>8 DEF GetMaxId, Goto, TypeHandlers, HandlerStates, IInv, TypeOK, Contiguous
  <2>9. CASE Insert(h)
    BY <2>9 DEF Insert, At, Goto, cacheVars, handlerVars, historyVars, TypeHandlers,
       HandlerStates, IInv, TypeOK
  <2>10. CASE InsertThrows(h)
    BY <2>10, EmptySeq DEF InsertThrows, Drop, Goto, TypeHandlers, HandlerStates, IInv, TypeOK
  <2>11. CASE InsertUnconfirmed(h)
    BY <2>11, EmptySeq DEF InsertUnconfirmed, Drop, Goto, TypeHandlers, HandlerStates, IInv, TypeOK
  <2>12. CASE BeginDictionaryAdd(h)
    <3>1. Entity(h).row \in Rows /\ \A k \in Adding : Entity(k).row \in Rows
      BY <2>12, EntityFacts DEF BeginDictionaryAdd, At, AddStates, Adding
    <3>2. overlap' \in [Handlers -> SUBSET Rows]
      BY <2>12, <3>1 DEF BeginDictionaryAdd, IInv, TypeOK
    <3> QED BY <2>12, <3>2 DEF BeginDictionaryAdd, Goto, TypeHandlers,
            HandlerStates, IInv, TypeOK
  <2>13. CASE EndDictionaryAdd(h)
    <3>1. /\ Entity(h).row \in Rows /\ Tail(todo[h]) \in Seq(Entities)
          /\ id[h] \in Nat
      BY <2>13, EntityFacts DEF EndDictionaryAdd, At, AddStates, IInv, TypeOK
    <3>2. stored[h] \cup {<<id[h], Entity(h).row>>} \in SUBSET (Nat \X Rows)
      BY <3>1 DEF IInv, TypeOK
    <3>3. pc' \in [Handlers -> HandlerStates]
      BY <2>13 DEF EndDictionaryAdd, NextEntity, Goto, HandlerStates, IInv, TypeOK
    <3>4. todo' \in [Handlers -> Seq(Entities)]
      BY <2>13, <3>1 DEF EndDictionaryAdd, NextEntity, IInv, TypeOK
    <3>5. id' \in [Handlers -> Nat]
      <4>1. id' = id \/ id' = [id EXCEPT ![h] = 0]
        BY <2>13 DEF EndDictionaryAdd, NextEntity
      <4>2. id \in [Handlers -> Nat]
        BY DEF IInv, TypeOK
      <4> QED BY <4>1, <4>2
    <3>6. stored' \in [Handlers -> SUBSET (Nat \X Rows)]
      BY <2>13, <3>2 DEF EndDictionaryAdd, NextEntity, IInv, TypeOK
    <3>7. overlap' \in [Handlers -> SUBSET Rows]
      BY <2>13 DEF EndDictionaryAdd, NextEntity, IInv, TypeOK
    <3> QED BY <3>3, <3>4, <3>5, <3>6, <3>7 DEF TypeHandlers
  <2>14. CASE EndOverlappedAdd(h)
    <3>1. /\ Entity(h).row \in Rows /\ Tail(todo[h]) \in Seq(Entities)
          /\ id[h] \in Nat
      BY <2>14, EntityFacts DEF EndOverlappedAdd, At, AddStates, IInv, TypeOK
    <3>2. stored[h] \cup {<<id[h], Entity(h).row>>} \in SUBSET (Nat \X Rows)
      BY <3>1 DEF IInv, TypeOK
    <3>3. pc' \in [Handlers -> HandlerStates]
      BY <2>14 DEF EndOverlappedAdd, NextEntity, Goto, HandlerStates, IInv, TypeOK
    <3>4. todo' \in [Handlers -> Seq(Entities)]
      BY <2>14, <3>1 DEF EndOverlappedAdd, NextEntity, IInv, TypeOK
    <3>5. id' \in [Handlers -> Nat]
      <4>1. id' = id \/ id' = [id EXCEPT ![h] = 0]
        BY <2>14 DEF EndOverlappedAdd, NextEntity
      <4>2. id \in [Handlers -> Nat]
        BY DEF IInv, TypeOK
      <4> QED BY <4>1, <4>2
    <3>6. stored' \in [Handlers -> SUBSET (Nat \X Rows)]
      BY <2>14, <3>2 DEF EndOverlappedAdd, NextEntity, IInv, TypeOK
    <3>7. overlap' \in [Handlers -> SUBSET Rows]
      BY <2>14 DEF EndOverlappedAdd, NextEntity, IInv, TypeOK
    <3> QED BY <3>3, <3>4, <3>5, <3>6, <3>7 DEF TypeHandlers
  <2>15. CASE OverlappedAddThrows(h)
    BY <2>15, EmptySeq DEF OverlappedAddThrows, Drop, Goto, TypeHandlers, HandlerStates, IInv, TypeOK
  <2>16. CASE GetMaxIdThrows(h)
    BY <2>16, EmptySeq DEF GetMaxIdThrows, Drop, Goto, TypeHandlers, HandlerStates, IInv, TypeOK
  <2> QED BY <1>8, <2>1, <2>2, <2>3, <2>4, <2>5, <2>6, <2>7, <2>8, <2>9,
             <2>10, <2>11, <2>12, <2>13, <2>14, <2>15, <2>16 DEF Receive, Serve
<1>9. CASE UNCHANGED vars
  BY <1>9 DEF vars, cacheVars, handlerVars, historyVars, TypeHandlers, HandlerStates, IInv,
     TypeOK
<1> QED BY <1>1, <1>2, <1>3, <1>4, <1>5, <1>6, <1>7, <1>8, <1>9 DEF Next,
           Inserter

\* The inserter counts in naturals; what clients were told are rows.
LEMMA TypeRestStep ==
    ASSUME IInv, [Next]_vars
    PROVE  TypeRest'
<1>1. CASE Load
  BY <1>1 DEF Load, cacheVars, handlerVars, historyVars, TypeRest, IInv, TypeOK
<1>2. CASE StartServer
  BY <1>2 DEF StartServer, cacheVars, handlerVars, historyVars, TypeRest, IInv, TypeOK
<1>3. CASE Crash
  BY <1>3 DEF Crash, cacheVars, handlerVars, historyVars, TypeRest, IInv, TypeOK
<1>4. CASE InserterCounts
  BY <1>4, BoundsAssumption DEF InserterCounts, historyVars, TypeRest, IInv, TypeOK,
     Contiguous
<1>5. CASE InserterInserts
  <2>1. inserter.next + 1 \in Nat
    BY DEF IInv, TypeOK
  <2>2. inserter.left - 1 \in Nat
    BY <1>5 DEF InserterInserts, InserterAt, IInv, PendingIds
  <2> QED BY <1>5, <2>1, <2>2 DEF InserterInserts, historyVars, TypeRest, IInv, TypeOK
<1>6. CASE InserterDies
  BY <1>6 DEF InserterDies, InserterAt, cacheVars, handlerVars, historyVars, TypeRest,
     IInv, TypeOK
<1>7. CASE InserterRestarts
  BY <1>7 DEF InserterRestarts, InserterAt, cacheVars, handlerVars, historyVars, TypeRest,
     IInv, TypeOK
<1>8. ASSUME NEW h \in Handlers, Receive(h) \/ Serve(h)
      PROVE  TypeRest'
  <2>1. CASE \E i \in DOMAIN cache : FindById(h, i)
    BY <2>1 DEF FindById, At, Tell, cacheVars, handlerVars, historyVars, TypeRest, IInv,
       TypeOK
  <2>2. CASE BeginQuery(h)
    BY <2>2 DEF BeginQuery, At, Goto, cacheVars, handlerVars, historyVars, TypeRest, IInv,
       TypeOK
  <2>3. CASE EndQuery(h)
    BY <2>3 DEF EndQuery, Tell, PairsOf, TypeRest, IInv, TypeOK
  <2>4. CASE QueryThrows(h)
    BY <2>4 DEF QueryThrows, At, Drop, Goto, cacheVars, handlerVars, historyVars, TypeRest,
       IInv, TypeOK
  <2>5. CASE \E list \in Adds : ReceiveAdd(h, list)
    BY <2>5 DEF ReceiveAdd, At, Goto, cacheVars, handlerVars, historyVars, TypeRest, IInv,
       TypeOK
  <2>6. CASE KeyMissing(h)
    BY <2>6 DEF KeyMissing, At, Goto, cacheVars, handlerVars, historyVars, TypeRest, IInv,
       TypeOK
  <2>7. CASE KeyHeld(h)
    BY <2>7 DEF KeyHeld, At, Drop, Goto, cacheVars, handlerVars, historyVars, TypeRest,
       IInv, TypeOK
  <2>8. CASE GetMaxId(h)
    BY <2>8 DEF GetMaxId, At, Goto, cacheVars, handlerVars, historyVars, TypeRest, IInv,
       TypeOK
  <2>9. CASE Insert(h)
    BY <2>9 DEF Insert, At, Goto, cacheVars, handlerVars, historyVars, TypeRest, IInv,
       TypeOK
  <2>10. CASE InsertThrows(h)
    BY <2>10 DEF InsertThrows, At, Drop, Goto, cacheVars, handlerVars, historyVars,
       TypeRest, IInv, TypeOK
  <2>11. CASE InsertUnconfirmed(h)
    BY <2>11 DEF InsertUnconfirmed, At, Drop, Goto, cacheVars, handlerVars, historyVars,
       TypeRest, IInv, TypeOK
  <2>12. CASE BeginDictionaryAdd(h)
    BY <2>12 DEF BeginDictionaryAdd, At, Goto, cacheVars, handlerVars, historyVars,
       TypeRest, IInv, TypeOK
  <2>13. CASE EndDictionaryAdd(h)
    <3>1. Entity(h).row \in Rows /\ id[h] \in Nat /\ stored[h] \subseteq Nat \X Rows
      BY <2>13, EntityFacts DEF EndDictionaryAdd, At, AddStates, IInv, TypeOK
    <3> QED BY <2>13, <3>1 DEF EndDictionaryAdd, NextEntity, TypeRest, IInv, TypeOK
  <2>14. CASE EndOverlappedAdd(h)
    <3>1. Entity(h).row \in Rows /\ id[h] \in Nat /\ stored[h] \subseteq Nat \X Rows
      BY <2>14, EntityFacts DEF EndOverlappedAdd, At, AddStates, IInv, TypeOK
    <3> QED BY <2>14, <3>1 DEF EndOverlappedAdd, NextEntity, TypeRest, IInv, TypeOK
  <2>15. CASE OverlappedAddThrows(h)
    BY <2>15 DEF OverlappedAddThrows, At, Drop, Goto, TornDictionary,
       Overtake, cacheVars, handlerVars, historyVars, TypeRest, IInv, TypeOK
  <2>16. CASE GetMaxIdThrows(h)
    BY <2>16 DEF GetMaxIdThrows, At, Drop, Goto, cacheVars, handlerVars, historyVars,
       TypeRest, IInv, TypeOK
  <2> QED BY <1>8, <2>1, <2>2, <2>3, <2>4, <2>5, <2>6, <2>7, <2>8, <2>9,
             <2>10, <2>11, <2>12, <2>13, <2>14, <2>15, <2>16 DEF Receive, Serve
<1>9. CASE UNCHANGED vars
  BY <1>9 DEF vars, cacheVars, handlerVars, historyVars, TypeRest, IInv, TypeOK
<1> QED BY <1>1, <1>2, <1>3, <1>4, <1>5, <1>6, <1>7, <1>8, <1>9 DEF Next,
           Inserter

\* No id in flight is beyond the next one.
LEMMA PendingIdsStep ==
    ASSUME IInv, [Next]_vars
    PROVE  PendingIds'
<1>0. MaxId \in Nat /\ MaxId' \in Nat /\ MaxId <= MaxId'
  BY TableSteps DEF IInv, Contiguous
<1>1. CASE Load
  BY <1>1, <1>0 DEF Load, cacheVars, handlerVars, historyVars, PendingIds, IInv, TypeOK
<1>2. CASE StartServer
  BY <1>2, <1>0 DEF StartServer, cacheVars, handlerVars, historyVars, PendingIds, IInv,
     TypeOK
<1>3. CASE Crash
  BY <1>3, <1>0 DEF Crash, cacheVars, handlerVars, historyVars, PendingIds, IInv, TypeOK
<1>4. CASE InserterCounts
  BY <1>4, <1>0, BoundsAssumption DEF InserterCounts, cacheVars,
     handlerVars, historyVars, PendingIds, IInv, TypeOK
<1>5. CASE InserterInserts
  <2>1. MaxId' = MaxId + 1
    <3>1. /\ inserter.next \in 1..(MaxId + 1) /\ inserter.next \notin DOMAIN db
          /\ DOMAIN db = 1..MaxId
      BY <1>5 DEF InserterInserts, InserterAt, IInv, PendingIds, Contiguous
    <3>2. inserter.next = MaxId + 1
      BY <1>0, <3>1
    <3>3. MaxId + 1 \in DOMAIN db'
      BY <1>5, <3>2 DEF InserterInserts, Put
    <3>4. DOMAIN db' = DOMAIN db \cup {MaxId + 1} /\ DOMAIN db' = 1..MaxId'
      BY <1>5, <3>2, TableSteps DEF InserterInserts, Put, Contiguous
    <3> QED BY <1>0, <3>1, <3>3, <3>4
  <2>2. inserter.next = MaxId + 1
    BY <1>5, <1>0 DEF InserterInserts, InserterAt, IInv, PendingIds, Contiguous
  <2>3. inserter'.at = "inserting" => /\ inserter'.next = inserter.next + 1
                                      /\ inserter'.left = inserter.left - 1
                                      /\ inserter.left # 1
    BY <1>5 DEF InserterInserts, IInv, TypeOK
  <2>4. inserter.left \in Nat \ {0}
    BY <1>5 DEF InserterInserts, InserterAt, IInv, PendingIds
  <2>5. \A h \in Handlers : pc'[h] = "insert" => id'[h] \in 1..(MaxId' + 1)
    BY <1>5, <1>0 DEF InserterInserts, handlerVars, IInv, PendingIds, TypeOK
  <2> QED BY <1>0, <2>1, <2>2, <2>3, <2>4, <2>5 DEF PendingIds
<1>6. CASE InserterDies
  BY <1>6, <1>0 DEF InserterDies, InserterAt, cacheVars, handlerVars, historyVars,
     PendingIds, IInv, TypeOK
<1>7. CASE InserterRestarts
  BY <1>7, <1>0 DEF InserterRestarts, InserterAt, cacheVars, handlerVars, historyVars,
     PendingIds, IInv, TypeOK
<1>8. ASSUME NEW h \in Handlers, Receive(h) \/ Serve(h)
      PROVE  PendingIds'
  <2>1. CASE \E i \in DOMAIN cache : FindById(h, i)
    BY <2>1, <1>0 DEF FindById, At, Tell, cacheVars, handlerVars, historyVars, PendingIds,
       IInv, TypeOK
  <2>2. CASE BeginQuery(h)
    BY <2>2, <1>0 DEF BeginQuery, At, Goto, cacheVars, handlerVars, historyVars,
       PendingIds, IInv, TypeOK
  <2>3. CASE EndQuery(h)
    BY <2>3, <1>0 DEF EndQuery, At, Goto, Tell, cacheVars, handlerVars, historyVars,
       PendingIds, IInv, TypeOK
  <2>4. CASE QueryThrows(h)
    BY <2>4, <1>0 DEF QueryThrows, At, Drop, Goto, cacheVars, handlerVars, historyVars,
       PendingIds, IInv, TypeOK
  <2>5. CASE \E list \in Adds : ReceiveAdd(h, list)
    BY <2>5, <1>0 DEF ReceiveAdd, At, Goto, cacheVars, handlerVars, historyVars,
       PendingIds, IInv, TypeOK
  <2>6. CASE KeyMissing(h)
    BY <2>6, <1>0 DEF KeyMissing, At, Goto, cacheVars, handlerVars, historyVars,
       PendingIds, IInv, TypeOK
  <2>7. CASE KeyHeld(h)
    BY <2>7, <1>0 DEF KeyHeld, At, Drop, Goto, cacheVars, handlerVars, historyVars,
       PendingIds, IInv, TypeOK
  <2>8. CASE GetMaxId(h)
    BY <2>8, <1>0 DEF GetMaxId, At, Goto, cacheVars, handlerVars, historyVars, PendingIds,
       IInv, TypeOK
  <2>9. CASE Insert(h)
    BY <2>9, <1>0 DEF Insert, At, Goto, cacheVars, handlerVars, historyVars, PendingIds,
       IInv, TypeOK
  <2>10. CASE InsertThrows(h)
    BY <2>10, <1>0 DEF InsertThrows, At, Drop, Goto, cacheVars, handlerVars, historyVars,
       PendingIds, IInv, TypeOK
  <2>11. CASE InsertUnconfirmed(h)
    BY <2>11, <1>0 DEF InsertUnconfirmed, At, Drop, Goto, cacheVars,
       handlerVars, historyVars, PendingIds, IInv, TypeOK
  <2>12. CASE BeginDictionaryAdd(h)
    BY <2>12, <1>0 DEF BeginDictionaryAdd, At, Goto, cacheVars, handlerVars, historyVars,
       PendingIds, IInv, TypeOK
  <2>13. CASE EndDictionaryAdd(h)
    <3>1. /\ UNCHANGED <<db, inserter>>
          /\ \A g \in Handlers : pc'[g] = "insert" => pc[g] = "insert" /\ g # h
      BY <2>13 DEF EndDictionaryAdd, NextEntity, Goto, IInv, TypeOK
    <3>2. id' = id \/ id' = [id EXCEPT ![h] = 0]
      BY <2>13 DEF EndDictionaryAdd, NextEntity
    <3>3. \A g \in Handlers : g # h => id'[g] = id[g]
      BY <3>2 DEF IInv, TypeOK
    <3> QED BY <1>0, <3>1, <3>3 DEF PendingIds, IInv
  <2>14. CASE EndOverlappedAdd(h)
    <3>1. /\ UNCHANGED <<db, inserter>>
          /\ \A g \in Handlers : pc'[g] = "insert" => pc[g] = "insert" /\ g # h
      BY <2>14 DEF EndOverlappedAdd, NextEntity, Goto, IInv, TypeOK
    <3>2. id' = id \/ id' = [id EXCEPT ![h] = 0]
      BY <2>14 DEF EndOverlappedAdd, NextEntity
    <3>3. \A g \in Handlers : g # h => id'[g] = id[g]
      BY <3>2 DEF IInv, TypeOK
    <3> QED BY <1>0, <3>1, <3>3 DEF PendingIds, IInv
  <2>15. CASE OverlappedAddThrows(h)
    BY <2>15, <1>0 DEF OverlappedAddThrows, At, Drop, Goto, TornDictionary,
       Overtake, cacheVars, handlerVars, historyVars, PendingIds, IInv, TypeOK
  <2>16. CASE GetMaxIdThrows(h)
    BY <2>16, <1>0 DEF GetMaxIdThrows, At, Drop, Goto, cacheVars, handlerVars, historyVars,
       PendingIds, IInv, TypeOK
  <2> QED BY <1>8, <2>1, <2>2, <2>3, <2>4, <2>5, <2>6, <2>7, <2>8, <2>9,
             <2>10, <2>11, <2>12, <2>13, <2>14, <2>15, <2>16 DEF Receive, Serve
<1>9. CASE UNCHANGED vars
  BY <1>9, <1>0 DEF vars, cacheVars, handlerVars, historyVars, PendingIds, IInv, TypeOK
<1> QED BY <1>1, <1>2, <1>3, <1>4, <1>5, <1>6, <1>7, <1>8, <1>9 DEF Next,
           Inserter

\* Handlers that add have entities, the others have nothing stored.
LEMMA HandlerInvStep ==
    ASSUME IInv, [Next]_vars
    PROVE  HandlerInv'
<1>1. CASE Load
  BY <1>1 DEF Load, cacheVars, handlerVars, historyVars, HandlerInv, AddStates, IInv,
     TypeOK
<1>2. CASE StartServer
  BY <1>2 DEF StartServer, cacheVars, handlerVars, historyVars, HandlerInv, AddStates,
     IInv, TypeOK
<1>3. CASE Crash
  BY <1>3 DEF Crash, cacheVars, handlerVars, historyVars, HandlerInv, AddStates, IInv,
     TypeOK
<1>4. CASE InserterCounts
  BY <1>4 DEF InserterCounts, InserterAt, cacheVars, handlerVars, historyVars, HandlerInv,
     AddStates, IInv, TypeOK
<1>5. CASE InserterInserts
  BY <1>5 DEF InserterInserts, InserterAt, cacheVars, handlerVars, historyVars, HandlerInv,
     AddStates, IInv, TypeOK
<1>6. CASE InserterDies
  BY <1>6 DEF InserterDies, InserterAt, cacheVars, handlerVars, historyVars, HandlerInv,
     AddStates, IInv, TypeOK
<1>7. CASE InserterRestarts
  BY <1>7 DEF InserterRestarts, InserterAt, cacheVars, handlerVars, historyVars,
     HandlerInv, AddStates, IInv, TypeOK
<1>8. ASSUME NEW h \in Handlers, Receive(h) \/ Serve(h)
      PROVE  HandlerInv'
  <2>1. CASE \E i \in DOMAIN cache : FindById(h, i)
    BY <2>1 DEF FindById, At, Tell, cacheVars, handlerVars, historyVars, HandlerInv,
       AddStates, IInv, TypeOK
  <2>2. CASE BeginQuery(h)
    BY <2>2 DEF BeginQuery, At, Goto, cacheVars, handlerVars, historyVars, HandlerInv,
       AddStates, IInv, TypeOK
  <2>3. CASE EndQuery(h)
    BY <2>3 DEF EndQuery, At, Goto, Tell, cacheVars, handlerVars, historyVars, HandlerInv,
       AddStates, IInv, TypeOK
  <2>4. CASE QueryThrows(h)
    BY <2>4 DEF QueryThrows, At, Drop, Goto, cacheVars, handlerVars, historyVars,
       HandlerInv, AddStates, IInv, TypeOK
  <2>5. CASE \E list \in Adds : ReceiveAdd(h, list)
    BY <2>5, AddsAreSequences DEF ReceiveAdd, At, Goto, cacheVars,
       HandlerInv, AddStates, IInv, TypeOK
  <2>6. CASE KeyMissing(h)
    BY <2>6 DEF KeyMissing, At, Goto, cacheVars, handlerVars, historyVars, HandlerInv,
       AddStates, IInv, TypeOK
  <2>7. CASE KeyHeld(h)
    BY <2>7 DEF KeyHeld, At, Drop, Goto, cacheVars, handlerVars, historyVars, HandlerInv,
       AddStates, IInv, TypeOK
  <2>8. CASE GetMaxId(h)
    BY <2>8 DEF GetMaxId, At, Goto, cacheVars, handlerVars, historyVars, HandlerInv,
       AddStates, IInv, TypeOK
  <2>9. CASE Insert(h)
    BY <2>9 DEF Insert, At, Goto, cacheVars, handlerVars, historyVars, HandlerInv,
       AddStates, IInv, TypeOK
  <2>10. CASE InsertThrows(h)
    BY <2>10 DEF InsertThrows, At, Drop, Goto, cacheVars, handlerVars, historyVars,
       HandlerInv, AddStates, IInv, TypeOK
  <2>11. CASE InsertUnconfirmed(h)
    BY <2>11 DEF InsertUnconfirmed, At, Drop, Goto, cacheVars, handlerVars, historyVars,
       HandlerInv, AddStates, IInv, TypeOK
  <2>12. CASE BeginDictionaryAdd(h)
    BY <2>12 DEF BeginDictionaryAdd, At, Goto, cacheVars, handlerVars, historyVars,
       HandlerInv, AddStates, IInv, TypeOK
  <2>13. CASE EndDictionaryAdd(h)
    <3>1. pc[h] = "adding" /\ server = "up" /\ UNCHANGED server
      BY <2>13 DEF EndDictionaryAdd, At
    <3>2. Len(todo[h]) > 1 => Tail(todo[h]) # <<>>
      BY <3>1, EntityFacts DEF AddStates
    <3>3. \A g \in Handlers : pc'[g] \in AddStates => todo'[g] # <<>>
      BY <2>13, <3>2 DEF EndDictionaryAdd, NextEntity, Goto, HandlerInv, AddStates,
         IInv, TypeOK
    <3>4. \A g \in Handlers : pc'[g] \notin AddStates => stored'[g] = {}
      BY <2>13 DEF EndDictionaryAdd, NextEntity, Goto, HandlerInv, AddStates, IInv,
         TypeOK
    <3> QED BY <3>1, <3>3, <3>4 DEF HandlerInv
  <2>14. CASE EndOverlappedAdd(h)
    <3>1. pc[h] = "adding" /\ server = "up" /\ UNCHANGED server
      BY <2>14 DEF EndOverlappedAdd, At
    <3>2. Len(todo[h]) > 1 => Tail(todo[h]) # <<>>
      BY <3>1, EntityFacts DEF AddStates
    <3>3. \A g \in Handlers : pc'[g] \in AddStates => todo'[g] # <<>>
      BY <2>14, <3>2 DEF EndOverlappedAdd, NextEntity, Goto, HandlerInv, AddStates,
         IInv, TypeOK
    <3>4. \A g \in Handlers : pc'[g] \notin AddStates => stored'[g] = {}
      BY <2>14 DEF EndOverlappedAdd, NextEntity, Goto, HandlerInv, AddStates, IInv,
         TypeOK
    <3> QED BY <3>1, <3>3, <3>4 DEF HandlerInv
  <2>15. CASE OverlappedAddThrows(h)
    BY <2>15 DEF OverlappedAddThrows, At, Drop, Goto, TornDictionary,
       Overtake, cacheVars, handlerVars, historyVars, HandlerInv, AddStates, IInv, TypeOK
  <2>16. CASE GetMaxIdThrows(h)
    BY <2>16 DEF GetMaxIdThrows, At, Drop, Goto, cacheVars, handlerVars, historyVars,
       HandlerInv, AddStates, IInv, TypeOK
  <2> QED BY <1>8, <2>1, <2>2, <2>3, <2>4, <2>5, <2>6, <2>7, <2>8, <2>9,
             <2>10, <2>11, <2>12, <2>13, <2>14, <2>15, <2>16 DEF Receive, Serve
<1>9. CASE UNCHANGED vars
  BY <1>9 DEF vars, cacheVars, handlerVars, historyVars, HandlerInv, AddStates, IInv,
     TypeOK
<1> QED BY <1>1, <1>2, <1>3, <1>4, <1>5, <1>6, <1>7, <1>8, <1>9 DEF Next,
           Inserter

\* The keys of the dictionary, even of a corrupt one, are ids of the table.
LEMMA KeysInDbStep ==
    ASSUME IInv, [Next]_vars
    PROVE  KeysInDb'
<1>0. /\ DOMAIN db \subseteq DOMAIN db'
      /\ \A i \in DOMAIN db : db'[i] = db[i]
  BY TableSteps
<1>1. CASE Load
  BY <1>1 DEF Load, KeysInDb
<1>2. CASE StartServer
  BY <1>2, <1>0 DEF StartServer, cacheVars, handlerVars, historyVars, KeysInDb, IInv
<1>3. CASE Crash
  BY <1>3 DEF Crash, Nothing, KeysInDb
<1>4. CASE InserterCounts
  BY <1>4, <1>0 DEF InserterCounts, InserterAt, cacheVars, handlerVars, historyVars,
     KeysInDb, IInv
<1>5. CASE InserterInserts
  BY <1>5, <1>0 DEF InserterInserts, InserterAt, cacheVars, handlerVars, historyVars,
     KeysInDb, IInv
<1>6. CASE InserterDies
  BY <1>6, <1>0 DEF InserterDies, InserterAt, cacheVars, handlerVars, historyVars,
     KeysInDb, IInv
<1>7. CASE InserterRestarts
  BY <1>7, <1>0 DEF InserterRestarts, InserterAt, cacheVars, handlerVars, historyVars,
     KeysInDb, IInv
<1>8. ASSUME NEW h \in Handlers, Receive(h) \/ Serve(h)
      PROVE  KeysInDb'
  <2>1. CASE \E i \in DOMAIN cache : FindById(h, i)
    BY <2>1, <1>0 DEF FindById, At, Tell, cacheVars, handlerVars, historyVars, KeysInDb,
       IInv
  <2>2. CASE BeginQuery(h)
    BY <2>2, <1>0 DEF BeginQuery, At, Goto, cacheVars, handlerVars, historyVars, KeysInDb,
       IInv
  <2>3. CASE EndQuery(h)
    BY <2>3, <1>0 DEF EndQuery, At, Goto, Tell, cacheVars, handlerVars, historyVars,
       KeysInDb, IInv
  <2>4. CASE QueryThrows(h)
    BY <2>4, <1>0 DEF QueryThrows, At, Drop, Goto, cacheVars, handlerVars, historyVars,
       KeysInDb, IInv
  <2>5. CASE \E list \in Adds : ReceiveAdd(h, list)
    BY <2>5, <1>0 DEF ReceiveAdd, At, Goto, cacheVars, handlerVars, historyVars, KeysInDb,
       IInv
  <2>6. CASE KeyMissing(h)
    BY <2>6, <1>0 DEF KeyMissing, At, Goto, cacheVars, handlerVars, historyVars, KeysInDb,
       IInv
  <2>7. CASE KeyHeld(h)
    BY <2>7, <1>0 DEF KeyHeld, At, Drop, Goto, cacheVars, handlerVars, historyVars,
       KeysInDb, IInv
  <2>8. CASE GetMaxId(h)
    BY <2>8, <1>0 DEF GetMaxId, At, Goto, cacheVars, handlerVars, historyVars, KeysInDb,
       IInv
  <2>9. CASE Insert(h)
    BY <2>9, <1>0 DEF Insert, At, Goto, cacheVars, handlerVars, historyVars, KeysInDb, IInv
  <2>10. CASE InsertThrows(h)
    BY <2>10, <1>0 DEF InsertThrows, At, Drop, Goto, cacheVars, handlerVars, historyVars,
       KeysInDb, IInv
  <2>11. CASE InsertUnconfirmed(h)
    BY <2>11, <1>0 DEF InsertUnconfirmed, At, Drop, Goto, cacheVars,
       handlerVars, historyVars, KeysInDb, IInv
  <2>12. CASE BeginDictionaryAdd(h)
    BY <2>12, <1>0 DEF BeginDictionaryAdd, At, Goto, cacheVars, handlerVars, historyVars,
       KeysInDb, IInv
  <2>13. CASE EndDictionaryAdd(h)
    BY <2>13, <1>0 DEF EndDictionaryAdd, At, Put, KeysInDb, NoDuplicateKey,
       IInv
  <2>14. CASE EndOverlappedAdd(h)
    <3>1. PICK kept \in SUBSET (DOMAIN cache \cup {id[h]}),
               row \in overlap[h] \cup {Entity(h).row} :
               cache' = [i \in kept |-> Put(cache, id[h], row)[i]]
      BY <2>14 DEF EndOverlappedAdd, TornDictionary
    <3>2. id[h] \in DOMAIN db
      BY <2>14 DEF EndOverlappedAdd, At, IInv, NoDuplicateKey
    <3>3. DOMAIN cache' \subseteq DOMAIN cache \cup {id[h]}
      BY <3>1
    <3> QED BY <1>0, <3>2, <3>3 DEF KeysInDb, IInv
  <2>15. CASE OverlappedAddThrows(h)
    <3>1. PICK kept \in SUBSET (DOMAIN cache \cup {id[h]}),
               row \in overlap[h] \cup {Entity(h).row} :
               cache' = [i \in kept |-> Put(cache, id[h], row)[i]]
      BY <2>15 DEF OverlappedAddThrows, TornDictionary
    <3>2. id[h] \in DOMAIN db
      BY <2>15 DEF OverlappedAddThrows, At, IInv, NoDuplicateKey
    <3>3. DOMAIN cache' \subseteq DOMAIN cache \cup {id[h]}
      BY <3>1
    <3> QED BY <1>0, <3>2, <3>3 DEF KeysInDb, IInv
  <2>16. CASE GetMaxIdThrows(h)
    BY <2>16, <1>0 DEF GetMaxIdThrows, At, Drop, Goto, cacheVars, handlerVars, historyVars,
       KeysInDb, IInv
  <2> QED BY <1>8, <2>1, <2>2, <2>3, <2>4, <2>5, <2>6, <2>7, <2>8, <2>9,
             <2>10, <2>11, <2>12, <2>13, <2>14, <2>15, <2>16 DEF Receive, Serve
<1>9. CASE UNCHANGED vars
  BY <1>9, <1>0 DEF vars, cacheVars, handlerVars, historyVars, KeysInDb, IInv
<1> QED BY <1>1, <1>2, <1>3, <1>4, <1>5, <1>6, <1>7, <1>8, <1>9 DEF Next,
           Inserter

\* An id is taken by one row, and one handler carries it to the dictionary.
LEMMA NoDuplicateKeyStep ==
    ASSUME IInv, [Next]_vars
    PROVE  NoDuplicateKey'
<1>0. /\ DOMAIN db \subseteq DOMAIN db'
      /\ \A i \in DOMAIN db : db'[i] = db[i]
  BY TableSteps
<1>1. CASE Load
  BY <1>1, <1>0 DEF Load, handlerVars, HandlerInv, NoDuplicateKey, IInv
<1>2. CASE StartServer
  BY <1>2, <1>0 DEF StartServer, cacheVars, handlerVars, historyVars, NoDuplicateKey,
     Entity, IInv, TypeOK
<1>3. CASE Crash
  BY <1>3 DEF Crash, NoDuplicateKey
<1>4. CASE InserterCounts
  BY <1>4, <1>0 DEF InserterCounts, InserterAt, cacheVars, handlerVars, historyVars,
     NoDuplicateKey, Entity, IInv, TypeOK
<1>5. CASE InserterInserts
  BY <1>5, <1>0 DEF InserterInserts, InserterAt, cacheVars, handlerVars, historyVars,
     NoDuplicateKey, Entity, IInv, TypeOK
<1>6. CASE InserterDies
  BY <1>6, <1>0 DEF InserterDies, InserterAt, cacheVars, handlerVars, historyVars,
     NoDuplicateKey, Entity, IInv, TypeOK
<1>7. CASE InserterRestarts
  BY <1>7, <1>0 DEF InserterRestarts, InserterAt, cacheVars, handlerVars, historyVars,
     NoDuplicateKey, Entity, IInv, TypeOK
<1>8. ASSUME NEW h \in Handlers, Receive(h) \/ Serve(h)
      PROVE  NoDuplicateKey'
  <2>1. CASE \E i \in DOMAIN cache : FindById(h, i)
    BY <2>1, <1>0 DEF FindById, At, Tell, cacheVars, handlerVars, historyVars,
       NoDuplicateKey, Entity, IInv, TypeOK
  <2>2. CASE BeginQuery(h)
    BY <2>2, <1>0 DEF BeginQuery, At, Goto, cacheVars, handlerVars, historyVars,
       NoDuplicateKey, Entity, IInv, TypeOK
  <2>3. CASE EndQuery(h)
    BY <2>3, <1>0 DEF EndQuery, At, Goto, Tell, cacheVars, handlerVars, historyVars,
       NoDuplicateKey, Entity, IInv, TypeOK
  <2>4. CASE QueryThrows(h)
    BY <2>4, <1>0 DEF QueryThrows, At, Drop, Goto, cacheVars, handlerVars, historyVars,
       NoDuplicateKey, Entity, IInv, TypeOK
  <2>5. CASE \E list \in Adds : ReceiveAdd(h, list)
    BY <2>5, <1>0 DEF ReceiveAdd, At, Goto, cacheVars, handlerVars, historyVars,
       NoDuplicateKey, Entity, IInv, TypeOK
  <2>6. CASE KeyMissing(h)
    BY <2>6, <1>0 DEF KeyMissing, At, Goto, cacheVars, handlerVars, historyVars,
       NoDuplicateKey, Entity, IInv, TypeOK
  <2>7. CASE KeyHeld(h)
    BY <2>7, <1>0 DEF KeyHeld, At, Drop, Goto, cacheVars, handlerVars, historyVars,
       NoDuplicateKey, Entity, IInv, TypeOK
  <2>8. CASE GetMaxId(h)
    BY <2>8, <1>0 DEF GetMaxId, At, Goto, cacheVars, handlerVars, historyVars,
       NoDuplicateKey, Entity, IInv, TypeOK
  <2>9. CASE Insert(h)
    <3>1. /\ id[h] \notin DOMAIN db /\ id[h] \notin DOMAIN cache
          /\ db' = Put(db, id[h], Entity(h).row)
      BY <2>9 DEF Insert, At, IInv, KeysInDb
    <3>2. \A g \in Handlers : pc[g] \in {"dictionary", "adding"} => id[g] # id[h]
      BY <3>1 DEF IInv, NoDuplicateKey
    <3>3. id[h] \in DOMAIN db' /\ db'[id[h]] = Entity(h).row
      BY <3>1 DEF Put
    <3> QED BY <2>9, <1>0, <3>1, <3>2, <3>3 DEF Insert, Goto, cacheVars,
            NoDuplicateKey, Entity, IInv, TypeOK
  <2>10. CASE InsertThrows(h)
    BY <2>10, <1>0 DEF InsertThrows, At, Drop, Goto, cacheVars, handlerVars, historyVars,
       NoDuplicateKey, Entity, IInv, TypeOK
  <2>11. CASE InsertUnconfirmed(h)
    BY <2>11, <1>0 DEF InsertUnconfirmed, At, Drop, Goto, cacheVars,
       handlerVars, historyVars, NoDuplicateKey, Entity, IInv, TypeOK
  <2>12. CASE BeginDictionaryAdd(h)
    BY <2>12, <1>0 DEF BeginDictionaryAdd, At, Goto, cacheVars, handlerVars, historyVars,
       NoDuplicateKey, Entity, IInv, TypeOK
  <2>13. CASE EndDictionaryAdd(h)
    <3>1. cache' = Put(cache, id[h], Entity(h).row) /\ UNCHANGED db
      BY <2>13 DEF EndDictionaryAdd
    <3>2. DOMAIN cache' = DOMAIN cache \cup {id[h]}
      BY <3>1 DEF Put
    <3>3. \A g \in Handlers : pc'[g] \in {"dictionary", "adding"} =>
              /\ g # h /\ pc'[g] = pc[g] /\ id'[g] = id[g] /\ todo'[g] = todo[g]
      BY <2>13 DEF EndDictionaryAdd, NextEntity, Goto, At, IInv, TypeOK
    <3>4. pc[h] = "adding"
      BY <2>13 DEF EndDictionaryAdd, At
    <3> QED BY <1>0, <3>1, <3>2, <3>3, <3>4 DEF NoDuplicateKey, Entity, IInv
  <2>14. CASE EndOverlappedAdd(h)
    <3>1. PICK kept \in SUBSET (DOMAIN cache \cup {id[h]}),
               row \in overlap[h] \cup {Entity(h).row} :
               cache' = [i \in kept |-> Put(cache, id[h], row)[i]]
      BY <2>14 DEF EndOverlappedAdd, TornDictionary
    <3>2. DOMAIN cache' \subseteq DOMAIN cache \cup {id[h]}
      BY <3>1
    <3>3. \A g \in Handlers : pc'[g] \in {"dictionary", "adding"} =>
              /\ g # h /\ pc'[g] = pc[g] /\ id'[g] = id[g] /\ todo'[g] = todo[g]
      BY <2>14 DEF EndOverlappedAdd, NextEntity, Goto, At, IInv, TypeOK
    <3>4. pc[h] = "adding" /\ UNCHANGED db
      BY <2>14 DEF EndOverlappedAdd, At
    <3> QED BY <1>0, <3>2, <3>3, <3>4 DEF NoDuplicateKey, Entity, IInv
  <2>15. CASE OverlappedAddThrows(h)
    <3>1. PICK kept \in SUBSET (DOMAIN cache \cup {id[h]}),
               row \in overlap[h] \cup {Entity(h).row} :
               cache' = [i \in kept |-> Put(cache, id[h], row)[i]]
      BY <2>15 DEF OverlappedAddThrows, TornDictionary
    <3>2. DOMAIN cache' \subseteq DOMAIN cache \cup {id[h]}
      BY <3>1
    <3>3. \A g \in Handlers : pc'[g] \in {"dictionary", "adding"} =>
              /\ g # h /\ pc'[g] = pc[g] /\ id'[g] = id[g] /\ todo'[g] = todo[g]
      BY <2>15 DEF OverlappedAddThrows, Drop, Goto, At, IInv, TypeOK
    <3>4. pc[h] = "adding" /\ UNCHANGED db
      BY <2>15 DEF OverlappedAddThrows, At
    <3> QED BY <1>0, <3>2, <3>3, <3>4 DEF NoDuplicateKey, Entity, IInv
  <2>16. CASE GetMaxIdThrows(h)
    BY <2>16, <1>0 DEF GetMaxIdThrows, At, Drop, Goto, cacheVars, handlerVars, historyVars,
       NoDuplicateKey, Entity, IInv, TypeOK
  <2> QED BY <1>8, <2>1, <2>2, <2>3, <2>4, <2>5, <2>6, <2>7, <2>8, <2>9,
             <2>10, <2>11, <2>12, <2>13, <2>14, <2>15, <2>16 DEF Receive, Serve
<1>9. CASE UNCHANGED vars
  BY <1>9, <1>0 DEF vars, cacheVars, handlerVars, historyVars, NoDuplicateKey, Entity,
     IInv, TypeOK
<1> QED BY <1>1, <1>2, <1>3, <1>4, <1>5, <1>6, <1>7, <1>8, <1>9 DEF Next,
           Inserter

\* An intact dictionary agrees with the table.
LEMMA CacheWithinDbStep ==
    ASSUME IInv, [Next]_vars
    PROVE  CacheWithinDb'
<1>0. /\ DOMAIN db \subseteq DOMAIN db'
      /\ \A i \in DOMAIN db : db'[i] = db[i]
  BY TableSteps
<1>1. CASE Load
  BY <1>1 DEF Load, CacheWithinDb
<1>2. CASE StartServer
  BY <1>2, <1>0 DEF StartServer, cacheVars, handlerVars, historyVars, CacheWithinDb, IInv
<1>3. CASE Crash
  BY <1>3 DEF Crash, Nothing, CacheWithinDb
<1>4. CASE InserterCounts
  BY <1>4, <1>0 DEF InserterCounts, InserterAt, cacheVars, handlerVars, historyVars,
     CacheWithinDb, IInv
<1>5. CASE InserterInserts
  BY <1>5, <1>0 DEF InserterInserts, InserterAt, cacheVars, handlerVars, historyVars,
     CacheWithinDb, IInv
<1>6. CASE InserterDies
  BY <1>6, <1>0 DEF InserterDies, InserterAt, cacheVars, handlerVars, historyVars,
     CacheWithinDb, IInv
<1>7. CASE InserterRestarts
  BY <1>7, <1>0 DEF InserterRestarts, InserterAt, cacheVars, handlerVars, historyVars,
     CacheWithinDb, IInv
<1>8. ASSUME NEW h \in Handlers, Receive(h) \/ Serve(h)
      PROVE  CacheWithinDb'
  <2>1. CASE \E i \in DOMAIN cache : FindById(h, i)
    BY <2>1, <1>0 DEF FindById, At, Tell, cacheVars, handlerVars, historyVars,
       CacheWithinDb, IInv
  <2>2. CASE BeginQuery(h)
    BY <2>2, <1>0 DEF BeginQuery, At, Goto, cacheVars, handlerVars, historyVars,
       CacheWithinDb, IInv
  <2>3. CASE EndQuery(h)
    BY <2>3, <1>0 DEF EndQuery, At, Goto, Tell, cacheVars, handlerVars, historyVars,
       CacheWithinDb, IInv
  <2>4. CASE QueryThrows(h)
    BY <2>4, <1>0 DEF QueryThrows, At, Drop, Goto, cacheVars, handlerVars, historyVars,
       CacheWithinDb, IInv
  <2>5. CASE \E list \in Adds : ReceiveAdd(h, list)
    BY <2>5, <1>0 DEF ReceiveAdd, At, Goto, cacheVars, handlerVars, historyVars,
       CacheWithinDb, IInv
  <2>6. CASE KeyMissing(h)
    BY <2>6, <1>0 DEF KeyMissing, At, Goto, cacheVars, handlerVars, historyVars,
       CacheWithinDb, IInv
  <2>7. CASE KeyHeld(h)
    BY <2>7, <1>0 DEF KeyHeld, At, Drop, Goto, cacheVars, handlerVars, historyVars,
       CacheWithinDb, IInv
  <2>8. CASE GetMaxId(h)
    BY <2>8, <1>0 DEF GetMaxId, At, Goto, cacheVars, handlerVars, historyVars,
       CacheWithinDb, IInv
  <2>9. CASE Insert(h)
    BY <2>9, <1>0 DEF Insert, At, Goto, cacheVars, handlerVars, historyVars, CacheWithinDb,
       IInv
  <2>10. CASE InsertThrows(h)
    BY <2>10, <1>0 DEF InsertThrows, At, Drop, Goto, cacheVars, handlerVars, historyVars,
       CacheWithinDb, IInv
  <2>11. CASE InsertUnconfirmed(h)
    BY <2>11, <1>0 DEF InsertUnconfirmed, At, Drop, Goto, cacheVars,
       handlerVars, historyVars, CacheWithinDb, IInv
  <2>12. CASE BeginDictionaryAdd(h)
    BY <2>12, <1>0 DEF BeginDictionaryAdd, At, Goto, cacheVars, handlerVars, historyVars,
       CacheWithinDb, IInv
  <2>13. CASE EndDictionaryAdd(h)
    BY <2>13, <1>0 DEF EndDictionaryAdd, At, Put, NoDuplicateKey, CacheWithinDb,
       IInv
  <2>14. CASE EndOverlappedAdd(h)
    BY <2>14 DEF EndOverlappedAdd, TornDictionary, CacheWithinDb
  <2>15. CASE OverlappedAddThrows(h)
    BY <2>15 DEF OverlappedAddThrows, TornDictionary, CacheWithinDb
  <2>16. CASE GetMaxIdThrows(h)
    BY <2>16, <1>0 DEF GetMaxIdThrows, At, Drop, Goto, cacheVars, handlerVars, historyVars,
       CacheWithinDb, IInv
  <2> QED BY <1>8, <2>1, <2>2, <2>3, <2>4, <2>5, <2>6, <2>7, <2>8, <2>9,
             <2>10, <2>11, <2>12, <2>13, <2>14, <2>15, <2>16 DEF Receive, Serve
<1>9. CASE UNCHANGED vars
  BY <1>9, <1>0 DEF vars, cacheVars, handlerVars, historyVars, CacheWithinDb, IInv
<1> QED BY <1>1, <1>2, <1>3, <1>4, <1>5, <1>6, <1>7, <1>8, <1>9 DEF Next,
           Inserter

\* The entities a list has behind it are in the table and in the dictionary.
LEMMA PrefixLoadedStep ==
    ASSUME IInv, [Next]_vars
    PROVE  PrefixLoaded'
<1>0. /\ DOMAIN db \subseteq DOMAIN db'
      /\ \A i \in DOMAIN db : db'[i] = db[i]
  BY TableSteps
<1>1. CASE Load
  BY <1>1 DEF Load, handlerVars, historyVars, PrefixLoaded, IInv
<1>2. CASE StartServer
  BY <1>2, <1>0 DEF StartServer, cacheVars, handlerVars, historyVars, PrefixLoaded,
     PairsOf, IInv, TypeOK
<1>3. CASE Crash
  <2>1. /\ server' = "down" /\ db' = db /\ stored' = [h \in Handlers |-> {}]
        /\ leftBehind' = leftBehind \cup UNION {stored[h] : h \in Handlers}
    BY <1>3 DEF Crash
  <2>2. \A h \in Handlers : \A p \in leftBehind \cup stored[h] : p \in PairsOf(db)
    BY DEF PrefixLoaded, IInv
  <2>3. \A h \in Handlers : \A p \in leftBehind' \cup stored'[h] : p \in PairsOf(db)
    BY <2>1, <2>2
  <2>4. PairsOf(db)' = PairsOf(db)
    BY <2>1 DEF PairsOf
  <2> QED BY <2>1, <2>3, <2>4 DEF PrefixLoaded
<1>4. CASE InserterCounts
  BY <1>4, <1>0 DEF InserterCounts, InserterAt, cacheVars, handlerVars, historyVars,
     PrefixLoaded, PairsOf, IInv, TypeOK
<1>5. CASE InserterInserts
  BY <1>5, <1>0 DEF InserterInserts, InserterAt, cacheVars, handlerVars, historyVars,
     PrefixLoaded, PairsOf, IInv, TypeOK
<1>6. CASE InserterDies
  BY <1>6, <1>0 DEF InserterDies, InserterAt, cacheVars, handlerVars, historyVars,
     PrefixLoaded, PairsOf, IInv, TypeOK
<1>7. CASE InserterRestarts
  BY <1>7, <1>0 DEF InserterRestarts, InserterAt, cacheVars, handlerVars, historyVars,
     PrefixLoaded, PairsOf, IInv, TypeOK
<1>8. ASSUME NEW h \in Handlers, Receive(h) \/ Serve(h)
      PROVE  PrefixLoaded'
  <2>1. CASE \E i \in DOMAIN cache : FindById(h, i)
    BY <2>1, <1>0 DEF FindById, At, Tell, cacheVars, handlerVars, historyVars,
       PrefixLoaded, PairsOf, IInv, TypeOK
  <2>2. CASE BeginQuery(h)
    BY <2>2, <1>0 DEF BeginQuery, At, Goto, cacheVars, handlerVars, historyVars,
       PrefixLoaded, PairsOf, IInv, TypeOK
  <2>3. CASE EndQuery(h)
    BY <2>3, <1>0 DEF EndQuery, At, Goto, Tell, cacheVars, handlerVars, historyVars,
       PrefixLoaded, PairsOf, IInv, TypeOK
  <2>4. CASE QueryThrows(h)
    BY <2>4, <1>0 DEF QueryThrows, At, Drop, Goto, cacheVars, handlerVars, historyVars,
       PrefixLoaded, PairsOf, IInv, TypeOK
  <2>5. CASE \E list \in Adds : ReceiveAdd(h, list)
    BY <2>5, <1>0 DEF ReceiveAdd, At, Goto, cacheVars, handlerVars, historyVars,
       PrefixLoaded, PairsOf, IInv, TypeOK
  <2>6. CASE KeyMissing(h)
    BY <2>6, <1>0 DEF KeyMissing, At, Goto, cacheVars, handlerVars, historyVars,
       PrefixLoaded, PairsOf, IInv, TypeOK
  <2>7. CASE KeyHeld(h)
    BY <2>7, <1>0 DEF KeyHeld, At, Drop, Goto, cacheVars, handlerVars, historyVars,
       PrefixLoaded, PairsOf, IInv, TypeOK
  <2>8. CASE GetMaxId(h)
    BY <2>8, <1>0 DEF GetMaxId, At, Goto, cacheVars, handlerVars, historyVars,
       PrefixLoaded, PairsOf, IInv, TypeOK
  <2>9. CASE Insert(h)
    BY <2>9, <1>0 DEF Insert, At, Goto, cacheVars, handlerVars, historyVars, PrefixLoaded,
       PairsOf, IInv, TypeOK
  <2>10. CASE InsertThrows(h)
    BY <2>10, <1>0 DEF InsertThrows, At, Drop, Goto, cacheVars, handlerVars, historyVars,
       PrefixLoaded, PairsOf, IInv, TypeOK
  <2>11. CASE InsertUnconfirmed(h)
    BY <2>11, <1>0 DEF InsertUnconfirmed, At, Drop, Goto, cacheVars,
       handlerVars, historyVars, PrefixLoaded, PairsOf, IInv, TypeOK
  <2>12. CASE BeginDictionaryAdd(h)
    BY <2>12, <1>0 DEF BeginDictionaryAdd, At, Goto, cacheVars, handlerVars, historyVars,
       PrefixLoaded, PairsOf, IInv, TypeOK
  <2>13. CASE EndDictionaryAdd(h)
    <3>1. /\ cache' = Put(cache, id[h], Entity(h).row)
          /\ id[h] \notin DOMAIN cache /\ UNCHANGED <<db, corrupt>>
          /\ id[h] \in DOMAIN db /\ db[id[h]] = Entity(h).row
      BY <2>13 DEF EndDictionaryAdd, At, NoDuplicateKey, IInv
    <3>2. PairsOf(cache) \subseteq PairsOf(cache')
      BY <3>1 DEF Put, PairsOf
    <3>3. <<id[h], Entity(h).row>> \in PairsOf(cache')
      BY <3>1 DEF Put, PairsOf
    <3>4. <<id[h], Entity(h).row>> \in PairsOf(db)
      BY <3>1 DEF PairsOf
    <3>5. \A g \in Handlers :
              stored'[g] \subseteq stored[g] \cup {<<id[h], Entity(h).row>>}
      BY <2>13 DEF EndDictionaryAdd, NextEntity, IInv, TypeOK
    <3>6. UNCHANGED <<leftBehind, server, corrupt>>
      BY <2>13, <3>1 DEF EndDictionaryAdd
    <3>7. PairsOf(db)' = PairsOf(db) /\ PairsOf(cache)' = PairsOf(cache')
      BY <3>1 DEF PairsOf
    <3> QED BY <3>2, <3>3, <3>4, <3>5, <3>6, <3>7 DEF PrefixLoaded, IInv
  <2>14. CASE EndOverlappedAdd(h)
    <3>1. /\ UNCHANGED <<db, leftBehind>> /\ corrupt'
          /\ id[h] \in DOMAIN db /\ db[id[h]] = Entity(h).row
      BY <2>14 DEF EndOverlappedAdd, TornDictionary, At, NoDuplicateKey, IInv
    <3>2. <<id[h], Entity(h).row>> \in PairsOf(db)
      BY <3>1 DEF PairsOf
    <3>3. \A g \in Handlers :
              stored'[g] \subseteq stored[g] \cup {<<id[h], Entity(h).row>>}
      BY <2>14 DEF EndOverlappedAdd, NextEntity, IInv, TypeOK
    <3> QED BY <3>1, <3>2, <3>3 DEF PrefixLoaded, PairsOf, IInv
  <2>15. CASE OverlappedAddThrows(h)
    <3>1. /\ UNCHANGED db /\ corrupt' /\ leftBehind' = leftBehind \cup stored[h]
          /\ \A g \in Handlers : stored'[g] \subseteq stored[g]
      BY <2>15 DEF OverlappedAddThrows, TornDictionary, Drop, IInv, TypeOK
    <3> QED BY <3>1 DEF PrefixLoaded, PairsOf, IInv
  <2>16. CASE GetMaxIdThrows(h)
    BY <2>16, <1>0 DEF GetMaxIdThrows, At, Drop, Goto, cacheVars, handlerVars, historyVars,
       PrefixLoaded, PairsOf, IInv, TypeOK
  <2> QED BY <1>8, <2>1, <2>2, <2>3, <2>4, <2>5, <2>6, <2>7, <2>8, <2>9,
             <2>10, <2>11, <2>12, <2>13, <2>14, <2>15, <2>16 DEF Receive, Serve
<1>9. CASE UNCHANGED vars
  BY <1>9, <1>0 DEF vars, cacheVars, handlerVars, historyVars, PrefixLoaded, PairsOf, IInv,
     TypeOK
<1> QED BY <1>1, <1>2, <1>3, <1>4, <1>5, <1>6, <1>7, <1>8, <1>9 DEF Next,
           Inserter

\* What clients were told is in the table.
LEMMA ToldStoredStep ==
    ASSUME IInv, [Next]_vars
    PROVE  ToldStored'
<1>0. /\ DOMAIN db \subseteq DOMAIN db'
      /\ \A i \in DOMAIN db : db'[i] = db[i]
  BY TableSteps
<1>1. CASE Load
  BY <1>1, <1>0 DEF Load, cacheVars, handlerVars, historyVars, ToldStored, IInv
<1>2. CASE StartServer
  BY <1>2, <1>0 DEF StartServer, cacheVars, handlerVars, historyVars, ToldStored, IInv
<1>3. CASE Crash
  BY <1>3, <1>0 DEF Crash, cacheVars, handlerVars, historyVars, ToldStored, IInv
<1>4. CASE InserterCounts
  BY <1>4, <1>0 DEF InserterCounts, InserterAt, cacheVars, handlerVars, historyVars,
     ToldStored, IInv
<1>5. CASE InserterInserts
  BY <1>5, <1>0 DEF InserterInserts, InserterAt, cacheVars, handlerVars, historyVars,
     ToldStored, IInv
<1>6. CASE InserterDies
  BY <1>6, <1>0 DEF InserterDies, InserterAt, cacheVars, handlerVars, historyVars,
     ToldStored, IInv
<1>7. CASE InserterRestarts
  BY <1>7, <1>0 DEF InserterRestarts, InserterAt, cacheVars, handlerVars, historyVars,
     ToldStored, IInv
<1>8. ASSUME NEW h \in Handlers, Receive(h) \/ Serve(h)
      PROVE  ToldStored'
  <2>1. CASE \E i \in DOMAIN cache : FindById(h, i)
    BY <2>1, <1>0 DEF FindById, Tell, CacheWithinDb, ToldStored, IInv
  <2>2. CASE BeginQuery(h)
    BY <2>2, <1>0 DEF BeginQuery, At, Goto, cacheVars, handlerVars, historyVars,
       ToldStored, IInv
  <2>3. CASE EndQuery(h)
    BY <2>3, <1>0 DEF EndQuery, Tell, PairsOf, CacheWithinDb, ToldStored, IInv
  <2>4. CASE QueryThrows(h)
    BY <2>4, <1>0 DEF QueryThrows, At, Drop, Goto, cacheVars, handlerVars, historyVars,
       ToldStored, IInv
  <2>5. CASE \E list \in Adds : ReceiveAdd(h, list)
    BY <2>5, <1>0 DEF ReceiveAdd, At, Goto, cacheVars, handlerVars, historyVars,
       ToldStored, IInv
  <2>6. CASE KeyMissing(h)
    BY <2>6, <1>0 DEF KeyMissing, At, Goto, cacheVars, handlerVars, historyVars,
       ToldStored, IInv
  <2>7. CASE KeyHeld(h)
    BY <2>7, <1>0 DEF KeyHeld, At, Drop, Goto, cacheVars, handlerVars, historyVars,
       ToldStored, IInv
  <2>8. CASE GetMaxId(h)
    BY <2>8, <1>0 DEF GetMaxId, At, Goto, cacheVars, handlerVars, historyVars, ToldStored,
       IInv
  <2>9. CASE Insert(h)
    BY <2>9, <1>0 DEF Insert, At, Goto, cacheVars, handlerVars, historyVars, ToldStored,
       IInv
  <2>10. CASE InsertThrows(h)
    BY <2>10, <1>0 DEF InsertThrows, At, Drop, Goto, cacheVars, handlerVars, historyVars,
       ToldStored, IInv
  <2>11. CASE InsertUnconfirmed(h)
    BY <2>11, <1>0 DEF InsertUnconfirmed, At, Drop, Goto, cacheVars,
       handlerVars, historyVars, ToldStored, IInv
  <2>12. CASE BeginDictionaryAdd(h)
    BY <2>12, <1>0 DEF BeginDictionaryAdd, At, Goto, cacheVars, handlerVars, historyVars,
       ToldStored, IInv
  <2>13. CASE EndDictionaryAdd(h)
    <3>1. /\ cache' = Put(cache, id[h], Entity(h).row)
          /\ id[h] \notin DOMAIN cache /\ UNCHANGED <<db, corrupt, server>>
          /\ id[h] \in DOMAIN db /\ db[id[h]] = Entity(h).row
      BY <2>13 DEF EndDictionaryAdd, At, NoDuplicateKey, IInv
    <3>2. ~corrupt => \A p \in stored[h] : /\ p[1] \in DOMAIN db /\ db[p[1]] = p[2]
                                          /\ p[1] \in DOMAIN cache /\ cache[p[1]] = p[2]
      BY <2>13 DEF EndDictionaryAdd, At, PrefixLoaded, PairsOf, IInv
    <3>3. \/ told' = told
          \/ ~corrupt /\ told' = told \cup stored[h] \cup {<<id[h], Entity(h).row>>}
      BY <2>13 DEF EndDictionaryAdd, NextEntity
    <3> QED BY <3>1, <3>2, <3>3 DEF ToldStored, IInv
  <2>14. CASE EndOverlappedAdd(h)
    BY <2>14 DEF EndOverlappedAdd, NextEntity, TornDictionary, ToldStored, IInv
  <2>15. CASE OverlappedAddThrows(h)
    BY <2>15, <1>0 DEF OverlappedAddThrows, At, Drop, Goto, TornDictionary,
       Overtake, cacheVars, handlerVars, historyVars, ToldStored, IInv
  <2>16. CASE GetMaxIdThrows(h)
    BY <2>16, <1>0 DEF GetMaxIdThrows, At, Drop, Goto, cacheVars, handlerVars, historyVars,
       ToldStored, IInv
  <2> QED BY <1>8, <2>1, <2>2, <2>3, <2>4, <2>5, <2>6, <2>7, <2>8, <2>9,
             <2>10, <2>11, <2>12, <2>13, <2>14, <2>15, <2>16 DEF Receive, Serve
<1>9. CASE UNCHANGED vars
  BY <1>9, <1>0 DEF vars, cacheVars, handlerVars, historyVars, ToldStored, IInv
<1> QED BY <1>1, <1>2, <1>3, <1>4, <1>5, <1>6, <1>7, <1>8, <1>9 DEF Next,
           Inserter

\* And, once the table is loaded, in the intact dictionary.
LEMMA ToldLoadedStep ==
    ASSUME IInv, [Next]_vars
    PROVE  ToldLoaded'
<1>0. /\ DOMAIN db \subseteq DOMAIN db'
      /\ \A i \in DOMAIN db : db'[i] = db[i]
  BY TableSteps
<1>1. CASE Load
  BY <1>1 DEF Load, historyVars, ToldStored, ToldLoaded, IInv
<1>2. CASE StartServer
  BY <1>2, <1>0 DEF StartServer, cacheVars, handlerVars, historyVars, ToldLoaded, IInv
<1>3. CASE Crash
  BY <1>3 DEF Crash, ToldLoaded
<1>4. CASE InserterCounts
  BY <1>4, <1>0 DEF InserterCounts, InserterAt, cacheVars, handlerVars, historyVars,
     ToldLoaded, IInv
<1>5. CASE InserterInserts
  BY <1>5, <1>0 DEF InserterInserts, InserterAt, cacheVars, handlerVars, historyVars,
     ToldLoaded, IInv
<1>6. CASE InserterDies
  BY <1>6, <1>0 DEF InserterDies, InserterAt, cacheVars, handlerVars, historyVars,
     ToldLoaded, IInv
<1>7. CASE InserterRestarts
  BY <1>7, <1>0 DEF InserterRestarts, InserterAt, cacheVars, handlerVars, historyVars,
     ToldLoaded, IInv
<1>8. ASSUME NEW h \in Handlers, Receive(h) \/ Serve(h)
      PROVE  ToldLoaded'
  <2>1. CASE \E i \in DOMAIN cache : FindById(h, i)
    BY <2>1 DEF FindById, At, Tell, cacheVars, ToldLoaded, IInv
  <2>2. CASE BeginQuery(h)
    BY <2>2, <1>0 DEF BeginQuery, At, Goto, cacheVars, handlerVars, historyVars,
       ToldLoaded, IInv
  <2>3. CASE EndQuery(h)
    BY <2>3 DEF EndQuery, At, Tell, PairsOf, cacheVars, ToldLoaded, IInv
  <2>4. CASE QueryThrows(h)
    BY <2>4, <1>0 DEF QueryThrows, At, Drop, Goto, cacheVars, handlerVars, historyVars,
       ToldLoaded, IInv
  <2>5. CASE \E list \in Adds : ReceiveAdd(h, list)
    BY <2>5, <1>0 DEF ReceiveAdd, At, Goto, cacheVars, handlerVars, historyVars,
       ToldLoaded, IInv
  <2>6. CASE KeyMissing(h)
    BY <2>6, <1>0 DEF KeyMissing, At, Goto, cacheVars, handlerVars, historyVars,
       ToldLoaded, IInv
  <2>7. CASE KeyHeld(h)
    BY <2>7, <1>0 DEF KeyHeld, At, Drop, Goto, cacheVars, handlerVars, historyVars,
       ToldLoaded, IInv
  <2>8. CASE GetMaxId(h)
    BY <2>8, <1>0 DEF GetMaxId, At, Goto, cacheVars, handlerVars, historyVars, ToldLoaded,
       IInv
  <2>9. CASE Insert(h)
    BY <2>9, <1>0 DEF Insert, At, Goto, cacheVars, handlerVars, historyVars, ToldLoaded,
       IInv
  <2>10. CASE InsertThrows(h)
    BY <2>10, <1>0 DEF InsertThrows, At, Drop, Goto, cacheVars, handlerVars, historyVars,
       ToldLoaded, IInv
  <2>11. CASE InsertUnconfirmed(h)
    BY <2>11, <1>0 DEF InsertUnconfirmed, At, Drop, Goto, cacheVars,
       handlerVars, historyVars, ToldLoaded, IInv
  <2>12. CASE BeginDictionaryAdd(h)
    BY <2>12, <1>0 DEF BeginDictionaryAdd, At, Goto, cacheVars, handlerVars, historyVars,
       ToldLoaded, IInv
  <2>13. CASE EndDictionaryAdd(h)
    <3>1. /\ cache' = Put(cache, id[h], Entity(h).row)
          /\ id[h] \notin DOMAIN cache /\ UNCHANGED <<db, corrupt, server>>
          /\ id[h] \in DOMAIN db /\ db[id[h]] = Entity(h).row
      BY <2>13 DEF EndDictionaryAdd, At, NoDuplicateKey, IInv
    <3>2. ~corrupt => \A p \in stored[h] : /\ p[1] \in DOMAIN db /\ db[p[1]] = p[2]
                                          /\ p[1] \in DOMAIN cache /\ cache[p[1]] = p[2]
      BY <2>13 DEF EndDictionaryAdd, At, PrefixLoaded, PairsOf, IInv
    <3>3. \/ told' = told
          \/ ~corrupt /\ told' = told \cup stored[h] \cup {<<id[h], Entity(h).row>>}
      BY <2>13 DEF EndDictionaryAdd, NextEntity
    <3>4. server # "down" /\ ~corrupt =>
              \A p \in told : p[1] \in DOMAIN cache /\ cache[p[1]] = p[2]
      BY DEF ToldLoaded, IInv
    <3>5. /\ DOMAIN cache' = DOMAIN cache \cup {id[h]}
          /\ cache'[id[h]] = Entity(h).row
          /\ \A i \in DOMAIN cache : cache'[i] = cache[i]
      BY <3>1 DEF Put
    <3> QED BY <3>1, <3>2, <3>3, <3>4, <3>5 DEF ToldLoaded
  <2>14. CASE EndOverlappedAdd(h)
    BY <2>14 DEF EndOverlappedAdd, TornDictionary, ToldLoaded
  <2>15. CASE OverlappedAddThrows(h)
    BY <2>15 DEF OverlappedAddThrows, TornDictionary, ToldLoaded
  <2>16. CASE GetMaxIdThrows(h)
    BY <2>16, <1>0 DEF GetMaxIdThrows, At, Drop, Goto, cacheVars, handlerVars, historyVars,
       ToldLoaded, IInv
  <2> QED BY <1>8, <2>1, <2>2, <2>3, <2>4, <2>5, <2>6, <2>7, <2>8, <2>9,
             <2>10, <2>11, <2>12, <2>13, <2>14, <2>15, <2>16 DEF Receive, Serve
<1>9. CASE UNCHANGED vars
  BY <1>9, <1>0 DEF vars, cacheVars, handlerVars, historyVars, ToldLoaded, IInv
<1> QED BY <1>1, <1>2, <1>3, <1>4, <1>5, <1>6, <1>7, <1>8, <1>9 DEF Next,
           Inserter

-----------------------------------------------------------------------------
(* The invariant of the specification.                                     *)

LEMMA InitInv == Init => IInv
<1> SUFFICES ASSUME Init PROVE IInv
  OBVIOUS
<1>1. PICK n \in 0..MaxRows : db \in [1..n -> Rows]
  BY DEF Init
<1>2. n \in Nat /\ DOMAIN db = 1..n
  BY <1>1, BoundsAssumption
<1>3. Contiguous
  BY <1>2, MaxKeyOfRange DEF Contiguous, MaxId
<1>4. TypeDb
  BY <1>1, <1>2 DEF TypeDb
<1>5. TypeCache /\ TypeHandlers /\ TypeRest
  BY EmptySeq DEF Init, TypeCache, TypeHandlers, TypeRest, HandlerStates, Nothing
<1>6. PendingIds /\ HandlerInv /\ KeysInDb
  BY DEF Init, PendingIds, HandlerInv, KeysInDb, AddStates, Nothing
<1>7. NoDuplicateKey /\ CacheWithinDb /\ PrefixLoaded
  BY DEF Init, NoDuplicateKey, CacheWithinDb, PrefixLoaded, Nothing
<1>8. ToldStored /\ ToldLoaded
  BY DEF Init, ToldStored, ToldLoaded
<1> QED BY <1>3, <1>4, <1>5, <1>6, <1>7, <1>8, TypeParts DEF IInv

LEMMA NextInv == IInv /\ [Next]_vars => IInv'
<1> SUFFICES ASSUME IInv, [Next]_vars PROVE IInv'
  OBVIOUS
<1>1. Contiguous' /\ TypeDb'
  BY TableSteps DEF TypeDb
<1>2. TypeOK'
  BY <1>1, TypeCacheStep, TypeHandlersStep, TypeRestStep
     DEF TypeOK, TypeDb, TypeCache, TypeHandlers, TypeRest
<1> QED BY <1>1, <1>2, PendingIdsStep, HandlerInvStep, KeysInDbStep,
        NoDuplicateKeyStep, CacheWithinDbStep, PrefixLoadedStep, ToldStoredStep,
        ToldLoadedStep DEF IInv

THEOREM Invariance == Spec => []IInv
BY InitInv, NextInv, PTL DEF Spec

\* The variables keep their types, for any number of handlers and rows.
THEOREM TypeCorrect == Spec => []TypeOK
<1>1. IInv => TypeOK
  BY DEF IInv
<1> QED BY <1>1, Invariance, PTL

\* CacheHelper.Add never adds a key the dictionary has, nor two handlers the
\* same key.
THEOREM KeysAreFresh == Spec => []NoDuplicateKey
<1>1. IInv => NoDuplicateKey
  BY DEF IInv
<1> QED BY <1>1, Invariance, PTL

\* Until two Adds overlap, the cache serves only rows of the table.
THEOREM CacheAgrees == Spec => []CacheWithinDb
<1>1. IInv => CacheWithinDb
  BY DEF IInv
<1> QED BY <1>1, Invariance, PTL

\* What a list had added when it was refused, threw or crashed stays in the table, and is
\* found in the dictionary, now and after every restart, until two Adds overlap.
THEOREM PrefixesStored == Spec => []PrefixStored
<1>1. IInv => PrefixStored
  BY DEF IInv, PrefixLoaded, PrefixStored
<1> QED BY <1>1, Invariance, PTL

\* No crash, fault or collision takes back what a client was told.
THEOREM PromisesStored == Spec => []ToldStored
<1>1. IInv => ToldStored
  BY DEF IInv
<1> QED BY <1>1, Invariance, PTL

\* What a client was told is found again, also after a restart.
THEOREM PromisesVisible == Spec => []ToldVisible
<1>1. IInv => ToldVisible
  BY DEF IInv, ToldLoaded, ToldVisible
<1> QED BY <1>1, Invariance, PTL

-----------------------------------------------------------------------------
(* The table implements the log of RowLog.                                 *)

LEMMA InitIsLog == Init => Log!Init
<1> SUFFICES ASSUME Init PROVE db \in Seq(Rows)
  BY DEF Log!Init
<1>1. PICK n \in 0..MaxRows : db \in [1..n -> Rows]
  BY DEF Init
<1>2. n \in Nat
  BY <1>1, BoundsAssumption
<1> QED BY <1>1, <1>2, SeqDef

LEMMA StepAppends == IInv /\ [Next]_vars => [Log!AppendRow]_db
<1> SUFFICES ASSUME IInv, [Next]_vars, Appends PROVE Log!AppendRow
  BY TableGrows
<1>1. PICK row \in Rows : db' = Put(db, MaxId + 1, row)
  BY DEF Appends
<1>2. MaxId \in Nat /\ DOMAIN db = 1..MaxId /\ db \in [1..MaxId -> Rows]
  BY DEF IInv, Contiguous, TypeOK
<1>3. db \in Seq(Rows)
  BY <1>2, SeqDef
<1>4. Len(db) = MaxId
  BY <1>2, <1>3, LenProperties
<1>5. db' = Append(db, row)
  <2>1. /\ Append(db, row) \in Seq(Rows) /\ Len(Append(db, row)) = MaxId + 1
        /\ \A i \in 1..MaxId : Append(db, row)[i] = db[i]
        /\ Append(db, row)[MaxId + 1] = row
    BY <1>2, <1>3, <1>4, AppendProperties
  <2>2. db' \in [1..(MaxId + 1) -> Rows]
    BY <1>1, <1>2 DEF Put
  <2>3. MaxId + 1 \in Nat
    BY <1>2
  <2>4. db' \in Seq(Rows)
    BY <2>2, <2>3, SeqDef
  <2>5. Len(db') = MaxId + 1
    BY <2>2, <2>3, <2>4, LenProperties
  <2>6. \A i \in 1..(MaxId + 1) : db'[i] = Append(db, row)[i]
    BY <1>1, <1>2, <2>1 DEF Put
  <2> QED BY <2>1, <2>4, <2>5, <2>6, SeqEqual
<1> QED BY <1>1, <1>5 DEF Log!AppendRow

\* Whoever writes, and however its read of max(Id) and its insert interleave
\* with the others, the table is an append-only log.
THEOREM TableImplementsLog == Spec => TableIsLog
BY InitIsLog, StepAppends, Invariance, PTL DEF Spec, TableIsLog, Log!Spec

-----------------------------------------------------------------------------
(* A command comes to its end: what CommandEnds rests on.                  *)

\* The steps a handler still has to take, at most: five for every entity of its list.
Place == [check |-> 0, maxid |-> 1, insert |-> 2, dictionary |-> 3, adding |-> 4]
WorkAt(label, n) ==
    IF label = "idle" THEN 0 ELSE IF label = "enumerating" THEN 1 ELSE 5 * n - Place[label]
Work(h) == WorkAt(pc[h], Len(todo[h]))

\* Every step a handler takes in a command brings its end nearer, and nobody else's step
\* puts it off.
WorkShrinks == \A h \in Handlers :
    /\ pc[h] # "idle" => Work(h)' <= Work(h)
    /\ Serve(h) => Work(h)' < Work(h)

LEMMA WorkValues ==
    ASSUME NEW n \in Nat
    PROVE  /\ WorkAt("idle", n) = 0 /\ WorkAt("enumerating", n) = 1
           /\ WorkAt("check", n) = 5 * n /\ WorkAt("maxid", n) = 5 * n - 1
           /\ WorkAt("insert", n) = 5 * n - 2 /\ WorkAt("dictionary", n) = 5 * n - 3
           /\ WorkAt("adding", n) = 5 * n - 4
  BY DEF WorkAt, Place

\* Where a handler is busy, some work is left.
LEMMA WorkIsLeft ==
    ASSUME IInv, NEW h \in Handlers
    PROVE  /\ Len(todo[h]) \in Nat /\ Work(h) \in Nat
           /\ pc[h] # "idle" => Work(h) > 0
           /\ pc[h] \in AddStates => Len(todo[h]) > 0
<1>1. Len(todo[h]) \in Nat /\ pc[h] \in HandlerStates /\ todo[h] \in Seq(Entities)
  BY LenProperties DEF IInv, TypeOK
<1>2. pc[h] \in AddStates => Len(todo[h]) > 0
  BY <1>1, EmptySeq, LenProperties DEF IInv, HandlerInv
<1>3. pc[h] \in {"idle", "enumerating"} \cup AddStates
  BY <1>1 DEF HandlerStates, AddStates
<1>4. CASE pc[h] = "idle"
  <2>1. Work(h) = 0
    BY <1>4 DEF Work, WorkAt
  <2> QED BY <1>1, <1>2, <1>4, <2>1
<1>5. CASE pc[h] = "enumerating"
  <2>1. Work(h) = 1
    BY <1>5 DEF Work, WorkAt
  <2> QED BY <1>1, <1>2, <1>5, <2>1
<1>6. CASE pc[h] \in AddStates
  <2>1. PICK n \in Nat : n = Len(todo[h])
    BY <1>1
  <2>2. n > 0 /\ Work(h) = WorkAt(pc[h], n)
    BY <1>2, <1>6, <2>1 DEF Work
  <2>3. Work(h) \in {5 * n, 5 * n - 1, 5 * n - 2, 5 * n - 3, 5 * n - 4}
    BY <1>6, <2>2, WorkValues DEF AddStates
  <2> QED BY <1>1, <1>2, <1>6, <2>2, <2>3
<1> QED BY <1>3, <1>4, <1>5, <1>6

\* A handler's own step.
LEMMA ServeShrinks ==
    ASSUME IInv, NEW h \in Handlers, Serve(h)
    PROVE  /\ Work(h)' \in Int /\ Work(h)' < Work(h)
           /\ \A g \in Handlers : g # h => Work(g)' = Work(g)
<1>t. pc \in [Handlers -> HandlerStates] /\ todo \in [Handlers -> Seq(Entities)]
  BY DEF IInv, TypeOK
<1>1. PICK n \in Nat : n = Len(todo[h])
  BY WorkIsLeft
<1>2. PICK l : l = pc[h]
  OBVIOUS
<1>3. Work(h) = WorkAt(l, n) /\ Work(h) \in Nat /\ (l # "idle" => Work(h) > 0)
      /\ (l \in AddStates => n > 0)
  BY <1>1, <1>2, WorkIsLeft DEF Work
<1>o. ASSUME NEW g \in Handlers, pc'[g] = pc[g], todo'[g] = todo[g]
      PROVE  Work(g)' = Work(g)
  BY <1>o DEF Work
<1>4. CASE Drop(h) /\ l # "idle"
  <2>1. pc'[h] = "idle" /\ \A g \in Handlers : g # h => pc'[g] = pc[g] /\ todo'[g] = todo[g]
    BY <1>4, <1>t DEF Drop, Goto
  <2>2. todo'[h] = <<>>
    BY <1>4, <1>t DEF Drop
  <2>3. Work(h)' = WorkAt("idle", 0)
    BY <2>1, <2>2, EmptySeq DEF Work
  <2>4. Work(h)' = 0
    BY <2>3, WorkValues
  <2> QED BY <1>3, <1>4, <1>o, <2>1, <2>4
<1>5. ASSUME NEW k, Goto(h, k), todo' = todo,
             <<l, k>> \in {<<"enumerating", "idle">>, <<"check", "maxid">>, <<"maxid", "insert">>,
                          <<"insert", "dictionary">>, <<"dictionary", "adding">>}
      PROVE  /\ Work(h)' \in Int /\ Work(h)' < Work(h)
             /\ \A g \in Handlers : g # h => Work(g)' = Work(g)
  <2>1. pc'[h] = k /\ \A g \in Handlers : g # h => pc'[g] = pc[g]
    BY <1>5, <1>t DEF Goto
  <2>2. Work(h)' = WorkAt(k, n)
    BY <1>1, <1>5, <2>1 DEF Work
  <2>3. WorkAt(k, n) \in Int /\ WorkAt(k, n) < WorkAt(l, n)
    <3>1. \/ WorkAt(l, n) = 1 /\ WorkAt(k, n) = 0
          \/ WorkAt(l, n) = 5 * n /\ WorkAt(k, n) = 5 * n - 1
          \/ WorkAt(l, n) = 5 * n - 1 /\ WorkAt(k, n) = 5 * n - 2
          \/ WorkAt(l, n) = 5 * n - 2 /\ WorkAt(k, n) = 5 * n - 3
          \/ WorkAt(l, n) = 5 * n - 3 /\ WorkAt(k, n) = 5 * n - 4
      BY <1>5, WorkValues, Zenon
    <3> QED BY <3>1
  <2> QED BY <1>3, <1>5, <1>o, <2>1, <2>2, <2>3
<1>6. CASE l = "adding" /\ NextEntity(h)
  <2>1. /\ todo' = [todo EXCEPT ![h] = Tail(todo[h])]
        /\ \/ n > 1 /\ pc' = [pc EXCEPT ![h] = "check"]
           \/ n <= 1 /\ pc' = [pc EXCEPT ![h] = "idle"]
    BY <1>1, <1>6 DEF NextEntity, Goto
  <2>2. todo[h] # <<>> /\ todo[h] \in Seq(Entities)
    BY <1>2, <1>6, <1>t DEF IInv, HandlerInv, AddStates
  <2>3. Len(Tail(todo[h])) = n - 1 /\ n > 0
    BY <1>1, <1>3, <1>6, <2>2, HeadTailProperties DEF AddStates
  <2>4. todo'[h] = Tail(todo[h]) /\ \A g \in Handlers : g # h => todo'[g] = todo[g]
    BY <2>1, <1>t
  <2>5. /\ (n > 1 /\ pc'[h] = "check") \/ (n <= 1 /\ pc'[h] = "idle")
        /\ \A g \in Handlers : g # h => pc'[g] = pc[g]
    BY <2>1, <1>t
  <2>6. Work(h)' = WorkAt(pc'[h], n - 1)
    BY <2>3, <2>4 DEF Work
  <2>7. WorkAt("check", n - 1) = 5 * (n - 1) /\ WorkAt("idle", n - 1) = 0
        /\ WorkAt("adding", n) = 5 * n - 4
    BY <2>3, WorkValues
  <2>8. Work(h)' \in Int /\ Work(h)' < Work(h)
    BY <1>3, <1>6, <2>3, <2>5, <2>6, <2>7
  <2> QED BY <1>o, <2>4, <2>5, <2>8
<1>7. CASE EndQuery(h)
  <2>1. Goto(h, "idle") /\ l = "enumerating" /\ todo' = todo
    BY <1>2, <1>7 DEF EndQuery, At
  <2> QED BY <1>5, <2>1
<1>8. CASE QueryThrows(h)
  BY <1>2, <1>4, <1>8 DEF QueryThrows, At
<1>9. CASE KeyMissing(h)
  BY <1>2, <1>5, <1>9 DEF KeyMissing, At
<1>10. CASE KeyHeld(h)
  BY <1>2, <1>4, <1>10 DEF KeyHeld, At
<1>11. CASE GetMaxId(h)
  <2>1. Goto(h, "insert") /\ l = "maxid" /\ todo' = todo
    BY <1>2, <1>11 DEF GetMaxId, At
  <2> QED BY <1>5, <2>1
<1>12. CASE Insert(h)
  BY <1>2, <1>5, <1>12 DEF Insert, At
<1>13. CASE InsertThrows(h)
  BY <1>2, <1>4, <1>13 DEF InsertThrows, At
<1>14. CASE InsertUnconfirmed(h)
  BY <1>2, <1>4, <1>14 DEF InsertUnconfirmed, At
<1>15. CASE BeginDictionaryAdd(h)
  BY <1>2, <1>5, <1>15 DEF BeginDictionaryAdd, At
<1>16. CASE EndDictionaryAdd(h)
  BY <1>2, <1>6, <1>16 DEF EndDictionaryAdd, At
<1>17. CASE EndOverlappedAdd(h)
  BY <1>2, <1>6, <1>17 DEF EndOverlappedAdd, At
<1>18. CASE OverlappedAddThrows(h)
  BY <1>2, <1>4, <1>18 DEF OverlappedAddThrows, At
<1>19. CASE GetMaxIdThrows(h)
  BY <1>2, <1>4, <1>19 DEF GetMaxIdThrows, At
<1> QED BY <1>7, <1>8, <1>9, <1>10, <1>11, <1>12, <1>13, <1>14, <1>15, <1>16, <1>17, <1>18, <1>19 DEF Serve

\* A step of the server process or of the inserter, or one that starts a command.
LEMMA OthersShrink ==
    ASSUME IInv, \/ Load \/ StartServer \/ Inserter \/ UNCHANGED vars
                 \/ \E h \in Handlers : Receive(h)
    PROVE  \A g \in Handlers : pc[g] # "idle" => Work(g)' = Work(g)
<1>t. pc \in [Handlers -> HandlerStates] /\ todo \in [Handlers -> Seq(Entities)]
  BY DEF IInv, TypeOK
<1>o. ASSUME NEW g \in Handlers, pc'[g] = pc[g], todo'[g] = todo[g]
      PROVE  Work(g)' = Work(g)
  BY <1>o DEF Work
<1>1. CASE Load \/ StartServer \/ Inserter \/ UNCHANGED vars
  <2>1. pc' = pc /\ todo' = todo
    BY <1>1 DEF Load, StartServer, Inserter, InserterCounts, InserterInserts, InserterDies,
                InserterRestarts, vars, handlerVars
  <2> QED BY <1>o, <2>1
<1>2. ASSUME NEW h \in Handlers, Receive(h)
      PROVE  \A g \in Handlers : pc[g] # "idle" => Work(g)' = Work(g)
  <2>1. CASE \E i \in DOMAIN cache : FindById(h, i)
    BY <1>o, <2>1 DEF FindById, handlerVars
  <2>2. CASE BeginQuery(h)
    <3>1. pc[h] = "idle" /\ pc' = [pc EXCEPT ![h] = "enumerating"] /\ todo' = todo
      BY <2>2 DEF BeginQuery, At, Goto
    <3> QED BY <1>o, <1>t, <3>1
  <2>3. ASSUME NEW list \in Adds, ReceiveAdd(h, list)
        PROVE  \A g \in Handlers : pc[g] # "idle" => Work(g)' = Work(g)
    <3>1. /\ pc[h] = "idle" /\ pc' = [pc EXCEPT ![h] = IF list = <<>> THEN "idle" ELSE "check"]
          /\ todo' = [todo EXCEPT ![h] = list]
      BY <2>3 DEF ReceiveAdd, At, Goto
    <3>2. \A g \in Handlers : pc[g] # "idle" => pc'[g] = pc[g] /\ todo'[g] = todo[g]
      BY <1>t, <3>1
    <3> QED BY <1>o, <3>2
  <2> QED BY <1>2, <2>1, <2>2, <2>3 DEF Receive
<1> QED BY <1>1, <1>2

\* All steps together; after a crash no handler has anything left to do.
LEMMA StepShrinks == IInv /\ [Next]_vars => WorkShrinks
<1> SUFFICES ASSUME IInv, [Next]_vars, NEW h \in Handlers
             PROVE  /\ pc[h] # "idle" => Work(h)' <= Work(h)
                    /\ Serve(h) => Work(h)' < Work(h)
  BY Zenon DEF WorkShrinks
<1>n. Work(h) \in Nat
  BY WorkIsLeft
<1>1. ASSUME Serve(h)
      PROVE  Work(h)' < Work(h)
  BY <1>1, ServeShrinks
<1>2. ASSUME pc[h] # "idle"
      PROVE  Work(h)' <= Work(h)
  <2>1. CASE \/ Load \/ StartServer \/ Inserter \/ UNCHANGED vars
             \/ \E g \in Handlers : Receive(g)
    BY <1>2, <1>n, <2>1, OthersShrink
  <2>2. CASE Crash
    <3>1. pc'[h] = "idle"
      BY <2>2 DEF Crash
    <3>2. Work(h)' = 0
      BY <3>1 DEF Work, WorkAt
    <3> QED BY <1>n, <3>2
  <2>3. CASE \E g \in Handlers : Serve(g)
    <3>1. PICK g \in Handlers : Serve(g)
      BY <2>3
    <3>2. CASE g = h
      BY <1>n, <3>1, <3>2, ServeShrinks
    <3>3. CASE g # h
      BY <1>n, <3>1, <3>3, ServeShrinks
    <3> QED BY <3>2, <3>3
  <2> QED BY <2>1, <2>2, <2>3 DEF Next
<1> QED BY <1>1, <1>2

\* A command has at most five steps for every entity of its list, and every step that its
\* handler takes, also one that fails, uses one of them up; neither the other handlers nor
\* the inserter nor a crash can give any back.
THEOREM CommandsShrink == Spec => [][WorkShrinks]_vars
  BY Invariance, StepShrinks, PTL DEF Spec

=============================================================================
