--------------------------- MODULE SecondaryIndex ---------------------------
(***************************************************************************)
(* The index of an attribute: how commits keep it (updateIndices of        *)
(* Table.ts), how it is built for a table that has records already (table  *)
(* and runIndexing of databases.ts) while the threads write, and what      *)
(* searches find in it (searchByIndex), over RocksDB.                      *)
(*                                                                         *)
(* The attribute's value is the set of the values that are indexed for it  *)
(* (getIndexedValues): of a primitive one, of an array its elements.       *)
(* Updates are puts, so that an older one is superseded by the record; how *)
(* patches are merged is the matter of RecordResolution.  The native       *)
(* transactions are those of DatabaseTransaction: what is put in one is    *)
(* stored by its commit, unless a record it read was changed meanwhile.    *)
(***************************************************************************)
EXTENDS Integers, Sequences

CONSTANTS
    Threads,
    Main,           \* the thread that defines the index and builds it
    LastKey,        \* the keys are 1..LastKey, in the order of the store
    Values,
    MaxTime,        \* bound on the transactions
    MaxWrites,      \* bound on the writes of one
    MaxRestarts,
    Interrupts,     \* TRUE if the building thread may be restarted, and not the process
    Excused         \* see Causes

(***************************************************************************)
(* What puts or removes entries apart from the transaction of the record:  *)
(*   delete:  a delete removes the entries when it is saved                *)
(*   evict:   the entries of a record that is evicted are left             *)
(*   scan:    the scan puts entries of a record that has changed since     *)
(*   unaware: a transaction wrote before its thread knew the index         *)
(*   lost:    a crash loses what RocksDB had not flushed                   *)
(***************************************************************************)
Causes == {"delete", "evict", "scan", "unaware", "lost"}

Keys == 1..LastKey

ASSUME IndexAssumption ==
    /\ Main \in Threads
    /\ {LastKey, MaxTime, MaxWrites, MaxRestarts} \subseteq Nat
    /\ Interrupts \in BOOLEAN
    /\ Excused \subseteq Causes

VARIABLES
    store,      \* primaryStore
    index,      \* the index store: pairs of a value and a key
    txn,        \* the transaction of each thread
    known,      \* threads that have opened the index, and write to it
    descriptor, \* of the attribute, in attributesDbi; mine: indexingPID is this process's
    isIndexing, \* of the index, in the building thread
    indexer,    \* runIndexing
    time,       \* the timestamps that were given
    restarts,
    astray      \* history: the entries that the causes in Excused have touched, since
                \* the index was cleared

vars == <<store, index, txn, known, descriptor, isIndexing, indexer, time, restarts, astray>>

Absent == [exists |-> FALSE, values |-> {}, version |-> 0]

\* based: the versions of the records when the transaction wrote them.  History:
\* unaware, the keys it wrote without the index; deleted, the entries it removed at once.
NoTxn == [timestamp |-> 0, writes |-> <<>>, staged |-> <<>>, based |-> <<>>,
          adds |-> {}, removes |-> {}, unaware |-> {}, deleted |-> {}]

Open(t) == txn[t].timestamp > 0

NoIndexer == [at |-> "none", cursor |-> 1, pending |-> {}]

Pairs(k, values) == {<<v, k>> : v \in values}

Entries == UNION {Pairs(k, store[k].values) : k \in Keys}

Touched(cause, pairs) == IF cause \in Excused THEN pairs ELSE {}
-----------------------------------------------------------------------------
(***************************************************************************)
(* The transactions of the requests.                                       *)
(***************************************************************************)

\* updateIndices, with the transaction; x has the transaction, the index, and astray.
UpdateIndices(x, k, old, new) ==
    [x EXCEPT !.txn.adds    = (@ \ Pairs(k, old \ new)) \cup Pairs(k, new \ old),
              !.txn.removes = (@ \ Pairs(k, new \ old)) \cup Pairs(k, old \ new)]

\* store.getEntry with the transaction.
GetEntry(x, k) == IF k \in DOMAIN x.txn.staged THEN x.txn.staged[k] ELSE store[k]

Stage(x, k, record, indexed) ==
    [x EXCEPT !.txn.staged = [j \in DOMAIN @ \cup {k} |-> IF j = k THEN record ELSE @[j]],
              !.txn.based  = [j \in DOMAIN @ \cup {k} |->
                                 IF j \in DOMAIN @ THEN @[j] ELSE store[k].version],
              !.txn.unaware = IF indexed THEN @ ELSE @ \cup {k}]

\* The commit function of _writeUpdate, for a put.
WriteUpdate(x, w, indexed) ==
    LET existing == GetEntry(x, w.key)
        updated  == IF indexed THEN UpdateIndices(x, w.key, existing.values, w.values) ELSE x
    IN IF x.txn.timestamp < existing.version THEN x
       ELSE Stage(updated, w.key, [exists |-> TRUE, values |-> w.values,
                                   version |-> x.txn.timestamp], indexed)

\* That of _writeDelete: it calls updateIndices without the transaction.
WriteDelete(x, w, indexed) ==
    LET existing == GetEntry(x, w.key)
        removed  == IF indexed THEN Pairs(w.key, existing.values) ELSE {}
    IN IF x.txn.timestamp <= existing.version THEN x
       ELSE Stage([x EXCEPT !.index  = @ \ removed,
                            !.txn.deleted = @ \cup removed,
                            !.astray = @ \cup Touched("delete", removed)],
                  w.key, [Absent EXCEPT !.version = x.txn.timestamp], indexed)

Save(x, w, indexed) ==
    IF w.type = "put" THEN WriteUpdate(x, w, indexed) ELSE WriteDelete(x, w, indexed)

State(t) == [txn |-> txn[t], index |-> index, astray |-> astray]

Begin(t) ==
    /\ ~Open(t)
    /\ time < MaxTime
    /\ time' = time + 1
    /\ txn' = [txn EXCEPT ![t].timestamp = time']
    /\ UNCHANGED <<store, index, known, descriptor, isIndexing, indexer, restarts, astray>>

Writes == [type : {"put"}, key : Keys, values : SUBSET Values]
     \cup [type : {"delete"}, key : Keys, values : {{}}]

Write(t) ==
    /\ Open(t)
    /\ Len(txn[t].writes) < MaxWrites
    /\ \E w \in Writes :
          LET saved == Save(State(t), w, t \in known)
          IN /\ txn' = [txn EXCEPT ![t] = [saved.txn EXCEPT !.writes = Append(@, w)]]
             /\ index' = saved.index
             /\ astray' = saved.astray
    /\ UNCHANGED <<store, known, descriptor, isIndexing, indexer, time, restarts>>

Conflicts(x) == \E k \in DOMAIN x.staged : store[k].version # x.based[k]

\* The entries that a record written without the index should have lost or got.
Missed(x) ==
    IF descriptor.state = "none" THEN {}
    ELSE UNION {Pairs(k, (store[k].values \ x.staged[k].values) \cup
                         (x.staged[k].values \ store[k].values)) : k \in x.unaware}

\* The native commit.
StoreAll(x) ==
    /\ store' = [k \in Keys |-> IF k \in DOMAIN x.staged THEN x.staged[k] ELSE store[k]]
    /\ index' = (index \cup x.adds) \ x.removes
    /\ astray' = astray \cup Touched("unaware", Missed(x)) \cup Touched("delete", x.deleted)

Commit(t) ==
    /\ Open(t)
    /\ ~Conflicts(txn[t])
    /\ StoreAll(txn[t])
    /\ txn' = [txn EXCEPT ![t] = NoTxn]
    /\ UNCHANGED <<known, descriptor, isIndexing, indexer, time, restarts>>

\* Mutant: on the retry the writes keep what they did to the index.
RetryKeepsIndex(t) ==
    [State(t) EXCEPT !.txn.based = [k \in DOMAIN @ |-> store[k].version]]

\* Every write is saved again, with the record as it is now.
SavedAgain(t) ==
    LET writes == txn[t].writes
        reset  == [NoTxn EXCEPT !.timestamp = txn[t].timestamp, !.writes = writes]
        saved[i \in 0..Len(writes)] ==
            IF i = 0 THEN [State(t) EXCEPT !.txn = reset]
            ELSE Save(saved[i - 1], writes[i], t \in known)
    IN saved[Len(writes)]

CommitRetries(t) ==
    /\ Open(t)
    /\ Conflicts(txn[t])
    /\ txn' = [txn EXCEPT ![t] = SavedAgain(t).txn]
    /\ index' = SavedAgain(t).index
    /\ astray' = SavedAgain(t).astray
    /\ UNCHANGED <<store, known, descriptor, isIndexing, indexer, time, restarts>>

Abort(t) ==
    /\ Open(t)
    /\ txn' = [txn EXCEPT ![t] = NoTxn]
    /\ UNCHANGED <<store, index, known, descriptor, isIndexing, indexer, time, restarts, astray>>

\* evict, of a record that expired: RocksDB has no ifVersion, with which the
\* index would be updated.
Evict(k) ==
    /\ store[k].exists
    /\ store' = [store EXCEPT ![k] = Absent]
    /\ astray' = astray \cup Touched("evict", index \cap Pairs(k, store[k].values))
    /\ UNCHANGED <<index, txn, known, descriptor, isIndexing, indexer, time, restarts>>
-----------------------------------------------------------------------------
(***************************************************************************)
(* The definition of the index, and its building.                          *)
(***************************************************************************)
\* A deletion entry counts.
HasExistingData == \E k \in Keys : store[k] # Absent

\* Mutant: that a process ended while it built the index is not seen.
ChangedOnly == descriptor.state = "none"

\* The attribute's index is new, or another process was building it.
Changed == descriptor.state = "none" \/ (descriptor.state = "building" /\ ~descriptor.mine)

\* table(), whose index is ready at once for an empty table.
DefineIndex ==
    /\ Changed
    /\ known' = known \cup {Main}
    /\ isIndexing' = HasExistingData
    /\ descriptor' = [descriptor EXCEPT !.state = IF HasExistingData THEN "building" ELSE "ready",
                                        !.lastIndexedKey = IF HasExistingData THEN @ ELSE 0,
                                        !.mine = TRUE]
    /\ indexer' = IF HasExistingData THEN [NoIndexer EXCEPT !.at = "signal"] ELSE NoIndexer
    /\ UNCHANGED <<store, index, txn, time, restarts, astray>>

\* The other threads load the tables again at the signal.
LoadIndex(t) ==
    /\ t \notin known
    /\ descriptor.state # "none"
    /\ known' = known \cup {t}
    /\ UNCHANGED <<store, index, txn, descriptor, isIndexing, indexer, time, restarts, astray>>

\* All threads have answered.  The index is cleared, unless it is resumed.
StartScan ==
    /\ indexer.at = "signal"
    /\ known = Threads
    /\ IF descriptor.lastIndexedKey = 0
       THEN /\ index' = {}
            /\ astray' = {}
            /\ indexer' = [indexer EXCEPT !.at = "scan", !.cursor = 1]
       ELSE /\ indexer' = [indexer EXCEPT !.at = "scan", !.cursor = descriptor.lastIndexedKey]
            /\ UNCHANGED <<index, astray>>
    /\ UNCHANGED <<store, txn, known, descriptor, isIndexing, time, restarts>>

\* The next record as it is now (snapshot: false), or a deletion entry, which is
\* skipped.
ScanRead ==
    /\ indexer.at = "scan"
    /\ indexer.cursor <= LastKey
    /\ indexer' = [indexer EXCEPT !.at = "put",
                                  !.pending = Pairs(indexer.cursor, store[indexer.cursor].values)]
    /\ UNCHANGED <<store, index, txn, known, descriptor, isIndexing, time, restarts, astray>>

\* Mutant: the next record.
NextKey == indexer.cursor + 1

\* Where a later scan resumes.
IndexedKey == indexer.cursor

\* Its values are put, whatever happened to it since.  The progress is saved
\* with every 100th record, which any may be.
ScanPut ==
    /\ indexer.at = "put"
    /\ index' = index \cup indexer.pending
    /\ astray' = astray \cup Touched("scan", indexer.pending \ Entries)
    /\ indexer' = [at |-> "scan", cursor |-> indexer.cursor + 1, pending |-> {}]
    /\ \/ descriptor' = [descriptor EXCEPT !.lastIndexedKey = IndexedKey]
       \/ UNCHANGED descriptor
    /\ UNCHANGED <<store, txn, known, isIndexing, time, restarts>>

\* A worker that is told to restart ends the scan; its successor has the same
\* process id, and finds nothing to do.
Interrupted == Interrupts /\ indexer.cursor \in 2..LastKey

Finish ==
    /\ indexer.at = "scan"
    /\ indexer.cursor > LastKey \/ Interrupted
    /\ indexer' = [NoIndexer EXCEPT !.at = "done"]
    /\ isIndexing' = FALSE
    /\ descriptor' = IF Interrupted
                     THEN [descriptor EXCEPT !.lastIndexedKey = indexer.cursor - 1]
                     ELSE [state |-> "ready", lastIndexedKey |-> 0, mine |-> FALSE]
    /\ UNCHANGED <<store, index, txn, known, time, restarts, astray>>

\* What a crash takes from an index that is not built anew.
Lost == IF descriptor.state = "building" /\ descriptor.lastIndexedKey = 0 THEN {}
        ELSE index \ index'

\* The process ends and starts again, with the tables and indices there are.  Of
\* an index only the descriptor is certain to be stored, as only attributesDbi uses
\* the log of RocksDB.
Restart ==
    /\ restarts < MaxRestarts
    /\ restarts' = restarts + 1
    /\ txn' = [t \in Threads |-> NoTxn]
    /\ known' = IF descriptor.state = "none" THEN {} ELSE Threads
    /\ descriptor' = [descriptor EXCEPT !.mine = FALSE]
    /\ isIndexing' = FALSE
    /\ indexer' = NoIndexer
    /\ index' \in {index, {}}
    /\ astray' = astray \cup Touched("lost", Lost)
    /\ UNCHANGED <<store, time>>
-----------------------------------------------------------------------------
Init ==
    /\ store = [k \in Keys |-> Absent]
    /\ index = {}
    /\ txn = [t \in Threads |-> NoTxn]
    /\ known = {}
    /\ descriptor = [state |-> "none", lastIndexedKey |-> 0, mine |-> FALSE]
    /\ isIndexing = FALSE
    /\ indexer = NoIndexer
    /\ time = 0
    /\ restarts = 0
    /\ astray = {}

Request(t) ==
    Begin(t) \/ Write(t) \/ Commit(t) \/ CommitRetries(t) \/ Abort(t)

Indexing == StartScan \/ ScanRead \/ ScanPut \/ Finish

Next ==
    \/ \E t \in Threads : Request(t) \/ LoadIndex(t)
    \/ \E k \in Keys : Evict(k)
    \/ DefineIndex \/ Indexing \/ Restart

\* The threads answer the signal, and the building thread runs on.
Fairness ==
    /\ \A t \in Threads : WF_vars(LoadIndex(t))
    /\ WF_vars(DefineIndex)
    /\ WF_vars(Indexing)

Spec == Init /\ [][Next]_vars

FairSpec == Spec /\ Fairness
-----------------------------------------------------------------------------
(***************************************************************************)
(* Properties.                                                             *)
(***************************************************************************)
Records == [exists : BOOLEAN, values : SUBSET Values, version : 0..MaxTime]

TypeOK ==
    /\ store \in [Keys -> Records]
    /\ index \subseteq Values \X Keys /\ astray \subseteq Values \X Keys
    /\ \A t \in Threads :
          /\ txn[t].timestamp \in 0..MaxTime
          /\ DOMAIN txn[t].staged = DOMAIN txn[t].based
          /\ txn[t].unaware \subseteq DOMAIN txn[t].staged
          /\ txn[t].adds \cap txn[t].removes = {}
    /\ known \subseteq Threads
    /\ descriptor \in [state : {"none", "building", "ready"}, lastIndexedKey : 0..LastKey,
                      mine : BOOLEAN]
    /\ isIndexing \in BOOLEAN
    /\ indexer.at \in {"none", "signal", "scan", "put", "done"}
    /\ indexer.cursor \in 1..(LastKey + 1)

\* An index that is ready has an entry for each value of each record, and no other,
\* so that a search misses no record and finds none that has lost the value, but
\* for the entries that one of the five causes has touched.
IndexExact ==
    descriptor.state = "ready" =>
       \A p \in (index \cup Entries) \ astray : p \in index /\ p \in Entries

\* An index that is being built will be ready.
IndexingCompletes == (descriptor.state = "building") ~> (descriptor.state = "ready")
=============================================================================
