# Verification of Harper: transactions, caching, replication, sessions and threads

This directory holds TLA+ specifications of the parts of Harper whose
correctness depends on the order in which things happen: what a request's
transaction promises, what a caching table stores and answers, what becomes of a record whose
updates arrive out of order or are replayed after a crash, how an index is built while
its table is in use, which messages a durable session keeps for its client, how
worker threads are restarted, and how ids are given. Each module
is a translation of the TypeScript source it names (`PROJECT.json`, "map": every
definition with the lines it stands for); TLC checks it on small instances, and
TLAPS proves what is said below to be proved for every value of the constants.

## 1. The system

Harper runs one HTTP server per worker thread, over one embedded store
(RocksDB, through `@harperfast/rocksdb-js`; LMDB in older databases) that the
threads of a process share. A thread is a JavaScript event loop: a call runs to
completion, and everything else happens at an `await`, in a callback or in
another thread or process that uses the same store.

| part | state | operations | meets | hard behaviour |
|---|---|---|---|---|
| request transactions, `resources/DatabaseTransaction.ts`, `transaction.ts` | per database of a context: `open`, `transaction`, `readTxnsUsed`, `readTxnRefCount`, `writes`, `completions`, `validated`, `retries`, `next`; the set of tracked transactions | `getReadTxn`, `useReadTxn`, `doneReadTxn`, `disregardReadTxn`, `addWrite`, `save`, `commit`, `abort`, the monitor | called by `Table.ts` for every read and write; hands commits to the store; commit functions run inside `save` | overlapping commits of one object, hooks that finish late, ERR_BUSY retries, iterators that outlive the request, long transactions |
| loading of cached records, `Table.ts` (`getFromSource`, `_loadRecord`, `evict`, `invalidate`) | the record's entry, the store's lock on it, requests that wait | tryLock, callback, LOCK_TIMEOUT, call of the source, commit function with a version guard | a load is a transaction of its own; writes, invalidations, expiry and eviction go on meanwhile | stale results put back, lost wake-ups, two loads at once |
| out-of-order resolution, `Table.ts` (`_writeUpdate`, `_writeDelete`, `_writeInvalidate`), `crdt.ts`, `tracked.ts` | record, its version, its references into the log; the log | `precedesExistingVersion`, walk back over the log, `rebuildUpdateBefore`, reapply | run in the commit function of a write, local or replicated | updates that arrive late, twice, or in another order at another node |
| transaction log and audit store, `RocksTransactionLogStore.ts`, `auditStore.ts` | log entries by timestamp | `addEntry`, `get`, `getRange`, cleanup | written by `recordUpdater` in `save`; read by subscribers, replication, replay | one entry per stored write, whatever was retried |
| replay, `replayLogs.ts` | the position up to which the store is durable | group entries by version, apply, `directCommitSync` | `_writeUpdate` through the table | a crash between two commits |
| local publish/subscribe, `transactionBroadcast.ts` | subscriptions, last published time, a shared buffer with it | `listenToCommits`, `notifyFromTransactionData` | reads the log after `aftercommit` of any thread | missed or repeated events |
| durable MQTT sessions, `server/DurableSubscriptionsSession.ts` | subscriptions with `startTime`, `acks`, message ids | `addSubscription`, `resume`, `acknowledge`, `saveSubscriptions` | subscriptions of tables; a table that stores sessions | acknowledgements out of order, a disconnect before a save |
| worker threads, `server/threads/manageThreads.js`, `bin/restart.ts` | the list of workers, who is starting or being shut down | `startWorker`, `restartWorkers`, exit handler, `broadcastWithAcknowledgement` | messages between threads | restarts that overlap, exits in the middle of one |
| component status, `components/status/*` | each thread's statuses | collect from all threads with a timeout | messages between threads | late and missing answers |
| indexes, `databases.ts` (`table`, `runIndexing`), `Table.ts` (`updateIndices`) | index entries, the attribute's descriptor (`indexingPID`, `lastIndexedKey`), `isIndexing` | `updateIndices` in the commit function, scan of the records, `schema-change` signal, searches | transactions of all threads, eviction, restarts | records that change under the scan, threads that do not know the index yet, a scan that is interrupted |
| id allocation, `Table.ts` (`getNewId`) | a shared counter, the stored end of the range | `getNewId`, `createNewAllocation` | several threads, the store | two threads that allocate at once |
| throttling, `server/throttle.ts` | queue of calls | enqueue, drain, reject | wraps the operations | the limit of the queue |
| blobs, schemas, query planning, loader, storage reclamation, REST and operations servers, security, SQL, command line, analytics | | | | not concurrent, or about I/O: section 6 |

What makes each part correct:

- *transactions*: what `commit()` reported is stored, once, over the state it was
  computed from, after its hooks, with one log entry; what was aborted or
  rejected is not; no snapshot is left open, and none is pulled from under an
  iterator.
- *caching*: at most one load of a record at a time; nobody waits for ever; no
  load puts back something older than the last write or invalidation, and no request is
  answered with it but when the source is out of reach.
- *resolution*: replicas that received the same updates hold the same record,
  and no increment is counted twice or not at all.
- *log, replay, broadcast, sessions*: each stored write is seen once, in order,
  also after a crash or a disconnect.
- *threads*: a restart replaces every worker, never more than the permitted
  number at once; who waits for all threads is answered although one of them exits.
- *indexes*: an index that is ready has an entry for each value of each record, and no
  others; one that was begun is completed.
- *ids*: no id is given twice, and none is the key of a record.

`PROJECT.json`, "hazards", lists where each of these could go wrong, line by
line, with the property that would notice.

## 2. Modules

| module | models | depends on |
|---|---|---|
| `DatabaseTransaction` | the life of one request transaction | - |
| `MCDatabaseTransaction` | its constants for TLC, symmetry | `DatabaseTransaction` |
| `DatabaseTransactionProofs` | theorems about it: types, native transactions, aborts | `DatabaseTransaction`, `TLAPS` |
| `DatabaseTransactionUpdateProofs` | that no update is lost | `DatabaseTransactionProofs` |
| `DatabaseTransactionCommitProofs` | that commits take turns, await the hooks, end with the request, and store each write once, with one log entry; that a commit which resolves has left none behind | `DatabaseTransactionUpdateProofs` |
| `SourceCache` | loading one record of a caching table | - |
| `MCSourceCache` | its constants for TLC, symmetry | `SourceCache` |
| `SourceCacheProofs` | theorems about `SourceCache` | `SourceCache`, `TLAPS` |
| `RecordResolution` | a record's updates arriving in any order | - |
| `MCRecordResolution` | the updates there may be, for TLC | `RecordResolution` |
| `CrashRecovery` | crashes, and the replay of the logs, around the record of `RecordResolution` | `RecordResolution` |
| `MCCrashRecovery` | the updates there may be, for TLC | `CrashRecovery` |
| `SecondaryIndex` | an index: its upkeep by transactions, its building, its use | - |
| `SecondaryIndexProofs` | theorems about `SecondaryIndex` | `SecondaryIndex`, `TLAPS` |
| `DurableSession` | a durable MQTT session | `AtLeastOnce` |
| `AtLeastOnce` | what such a session promises, abstractly | - |
| `MCDurableSession` | the topics, for TLC | `DurableSession` |
| `DurableSessionProofs` | types, that nothing is sent twice or forgotten, that a session is safe for `AtLeastOnce` | `DurableSession`, `TLAPS` |
| `WorkerThreads` | restarts and exits of worker threads, jobs | - |
| `MCWorkerThreads` | the calls that are made, for TLC | `WorkerThreads` |
| `WorkerThreadsProofs` | theorems about `WorkerThreads` | `WorkerThreads`, `TLAPS` |
| `IdAllocation` | numeric ids of new records | - |
| `MCIdAllocation` | symmetry and a constraint, for TLC | `IdAllocation` |
| `IdAllocationProofs` | theorems about `IdAllocation` | `IdAllocation`, `TLAPS` |

Three modules (`CrashRecovery`, `DurableSession`, `WorkerThreads`) have a constant `Allowed`, a
subset of their `Circumstances`: things
the code lets happen, or does, that break one of the properties. The runs have
`Allowed = {}` and so say what holds otherwise; section 4 says for each circumstance
which property fails with it. A circumstance is a guard or a branch of the same
actions, never another model.

In `SecondaryIndex` and `IdAllocation` what breaks the properties is part of the ordinary course of
things: every delete, every eviction, every allocation by two threads. There nothing is kept from
happening. The `Causes` are recorded in a history variable, `astray` (the index entries that one of them has touched) or
`causes` (those there were), which no guard reads, and the property excuses what those in the constant `Excused`
have led to. The run excuses what the code is known to do; where one of the causes
is not excused, TLC finds the property violated (section 4).

### DatabaseTransaction

The context of a request holds a chain of `DatabaseTransaction` objects, one per
database, linked by `next`. Constants: the number of databases, the keys of each,
iterators, and which of the uncommon things may happen (hooks that reject, use
after commit, timeouts...), so that each run can be about one question.

| TLA+ | code |
|---|---|
| `open transaction used refs tracked writes validated retries completions` | the fields `open`, `transaction`, `readTxnsUsed`, `readTxnRefCount`, membership in `trackedTxns`, `writes`, `validated`, `retries`, `completions` |
| `saved`, `entry` | `operation.saved`, `operation.entry` of each write (a version; 0 is undefined) |
| `chain` | whether the object exists and `next` still leads to it |
| `stack` | the synchronous call in progress: `save`, the loop of `commit`, its part behind `when`, the end of `abort` |
| `parked`, `waits` | commits that await the before hooks, and native commits |
| `native`, `version`, `logged` | the native optimistic transactions, the stored versions, the log (external) |
| `Write WriteLoaded Event` | `update put patch delete`, `invalidate`, `publish` of `Table.ts` up to `addWrite` |
| `ScanStart ScanDone` | `search` with `useReadTxn`, and `onDone` |
| `LoadStart LoadFromSource SourceLoaded` | `_loadRecord` up to its read, `disregardReadTxn`, the record stored by the load's own transaction |
| `Commit CommitMidway Abort Timeout` | `onComplete`, an awaited `context.transaction.commit()`, `onError`, the monitor |
| `Save CommitWrite CommitValidated HooksDone HookFailed CommitAgain CommitLingers CommitCloses CommitSucceeded CommitRetries` | the pieces of `save` and `commit` between two points where the event loop may run something else |
| `NativeCommit OtherWrite` | the store settles a commit; another request writes |

While `stack` is not empty only its top frame runs: this is what makes the code
between two awaits atomic, although it is written as several actions. A frame of
`commit` keeps, as the code's local variables do, the native transaction it chose
when it began; that it is not read again from the object after the hooks
is what several properties are about.

Abstractions:
- A record's version is a counter; a write of this request is stored unless it
  meets its own timestamp. Writes of other requests have earlier timestamps
  than this request's, so that `precedesExistingVersion` lets the write through;
  out-of-order resolution is a module of its own, `RecordResolution`. A write that
  is applied again meets its own timestamp, in the record or on the walk over the
  log, and is dropped as a duplicate.
- The request writes and loads each record at most once. Two writes of one
  record in one request differ only in what the second computes.
- The native store is external, and specified by what the code relies on: a
  snapshot when created, a conflict if a written record changed since, a fresh
  snapshot after ERR_BUSY, a log batch that is published with the commit.
- Once ERR_BUSY makes a second commit of one native transaction, both wait for
  that transaction. Real errors other than ERR_BUSY of a commit are not modelled.
- LMDB has another subclass of the same interface, which is not modelled.

### SourceCache

One record of a table with a source, and the requests of all threads that read it.
`entry` is the record in the store, `locked` the store's lock on its key,
`state` where each request is (`read`, `waiting` for the callback of tryLock,
`notified` once that is due, `loading`, `called`, `committing`, `done`,
`failed`); `seen` is the `existingEntry` a load began with, `got` what the
source said, `snap` and `stores` the native transaction of the load's commit.
`known` is a history variable: the value the source had at the last write or
invalidation of the record, the youngest that the table was told about.

`Read`, `GetFromSource`, `Callback`, `LockTimeout` are `_loadRecord` and the
first half of `getFromSource`; `SourceReads`, `SourceAnswers`, `NotStored`,
`SourceFails`, `SourceUnreachable` the call of the source, in which reading and answering are
distinct steps; `LoadCommits`, `LoadRetries`, `LoadFails` the commit of the load;
`Put`, `SourceChanges`, `Invalidate`, `Expire`, `Evict` what else happens to the
record.

Abstractions:
- The source's value only grows, so that age can be compared. `Gone` says which of
  its values mean that there is no such record; these are stored as tombstones.
- By default a request is answered with the record it found, if that has data (`ExistingRecord`), when the source answers with
  `ECONNRESET`, `ECONNREFUSED` or `EAI_AGAIN` (`SourceUnreachable`). This may be data from before an invalidation: in a table with
  indices (`Indexed`) an invalidated record keeps its indexed attributes. Requests in `MustRevalidate`
  fail instead, with headers of that name in the code. What else may ask for a stale
  answer, `staleIfError` and `allowStaleWhileRevalidate`, is not modelled.
- The table is audited, so that a delete leaves a tombstone; `hasLock` is exact.
- `Put` writes source and table in one step. The order in which a local write
  reaches the two is the subject of `CommitsAfterHooks` above.
- Versions are a sequence: entry comparisons are by equality, and only the
  commit of the load is checked for conflicts.
- The store is trusted to honour `ifVersion` of the put of an invalidated
  record (`PutHolds`).

### RecordResolution

One record and its entries in the transaction logs of one node. `entry` is what
`getEntry` returns (`version`, `nodeId`, `additionalAuditRefs`, the fields), `log` the
audit records by timestamp, each with the version and the references the entry had
before it. An update is one of `updates`: put, patch or delete, with a
value (`set`) or an amount (`add`) for some fields, made here or at another node.

| TLA+ | code |
|---|---|
| `PrecedesExistingVersion` | `precedesExistingVersion`, with its order of node names for a tie |
| `Branch`, `Walked` | the two loops of the commit function of `_writeUpdate` over `auditStore.get`: what they read, with repetitions |
| `Supersedes`, `Succeeding`, `AdditionalAuditRefs` | what the walk returns for, and the two lists it collects |
| `RebuildUpdateBefore`, `Rebuilt`, `UpdateAndFreeze` | `rebuildUpdateBefore` and its loop, `updateAndFreeze` |
| `Update Resequence Drop` | `_writeUpdate`: newer than the record; late and merged; superseded or a duplicate |
| `Delete DropDelete` | `_writeDelete` |
| `Logged` | `recordUpdater` and the transaction log |
| `Receive ReceiveAgain` | the order of arrival (external): the subscription to a source, replication, transactions of this node that commit in another order than they began |

`received`, `late` and `ordered` are history variables for the properties. The values
are chosen so that a field tells which updates are in it: amounts are powers
of four, so that one counted twice differs from every other sum.

Abstractions:
- A timestamp belongs to one update. Two nodes that write with the same timestamp are
  not modelled; the same update twice is.
- Of the entries of a record only puts, patches and deletes; `invalidate` and
  `publish` entries are not modelled. The log is not cleaned up.
- A record that is not there takes an amount as its first value (`add` of
  `crdt.ts`); this is so for resources loaded as instances, the default.
- A value and an amount are never of different kinds (`bigint`, text), and `add` is the
  only operation, as it is in `crdt.ts`.
- The logs of other nodes are made, and the ids of nodes given, by a replication
  component that is not in this repository; the ids are taken to be distinct, and each
  node's updates to be in its log.

### CrashRecovery

Extends `RecordResolution`: `Receives` is a commit of this node, which also appends the
update to the log of the node it comes from (`logs`). `Flush` writes the entry to the store
(`flushed`) and moves `position`, the start of what a replay will read; RocksDB may remember an
earlier position in any log. `Crash` takes the entry back to `flushed`, also during a replay. `ReplayNext`
is `replayLogs`: the earliest next entry of all logs (`Earliest`, the merging iterator of
`RocksTransactionLogStore.getRange`) goes through the commit function of `RecordResolution` again
(`Commit`), which does not log it, as the transaction counts as a retry.

Abstractions: one record; the log of a node is in the order of its commits; the log outlives the
process, and walks find the entries that are being replayed (external). Entries of structures,
messages, relocations and invalidations are left out, and so is the lock around the replay, which only the
main thread takes.

### SecondaryIndex

| TLA+ | code |
|---|---|
| `store`, `index` | `primaryStore`; the index store, pairs of a value and a key |
| `txn` | each thread's transaction: `writes` of the request, `staged` records and `based` versions, index entries `adds` and `removes` in the native transaction |
| `known` | the threads whose `Table.indices` has the index |
| `descriptor` | the attribute in `attributesDbi`; `building` while it has `indexingPID`, `mine` if that is this process's |
| `isIndexing`, `indexer` | the flag of the store object in the building thread; where `runIndexing` is |
| `Begin Write Commit CommitRetries Abort` | the transaction of a request; its commit functions, run again by every retry, call `updateIndices`: `WriteUpdate` with the transaction, `WriteDelete` without it, at once |
| `Evict` | the eviction of a record, which leaves the index entries where they are |
| `DefineIndex LoadIndex` | `table()`, and the handler of the `schema-change` signal in the other threads |
| `StartScan ScanRead ScanPut Finish` | `runIndexing`: after all threads have answered; between the read of a record and the put of its values anything may happen; the end |
| `Restart` | the process ends and opens the same stores, without what RocksDB had not flushed |

The five causes of an entry that is wrong (`Causes`): the entry was removed by a `delete`, outside the transaction; it is that of a
record that `evict` took away; the `scan` put it for a record that has changed since; the transaction that should have
moved it was written while the thread was `unaware` of the index; or it was `lost` in a crash. `astray` has these entries, one by one, so that one of
another key or value is held to be exact all the same, and it is emptied when the index is cleared.

Abstractions: an attribute's value is the set of its indexed values; updates are puts, so that an older one
is superseded; the optimistic transactions of the store are as in `DatabaseTransaction`. Custom indexes, nulls
and computed attributes are left out, and so is the index update of a load from the source, which is outside its transaction like that of a delete
(`Table.ts:4127`). Any record may be the 100th, after which the progress is saved. The scan
sees each record as it is when it comes to it, as `snapshot: false` asks. Searches are not actions: `IndexExact` is about the index they
would use, once its descriptor is ready. Before that only the building thread refuses them, as it alone
has `isIndexing` (`databases.ts:1074`, `search.ts:290-302`); the others answer from an index that is not complete, and nothing is claimed of these answers.

### DurableSession

One client, whose connections come and go. `stored` is its record in the session table, `putting` the put that
is under way, `sessionRecord` the copy in memory; `live` its subscriptions with their queues; `log`, `committing`
and `unnotified` are the publications, of which the log has those that committed, and the thread is told later.

| TLA+ | code |
|---|---|
| `BeginPublish CommitPublish Notify` | `_writePublish` and its commit, `notifyFromTransactionData` |
| `Subscribe ResumeNext FinishAdding Unsubscribe` | `addSubscription` for a new topic and from `resume`, its end after the awaits, `removeSubscription`; each with `SaveSubscriptions` where the code calls it |
| `Register` | `subscribe` of `Table.ts`: the catch-up from the log, and what was notified meanwhile |
| `Deliver` | the loop over the queue, the `filter` that `resume` gave it, `getNextMessageId`, `awaitingAcks` |
| `AcknowledgeMessage`, `Advance` | `acknowledge`: out of order into `acks`, else `startTime` moves |
| `StorePut` | the put of the session record reaches the store |
| `Connect Drop Crash` | `getSession` and `resume`; `disconnect`; the end of the process |

`AtLeastOnce` has one variable, the messages that wait for the client. `PromiseKept` says that the session
implements it (`waiting <- Owed`): nothing but an acknowledgement or the end of a subscription takes a message
away, and, with fairness, every message is acknowledged. Wills, QoS 0, retained messages, clean sessions and packets are
left out.

### WorkerThreads

`worker` is every thread ever started (`state`, whether it has `started`, `index`, who told it to shut down, which call started it), `workers` the
list of the main thread, `call` each call of `restartWorkers` with the two lists of promises. A call goes through its copy of the list:
`Skip` and `ShutDown` are one worker, `Continue` an `await` that ends; `WorkerStarts` is `CHILD_STARTED`, `Exit` the exit event with
the listeners it has by then, those of `startWorker`, of `shutdownWorkers` and of the call; `StartJob` a thread of `jobRunner.js`.
`Array.splice` is modelled by what it removes (`SplicedFrom`). Messages between threads, ports and the closing of
servers inside a worker are left out.

### IdAllocation

`idIncrementer` is the shared buffer, `allocation` the record `id_allocation`, `thread` what each thread knows (`maxSafeId`) and where
in `getNewId` it is. `given` and `causes` are history variables.

| TLA+ | code |
|---|---|
| `LoadAllocation`, `Register` | the first `getNewId` of a thread: it reads the range and proposes a number, and the first proposal counts |
| `CreateAllocation`, `StoreAllocation` | `createNewAllocation`: the loop that looks for a gap, and the transaction that puts the range |
| `Take` | `Atomics.add`, and whether the range must be extended now, in `setImmediate`, or not |
| `SyncUpdate SyncSearch AsyncUpdate ReadAllocation PutEnd MoveCounter` | `updateEnd`: its limit and `newestId`, the search for a key in the way, the read of the range, the put of its new end, and, after a new range, the store to the shared number; other threads may act between any two |
| `Save`, `Insert` | the record of a new id, and one whose key a client or another node chose, are stored |
| `Restart` | the process ends and starts again |

The store is RocksDB. Its put of `id_allocation` writes no version (`RecordEncoder.ts:188-191`) and `getEntry`
returns none (`RecordEncoder.ts:351-360`), so the comparison in `createNewAllocation` is one of null with null, each thread that began
without a range stores its own, and the put of a new end has no condition. Other threads are not kept out by `transactionSync` either. What makes
ids unique is the shared number, and the model shows when that is enough. The ways in which it is not are the `Causes`:

| cause | what happens |
|---|---|
| `collide` | the random start of a range is close to ids that were given; the code looks for records there, not for ids without one |
| `infringe` | a client stores a key inside a range that is taken or being taken |
| `together` | a thread stores its first range over that of another |
| `moved` | a new range is taken while other threads have the end of the last one for `maxSafeId`, or count on before the number is moved to it |
| `behind` | an end is put that is smaller, or belongs to another start, than what another thread has stored meanwhile |
| `overrun` | an id is taken that is not in the stored range, or is its last: threads that wait for their `updateEnd` have used up the rest |

Abstractions: the numbers `0x400`, `0x3ff`, `0x200` and 100 are constants in the same order (`IdAssumption`). Strings (GUIDs), several processes, the
shrinking of `safeDistance` in dense tables and LMDB, whose comparison of versions has an effect, are left out.

## 3. Runs

`tlc -config <run>.cfg <module>`; every run finishes in minutes. `CHECK_DEADLOCK
FALSE` is stated where a request, a cache, a history of updates or a bounded table comes to
an end and nothing need happen; `session` and `workers` check deadlock, with a step `Done` for
the end they may reach.

| run | module | shows |
|---|---|---|
| `txn_request` | `MCDatabaseTransaction` | one database; two records written by `update` and `put`, two iterators, asynchronous hooks, exceptions, two writes by others: no lost update, one log entry per stored write, an aborted request stores nothing, commit resolves when writes are stored or linger, hooks come first, and (liveness) lingering writes are stored in the end |
| `txn_chain` | `MCDatabaseTransaction` | two databases, the second with conflicts: when commit resolves, both are stored |
| `txn_overlap` | `MCDatabaseTransaction` | one record, everything at once: commit midway, monitor, rejected hooks, loads, iterators, use after the end: an object never keeps a native transaction it gave away |
| `txn_closed_retry` | `MCDatabaseTransaction` | immediate commits of a closed object overlap and are retried: no write is stored twice |
| `cache_load` | `MCSourceCache` | two requests, expiry, timeouts, tombstones: nobody waits for a lock that is free, everyone is answered (liveness) |
| `cache_current` | `MCSourceCache` | three requests, one of which says `mustRevalidate`, missing and invalidated records: one load at a time (`SingleResolution`), nothing older than the last write or invalidation stored (`ValidIsCurrent`), nor answered but with the source out of reach and without `mustRevalidate` (`AnswersAreCurrent`) |
| `resolve` | `MCRecordResolution` | four updates of two fields in any order, one arriving twice, in one log: what the newest says stands (`NewestPrevails`), a field that is only added to counts each update once (`CountersExact`), the log has all that matters of what arrived (`LogSuffices`), and where the late updates come in order, the record is as if all had come in order (`InOrderConverges`) and one that comes again changes nothing (`DuplicatesIgnored`) |
| `recovery` | `MCCrashRecovery` | three updates in the logs of two nodes, one arriving twice, flushes at any time, two crashes, also during the replay: after it the record is what it was (`Restored`, for late updates that came in order), the newest update stands whatever the order (`NewestRestored`), and one that comes again is recognised (`StillKnown`) |
| `session` | `MCDurableSession` | two topics, four moments, connections lost in any state, crashes, acknowledgements in any order: the stored record makes the next connection send all that is owed (`UnacknowledgedIsKept`), catch-up and live messages do not overlap (`QueuedOnce`), and the session implements `AtLeastOnce` with its liveness (`PromiseKept`) |
| `workers` | `MCWorkerThreads` | two restarts and a shutdown that overlap, a job, two exits nobody asked for: the limit of workers that are down (`AtMostDown`), nobody runs old code (`NoneLeftBehind`), one worker for each index (`WorkersRestored`), a shutdown is final, and every call ends (`RestartCompletes`, liveness) |
| `ids` | `MCIdAllocation` | two threads, eight ids, an extension in time and a late one, a key in the way, two starts, a record, a restart: no id is given twice unless a start collides (`GivenOnce`), and none is the key of a record unless one of the causes has come about, overruns not counted (`IdsAreNew`) |
| `index` | `SecondaryIndex` | two threads put and delete two records while the index is defined and built, with conflicts, retries, aborts, evictions and a restart of the process: when the index is ready it is exact, but for the entries one of the causes has touched (`IndexExact`), and building ends (`IndexingCompletes`, liveness) |

Other configurations in this directory are those of section 4, and `txn_readers`, which holds: `txn_request` with
`ScansKeepTransaction` (an iterator keeps its snapshot), `NoDanglingNative` (no native transaction is left open) and
`LingeringHasReader`.

Bounds. One database, two records and two iterators are enough for `txn_request`:
the counters and the state of an object depend on whether there is a write or a
reader left, one more, and none; two of each reach every such combination. Two
writes by others (`MaxOther`) make a retry conflict again. A chain of two shows
what the chain adds, since an object knows only its `next`. In `txn_overlap` one
record is enough to have saves, loads and writes after the end, and keeps the
run finite without a bound on anything the code counts. For the cache, one
request loads, another waits for it, and a third meets what they left; three
changes (`MaxChanges`) allow an invalidation, a write and an eviction
between two steps of a load; `SourceCacheProofs` removes these bounds for
the safety properties. For `resolve`, three updates are needed for a walk that finds an
entry twice, and four for one whose branches differ; two fields, of which only one is
added to, distinguish puts that replace all from those that do not. For `recovery`, three updates give a late one between two others, two logs an order to
merge, and the second crash one that interrupts a replay. For `session`, two topics share the record and the message ids; with four moments there
are a subscription, two messages acknowledged out of order and one more. For `workers`, two workers with one down at a time make a call wait
for one before it tells the next; two calls overlap, and the shutdown overtakes both. For `ids`, the type `Int` with its numbers scaled down and in
the same order (`IdAssumption`): a range of six is extended three before its end in advance, and must be two before it. Eight ids pass both points and
use up an extension; the key at 27 is in the way of the range from 20, so that a new one is taken at 70. 100 in the code is more than the threads
that usually wait for an extension, and so is 2 here with two threads: with a third `overrun` bites (section 4). States behind a second cause are left out
(`OneCause`); of these the theorems of section 5 speak. For `index`, two records put the scan between them, and
three transactions of one write give a conflict with a retry while the scan is under way. Symmetry is used only in runs without liveness.

Each property was also tried against mutants, the `Mutant` definitions: a bug one
could plausibly make in the code (a dropped abort, a retry that is not marked, a lock
that is not asked for), which the property has to notice.

Fairness. `FairSpec` of `DatabaseTransaction` assumes that the event loop goes on
with a call in progress, that the store settles commits and hooks resolve, and that
the server finishes or closes the iterators of a response (their
`onDone`/`onReturn`). Nothing is assumed of timers or other requests. With
`MayReject` a hook may also fail, and no liveness is claimed then. `FairSpec` of
`SourceCache` assumes that callbacks run, that the source answers or fails, and that
the store settles commits. `LOCK_TIMEOUT` is not assumed to elapse: the progress
of waiting requests does not depend on it.
`FairSpec` of `DurableSession` assumes that the server goes on with what it began (each await ends, puts are stored, the thread is told of commits) and
that the client comes back, stays with its last connection, and acknowledges what it gets. That of `WorkerThreads` assumes that the loop of a call goes on, that a thread which is told
exits (`terminate()` sees to it) and that one which is not told reports its start. That of `SecondaryIndex` assumes that
threads answer the signal, and that `table()` is called again after a restart and its scan runs on. None assumes strong
fairness.

## 4. What was found

`PROJECT.json`, "findings", quotes for each of the following what the code says of itself. These have a
configuration of their own, or are a change to that of a run:

- `txn_abort_chain`, `AbortedCommitsNothing`: `abort()` resets the object it is
  called on and never visits `next`; the writes of a second database stay in an
  open tracked transaction that the monitor commits.
- `txn_closed_hooks`, `ClosedMeansStored`: writes to a closed transaction commit
  immediately; when two of these overlap, the first to succeed empties
  `writes`, and the second, back from its hook, finds nothing and aborts.
- `txn_chain_retry`, `ResolvedMeansCommitted`: after ERR_BUSY, `commit` is called
  with `{ transaction }`, hands these options to `next.commit(options)`, and the
  next database commits the finished transaction in place of its own.
- `cache_stale`, `ValidIsCurrent`: "don't do anything if the version has changed"
  compares two copies of the entry that was read; a record written while its
  expired entry is loaded again is overwritten with the older value.
- `resolve_any_order`, `Converged`: from a log entry the walk goes on by the previous
  version and by the references, which may lead to one entry twice; it is then
  taken twice for a succeeding update, and its amount is added twice to the value
  a late patch sets. Updates 3, 2, 1 in this order suffice, where 2 and 3 add and 1 sets.
- `txn_chain_log`, `LogMatchesStore`: while the commit of a second database waits for its
  retry, the end of an iterator commits the first and calls `next.commit` once more; that
  saves the writes as retries, at once, and so without a log entry, and the retry behind
  it takes them for stored.
- `ids` where `"together"` is not excused, `IdsAreNew`: "we have to ensure that the id allocation is atomic and
  multiple threads don't set different ids", but over RocksDB the versions that are compared are both
  null. Two threads store two ranges and count in one of them, one with the end of
  the other for its limit, and so with nothing to stop it at the end.
- `index` where `"delete"` is not excused, `IndexExact`: `_writeDelete` updates the indices without the transaction; after an abort or a
  conflict the record is there and its index entries are not.

Further configurations show a property failing when one more thing may happen. They
bound what the passing runs say, and are kept for whoever changes this code:

| configuration | property | what happens |
|---|---|---|
| `txn_reuse_log` | `LogMatchesStore` | used again after a commit that was retried, the object counts its next write as a retry: it is stored and not logged |
| `txn_abort_spin` | `AbortTerminates` | abort of a closed object whose `readTxnsUsed` is positive loops for ever, as `doneReadTxn` does nothing without a transaction |
| `txn_rejected` | `RejectedCommitsNothing` | commit was rejected by an invalid write; the object stays tracked, and the monitor commits the other writes |
| `txn_timeout_hooks` | `CommitsAfterHooks` | the monitor's commit takes no notice of hooks that another commit of the object awaits |
| `txn_linger_resolves` | `ResolvedMeansCommitted` | with an iterator open commit resolves before the writes are stored (hence the weaker `ResolvesStoredOrLingering`) |
| `txn_loaded_entry` | `NoLostUpdate` | a record this request loaded from its source is written over the entry of that load |
| `txn_loaded_update` | `ResolvedMeansCommitted` | a deferred write of such a record finds no native transaction at commit |
| `txn_disregard` | `ResolvedMeansCommitted` | a load from the source that disregards the only read aborts the transaction an event was saved in |
| `txn_uncounted_scan` | `ScansKeepTransaction` | a transaction that began with a write does not count readers, and commit takes it from an iterator |
| `txn_closed_scan` | `ClosedMeansStored` | a write to a closed object with an iterator joins a transaction nobody commits |
| `resolve_delete` | `Converged` | a late delete is dropped: fields it should have removed from under a newer patch remain |
| `resolve_put` | `Converged` | a late put is merged into the record like a patch, and does not remove the fields it lacks |
| `resolve_logs` | `NewestPrevails` | a late update of another node puts its node into the entry; the next late one looks for the entry's version in that node's log, does not find it, and is applied over the newer update (two nodes, so it depends on a replication component) |
| `resolve_tie` | `DuplicatesIgnored` | in the same situation an update that comes again wins the tie with itself by the order of node names, and its amount is added again |
| `txn_closed_lingers` | `LingeringHasReader` | use after the end leaves an object lingering without a reader |

The circumstances and causes of the later modules (section 2), each with the run whose configuration shows it and what to change there
(a set in the second column is the value of `Allowed`, of whose members the quotes are):

| run | with | property | what happens |
|---|---|---|---|
| `session` | `"resubscribe"` | `UnacknowledgedIsKept` | `saveSubscriptions` writes the start times of the live subscriptions, which the catch-up has moved to the last message sent, and drops `acks` |
| `session` | `"drop_subscribing"` | `UnacknowledgedIsKept` | `disconnect` empties the subscriptions while one more is being added, which then saves itself alone |
| `session` | `"fast_reconnect"` | `UnacknowledgedIsKept` | a connection begins before the last put is stored, and its next put replaces the other |
| `session` | `"late_commit"` | `UnacknowledgedIsKept` | times are given before the commit: a message that commits after a later one was acknowledged is never sent again |
| `session` | `"other_sessions"`, `MaxMessageId = 2` | `UnacknowledgedIsKept` | message ids are shared by all sessions and wrap: an id that awaits its acknowledgement is used again |
| `session` | `{}`, `WildcardTopics = {t1}` | `UnacknowledgedIsKept` | what a wildcard subscription catches up has no time with RocksDB |
| `workers` | `"JobFirst"`, `Calls <- OneRestart` | `AtMostDown` | a job overwrites `workerCount` with undefined, the limit is NaN and all workers are told at once |
| `workers` | `{}`, `Threads = 5`, `MaxWorkers = 10`, `MaxWorkersDown = 2`, `Calls <- OneRestart` | `AtMostDown` | `splice(index)` removes the promises behind the one that is meant |
| `workers` | `"JobFirst"`, `Calls <- RestartHttpAndAll` | `NoneLeftBehind` | likewise at the end of the call, which then does not wait for all (`CHECK_DEADLOCK FALSE`) |
| `workers` | `"ExitUnstarted", "ExitInRestart"`, `Calls <- OneRestart` | `RestartCompletes` | the copy of a worker exits before it has started, and its successor is not the one awaited (`CHECK_DEADLOCK FALSE`) |
| `workers` | `"ExitInRestart"`, `Calls <- OneRestart` | `WorkersRestored` | a worker that exits before its turn is replaced twice |
| `workers` | `"JobFirst"`, `Calls <- RestartAllAndShutdown` | `ShutdownIsFinal` | the copy of a job is started after the shutdown |
| `recovery` | `"WriteTwice"` | `Restored` | of two entries of one transaction for one record the replay takes the second for a duplicate |
| `ids` | `Excused` lacking `"infringe"` | `IdsAreNew` | a client stores a key inside the range, and `create` puts a new record over it |
| `ids` | `Excused` lacking `"together"` | `IdsAreNew` | two threads store two ranges, and count in one of them, one with the end of the other for its limit |
| `ids` | `Excused` lacking `"moved"` | `IdsAreNew` | a new range is stored while others still count in the last one, with the end of that for their limit |
| `ids` | `Excused` lacking `"behind"`, `Others = {30}`, `MaxIds = 10` | `IdsAreNew` | a thread read the range before another stored a longer one, and puts its smaller end over that; clients may store keys behind it |
| `ids` | `Threads = {t1, t2, t3}` | `IdsAreNew` | a thread's limit may be up to 99 above the stored end, and threads that wait for their extension use up the rest: ids at and behind the end are given, where others may have stored keys |
| `index` | `Excused` lacking `"delete"` | `IndexExact` | `_writeDelete` updates the indices outside the transaction |
| `index` | `Excused` lacking `"evict"` | `IndexExact` | `evict` needs `ifVersion` to update the indices, which RocksDB stores lack |
| `index` | `Excused` lacking `"scan"` | `IndexExact` | the scan puts values of a record that has changed since it was read |
| `index` | `Excused` lacking `"unaware"` | `IndexExact` | a transaction that wrote before its thread knew the index commits behind the scan; or the table was empty, so that there is no scan, and other threads write to it without the index |
| `index` | `Excused` lacking `"lost"` | `IndexExact` | the progress of the scan is in RocksDB's log, the index entries are not |
| `index` | `Interrupts = TRUE` | `IndexingCompletes` | a worker restarted within the process leaves its scan to nobody |

## 5. Proofs

All proofs are about `Spec`, for every value of the constants but for what the column
"assumes" says. Each assumption is one that a configuration of section 4 shows to be needed, but for `OneCommit` where it is stated below why.

### SourceCache

`tlapm SourceCacheProofs.tla` proves, for any set of requests and any bound on
changes:

| theorem | states | assumes |
|---|---|---|
| `TypeCorrect` | `TypeOK` always holds | - |
| `LoadsExclude` | `SingleResolution`: until a `LOCK_TIMEOUT` has elapsed, one load at a time, under the lock | - |
| `WaitersAreWoken` | `WaitersHaveLock`: who waits, waits for a lock that is held, timeouts included | - |
| `CacheIsCurrent` | `ValidIsCurrent`: no load stores a value older than the last write or invalidation | `FirstLoads` |
| `AnswersCurrent` | `AnswersAreCurrent`: no request is answered with one, but with the source out of reach and without `mustRevalidate` | `FirstLoads` |

`LockInv`, the types with the two properties of the lock, is inductive as it
stands. `ReleaseStep`, `TryLockStep` and `SameLockStep` are the three things a step
can do to the lock, and every action is one of them.

`ValidIsCurrent` is not inductive: that a commit stores nothing stale depends on
what the load had seen. `CurrentInv` adds, for a load whose source was read,
`LoadIsCurrent` (what it read is current, or the entry has changed since it looked)
and, for a commit in progress whose native transaction would not conflict and which
does store, that what it read is current. Three protections then combine: the
version guard of the commit function stops a load whose entry changed before the
commit began, the store's conflict check one whose entry changed afterwards, and
the lock keeps evictions away, which would make a changed entry look like the
missing one the load began with. `WriteStep` is the argument for every write of the
record, `RequestStep` for every step that leaves the record alone.

`FirstLoads` says that entries do not expire and no request reloads a valid entry, that
no load finds the record gone, and that `LOCK_TIMEOUT` never elapses. None of the three is
there for convenience: without the first, run `cache_stale` refutes the theorem; a
tombstone is an entry with a version that is loaded anew without having been
invalidated, and is overwritten in the same way; and a timeout lets evictions in.

### DatabaseTransaction

For any number of databases, keys, iterators and other writes:

| theorem | states | assumes |
|---|---|---|
| `TypeCorrect` | `TypeOK` always holds | - |
| `OpenHandles` | `TransactionIsOpen`: an object never keeps a native transaction that it gave to a commit | - |
| `AbortStoresNothing` | `AbortedNeverCommits`: nothing of an aborted request is stored or will be | `~ClosedUse`, `~Timeouts` |
| `NoUpdateIsLost` | `NoLostUpdate`: a write is stored over the version it was computed from | `~ClosedUse`, `~Timeouts`, `~LoadsSource` |
| `AbortedGivesNothing` | `AbortedCommitsNothing`: after `abort()` no open native transaction is committed | `~ClosedUse`, `~Timeouts` |
| `RejectedGivesNothing` | `RejectedCommitsNothing`: nor after the promise of `commit` was rejected | `OneCommit` |
| `HooksComeFirst` | `CommitsAfterHooks`: a write is committed after its before hook | `OneCommit` |
| `StoresOnce` | `StoredOnce`: no write is stored a second time | `OneCommit` |
| `LogIsExact` | `LogMatchesStore`: what is stored is logged once, and nothing else is | `OneCommit` |
| `ResolvesWithAll` | `ResolvesStoredOrLingering`: the step that resolves `commit` finds every write stored, or lingering under an iterator | `OneCommit`, `LastConflicts` |
| `ResolvedHasAll` | `ResolvedMeansCommitted`: once `commit` has resolved, every write is stored | `OneCommit`, `LastConflicts`, no iterators |

`OneCommit` is `~ClosedUse`, `~Timeouts`, `~LoadsSource`, and one database or no iterators. With both, an iterator of a later
database that ends while the commit of the request waits in an earlier one begins a second commit there.

With `ClosedUse` a commit midway has stored writes before the request is aborted; with `Timeouts` the monitor commits what a
request has not finished, and what `abort()` leaves open in a second database (`txn_abort_chain`); and `txn_loaded_entry`
refutes the last theorem where records are loaded from a source.

`TransactionIsOpen` is not inductive: a frame of `commit` keeps the transaction it chose, across
hooks and retries, and hands it down the chain. `HandleInv` says of every frame, on the stack or
parked at its hooks, and of each wait for the store, which handles it may hold, and that a transaction is held by an
object of its database that has not given it away. `QuietInv` adds that before its end a request has
only `save` on its stack, and nothing has been given to the store.

`NoUpdateIsLost` needs `UpdateInv`, which follows a write from its read to the store. `OpenKeeps`: an open object
keeps its first native transaction, as `used` is larger than the number of its iterators, so that what was
read and what is saved have one snapshot. `UnsavedKeeps`: a write that is not saved was read in it. `RetriesReload`: after
the first conflict every write is validated, and so is read again in the fresh snapshot. `LoopSaves` and `TopSaves`: the
loop of `commit` leaves no write behind. `OpsAtSnapshot`: what a native transaction holds was computed from its own
snapshot, which the store compares when it commits. `IssuedFirst` keeps records apart that were not written yet.

`CommitInv` adds that commits take turns. `OneTurn`: a commit is under way in one place, a frame of the stack, hooks it awaits or the store; a
`save` on the stack is the one the loop of that commit called, or of a request still running. `Place` says how far the request and the objects
behind it in the chain are then: the commit the request awaits has all later databases open, another one is that of lingering writes.
`HookInv`: a hook that has not resolved is known to the commit of its database, which is open until it has. `LingerInv`: writes linger only
after the request has resolved, so that no commit of theirs meets one of the request. A rejected request leaves hooks without a commit
behind them, and no place from which one could begin. The three action properties follow from the one step that gives a native transaction
to the store, `CommitCloses` (`GivenByClose`).

`StoreInv` says where a write is on its way. `NativesInv`: a database has one native transaction, for under
`OneCommit` an object whose transaction is over gets no other; its log batch has each key at most once; its operations have different keys, all of them logged,
and when it is given to the store they are all that is logged. `ObjectsInv` ties the object to that: what it calls saved is
what is logged (`AllIn`), and among the operations too, unless ERR_BUSY has taken these away. Then the loop that saves them again is under way
(`TurnStores`, `LoopStores`), and closes only when it has come to the last of them; a commit that waits for the store has
logged all keys (`WaitStores`). `FirstSave` and `OwnSave` say the same of a `save` that is still on the
stack. `RecordInv` concludes: the logs have an entry for exactly the writes that are stored. That the log batch stays with a
transaction through ERR_BUSY, while the operations are saved anew, is why both are needed: a retry that logged again, or forgot an operation, would break `LogIsExact`, not
`StoresOnce`. `StoredOnce` is also checked with `ClosedUse`, which the theorem excludes.

`LastConflicts` says that other requests write to the last database of the chain at most, which with one database is
no restriction: a retry hands its transaction down the chain, and `txn_chain_retry` refutes `ResolvedMeansCommitted` where a database
before the last one meets a conflict. That iterators leave writes to be stored later is `txn_linger_resolves`.

`SettleInv` says where the writes of a request are until its commit has resolved. `PlacesSettle`: a write is with its object
or stored (`ObjectSettles`), and wherever the commit is, no object before it in the chain has writes left and none behind it has been dropped
from the chain (`PlaceSettles`), so that the end of the chain is reached with nothing left out. That takes more than the places.
A commit must not come to an object whose transaction was aborted, or that has none for its writes: the native transaction of the frame on its turn is open
(`TurnSettles`), the one the store has was not aborted and, when committed, has stored all keys of the object (`WaitSettles`, from the `WaitStores` of `StoreInv`), and an
open object without a transaction has no writes (`WritesHaveTxn`). An event is the exception: it is recorded before its `save` starts a
transaction, within one call. Databases join the chain in order, so that one that has not joined ends it, and nothing behind it was written.
Options come to the last database only, as no other meets ERR_BUSY: `SnapsCurrent`, a
transaction of a database nobody else writes to has the current snapshot. And what lingers must have an iterator to
finish it: `UsesCounted` makes `readTxnsUsed` of an open object the number of its iterators plus one, where `OpenKeeps` had a bound,
and `ClosedUnused` leaves a closed object without uses, so that an iterator that ends before the
promise resolves neither aborts nor commits anything. None of these is inductive without the others.

### WorkerThreads

For any list of calls, number of workers, jobs and exits:

| theorem | states | assumes |
|---|---|---|
| `TypeCorrect` | `TypeOK`; the list of workers has each thread that runs, once | - |
| `LimitKept` | `AtMostDown`: one index at a time is down | `MaxWorkersDown = 1`, `Allowed = {}` |
| `NoneLeft` | `NoneLeftBehind`: who was started before a restart is gone when it is done | the same |
| `Restored` | `WorkersRestored`: one worker for each index until a shutdown | the same |
| `ShutdownLasts` | `ShutdownIsFinal`: after a shutdown only threads of jobs run | the same |

A limit of one is what the code computes for less than 16 threads. With two, `splice(index)` takes away promises of others, and
`AtMostDown` fails; with each of the circumstances one of the four does (section 4).

`RestartInv` speaks of every call, finished ones included. `OldInv`: who runs old code is in the list of each call
that applies to it and has not come to it. `WaitInv`: whom a call told and who still runs, or whom it started and who has not started
yet, is the one it waits for. `RestartShape`: what it waits for is the worker told last, then the copy of that, which
together with the limit of one makes the positions in the two lists known. `CurrentInv`: of each index one worker is not
told. `OneTurn`: the code behind one `await` runs at a time. `LastInv`: no call behind a shutdown has told a worker. `JobInv`: a job is
not in the way of a restart. The calls of `restartWorkers` overlap, so each action is proved to keep the
invariant of its own call and, by `CallKept`, those of all others: to them a step is `Aside`, it may exit a thread they do not
wait for, tell one that nobody has told, and start one that counts as new.

### IdAllocation

For any number of threads, ids, keys of others and restarts and every size of the ranges:

| theorem | states | assumes |
|---|---|---|
| `NoIdTwice` | `GivenOnce`: while the server runs no id is given twice, unless a start collides | - |
| `NewIds` | `IdsAreNew`: no id that is given is the key of a record, unless one of the six causes has come about | `Excused = Causes` |

The first holds with all that RocksDB lets the threads do to the range, since ids are unique by the number alone; all that can
harm it is a start near ids in use. The second says that the list of causes is complete: whatever else the threads, clients and restarts
do, in any number, new ids are new. Five of the six refute it when they are not excused (section 4); a colliding start
is a matter of chance.

`IdInv` has three layers. `TypeInv`, `StartInv` and `ThreadInv` hold always: types, and where a thread may be. `GivenInv`, while no start has collided:
the number has `Left` ids to go before the bound and meets none that was given; nor does a thread that is about to move it (`Mover`) move it among them, nor
two such threads to the same place. `KeyInv`, while there is no cause at all: the number is in the stored range, and from it to the end no key
lies that it will meet (`RangeInv`); what a thread is about to store, register or move to is free likewise, by the step it has come to (`PhaseInv`).
While a thread moves the number, the others have taken no id yet (`Calm`), for else `moved` were among the causes. That keys
below the number do no harm, and only those up to `Left` above it do (`Unmet`), is why a search for a key in the way from one behind `newestId` is enough.

### DurableSession

`tlapm DurableSessionProofs.tla` proves `PromiseIsSafe`, the safety part of the refinement
`PromiseKept`, for any topics, times, connections and circumstances, from nothing but the
assumption on the constants: initial states map to initial states, and every step maps to a
step of `AtLeastOnce` or to none. It rests on the types of four variables (`LogInv`); then
`CommitKeeps` and `StoreOwes` say that a commit and a stored record only add to what is owed,
`UnsubscribeWithdraws` and `AcknowledgeTakesOne` that the client's two steps are those of the
abstract specification, and `OwedUnchanged` covers the rest. `Owed` is a mapping over what has
happened (the log, what was acknowledged, since when a topic is promised). So the theorem says what a
loss would be; that the session record can make good for all of `Owed` is `UnacknowledgedIsKept`,
and that it does so in the end is the liveness part, which only run `session` checks.

The same module, for any topics, times and connections:

| theorem | states | assumes |
|---|---|---|
| `TypeCorrect` | `TypeOK` always holds | `WildcardTopics = {}` |
| `SentOnce` | `QueuedOnce`: nothing is queued or awaited twice in a connection | the same, `Allowed \subseteq {"other_sessions"}` |
| `UnacknowledgedKept` | `UnacknowledgedIsKept`: the stored record makes up for any loss | the same, `[][IdsAreFree]_vars` |

A wildcard's catch-up has no times and refutes both invariants, as four of the circumstances do (section 4). The fifth does
so by taking message ids until one comes round that still awaits its acknowledgement; `IdsAreFree` says of a behaviour
that this does not happen, and then `"other_sessions"` may be allowed. The types hold with all circumstances, wildcards apart: those sort what
they find, by a recursive operator of the library.

`SessionInv` is the order of messages. `TimeInv`: publications commit in the order of their times. `OrderInv`: of a topic, what
awaits its acknowledgement comes before what is queued, and that before all the thread is still to be told of and will not skip
(`Before`); a resumed subscription starts at the last message it found, so that what it found is skipped. `OpenInv`: only a session that is new
adds subscriptions, only one that is not resumes them, which keeps the two ways to subscribe apart.

`KeepInv` is about what is `Pending`: committed or yet to come, promised, not acknowledged. `RecordInv`: the records that are stored, being
stored and current start before all of it and pass over only what was acknowledged (`Keeps`, `Past`), so it does not matter which of
them survives. `CoverInv`: a live subscription has all of it still to send or sent, so that
a message acknowledged before any other is older than all that is pending (`FirstAcknowledged`), which is what lets `acknowledge` move `startTime`.
`FreshInv`: in a new session `saveSubscriptions` writes times that are not later than the promise. `Pending` only shrinks
(`PendingShrinks`) but for an unsubscribe, which ends the promise.

### SecondaryIndex

For any number of threads, keys, values, transactions, writes and restarts:

| theorem | states | assumes |
|---|---|---|
| `TypeCorrect` | `TypeOK` always holds | - |
| `IndexIsExact` | `IndexExact`: an index that is ready has an entry for each value of each record and no other, but for those in `astray` | `Excused = Causes` |

Each of the causes refutes the second when it is not excused (section 4). It says that nothing else goes wrong, and, as `astray` is a set of
entries, that what goes wrong stays where it is: a delete that is aborted harms the entries of its record, and no others.

`IndexInv` has three parts besides types. `TxnInv`: if nobody else has written a record since the transaction did, its `adds` and `removes` take the
record's entries from the stored values to those it writes (`Moves`), but for those it `deleted` at once and the keys it wrote `unaware`. That is why a commit without a conflict keeps the index exact, why a
second write of the same key has to take back what the first one did, and why a retry must begin from nothing. `TimeInv`: versions tell records
apart, since no two transactions have the same timestamp. `PhaseInv`: apart from `astray`, the index
has no stale entry; it is complete for the keys before the cursor, for those up to `lastIndexedKey`, and in the end for all; and for the record under the
cursor what is missing is what the scan is about to put. That all writes are saved again by a retry is a recursive function over the
request's writes; `SavedAgainIn` derives from its least counterexample that what each save keeps holds in the end, and
`GoodSave` is what each save keeps.

### What is model-checked only

Liveness (`AllAnswered`, `LingeringCommits`, `RestartCompletes`, `IndexingCompletes`, the fairness part of `PromiseKept`), which
the provers do not handle. What recursive definitions over data compute: the walk and the merging of `RecordResolution` and the replay of
`CrashRecovery` are folds and recursive functions whose results only induction over their
inputs would give, so the invariants of these two are checked, not proved. The safety properties of all other runs are proved, under the
assumptions in the tables above where these say so.

## 6. Components and what is not modelled

`PROJECT.json`, "components", lists all with their status. Not modelled:

- *LMDB transactions*: the same interface with another commit (chains of
  conditional writes). The properties of `DatabaseTransaction` apply, the actions do not.
- *query planning, schemas apart from indexes, SQL, operations API*: sequential computations over data
  whose interesting sizes are out of TLC's reach, without a protocol of their own.
- *local publish and subscribe* apart from what a durable session receives: topics in a
  hierarchy, and the lock of `listenToCommits`, which only LMDB needs.
- *component status across threads, throttling*: lists that are answered or drained by timers.
- *blobs, storage reclamation, component loading, command line, upgrade*: file I/O; what
  coordination blobs have follows the pattern of `getFromSource`.
- *HTTP and REST*: routing, with no state between requests but the transaction.
- *jobs* apart from their threads, *analytics, logging*: status fields and best-effort counters.
- *security*: outside the subject, which is data and concurrency.

## 7. Plan

The modules above are done. What is worth doing next, in order:

1. Proofs. For `DatabaseTransaction`, resolution in chains where an earlier database meets conflicts, once the
   options of a retry stay with their database. For `RecordResolution`, types.
2. An abstract `AtomicCommit` (a request's writes are pending, stored or dropped) that `DatabaseTransaction` refines
   without the configurations of section 4; `SourceCache` as an implementation of a lock with waiters.
3. `staleIfError` and `allowStaleWhileRevalidate` in `SourceCache`, two writes of one record in
   `DatabaseTransaction`, patches in `SecondaryIndex`.
4. `Broadcast`: subscriptions in a hierarchy, listeners that end their subscription while they are
   called, the marks of transactions.
