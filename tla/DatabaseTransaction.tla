------------------------ MODULE DatabaseTransaction ------------------------
(***************************************************************************)
(* The life of one Harper request transaction over RocksDB: the chain of   *)
(* DatabaseTransaction objects made for one context, one per database, in  *)
(* resources/DatabaseTransaction.ts, with the calls that Table.ts and      *)
(* transaction.ts make on it.                                              *)
(*                                                                         *)
(* JavaScript runs each call to completion.  `stack` holds the frames of   *)
(* the synchronous call in progress (save, the loop of commit, the part of *)
(* commit behind `when`); while it is not empty only its top frame runs.   *)
(* What the code awaits is parked: `parked` for the `before` hooks of the  *)
(* writes, `waits` for commits given to the native store.  The native      *)
(* optimistic transaction (@harperfast/rocksdb-js) is external: modelled   *)
(* by what DatabaseTransaction.ts relies on.                               *)
(*                                                                         *)
(* A record is named by its database and key, and this request writes and  *)
(* loads each record at most once; other requests are OtherWrite.  A       *)
(* record's version is a counter, 0 while the record does not exist.       *)
(***************************************************************************)
EXTENDS Integers, Sequences, FiniteSets

CONSTANTS
    NDbs,          \* length of the chain: databases 1..NDbs in the order they join
    Keys,          \* keys of each database
    Scans,         \* query iterators the request may open
    Kinds,         \* the calls that write: a subset of WriteKinds
    LoadsSource,   \* TRUE if the tables load missing records from a source
    HooksAsync,    \* TRUE if the writes have asynchronous before hooks
    MayReject,     \* TRUE if such a hook, or the validation of a write, may fail
    MayAbort,      \* TRUE if the request's function may throw
    ClosedUse,     \* TRUE if the request goes on using a transaction it committed
    Timeouts,      \* TRUE if the monitor of long transactions may fire
    ConflictDbs,   \* databases other requests write to
    MaxOther,      \* bound: writes by other requests
    NaN            \* readTxnsUsed while undefined, or after arithmetic on it

\* update() leaves the write to commit; put, patch and delete save it at once;
\* the Loaded kinds write a record this request loaded from its source; an
\* event is invalidate or publish of a record that was not loaded.
WriteKinds == {"update", "put", "updateLoaded", "putLoaded", "event"}
Deferred   == {"update", "updateLoaded"}

ASSUME ChainAssumption == NDbs \in Nat \ {0}
ASSUME BoundAssumption == MaxOther \in Nat
ASSUME KindAssumption  == Kinds \subseteq WriteKinds
ASSUME NaNAssumption   == NaN \notin Int
ASSUME FlagAssumption  ==
    {LoadsSource, HooksAsync, MayReject, MayAbort, ClosedUse, Timeouts} \subseteq BOOLEAN

Dbs  == 1..NDbs
None == 0                    \* no native transaction: their ids are positive

VARIABLES
    (* the DatabaseTransaction objects, one per database *)
    open,         \* CLOSED, OPEN or LINGERING
    chain,        \* absent, linked (claimed, or reached by next) or dropped
    transaction,  \* id of this.transaction, or None
    used,         \* readTxnsUsed
    refs,         \* readTxnRefCount
    tracked,      \* trackedTxns
    writes,       \* this.writes: keys, in order
    saved,        \* keys whose operation is saved
    entry,        \* operation.entry of each write: a version, 0 for undefined
    validated,
    retries,
    completions,  \* this.completions: the writes whose before hook it has to await
    (* calls in progress *)
    stack, parked, waits,
    (* the request *)
    request,      \* running, midway, resumed, committing, resolved, rejected, aborted, spinning
    scan,         \* of each iterator: its state, database and native transaction
    load,         \* of each record: no, local, source or done
    preset,       \* of each record: version of the entry its source load returned
    issued,       \* the records this request has written
    (* the native store *)
    native,       \* native transactions, by id
    version,      \* the current version of each record
    applied,      \* history: the committed writes of this request
    logged,       \* history: transaction log entries of each record's write
    hooks,        \* history: the writes whose before hook has not resolved
    others        \* number of writes by other requests

objVars   == <<open, chain, transaction, used, refs, tracked, writes, saved,
               entry, validated, retries, completions>>
callVars  == <<stack, parked, waits>>
reqVars   == <<request, scan, load, preset, issued>>
storeVars == <<native, version, applied, logged, hooks, others>>
vars      == <<objVars, callVars, reqVars, storeVars>>

Idle == stack = <<>>

(***************************************************************************)
(* Arithmetic on readTxnsUsed, which starts undefined.                     *)
(***************************************************************************)
Plus(u, n)  == IF u = NaN THEN NaN ELSE u + n
Positive(u) == u # NaN /\ u > 0

(***************************************************************************)
(* The native store (external).                                            *)
(***************************************************************************)

\* new RocksTransaction(store): a snapshot of the database it belongs to.
FreshNative(d) ==
    [db |-> d, state |-> "open", snap |-> version[d], ops |-> {}, log |-> [k \in Keys |-> 0],
     isRetry |-> FALSE]

Usable(natives, n, d) == n # None /\ natives[n].db = d /\ natives[n].state = "open"

\* The version of a record a native transaction reads; without one, the latest.
ReadVersion(natives, n, d, k) ==
    IF Usable(natives, n, d) THEN natives[n].snap[k] ELSE version[d][k]

\* transaction.abort(): nothing to discard once the commit has begun.
NativeAbort(n) ==
    [native EXCEPT ![n].state = IF @ = "open" THEN "aborted" ELSE @]

\* The optimistic check: a written record changed after the snapshot.
Conflicts(n) ==
    \E op \in native[n].ops : version[native[n].db][op.key] # native[n].snap[op.key]

\* The native store commits asynchronously.  The log batch of a transaction
\* stays with it through ERR_BUSY and is published when it commits.
NativeCommit(n) ==
    /\ Idle
    /\ native[n].state = "committing"
    /\ LET d == native[n].db
           written == {op.key : op \in native[n].ops}
       IN \/ /\ Conflicts(n)
             /\ native' = [native EXCEPT ![n].state = "busy"]
             /\ UNCHANGED <<version, applied, logged>>
          \/ /\ ~Conflicts(n)
             /\ native' = [native EXCEPT ![n].state = "committed"]
             /\ version' = [version EXCEPT ![d] =
                    [k \in Keys |-> IF k \in written THEN @[k] + 1 ELSE @[k]]]
             /\ applied' = applied \cup
                    {[db |-> d, key |-> op.key, base |-> op.base, over |-> version[d][op.key]] :
                        op \in native[n].ops}
             /\ logged' = [logged EXCEPT ![d] =
                    [k \in Keys |-> @[k] + native[n].log[k]]]
    /\ UNCHANGED <<objVars, callVars, reqVars, hooks, others>>

\* Another request commits a write of a record.
OtherWrite(d, k) ==
    /\ Idle
    /\ d \in ConflictDbs
    /\ others < MaxOther
    /\ others' = others + 1
    /\ version' = [version EXCEPT ![d][k] = @ + 1]
    /\ UNCHANGED <<objVars, callVars, reqVars, native, applied, logged, hooks>>

(***************************************************************************)
(* txnForContext: the object of database d in the chain of the context.    *)
(* The first database claims the head; an object added behind it is CLOSED *)
(* if the one before it is.                                                *)
(***************************************************************************)
Reachable(d) ==
    LET before == IF d = 1 THEN "linked" ELSE chain[d - 1]
    IN chain[d] = "linked" \/ (chain[d] = "absent" /\ before = "linked")

OpenState(d) ==
    IF chain[d] = "absent" /\ d > 1 /\ open[d - 1] = "CLOSED" THEN "CLOSED" ELSE open[d]

TxnForContext(d) ==
    /\ Reachable(d)
    /\ open' = [open EXCEPT ![d] = OpenState(d)]
    /\ chain' = [chain EXCEPT ![d] = "linked"]

(***************************************************************************)
(* getReadTxn: reuse this.transaction, or start one if the object is OPEN. *)
(***************************************************************************)
StartsNative(d) == transaction[d] = None /\ OpenState(d) = "OPEN"
ReadTxn(d)      == IF StartsNative(d) THEN Len(native) + 1 ELSE transaction[d]
NativesOf(d)    == IF StartsNative(d) THEN Append(native, FreshNative(d)) ELSE native

\* getReadTxn, then `more` added to readTxnsUsed (1 for useReadTxn, else 0).
GetReadTxn(d, more) ==
    /\ native' = NativesOf(d)
    /\ transaction' = [transaction EXCEPT ![d] = ReadTxn(d)]
    /\ refs' = [refs EXCEPT ![d] = @ + 1]
    /\ used' = [used EXCEPT ![d] = Plus(IF StartsNative(d) THEN 1 ELSE @, more)]
    /\ tracked' = IF StartsNative(d) THEN tracked \cup {d} ELSE tracked

(***************************************************************************)
(* Frames of the calls in progress.                                        *)
(***************************************************************************)

\* commit(options): opt is options.transaction, txn the transaction it picks,
\* i the next write of the loop; main marks the commit the request awaits.
CommitFrame(d, opt, main) ==
    [at |-> "loop", db |-> d, opt |-> opt, main |-> main, i |-> 1, awaits |-> {},
     txn |-> IF opt # None THEN opt ELSE transaction[d]]

\* Mutant: a retry keeps the entry it read the first time.
SaveFrameStale(d, k, txn, reload) ==
    [at |-> "save", db |-> d, key |-> k, txn |-> txn, reload |-> FALSE]

SaveFrame(d, k, txn, reload) ==
    [at |-> "save", db |-> d, key |-> k, txn |-> txn, reload |-> reload]

Top == Head(stack)

\* Mutant: this.next is not committed.
AfterCommitAlone(d, opt, main, rest) ==
    /\ stack' = rest
    /\ request' = IF main /\ request = "committing" THEN "resolved" ELSE request

\* What follows a commit of d that settled: this.next commits with the same
\* options; without one, the request sees the result.
\* `rest` is what is left of the stack.
AfterCommit(d, opt, main, rest) ==
    IF d < NDbs /\ chain[d + 1] = "linked"
    THEN /\ stack' = <<CommitFrame(d + 1, opt, main)>> \o rest
         /\ UNCHANGED request
    ELSE /\ stack' = rest
         /\ request' = CASE main /\ request = "committing" -> "resolved"
                         [] main /\ request = "midway"     -> "resumed"
                         [] OTHER                          -> request

(***************************************************************************)
(* doneReadTxn: the last use commits the lingering writes, or aborts.      *)
(***************************************************************************)

\* Mutant: the object keeps its reference to the transaction it gave away.
KeepsTransaction(d) == transaction

Cleared(d) == [transaction EXCEPT ![d] = None]

\* Mutant: writes are committed, lingering or not.
LastUseCommits(d, rest) ==
    /\ tracked' = tracked \ {d}
    /\ stack' = <<CommitFrame(d, None, FALSE)>> \o rest
    /\ UNCHANGED <<transaction, native>>

\* Mutant: lingering writes are aborted like reads.
LastUseAborts(d, rest) ==
    /\ tracked' = tracked \ {d}
    /\ native' = NativeAbort(transaction[d])
    /\ transaction' = Cleared(d)
    /\ stack' = rest

\* readTxnsUsed got down to 0 in a call with the frames `rest` below it.
LastUse(d, rest) ==
    /\ tracked' = tracked \ {d}
    /\ IF open[d] = "LINGERING"
       THEN /\ stack' = <<CommitFrame(d, None, FALSE)>> \o rest
            /\ UNCHANGED <<transaction, native>>
       ELSE /\ native' = NativeAbort(transaction[d])
            /\ transaction' = Cleared(d)
            /\ stack' = rest

DoneReadTxn(d) ==
    IF transaction[d] = None
    THEN UNCHANGED <<used, tracked, transaction, native, stack>>
    ELSE /\ used' = [used EXCEPT ![d] = Plus(@, -1)]
         /\ IF Plus(used[d], -1) = 0
            THEN LastUse(d, <<>>)
            ELSE UNCHANGED <<tracked, transaction, native, stack>>
-----------------------------------------------------------------------------
(***************************************************************************)
(* What the request does with its transaction.                             *)
(***************************************************************************)
Running == Idle /\ request \in {"running", "resumed"}

NewWrite(d, k, kind) ==
    /\ Running
    /\ kind \in Kinds
    /\ <<d, k>> \notin issued
    /\ issued' = issued \cup {<<d, k>>}
    /\ writes' = [writes EXCEPT ![d] = Append(@, k)]

\* The call saves the write at once, unless its kind defers it to commit.
SaveUnlessDeferred(d, k, kind) ==
    stack' = IF kind \in Deferred THEN <<>> ELSE <<SaveFrame(d, k, None, FALSE)>>

\* A write of a record not loaded yet: its entry is read in the read transaction.
Write(d, k, kind) ==
    /\ kind \in {"update", "put"}
    /\ NewWrite(d, k, kind)
    /\ TxnForContext(d)
    /\ GetReadTxn(d, 0)
    /\ entry' = [entry EXCEPT ![d][k] = ReadVersion(NativesOf(d), ReadTxn(d), d, k)]
    /\ SaveUnlessDeferred(d, k, kind)
    /\ UNCHANGED <<saved, validated, retries, completions, parked, waits,
                   request, scan, load, preset, version, applied, logged, hooks, others>>

\* A write of a record loaded from the source: its entry is the one the load
\* left in the resource, and no read transaction is asked for.
WriteLoaded(d, k, kind) ==
    /\ kind \in {"updateLoaded", "putLoaded"}
    /\ NewWrite(d, k, kind)
    /\ preset[d][k] # 0
    /\ TxnForContext(d)
    /\ entry' = [entry EXCEPT ![d][k] = preset[d][k]]
    /\ SaveUnlessDeferred(d, k, kind)
    /\ UNCHANGED <<transaction, used, refs, tracked, saved, validated, retries,
                   completions, parked, waits, request, scan, load, preset, storeVars>>

\* invalidate or publish of a record not loaded: no entry, saved at once.
Event(d, k) ==
    /\ NewWrite(d, k, "event")
    /\ TxnForContext(d)
    /\ SaveUnlessDeferred(d, k, "event")
    /\ UNCHANGED <<transaction, used, refs, tracked, saved, entry, validated, retries,
                   completions, parked, waits, request, scan, load, preset, storeVars>>

\* search: the iterator holds the read transaction until it is done.
ScanStart(s, d) ==
    /\ Running
    /\ scan[s].state = "idle"
    /\ TxnForContext(d)
    /\ GetReadTxn(d, 1)
    /\ scan' = [scan EXCEPT ![s] = [state |-> "active", db |-> d, txn |-> ReadTxn(d)]]
    /\ UNCHANGED <<writes, saved, entry, validated, retries, completions, callVars,
                   request, load, preset, issued, version, applied, logged, hooks, others>>

\* results.onDone, in the request or while its response is streamed.
ScanDone(s) ==
    /\ Idle
    /\ scan[s].state = "active"
    /\ scan' = [scan EXCEPT ![s].state = "done"]
    /\ DoneReadTxn(scan[s].db)
    /\ UNCHANGED <<open, chain, refs, writes, saved, entry, validated, retries, completions,
                   parked, waits, request, load, preset, issued, version, applied, logged, hooks, others>>

\* _loadRecord, up to the asynchronous read of the local entry.
LoadStart(d, k) ==
    /\ Running
    /\ LoadsSource
    /\ load[d][k] = "no"
    /\ TxnForContext(d)
    /\ GetReadTxn(d, 0)
    /\ load' = [load EXCEPT ![d][k] = "local"]
    /\ UNCHANGED <<writes, saved, entry, validated, retries, completions, callVars,
                   request, scan, preset, issued, version, applied, logged, hooks, others>>

Disregarded(d) == refs[d] - 1 = 0 /\ used[d] = 1

\* The local entry has to be loaded from the source: disregardReadTxn.
LoadFromSource(d, k) ==
    /\ Idle
    /\ load[d][k] = "local"
    /\ load' = [load EXCEPT ![d][k] = "source"]
    /\ refs' = [refs EXCEPT ![d] = @ - 1]
    /\ IF Disregarded(d)
       THEN DoneReadTxn(d)
       ELSE UNCHANGED <<used, tracked, transaction, native, stack>>
    /\ UNCHANGED <<open, chain, writes, saved, entry, validated, retries, completions,
                   parked, waits, request, scan, preset, issued, version, applied, logged, hooks, others>>

\* The source answers: the record is stored by a transaction of its own and
\* its entry left in the resource.
SourceLoaded(d, k) ==
    /\ Idle
    /\ load[d][k] = "source"
    /\ load' = [load EXCEPT ![d][k] = "done"]
    /\ version' = [version EXCEPT ![d][k] = @ + 1]
    /\ preset' = [preset EXCEPT ![d][k] = version[d][k] + 1]
    /\ UNCHANGED <<objVars, callVars, request, scan, issued, native, applied, logged, hooks, others>>

\* onComplete of transaction(): commit, and the request awaits it.
Commit ==
    /\ Running
    /\ request' = "committing"
    /\ stack' = <<CommitFrame(1, None, TRUE)>>
    /\ UNCHANGED <<objVars, parked, waits, scan, load, preset, issued, storeVars>>

\* context.transaction.commit() awaited inside the request.
CommitMidway ==
    /\ Running
    /\ ClosedUse
    /\ request = "running"
    /\ request' = "midway"
    /\ stack' = <<CommitFrame(1, None, TRUE)>>
    /\ UNCHANGED <<objVars, parked, waits, scan, load, preset, issued, storeVars>>

\* onError of transaction(): abort of the first object.  The loop over
\* doneReadTxn does not end while the object has no native transaction.
Abort ==
    /\ Running
    /\ MayAbort
    /\ LET final == [at |-> "aborted", db |-> 1] IN
       \/ /\ ~Positive(used[1])
          /\ request' = "aborted"
          /\ stack' = <<final>>
          /\ UNCHANGED <<transaction, used, tracked, native>>
       \/ /\ Positive(used[1])
          /\ transaction[1] = None
          /\ request' = "spinning"
          /\ UNCHANGED <<transaction, used, tracked, native, stack>>
       \/ /\ Positive(used[1])
          /\ transaction[1] # None
          /\ request' = "aborted"
          /\ used' = [used EXCEPT ![1] = 0]
          /\ LastUse(1, <<final>>)
    /\ UNCHANGED <<open, chain, refs, writes, saved, entry, validated, retries, completions,
                   parked, waits, scan, load, preset, issued, version, applied, logged, hooks, others>>

\* The end of abort, after the loop.
AbortEnd ==
    /\ ~Idle
    /\ Top.at = "aborted"
    /\ stack' = Tail(stack)
    /\ open' = [open EXCEPT ![Top.db] = "CLOSED"]
    /\ writes' = [writes EXCEPT ![Top.db] = <<>>]
    /\ UNCHANGED <<chain, transaction, used, refs, tracked, saved, entry, validated, retries,
                   completions, parked, waits, reqVars, storeVars>>

\* The monitor finds a tracked transaction whose timeout has run out.
Timeout(d) ==
    /\ Idle
    /\ Timeouts
    /\ d \in tracked
    /\ stack' = <<CommitFrame(d, None, FALSE)>>
    /\ UNCHANGED <<objVars, parked, waits, reqVars, storeVars>>
-----------------------------------------------------------------------------
(***************************************************************************)
(* save and commit.                                                        *)
(***************************************************************************)

\* Mutant: a write is applied again whatever its timestamp.
NeverStored(d, k, base) == FALSE

\* operation.commit meets its own timestamp in the record it was given, or in
\* the history of that record: a duplicate, which it drops.
Stored(d, k, base) ==
    \E a \in applied : a.db = d /\ a.key = k /\ a.over < base

\* Mutant: a retry is not marked, so it logs again.
NotRetry(natives, n, d) == FALSE

\* The mark that keeps a retry from writing the transaction log again.
IsRetry(natives, n, d) == natives[n].isRetry \/ retries[d] > 0

\* save(operation, transaction, reloadEntry).  Without a native transaction
\* an object that is not OPEN commits a new one at once.  When validate throws in
\* a save that commit called, the write counts as saved, commit throws, and
\* nothing aborts.  (Thrown to the request, by put, it is Abort.)
Save ==
    /\ ~Idle
    /\ Top.at = "save"
    /\ LET d == Top.db
           k == Top.key
           t == IF Top.txn # None THEN Top.txn ELSE transaction[d]
           natives == IF t = None THEN Append(native, FreshNative(d)) ELSE native
           n == IF t = None THEN Len(natives) ELSE t
           immediate == t = None /\ open[d] # "OPEN"
           retry == IsRetry(natives, n, d)
           base == IF Top.reload \/ entry[d][k] = 0 THEN ReadVersion(natives, n, d, k)
                                                    ELSE entry[d][k]
           op == IF Stored(d, k, base) THEN {} ELSE {[key |-> k, base |-> base]}
       IN /\ transaction' = [transaction EXCEPT ![d] = IF t = None /\ ~immediate THEN n ELSE @]
          /\ entry' = [entry EXCEPT ![d][k] = base]
          /\ saved' = [saved EXCEPT ![d] = @ \cup {k}]
          /\ \/ /\ \E before \in SUBSET (IF HooksAsync /\ k \notin saved[d] THEN {<<d, k>>} ELSE {}) :
                      /\ completions' = completions \cup before
                      /\ hooks' = hooks \cup before
                /\ native' = IF Usable(natives, n, d)
                             THEN [natives EXCEPT
                                     ![n].isRetry = retry,
                                     ![n].ops = {o \in @ : o.key # k} \cup op,
                                     ![n].log[k] = IF retry THEN @ ELSE @ + 1]
                             ELSE natives
                /\ stack' = (IF immediate THEN <<CommitFrame(d, n, FALSE)>> ELSE <<>>) \o Tail(stack)
                /\ UNCHANGED request
             \/ /\ MayReject
                /\ Tail(stack) # <<>>
                /\ k \notin saved[d]
                /\ native' = natives
                /\ stack' = <<>>
                /\ request' = IF stack[2].main THEN "rejected" ELSE request
                /\ UNCHANGED <<completions, hooks>>
    /\ UNCHANGED <<open, chain, used, refs, tracked, writes, validated, retries, parked, waits,
                   scan, load, preset, issued, version, applied, logged, others>>

\* One turn of the loop of commit: save the write unless it is saved already
\* and this is no retry.  Entries validated by an earlier commit are reloaded.
CommitWrite ==
    /\ ~Idle
    /\ Top.at = "loop"
    /\ Top.i <= Len(writes[Top.db])
    /\ LET d == Top.db
           k == writes[d][Top.i]
           next == <<[Top EXCEPT !.i = @ + 1]>> \o Tail(stack)
       IN stack' = IF retries[d] = 0 /\ k \in saved[d]
                   THEN next
                   ELSE <<SaveFrame(d, k, Top.txn, Top.i <= validated[d])>> \o next
    /\ UNCHANGED <<objVars, parked, waits, reqVars, storeVars>>

\* Mutant: the hooks are not awaited.
NothingOutstanding(d) == {}

Outstanding(d) == {w \in completions : w[1] = d}

\* Mutant: an off-by-one in the count of validated writes.
ValidatedBut1(d) == Len(writes[d]) - 1

Validated(d) == Len(writes[d])

\* The end of the loop: await the completions, if there are any.
CommitValidated ==
    /\ ~Idle
    /\ Top.at = "loop"
    /\ Top.i > Len(writes[Top.db])
    /\ LET d == Top.db
           close == [Top EXCEPT !.at = "close", !.awaits = Outstanding(d)]
       IN /\ validated' = [validated EXCEPT ![d] = Validated(d)]
          /\ completions' = completions \ Outstanding(d)
          /\ IF Outstanding(d) # {}
             THEN /\ parked' = parked \cup {close}
                  /\ stack' = Tail(stack)
             ELSE /\ stack' = <<close>> \o Tail(stack)
                  /\ UNCHANGED parked
    /\ UNCHANGED <<open, chain, transaction, used, refs, tracked, writes, saved, entry, retries,
                   waits, reqVars, storeVars>>

\* Promise.all(completions) resolves.
HooksDone(f) ==
    /\ Idle
    /\ f \in parked
    /\ parked' = parked \ {f}
    /\ stack' = <<f>>
    /\ hooks' = hooks \ f.awaits
    /\ UNCHANGED <<objVars, waits, reqVars, native, version, applied, logged, others>>

\* A before hook rejects: so does the promise commit returned.
HookFailed(f) ==
    /\ Idle
    /\ MayReject
    /\ f \in parked
    /\ parked' = parked \ {f}
    /\ request' = IF f.main THEN "rejected" ELSE request
    /\ UNCHANGED <<objVars, stack, waits, scan, load, preset, issued, storeVars>>

\* More writes arrived while commit waited for the completions.
CommitAgain ==
    /\ ~Idle
    /\ Top.at = "close"
    /\ Len(writes[Top.db]) > validated[Top.db]
    /\ stack' = <<CommitFrame(Top.db, Top.opt, Top.main)>> \o Tail(stack)
    /\ UNCHANGED <<objVars, parked, waits, reqVars, storeVars>>

\* --this.readTxnsUsed > 0
StillRead(d)   == Positive(Plus(used[d], -1))

\* Mutant: the object is left closed with its writes.
StaysClosed(d) == "CLOSED"

LeftOpen(d)    == IF writes[d] # <<>> THEN "LINGERING" ELSE "CLOSED"

\* Iterators still use the transaction: writes linger until they are done.
CommitLingers ==
    /\ ~Idle
    /\ Top.at = "close"
    /\ Len(writes[Top.db]) <= validated[Top.db]
    /\ LET d == Top.db IN
       /\ StillRead(d)
       /\ used' = [used EXCEPT ![d] = Plus(@, -1)]
       /\ open' = [open EXCEPT ![d] = LeftOpen(d)]
       /\ AfterCommit(d, Top.opt, Top.main, Tail(stack))
    /\ UNCHANGED <<chain, transaction, refs, tracked, writes, saved, entry, validated, retries,
                   completions, parked, waits, scan, load, preset, issued, storeVars>>

\* No reader is left: commit the native transaction, or abort it if there is
\* nothing to write.
CommitCloses ==
    /\ ~Idle
    /\ Top.at = "close"
    /\ Len(writes[Top.db]) <= validated[Top.db]
    /\ LET d == Top.db
           n == Top.txn
       IN /\ ~StillRead(d)
          /\ used' = [used EXCEPT ![d] = Plus(@, -1)]
          /\ open' = [open EXCEPT ![d] = "CLOSED"]
          /\ tracked' = tracked \ {d}
          /\ transaction' = Cleared(d)
          /\ \/ /\ n # None
                /\ writes[d] # <<>>
                /\ native' = [native EXCEPT ![n].state = IF @ = "open" THEN "committing" ELSE @]
                /\ waits' = waits \cup {[db |-> d, opt |-> Top.opt, txn |-> n, main |-> Top.main]}
                /\ stack' = Tail(stack)
                /\ UNCHANGED request
             \/ /\ n = None \/ writes[d] = <<>>
                /\ native' = IF n = None THEN native ELSE NativeAbort(n)
                /\ AfterCommit(d, Top.opt, Top.main, Tail(stack))
                /\ UNCHANGED waits
    /\ UNCHANGED <<chain, refs, writes, saved, entry, validated, retries, completions, parked,
                   scan, load, preset, issued, version, applied, logged, hooks, others>>

\* The native commit resolved: commit the next database, reset the object.
CommitSucceeded(c) ==
    /\ Idle
    /\ c \in waits
    /\ native[c.txn].state \in {"committed", "aborted"}
    /\ waits' = waits \ {c}
    /\ AfterCommit(c.db, c.opt, c.main, <<>>)
    /\ writes' = [writes EXCEPT ![c.db] = <<>>]
    /\ chain' = [d \in Dbs |-> IF d = c.db + 1 /\ chain[d] = "linked" THEN "dropped" ELSE chain[d]]
    /\ UNCHANGED <<open, transaction, used, refs, tracked, saved, entry, validated, retries,
                   completions, parked, scan, load, preset, issued, storeVars>>

\* The native commit failed with ERR_BUSY: commit again with its transaction.
CommitRetries(c) ==
    /\ Idle
    /\ c \in waits
    /\ native[c.txn].state = "busy"
    /\ waits' = waits \ {c}
    /\ retries' = [retries EXCEPT ![c.db] = @ + 1]
    /\ native' = [native EXCEPT ![c.txn] =
           [FreshNative(@.db) EXCEPT !.log = native[c.txn].log, !.isRetry = native[c.txn].isRetry]]
    /\ stack' = <<CommitFrame(c.db, c.txn, c.main)>>
    /\ UNCHANGED <<open, chain, transaction, used, refs, tracked, writes, saved, entry, validated,
                   completions, parked, reqVars, version, applied, logged, hooks, others>>
-----------------------------------------------------------------------------
NoScan == [state |-> "idle", db |-> 1, txn |-> None]

Init ==
    /\ open = [d \in Dbs |-> "OPEN"]
    /\ chain = [d \in Dbs |-> "absent"]
    /\ transaction = [d \in Dbs |-> None]
    /\ used = [d \in Dbs |-> NaN]
    /\ refs = [d \in Dbs |-> 0]
    /\ tracked = {}
    /\ writes = [d \in Dbs |-> <<>>]
    /\ saved = [d \in Dbs |-> {}]
    /\ entry = [d \in Dbs |-> [k \in Keys |-> 0]]
    /\ validated = [d \in Dbs |-> 0]
    /\ retries = [d \in Dbs |-> 0]
    /\ completions = {}
    /\ stack = <<>>
    /\ parked = {}
    /\ waits = {}
    /\ request = "running"
    /\ scan = [s \in Scans |-> NoScan]
    /\ load = [d \in Dbs |-> [k \in Keys |-> "no"]]
    /\ preset = [d \in Dbs |-> [k \in Keys |-> 0]]
    /\ issued = {}
    /\ native = <<>>
    /\ version \in [Dbs -> [Keys -> {0, 1}]]
    /\ applied = {}
    /\ logged = [d \in Dbs |-> [k \in Keys |-> 0]]
    /\ hooks = {}
    /\ others = 0

\* The frames of a synchronous call.
CallStep ==
    \/ Save \/ CommitWrite \/ CommitValidated \/ CommitAgain
    \/ CommitLingers \/ CommitCloses \/ AbortEnd

\* What the event loop and the native store bring about by themselves.
Completion ==
    \/ \E n \in DOMAIN native : NativeCommit(n)
    \/ \E c \in waits : CommitSucceeded(c) \/ CommitRetries(c)
    \/ \E f \in parked : HooksDone(f) \/ HookFailed(f)

RequestStep ==
    \/ \E d \in Dbs, k \in Keys :
          \/ \E kind \in Kinds : Write(d, k, kind) \/ WriteLoaded(d, k, kind)
          \/ Event(d, k)
          \/ LoadStart(d, k) \/ LoadFromSource(d, k) \/ SourceLoaded(d, k)
    \/ \E s \in Scans : ScanDone(s) \/ \E d \in Dbs : ScanStart(s, d)
    \/ Commit \/ CommitMidway \/ Abort

Environment ==
    \/ \E d \in Dbs : Timeout(d)
    \/ \E d \in Dbs, k \in Keys : OtherWrite(d, k)

Next == CallStep \/ Completion \/ RequestStep \/ Environment

\* The event loop runs what is ready, and iterators are finished or closed by
\* the server when the response ends.
Fairness ==
    /\ WF_vars(CallStep)
    /\ WF_vars(Completion)
    /\ \A s \in Scans : WF_vars(ScanDone(s))

Spec == Init /\ [][Next]_vars
FairSpec == Spec /\ Fairness
-----------------------------------------------------------------------------
(***************************************************************************)
(* Properties.                                                             *)
(***************************************************************************)
Handles   == 0..Len(native)
States    == {"CLOSED", "OPEN", "LINGERING"}
Op        == [key : Keys, base : Nat]
NativeTxn == [db : Dbs, state : {"open", "committing", "busy", "committed", "aborted"},
              snap : [Keys -> Nat], ops : SUBSET Op, log : [Keys -> Nat], isRetry : BOOLEAN]

\* The frames of commit, save and abort, and the commits that await the store.
CommitFrames == [at : {"loop", "close"}, db : Dbs, opt : Nat, main : BOOLEAN, i : Nat \ {0},
                 awaits : SUBSET (Dbs \X Keys), txn : Nat]
SaveFrames   == [at : {"save"}, db : Dbs, key : Keys, txn : Nat, reload : BOOLEAN]
AbortFrames  == [at : {"aborted"}, db : Dbs]
Frames       == CommitFrames \cup SaveFrames \cup AbortFrames
Awaiting     == [db : Dbs, opt : Nat, txn : Nat, main : BOOLEAN]

\* Every field of the transaction objects, the calls in progress, the request
\* and the native store has a value the code could give it; every reference
\* of an object to a native transaction is to one that was created.
TypeOK ==
    /\ open \in [Dbs -> States]
    /\ chain \in [Dbs -> {"absent", "linked", "dropped"}]
    /\ transaction \in [Dbs -> Handles]
    /\ used \in [Dbs -> Int \cup {NaN}]
    /\ refs \in [Dbs -> Int]
    /\ tracked \subseteq Dbs
    /\ writes \in [Dbs -> Seq(Keys)]
    /\ saved \in [Dbs -> SUBSET Keys]
    /\ entry \in [Dbs -> [Keys -> Nat]]
    /\ validated \in [Dbs -> Nat]
    /\ retries \in [Dbs -> Nat]
    /\ completions \subseteq Dbs \X Keys
    /\ hooks \subseteq Dbs \X Keys
    /\ stack \in Seq(Frames)
    /\ parked \subseteq CommitFrames
    /\ waits \subseteq Awaiting
    /\ request \in {"running", "midway", "resumed", "committing",
                    "resolved", "rejected", "aborted", "spinning"}
    /\ issued \subseteq Dbs \X Keys
    /\ scan \in [Scans -> [state : {"idle", "active", "done"}, db : Dbs, txn : Nat]]
    /\ load \in [Dbs -> [Keys -> {"no", "local", "source", "done"}]]
    /\ preset \in [Dbs -> [Keys -> Nat]]
    /\ native \in Seq(NativeTxn)
    /\ version \in [Dbs -> [Keys -> Nat]]
    /\ logged \in [Dbs -> [Keys -> Nat]]
    /\ applied \subseteq [db : Dbs, key : Keys, base : Nat, over : Nat]
    /\ \A c \in waits : c.txn \in DOMAIN native

Commits(d, k)   == {a \in applied : a.db = d /\ a.key = k}
Committed(d, k) == Commits(d, k) # {}
Scanning(d)     == \E s \in Scans : scan[s].state = "active" /\ scan[s].db = d

\* A write is stored only over the record state it was computed from: commit
\* retries after ERR_BUSY reload the entries (save with reloadEntry), and the
\* first attempt reads them in the native transaction that commits them.
NoLostUpdate == \A a \in applied : a.base = a.over

\* Each time a write of the request is stored, exactly one transaction log
\* entry is published for it, however often its commit was retried: the log is
\* what replication and subscribers see.
LogMatchesStore ==
    \A d \in Dbs, k \in Keys : logged[d][k] = Cardinality(Commits(d, k))

\* No write is stored a second time, whatever commits overlap: a second
\* application of an increment would count twice.
StoredOnce == \A d \in Dbs, k \in Keys : Cardinality(Commits(d, k)) <= 1

\* The native transaction an object still refers to is open: a later read or
\* write of the request never joins one that was already handed to the store.
TransactionIsOpen ==
    \A d \in Dbs : transaction[d] # None => native[transaction[d]].state = "open"

\* When the function given to transaction() throws, none of its writes is
\* ever stored.
AbortedNeverCommits == request = "aborted" => applied = {}

\* Once the request's function has thrown, no native transaction that was
\* still open is committed.
AbortedCommitsNothing ==
    [][ request = "aborted" =>
            \A n \in DOMAIN native :
                native[n].state = "open" => native'[n].state # "committing" ]_vars

\* A write is handed to the store only when its before hook, the write to the
\* source of the table, has resolved.
CommitsAfterHooks ==
    [][ \A n \in DOMAIN native :
            (native[n].state = "open" /\ native'[n].state = "committing") =>
                \A op \in native[n].ops : <<native[n].db, op.key>> \notin hooks ]_vars

\* Once the promise of commit was rejected, by a failed before hook or by a
\* write that is not valid, none of what was not yet committed ever is.
RejectedCommitsNothing ==
    [][ request = "rejected" =>
            \A n \in DOMAIN native :
                (native[n].state = "open" /\ native[n].ops # {})
                    => native'[n].state # "committing" ]_vars

\* Writes linger only while an iterator will finish them.
LingeringHasReader ==
    Idle => \A d \in Dbs : open[d] = "LINGERING" => Scanning(d)

\* While a query iterates, the native transaction it reads from is neither
\* committed nor aborted, unless the request was aborted.
ScansKeepTransaction ==
    \A s \in Scans :
        (scan[s].state = "active" /\ scan[s].txn # None /\ request # "aborted")
            => native[scan[s].txn].state = "open"

\* When no commit is under way, every write saved in a transaction that is
\* closed is stored, also the writes made one after the other after it closed:
\* each of them is committed at once.
ClosedMeansStored ==
    ( Idle /\ parked = {} /\ waits = {} /\ request \in {"resumed", "resolved"} )
        => \A d \in Dbs : (open[d] = "CLOSED" /\ transaction[d] = None)
                            => \A k \in saved[d] : Committed(d, k)

\* When the promise of commit resolves, every write of the request is stored.
ResolvedMeansCommitted ==
    request = "resolved" => \A w \in issued : Committed(w[1], w[2])

\* The step that resolves the promise of commit finds every write stored,
\* or lingering because an iterator still reads its transaction.
ResolvesStoredOrLingering ==
    [][ (request # "resolved" /\ request' = "resolved") =>
            \A w \in issued : \/ Committed(w[1], w[2])'
                              \/ open'[w[1]] = "LINGERING" /\ Scanning(w[1])' ]_vars

\* Every write of a request whose commit resolved is stored in the end, also
\* those left to doneReadTxn of the last iterator and those that meet ERR_BUSY.
LingeringCommits ==
    \A d \in Dbs, k \in Keys :
        (request = "resolved" /\ <<d, k>> \in issued) ~> Committed(d, k)

\* A request that is over, with its iterators, leaves no native transaction
\* (and so no snapshot of the store) open.
NoDanglingNative ==
    ( /\ request \in {"resolved", "aborted"}
      /\ Idle /\ parked = {} /\ waits = {}
      /\ \A s \in Scans : scan[s].state # "active"
      /\ \A d \in Dbs, k \in Keys : load[d][k] \in {"no", "done"} )
        => \A n \in DOMAIN native : native[n].state \in {"committed", "aborted"}

\* The loop of abort over doneReadTxn ends.
AbortTerminates == request # "spinning"
=============================================================================
