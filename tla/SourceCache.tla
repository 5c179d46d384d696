---------------------------- MODULE SourceCache ----------------------------
(***************************************************************************)
(* Loading a record of a caching table from its source: getFromSource in   *)
(* resources/Table.ts, with the reads that lead to it, the lock that makes *)
(* other requests wait for a load in progress, the timeout of that wait,   *)
(* and what changes the record meanwhile: writes, invalidations, expiry    *)
(* and eviction.                                                           *)
(*                                                                         *)
(* One record is modelled: locks, entries and loads of different records   *)
(* do not meet.  The source holds a value that only grows, so a value is   *)
(* as old as it is small.  Each request reads the record once.  Those in   *)
(* MustRevalidate take no stale answer; the others take one when the       *)
(* source cannot be reached, as is the default, and none besides           *)
(* (staleIfError, allowStaleWhileRevalidate).  The table has an audit log, *)
(* so that a deleted record leaves a tombstone.                            *)
(***************************************************************************)
EXTENDS Integers, FiniteSets

CONSTANTS
    Requests,     \* the requests that read the record, of any thread
    MustRevalidate, \* those of them that say mustRevalidate
    Indexed,      \* TRUE if the table has indices: an invalidated record keeps its
                  \* indexed attributes
    Reloads,      \* TRUE if what is stored may be loaded again without having been
                  \* invalidated: entries expire, and requests say noCache
    LockTimeouts, \* TRUE if LOCK_TIMEOUT may elapse for a waiting request
    Gone,         \* the values of the source that are: no such record
    MaxChanges    \* bound: writes, invalidations and evictions of the record

ASSUME FlagAssumption  == {Indexed, Reloads, LockTimeouts} \subseteq BOOLEAN
ASSUME RequestAssumption == MustRevalidate \subseteq Requests
ASSUME ValueAssumption == Gone \subseteq Nat
ASSUME BoundAssumption == MaxChanges \in Nat

VARIABLES
    entry,     \* the record's entry in primaryStore
    seq,       \* number of writes to the record in the store
    source,    \* the value the source holds
    known,     \* history: the source's value at the last write or invalidation
    locked,    \* primaryStore's lock on the record
    state,     \* of each request
    seen,      \* existingEntry of each request
    got,       \* updatedRecord of each load
    snap,      \* seq when the native transaction of each load was made
    stores,    \* whether the commit function of each load put the record
    answer,    \* what each request was answered with, or Nothing
    asked,     \* history: known when each request began
    timedOut,  \* history: LOCK_TIMEOUT has elapsed
    changes

loadVars  == <<seen, got, snap, stores>>
storeVars == <<entry, seq, source, known>>
vars      == <<storeVars, locked, state, loadVars, answer, asked, timedOut, changes>>

Nothing == -1

Flags == {"missing", "deleted", "valid", "invalidated", "expired"}
Entry == [version : Nat, value : Nat, flag : Flags]

\* Mutant: it has a version, though none that a record could have.
NegativeEntry == [version |-> Nothing, value |-> 0, flag |-> "missing"]

\* getEntry of a record that is not there: undefined, with no version.
NoEntry == [version |-> 0, value |-> 0, flag |-> "missing"]

Holders == {"loading", "called", "committing"} \* what a request does under the lock
States  == Holders \cup {"idle", "read", "waiting", "notified", "done", "stale", "failed"}

\* A write to the store gives the record a new version.
Versioned(v, f) == [version |-> seq + 1, value |-> v, flag |-> f]

Stored(v) == Versioned(v, IF v \in Gone THEN "deleted" ELSE "valid")
-----------------------------------------------------------------------------
(***************************************************************************)
(* The lock (external: tryLock, unlock of the store).  unlock releases it  *)
(* whoever holds it, and calls back every request that waits.              *)
(***************************************************************************)
Released(st) == [r \in Requests |-> IF st[r] = "waiting" THEN "notified" ELSE st[r]]

\* Mutant: the callbacks are not called.
UnlockQuietly(st) ==
    /\ locked' = FALSE
    /\ state' = st

Unlock(st) ==
    /\ locked' = FALSE
    /\ state' = Released(st)

(***************************************************************************)
(* Reading the record.                                                     *)
(***************************************************************************)

Usable(e) == e.flag = "valid"

\* _loadRecord reads the entry; the transaction it reads in may be older than
\* the load, so that the load is a step of its own.
Read(r) ==
    /\ state[r] = "idle"
    /\ asked' = [asked EXCEPT ![r] = known]
    /\ seen' = [seen EXCEPT ![r] = entry]
    /\ \/ /\ Usable(entry)
          /\ state' = [state EXCEPT ![r] = "done"]
          /\ answer' = [answer EXCEPT ![r] = entry.value]
       \/ /\ ~Usable(entry) \/ Reloads
          /\ state' = [state EXCEPT ![r] = "read"]
          /\ UNCHANGED answer
    /\ UNCHANGED <<storeVars, locked, got, snap, stores, timedOut, changes>>

\* Mutant: the result of tryLock is not looked at.
AlwaysLocks(r) ==
    /\ locked' = TRUE
    /\ state' = [state EXCEPT ![r] = "loading"]

\* tryLock: load under the lock, or wait for its release.
TryLock(r) ==
    /\ locked' = TRUE
    /\ state' = [state EXCEPT ![r] = IF locked THEN "waiting" ELSE "loading"]

\* getFromSource with the entry that was read.
GetFromSource(r) ==
    /\ state[r] = "read"
    /\ TryLock(r)
    /\ UNCHANGED <<storeVars, loadVars, answer, asked, timedOut, changes>>

\* The callback of tryLock: use what the other request stored, or try again.
Callback(r) ==
    /\ state[r] = "notified"
    /\ \/ /\ Usable(entry)
          /\ state' = [state EXCEPT ![r] = "done"]
          /\ answer' = [answer EXCEPT ![r] = entry.value]
          /\ UNCHANGED <<locked, seen>>
       \/ /\ ~Usable(entry)
          /\ seen' = [seen EXCEPT ![r] = entry]
          /\ TryLock(r)
          /\ UNCHANGED answer
    /\ UNCHANGED <<storeVars, got, snap, stores, asked, timedOut, changes>>

\* LOCK_TIMEOUT elapses for a request that waits: it releases the lock.
LockTimeout(r) ==
    /\ LockTimeouts
    /\ state[r] = "waiting"
    /\ timedOut' = TRUE
    /\ Unlock(state)
    /\ UNCHANGED <<storeVars, loadVars, answer, asked, changes>>
-----------------------------------------------------------------------------
(***************************************************************************)
(* The load.                                                               *)
(***************************************************************************)

\* Mutant: the commit function does not compare versions.
StoresAlways(e, s) == TRUE

\* The commit function, given operation.entry and existingEntry: it returns
\* when the version has changed.
Unchanged(e, s) == e.version = s.version

\* save reads the entry anew only if operation.entry is undefined.
OperationEntry(r) == IF seen[r].flag = "missing" THEN entry ELSE seen[r]

\* The put of a record that was invalidated is conditional on its version.
PutHolds(r) == seen[r].flag = "invalidated" => entry.version = seen[r].version

\* The commit function writes, given operation.entry: there is nothing to delete
\* if there is no entry.
Writes(r, e) ==
    /\ Unchanged(e, seen[r])
    /\ got[r] \in Gone => e.flag # "missing"

\* throttledCallToSource: the source (external) reads its value, some time
\* before the answer arrives.
SourceReads(r) ==
    /\ state[r] = "loading"
    /\ got' = [got EXCEPT ![r] = source]
    /\ state' = [state EXCEPT ![r] = "called"]
    /\ UNCHANGED <<storeVars, locked, seen, snap, stores, answer, asked, timedOut, changes>>

\* The source answers: the request gets the value, and the write of the record
\* is saved in a native transaction.
SourceAnswers(r) ==
    /\ state[r] = "called"
    /\ answer' = [answer EXCEPT ![r] = got[r]]
    /\ snap' = [snap EXCEPT ![r] = seq]
    /\ stores' = [stores EXCEPT ![r] = Writes(r, OperationEntry(r)) /\ PutHolds(r)]
    /\ state' = [state EXCEPT ![r] = "committing"]
    /\ UNCHANGED <<storeVars, locked, seen, got, asked, timedOut, changes>>

\* noCacheStore: the request gets the value, and nothing is stored.
NotStored(r) ==
    /\ state[r] = "called"
    /\ answer' = [answer EXCEPT ![r] = got[r]]
    /\ Unlock([state EXCEPT ![r] = "done"])
    /\ UNCHANGED <<storeVars, loadVars, asked, timedOut, changes>>

\* Mutant: the error is passed on and the lock is not released.
SourceFailsLocked(r) ==
    /\ state[r] = "called"
    /\ state' = [state EXCEPT ![r] = "failed"]
    /\ UNCHANGED <<storeVars, locked, loadVars, answer, asked, timedOut, changes>>

\* The source fails: the request fails too.
SourceFails(r) ==
    /\ state[r] = "called"
    /\ Unlock([state EXCEPT ![r] = "failed"])
    /\ UNCHANGED <<storeVars, loadVars, answer, asked, timedOut, changes>>

\* existingRecord is there for an answer after an error, and may be used for it.
ExistingRecord(r) ==
    /\ r \notin MustRevalidate
    /\ \/ seen[r].flag \in {"valid", "expired"}
       \/ seen[r].flag = "invalidated" /\ Indexed

\* The source cannot be reached (ECONNRESET, ECONNREFUSED, EAI_AGAIN): the request
\* gets the record that it found, or the part of it that was kept.
SourceUnreachable(r) ==
    /\ state[r] = "called"
    /\ ExistingRecord(r)
    /\ answer' = [answer EXCEPT ![r] = seen[r].value]
    /\ Unlock([state EXCEPT ![r] = "stale"])
    /\ UNCHANGED <<storeVars, loadVars, asked, timedOut, changes>>

\* The store's check of the write (external).
Conflict(r) == stores[r] /\ snap[r] # seq

\* The commit succeeds, and the lock is released.
LoadCommits(r) ==
    /\ state[r] = "committing"
    /\ ~Conflict(r)
    /\ \/ /\ stores[r]
          /\ entry' = Stored(got[r])
          /\ seq' = seq + 1
       \/ /\ ~stores[r]
          /\ UNCHANGED <<entry, seq>>
    /\ Unlock([state EXCEPT ![r] = "done"])
    /\ UNCHANGED <<source, known, loadVars, answer, asked, timedOut, changes>>

\* The commit fails with ERR_BUSY: the write is saved again, with the entry
\* reloaded, in a fresh native transaction.
LoadRetries(r) ==
    /\ state[r] = "committing"
    /\ Conflict(r)
    /\ snap' = [snap EXCEPT ![r] = seq]
    /\ stores' = [stores EXCEPT ![r] = Writes(r, entry)]
    /\ UNCHANGED <<storeVars, locked, state, seen, got, answer, asked, timedOut, changes>>

\* The commit fails in another way: the request was answered already.
LoadFails(r) ==
    /\ state[r] = "committing"
    /\ Unlock([state EXCEPT ![r] = "done"])
    /\ UNCHANGED <<storeVars, loadVars, answer, asked, timedOut, changes>>
-----------------------------------------------------------------------------
(***************************************************************************)
(* What else happens to the record.                                        *)
(***************************************************************************)
Change ==
    /\ changes < MaxChanges
    /\ changes' = changes + 1
    /\ UNCHANGED <<locked, state, loadVars, answer, asked, timedOut>>

\* Another request writes or deletes the record, in the source and in the table.
Put ==
    /\ Change
    /\ source' = source + 1
    /\ known' = source + 1
    /\ entry' = Stored(source + 1)
    /\ seq' = seq + 1

\* The source changes, and the table is not told yet.
SourceChanges ==
    /\ Change
    /\ source' = source + 1
    /\ UNCHANGED <<entry, seq, known>>

\* _writeInvalidate: what is cached is older than the source.
Invalidate ==
    /\ Change
    /\ known' = source
    /\ entry' = Versioned(entry.value, "invalidated")
    /\ seq' = seq + 1
    /\ UNCHANGED source

\* expiresAt of the entry passes.
Expire ==
    /\ Reloads
    /\ entry.flag = "valid"
    /\ entry' = [entry EXCEPT !.flag = "expired"]
    /\ UNCHANGED <<seq, source, known, locked, state, loadVars, answer, asked, timedOut, changes>>

\* Mutant: evict does not ask for the lock.
FreeToEvict == TRUE

\* evict abandons an eviction while a load is in progress.
NoLock == ~locked

Evict ==
    /\ Change
    /\ entry.flag \in {"invalidated", "expired"}
    /\ NoLock
    /\ entry' = NoEntry
    /\ seq' = seq + 1
    /\ UNCHANGED <<source, known>>
-----------------------------------------------------------------------------
Init ==
    /\ \E e \in {NoEntry, [version |-> 1, value |-> 0, flag |-> "valid"],
                          [version |-> 1, value |-> 0, flag |-> "invalidated"]} :
           entry = e
    /\ seq = 1
    /\ source = 0
    /\ known = 0
    /\ locked = FALSE
    /\ state = [r \in Requests |-> "idle"]
    /\ seen = [r \in Requests |-> NoEntry]
    /\ got = [r \in Requests |-> 0]
    /\ snap = [r \in Requests |-> 0]
    /\ stores = [r \in Requests |-> FALSE]
    /\ answer = [r \in Requests |-> Nothing]
    /\ asked = [r \in Requests |-> 0]
    /\ timedOut = FALSE
    /\ changes = 0

Step(r) ==
    \/ Read(r) \/ GetFromSource(r) \/ Callback(r) \/ LockTimeout(r)
    \/ SourceReads(r) \/ SourceAnswers(r) \/ NotStored(r)
    \/ SourceFails(r) \/ SourceUnreachable(r)
    \/ LoadCommits(r) \/ LoadRetries(r) \/ LoadFails(r)

Next ==
    \/ \E r \in Requests : Step(r)
    \/ Put \/ SourceChanges \/ Invalidate \/ Expire \/ Evict

Spec == Init /\ [][Next]_vars

\* The source answers every call or fails, the store settles every commit, and
\* the event loop runs every callback.  Nothing makes a timer needed.
Fairness ==
    \A r \in Requests :
        /\ WF_vars(GetFromSource(r))
        /\ WF_vars(Callback(r))
        /\ WF_vars(SourceReads(r))
        /\ WF_vars(SourceAnswers(r) \/ NotStored(r) \/ SourceFails(r) \/ SourceUnreachable(r))
        /\ WF_vars(LoadCommits(r) \/ LoadRetries(r) \/ LoadFails(r))

FairSpec == Spec /\ Fairness
-----------------------------------------------------------------------------
(***************************************************************************)
(* Properties.                                                             *)
(***************************************************************************)

\* The entry, the requests and their loads have values the code could give.
TypeOK ==
    /\ entry \in Entry
    /\ seq \in Nat
    /\ source \in Nat
    /\ known \in Nat
    /\ locked \in BOOLEAN
    /\ state \in [Requests -> States]
    /\ seen \in [Requests -> Entry]
    /\ got \in [Requests -> Nat]
    /\ snap \in [Requests -> Nat]
    /\ stores \in [Requests -> BOOLEAN]
    /\ answer \in [Requests -> Nat \cup {Nothing}]
    /\ asked \in [Requests -> Nat]
    /\ timedOut \in BOOLEAN
    /\ changes \in Nat

Holding == {r \in Requests : state[r] \in Holders}

\* As long as no request gave up waiting, only one load of the record is in
\* progress, and only under the lock.
SingleResolution ==
    ~timedOut => \A r \in Holding : locked /\ \A q \in Holding : q = r

\* What the cache holds as valid is never older than the last write or
\* invalidation of the record: no load, however long it took and whatever was
\* retried, puts back what it had read from the source before.
ValidIsCurrent == entry.flag = "valid" => entry.value >= known

\* No request is answered with a value older than the last write or
\* invalidation before it began, from the cache, from the source or after a wait,
\* but one that does not say mustRevalidate and finds the source unreachable.
AnswersAreCurrent ==
    \A r \in Requests :
       answer[r] # Nothing /\ (state[r] = "stale" => r \in MustRevalidate) => answer[r] >= asked[r]

\* Every request that has begun is answered or fails, whatever becomes of the
\* loads it waits for.
AllAnswered ==
    \A r \in Requests : (state[r] # "idle") ~> (state[r] \in {"done", "stale", "failed", "committing"})

\* A request waits only while the lock is held, so that its release wakes it.
WaitersHaveLock == (\E r \in Requests : state[r] = "waiting") => locked
=============================================================================
