------------------------- MODULE SourceCacheProofs -------------------------
(***************************************************************************)
(* Proofs about SourceCache, for any number of requests, changes and       *)
(* values: the lock makes the loads of a record exclusive, and where every *)
(* load starts from a record that is missing or invalidated, what the      *)
(* cache holds as valid is never older than the last write.                *)
(***************************************************************************)
EXTENDS SourceCache, TLAPS

(***************************************************************************)
(* Types.                                                                  *)
(***************************************************************************)

LEMMA TypeInit == Init => TypeOK
<1> SUFFICES ASSUME Init PROVE TypeOK
  OBVIOUS
<1>1. entry \in Entry /\ NoEntry \in Entry
  BY DEF Init, Entry, Flags, NoEntry
<1>2. state \in [Requests -> States]
  BY DEF Init, States
<1>3. answer \in [Requests -> Nat \cup {Nothing}]
  BY DEF Init
<1> QED
  BY <1>1, <1>2, <1>3 DEF Init, TypeOK

LEMMA StoredType ==
  ASSUME TypeOK, NEW v \in Nat
  PROVE  /\ Stored(v) \in Entry
         /\ Versioned(v, "invalidated") \in Entry
  BY DEF TypeOK, Stored, Versioned, Entry, Flags

LEMMA UnlockType ==
  ASSUME NEW st \in [Requests -> States], Unlock(st)
  PROVE  /\ locked' \in BOOLEAN
         /\ state' \in [Requests -> States]
  BY DEF Unlock, Released, States, Holders

LEMMA TypeStep == TypeOK /\ [Next]_vars => TypeOK'
<1> SUFFICES ASSUME TypeOK, [Next]_vars PROVE TypeOK'
  OBVIOUS
<1> USE DEF TypeOK
<1>1. ASSUME NEW r \in Requests, Read(r) PROVE TypeOK'
  <2>1. state' \in [Requests -> States]
    BY <1>1 DEF Read, States
  <2>2. answer' \in [Requests -> Nat \cup {Nothing}]
    BY <1>1 DEF Read, Entry
  <2>3. /\ seen' \in [Requests -> Entry]
        /\ asked' \in [Requests -> Nat]
    BY <1>1 DEF Read
  <2> QED
    BY <1>1, <2>1, <2>2, <2>3 DEF Read, storeVars
<1>2. ASSUME NEW r \in Requests, GetFromSource(r) PROVE TypeOK'
  BY <1>2 DEF GetFromSource, TryLock, States, Holders, storeVars, loadVars
<1>3. ASSUME NEW r \in Requests, Callback(r) PROVE TypeOK'
  <2>1. state' \in [Requests -> States]
    BY <1>3 DEF Callback, TryLock, States, Holders
  <2>2. answer' \in [Requests -> Nat \cup {Nothing}]
    BY <1>3 DEF Callback, Entry
  <2>3. seen' \in [Requests -> Entry] /\ locked' \in BOOLEAN
    BY <1>3 DEF Callback, TryLock
  <2> QED
    BY <1>3, <2>1, <2>2, <2>3 DEF Callback, storeVars
<1>4. ASSUME NEW r \in Requests, LockTimeout(r) PROVE TypeOK'
  BY <1>4, UnlockType DEF LockTimeout, storeVars, loadVars
<1>5. ASSUME NEW r \in Requests, SourceReads(r) PROVE TypeOK'
  BY <1>5 DEF SourceReads, States, Holders, storeVars
<1>6. ASSUME NEW r \in Requests, SourceAnswers(r) PROVE TypeOK'
  BY <1>6 DEF SourceAnswers, Writes, Unchanged, PutHolds, States, Holders, storeVars
<1>7. ASSUME NEW r \in Requests, NotStored(r) PROVE TypeOK'
  <2>1. [state EXCEPT ![r] = "done"] \in [Requests -> States]
    BY DEF States
  <2> QED
    BY <1>7, <2>1, UnlockType DEF NotStored, storeVars, loadVars
<1>8. ASSUME NEW r \in Requests, SourceFails(r) PROVE TypeOK'
  <2>1. [state EXCEPT ![r] = "failed"] \in [Requests -> States]
    BY DEF States
  <2> QED
    BY <1>8, <2>1, UnlockType DEF SourceFails, storeVars, loadVars
<1>8a. ASSUME NEW r \in Requests, SourceUnreachable(r) PROVE TypeOK'
  <2>1. [state EXCEPT ![r] = "stale"] \in [Requests -> States]
    BY DEF States
  <2>2. answer' \in [Requests -> Nat \cup {Nothing}]
    BY <1>8a DEF SourceUnreachable, Entry
  <2> QED
    BY <1>8a, <2>1, <2>2, UnlockType DEF SourceUnreachable, storeVars, loadVars
<1>9. ASSUME NEW r \in Requests, LoadCommits(r) PROVE TypeOK'
  <2>1. [state EXCEPT ![r] = "done"] \in [Requests -> States]
    BY DEF States
  <2>2. locked' \in BOOLEAN /\ state' \in [Requests -> States]
    BY <1>9, <2>1, UnlockType DEF LoadCommits
  <2>3. got[r] \in Nat /\ Stored(got[r]) \in Entry
    BY StoredType
  <2>4. entry' \in Entry /\ seq' \in Nat
    BY <1>9, <2>3 DEF LoadCommits
  <2> QED
    BY <1>9, <2>2, <2>4 DEF LoadCommits, loadVars
<1>10. ASSUME NEW r \in Requests, LoadRetries(r) PROVE TypeOK'
  BY <1>10 DEF LoadRetries, Writes, Unchanged, storeVars
<1>11. ASSUME NEW r \in Requests, LoadFails(r) PROVE TypeOK'
  <2>1. [state EXCEPT ![r] = "done"] \in [Requests -> States]
    BY DEF States
  <2> QED
    BY <1>11, <2>1, UnlockType DEF LoadFails, storeVars, loadVars
<1>12. CASE Put
  BY <1>12, BoundAssumption, StoredType DEF Put, Change, loadVars
<1>13. CASE SourceChanges
  BY <1>13, BoundAssumption DEF SourceChanges, Change, loadVars
<1>14. CASE Invalidate
  <2>1. entry' \in Entry
    BY <1>14, StoredType DEF Invalidate, Entry
  <2> QED
    BY <1>14, <2>1, BoundAssumption DEF Invalidate, Change, loadVars
<1>15. CASE Expire
  BY <1>15 DEF Expire, Entry, Flags, loadVars
<1>16. CASE Evict
  BY <1>16, BoundAssumption DEF Evict, Change, NoEntry, Entry, Flags, loadVars
<1>17. CASE UNCHANGED vars
  BY <1>17 DEF vars, storeVars, loadVars
<1> QED
  BY <1>1, <1>2, <1>3, <1>4, <1>5, <1>6, <1>7, <1>8, <1>8a, <1>9, <1>10, <1>11,
     <1>12, <1>13, <1>14, <1>15, <1>16, <1>17 DEF Next, Step

\* Every state of the loads has the types of the model: what the requests, their
\* loads and the changes of the record write are values of the declared sets.
THEOREM TypeCorrect == Spec => []TypeOK
  BY TypeInit, TypeStep, PTL DEF Spec
-----------------------------------------------------------------------------
(***************************************************************************)
(* The lock.                                                               *)
(***************************************************************************)

LockInv == TypeOK /\ SingleResolution /\ WaitersHaveLock

\* A release of the lock by r, which then is in state s, leaves nobody waiting,
\* and no load if r's was the only one.
LEMMA ReleaseStep ==
  ASSUME LockInv, NEW r \in Requests, r \in Holding,
         NEW s \in {"done", "failed", "stale"},
         Unlock([state EXCEPT ![r] = s]), UNCHANGED timedOut
  PROVE  SingleResolution' /\ WaitersHaveLock'
<1> USE DEF LockInv, TypeOK
<1>1. \A q \in Requests : state'[q] # "waiting"
  BY DEF Unlock, Released
<1>2. \A q \in Requests : state'[q] \in Holders => q \in Holding /\ q # r
  BY DEF Unlock, Released, Holders, Holding
<1>3. ~timedOut' => Holding' = {}
  BY <1>2 DEF SingleResolution, Holding
<1> QED
  BY <1>1, <1>3 DEF SingleResolution, WaitersHaveLock, Holding

\* tryLock gives the lock to one request, and only to one that asks while nobody
\* holds it.
LEMMA TryLockStep ==
  ASSUME LockInv, NEW r \in Requests, r \notin Holding,
         TryLock(r), UNCHANGED timedOut
  PROVE  SingleResolution' /\ WaitersHaveLock'
<1> USE DEF LockInv, TypeOK
<1>1. locked' = TRUE
  BY DEF TryLock
<1>2. CASE locked
  <2>1. Holding' = Holding
    BY <1>2 DEF TryLock, Holding, Holders
  <2> QED
    BY <1>1, <1>2, <2>1 DEF SingleResolution, WaitersHaveLock
<1>3. CASE ~locked
  <2>1. ~timedOut => Holding = {}
    BY <1>3 DEF SingleResolution, Holding
  <2>2. Holding' \subseteq Holding \cup {r}
    BY <1>3 DEF TryLock, Holding, Holders
  <2> QED
    BY <1>1, <2>1, <2>2 DEF SingleResolution, WaitersHaveLock
<1> QED
  BY <1>2, <1>3

\* A step that leaves the lock alone, and starts no load and no wait.
LEMMA SameLockStep ==
  ASSUME LockInv, UNCHANGED <<locked, timedOut>>,
         Holding' \subseteq Holding,
         \A q \in Requests : state'[q] = "waiting" => state[q] = "waiting"
  PROVE  SingleResolution' /\ WaitersHaveLock'
BY DEF LockInv, SingleResolution, WaitersHaveLock

LEMMA LockStep == LockInv /\ [Next]_vars => LockInv'
<1> SUFFICES ASSUME LockInv, [Next]_vars PROVE SingleResolution' /\ WaitersHaveLock'
  BY TypeStep DEF LockInv
<1> DEFINE Goal == SingleResolution' /\ WaitersHaveLock'
<1>1. ASSUME NEW r \in Requests, Read(r) PROVE Goal
  BY <1>1, SameLockStep DEF Read, Holding, Holders, LockInv, TypeOK
<1>2. ASSUME NEW r \in Requests, GetFromSource(r) PROVE Goal
  BY <1>2, TryLockStep DEF GetFromSource, Holding, Holders
<1>3. ASSUME NEW r \in Requests, Callback(r) PROVE Goal
  <2>1. r \notin Holding /\ UNCHANGED timedOut
    BY <1>3 DEF Callback, Holding, Holders
  <2>2. CASE TryLock(r)
    BY <2>1, <2>2, TryLockStep
  <2>3. CASE locked' = locked /\ state' = [state EXCEPT ![r] = "done"]
    BY <2>1, <2>3, SameLockStep DEF Holding, Holders, LockInv, TypeOK
  <2> QED
    BY <1>3, <2>2, <2>3 DEF Callback
<1>4. ASSUME NEW r \in Requests, LockTimeout(r) PROVE Goal
  BY <1>4 DEF LockTimeout, Unlock, Released, SingleResolution, WaitersHaveLock,
              LockInv, TypeOK
<1>5. ASSUME NEW r \in Requests, SourceReads(r) PROVE Goal
  BY <1>5, SameLockStep DEF SourceReads, Holding, Holders, LockInv, TypeOK
<1>6. ASSUME NEW r \in Requests, SourceAnswers(r) PROVE Goal
  BY <1>6, SameLockStep DEF SourceAnswers, Holding, Holders, LockInv, TypeOK
<1>7. ASSUME NEW r \in Requests, NotStored(r) PROVE Goal
  BY <1>7, ReleaseStep DEF NotStored, Holding, Holders
<1>8. ASSUME NEW r \in Requests, SourceFails(r) PROVE Goal
  BY <1>8, ReleaseStep DEF SourceFails, Holding, Holders
<1>8a. ASSUME NEW r \in Requests, SourceUnreachable(r) PROVE Goal
  BY <1>8a, ReleaseStep DEF SourceUnreachable, Holding, Holders
<1>9. ASSUME NEW r \in Requests, LoadCommits(r) PROVE Goal
  BY <1>9, ReleaseStep DEF LoadCommits, Holding, Holders
<1>10. ASSUME NEW r \in Requests, LoadRetries(r) PROVE Goal
  BY <1>10, SameLockStep DEF LoadRetries, Holding, storeVars
<1>11. ASSUME NEW r \in Requests, LoadFails(r) PROVE Goal
  BY <1>11, ReleaseStep DEF LoadFails, Holding, Holders
<1>12. ASSUME UNCHANGED <<locked, state, timedOut>> PROVE Goal
  BY <1>12, SameLockStep DEF Holding
<1> QED
  BY <1>1, <1>2, <1>3, <1>4, <1>5, <1>6, <1>7, <1>8, <1>8a, <1>9, <1>10, <1>11, <1>12
     DEF Next, Step, Put, SourceChanges, Invalidate, Expire, Evict, Change, vars

THEOREM LockInvariant == Spec => []LockInv
<1>1. Init => LockInv
  BY TypeInit DEF Init, LockInv, SingleResolution, WaitersHaveLock, Holding, Holders
<1> QED
  BY <1>1, LockStep, PTL DEF Spec

\* Unless LOCK_TIMEOUT has elapsed, at most one load of the record is in progress,
\* and it holds the lock: tryLock, unlock and the callbacks exclude each other's
\* loads whatever the number of requests.
THEOREM LoadsExclude == Spec => []SingleResolution
  BY LockInvariant, PTL DEF LockInv

\* A request that waits, waits for a lock that is held: every release of the lock
\* calls back all who wait, and nobody starts to wait for a lock that is free.
THEOREM WaitersAreWoken == Spec => []WaitersHaveLock
  BY LockInvariant, PTL DEF LockInv
-----------------------------------------------------------------------------
(***************************************************************************)
(* What the cache holds is current, if nothing is loaded again that was    *)
(* not invalidated, no deleted record leaves a tombstone, and no request   *)
(* gives up waiting.  (Without the first two the run cache_stale refutes   *)
(* it: the commit function compares the entry it was given with itself.)   *)
(***************************************************************************)

FirstLoads == ~Reloads /\ ~LockTimeouts /\ Gone = {}

\* What was read from the source is current, or the entry has changed since the
\* load began.
LoadIsCurrent(r) == got[r] >= known \/ entry.version # seen[r].version

CurrentInv ==
    /\ ~timedOut
    /\ known <= source
    /\ entry.version <= seq
    /\ entry.flag \in {"missing", "valid", "invalidated"}
    /\ ValidIsCurrent
    /\ \A r \in Requests :
          /\ seen[r].version <= seq
          /\ state[r] # "done" => seen[r].flag \in {"missing", "invalidated"}
          /\ snap[r] <= seq
          /\ asked[r] <= known
          /\ state[r] \in {"called", "committing"} => LoadIsCurrent(r) /\ got[r] >= asked[r]
          /\ state[r] = "committing" /\ stores[r] /\ snap[r] = seq => got[r] >= known
          /\ answer[r] # Nothing /\ state[r] # "stale" => answer[r] >= asked[r]
          /\ state[r] = "idle" => answer[r] = Nothing
          /\ state[r] = "stale" => r \notin MustRevalidate

Inv == LockInv /\ CurrentInv

LEMMA CurrentInit == ASSUME FirstLoads PROVE Init => CurrentInv
<1> SUFFICES ASSUME Init PROVE CurrentInv
  OBVIOUS
<1>1. /\ entry.version <= seq
      /\ entry.flag \in {"missing", "valid", "invalidated"}
      /\ ValidIsCurrent
  BY DEF Init, ValidIsCurrent, NoEntry
<1> QED
  BY <1>1 DEF Init, CurrentInv, NoEntry, Nothing

\* A step of one request that changes neither the store nor the source: the facts
\* about the other requests stay.
LEMMA RequestStep ==
  ASSUME Inv, NEW r \in Requests, UNCHANGED <<storeVars, timedOut>>,
         \A q \in Requests \ {r} :
            /\ state'[q] # state[q] => state[q] = "waiting" /\ state'[q] = "notified"
            /\ seen'[q] = seen[q]
            /\ got'[q] = got[q]
            /\ snap'[q] = snap[q]
            /\ stores'[q] = stores[q]
            /\ answer'[q] = answer[q]
            /\ asked'[q] = asked[q],
         state'[r] # "idle",
         seen'[r].version <= seq,
         state'[r] # "done" => seen'[r].flag \in {"missing", "invalidated"},
         snap'[r] <= seq,
         asked'[r] <= known,
         state'[r] \in {"called", "committing"} => LoadIsCurrent(r)' /\ got'[r] >= asked'[r],
         state'[r] = "committing" /\ stores'[r] /\ snap'[r] = seq => got'[r] >= known,
         answer'[r] # Nothing /\ state'[r] # "stale" => answer'[r] >= asked'[r],
         state'[r] = "stale" => r \notin MustRevalidate
  PROVE  CurrentInv'
<1>1. \A q \in Requests \ {r} :
         /\ seen'[q].version <= seq'
         /\ state'[q] # "done" => seen'[q].flag \in {"missing", "invalidated"}
         /\ snap'[q] <= seq'
         /\ asked'[q] <= known'
         /\ state'[q] \in {"called", "committing"} => LoadIsCurrent(q)' /\ got'[q] >= asked'[q]
         /\ state'[q] = "committing" /\ stores'[q] /\ snap'[q] = seq' => got'[q] >= known'
         /\ answer'[q] # Nothing /\ state'[q] # "stale" => answer'[q] >= asked'[q]
         /\ state'[q] = "idle" => answer'[q] = Nothing
         /\ state'[q] = "stale" => q \notin MustRevalidate
  BY DEF Inv, CurrentInv, LoadIsCurrent, storeVars
<1>2. /\ ~timedOut'
      /\ known' <= source'
      /\ entry'.version <= seq'
      /\ entry'.flag \in {"missing", "valid", "invalidated"}
      /\ ValidIsCurrent'
  BY DEF Inv, CurrentInv, ValidIsCurrent, storeVars
<1> QED
  BY <1>1, <1>2 DEF CurrentInv, storeVars

\* A write to the record while no load is in progress, or one that gives it a new
\* version: what the loads in progress had read is not stored any more.
LEMMA WriteStep ==
  ASSUME Inv, UNCHANGED <<seen, got, snap, stores, answer, asked, timedOut>>,
         seq' = seq + 1, known' \in Nat, known <= known', known' <= source',
         entry' \in Entry, entry'.version <= seq',
         entry'.flag \in {"missing", "valid", "invalidated"},
         ValidIsCurrent',
         \A q \in Requests :
            /\ state'[q] \in Holders => state'[q] = state[q] /\ entry'.version = seq'
            /\ state'[q] = "idle" => state[q] = "idle"
            /\ state'[q] # "done" => state[q] # "done"
            /\ state[q] = "stale" <=> state'[q] = "stale"
  PROVE  CurrentInv'
<1>1. \A q \in Requests :
         /\ seen'[q].version <= seq'
         /\ snap'[q] <= seq
         /\ asked'[q] <= known'
  <2> SUFFICES ASSUME NEW q \in Requests
               PROVE  seen'[q].version <= seq' /\ snap'[q] <= seq /\ asked'[q] <= known'
    OBVIOUS
  <2>1. /\ seen[q].version \in Nat /\ snap[q] \in Nat /\ asked[q] \in Nat
        /\ seq \in Nat /\ known \in Nat
    BY DEF Inv, LockInv, TypeOK, Entry
  <2>2. seen[q].version <= seq /\ snap[q] <= seq /\ asked[q] <= known
    BY DEF Inv, CurrentInv
  <2> QED
    BY <2>1, <2>2
<1>2. \A q \in Requests :
         state'[q] \in {"called", "committing"} => LoadIsCurrent(q)' /\ got'[q] >= asked'[q]
  <2> SUFFICES ASSUME NEW q \in Requests, state'[q] \in {"called", "committing"}
               PROVE  LoadIsCurrent(q)' /\ got'[q] >= asked'[q]
    OBVIOUS
  <2>1. state'[q] = state[q] /\ entry'.version = seq + 1
    BY DEF Holders
  <2>2. seen[q].version \in Nat /\ seq \in Nat /\ seen[q].version <= seq
    BY DEF Inv, CurrentInv, LockInv, TypeOK, Entry
  <2> QED
    BY <2>1, <2>2 DEF Inv, CurrentInv, LoadIsCurrent
<1>3. \A q \in Requests : snap'[q] # seq'
  BY <1>1 DEF Inv, LockInv, TypeOK
<1>4. \A q \in Requests :
         /\ state'[q] # "done" => seen'[q].flag \in {"missing", "invalidated"}
         /\ answer'[q] # Nothing /\ state'[q] # "stale" => answer'[q] >= asked'[q]
         /\ state'[q] = "idle" => answer'[q] = Nothing
         /\ state'[q] = "stale" => q \notin MustRevalidate
  BY DEF Inv, CurrentInv
<1>5. \A q \in Requests : snap'[q] <= seq'
  BY <1>1 DEF Inv, LockInv, TypeOK
<1>6. ~timedOut'
  BY DEF Inv, CurrentInv
<1> QED
  BY <1>1, <1>2, <1>3, <1>4, <1>5, <1>6 DEF CurrentInv

LEMMA CurrentStep ==
  ASSUME FirstLoads
  PROVE  Inv /\ [Next]_vars => CurrentInv'
<1> SUFFICES ASSUME Inv, [Next]_vars PROVE CurrentInv'
  OBVIOUS
<1> USE DEF LockInv, TypeOK
<1>0. ASSUME NEW r \in Requests, NEW s \in {"done", "failed", "stale"},
             Unlock([state EXCEPT ![r] = s])
      PROVE  /\ state'[r] = s
             /\ \A q \in Requests \ {r} :
                   state'[q] # state[q] => state[q] = "waiting" /\ state'[q] = "notified"
  BY <1>0 DEF Unlock, Released, Inv
<1>1. ASSUME NEW r \in Requests, Read(r) PROVE CurrentInv'
  <2>1. /\ seen'[r] = entry /\ asked'[r] = known
        /\ state'[r] \in {"read", "done"}
        /\ \A q \in Requests \ {r} : /\ state'[q] = state[q] /\ seen'[q] = seen[q]
                                      /\ answer'[q] = answer[q] /\ asked'[q] = asked[q]
    BY <1>1 DEF Read, Inv
  <2>2. answer'[r] # Nothing => answer'[r] >= known
    BY <1>1 DEF Read, Usable, Inv, CurrentInv, ValidIsCurrent
  <2>3. entry.flag \in {"missing", "invalidated"} \/ state'[r] = "done"
    BY <1>1 DEF Read, Usable, Inv, CurrentInv, FirstLoads
  <2> QED
    BY <1>1, <2>1, <2>2, <2>3, RequestStep DEF Read, storeVars, Inv, CurrentInv
<1>2. ASSUME NEW r \in Requests, GetFromSource(r) PROVE CurrentInv'
  <2>1. /\ state'[r] \in {"waiting", "loading"}
        /\ \A q \in Requests \ {r} : state'[q] = state[q]
    BY <1>2 DEF GetFromSource, TryLock, Inv
  <2> QED
    BY <1>2, <2>1, RequestStep DEF GetFromSource, storeVars, loadVars, Inv, CurrentInv
<1>3. ASSUME NEW r \in Requests, Callback(r) PROVE CurrentInv'
  <2>1. /\ state'[r] \in {"waiting", "loading", "done"}
        /\ \A q \in Requests \ {r} : /\ state'[q] = state[q] /\ seen'[q] = seen[q]
                                      /\ answer'[q] = answer[q]
    BY <1>3 DEF Callback, TryLock, Inv
  <2>2. answer'[r] # Nothing => answer'[r] >= asked[r]
    <3>1. entry.value \in Nat /\ known \in Nat /\ asked[r] \in Nat /\ asked[r] <= known
      BY DEF Inv, CurrentInv, Entry
    <3> QED
      BY <1>3, <3>1 DEF Callback, Usable, Inv, CurrentInv, ValidIsCurrent
  <2>3. /\ seen'[r].version <= seq
        /\ state'[r] # "done" => seen'[r].flag \in {"missing", "invalidated"}
    BY <1>3 DEF Callback, Usable, Inv, CurrentInv
  <2> QED
    BY <1>3, <2>1, <2>2, <2>3, RequestStep DEF Callback, storeVars, Inv, CurrentInv
<1>4. ASSUME NEW r \in Requests, SourceReads(r) PROVE CurrentInv'
  <2>1. /\ state'[r] = "called" /\ got'[r] = source
        /\ \A q \in Requests \ {r} : state'[q] = state[q] /\ got'[q] = got[q]
    BY <1>4 DEF SourceReads, Inv
  <2>2. source >= known /\ source >= asked[r]
    BY DEF Inv, CurrentInv
  <2> QED
    BY <1>4, <2>1, <2>2, RequestStep DEF SourceReads, storeVars, LoadIsCurrent, Inv, CurrentInv
<1>5. ASSUME NEW r \in Requests, SourceAnswers(r) PROVE CurrentInv'
  <2>1. /\ state[r] = "called" /\ state'[r] = "committing"
        /\ answer'[r] = got[r] /\ snap'[r] = seq
        /\ stores'[r] = (Writes(r, OperationEntry(r)) /\ PutHolds(r))
        /\ \A q \in Requests \ {r} : /\ state'[q] = state[q] /\ answer'[q] = answer[q]
                                      /\ snap'[q] = snap[q] /\ stores'[q] = stores[q]
    BY <1>5 DEF SourceAnswers, Inv
  <2>2. stores'[r] => entry.version = seen[r].version
    BY <2>1 DEF Writes, Unchanged, OperationEntry, PutHolds, Inv, CurrentInv
  <2>3. LoadIsCurrent(r) /\ got[r] >= asked[r]
    BY <2>1 DEF Inv, CurrentInv
  <2> QED
    BY <1>5, <2>1, <2>2, <2>3, RequestStep
       DEF SourceAnswers, storeVars, LoadIsCurrent, Inv, CurrentInv
<1>6. ASSUME NEW r \in Requests, NotStored(r) PROVE CurrentInv'
  <2>1. answer'[r] = got[r] /\ \A q \in Requests \ {r} : answer'[q] = answer[q]
    BY <1>6 DEF NotStored, Inv
  <2>2. got[r] >= asked[r]
    BY <1>6 DEF NotStored, Inv, CurrentInv
  <2> QED
    BY <1>0, <1>6, <2>1, <2>2, RequestStep
       DEF NotStored, storeVars, loadVars, LoadIsCurrent, Inv, CurrentInv
<1>7. ASSUME NEW r \in Requests, SourceFails(r) PROVE CurrentInv'
  BY <1>0, <1>7, RequestStep, ZenonT(60) DEF SourceFails, storeVars, loadVars, Inv, CurrentInv
<1>7a. ASSUME NEW r \in Requests, SourceUnreachable(r) PROVE CurrentInv'
  <2>1. /\ state'[r] = "stale" /\ r \notin MustRevalidate
        /\ \A q \in Requests \ {r} :
              /\ state'[q] # state[q] => state[q] = "waiting" /\ state'[q] = "notified"
              /\ answer'[q] = answer[q]
    BY <1>0, <1>7a DEF SourceUnreachable, ExistingRecord, Inv
  <2> QED
    BY <1>7a, <2>1, RequestStep DEF SourceUnreachable, storeVars, loadVars, Inv, CurrentInv
<1>8. ASSUME NEW r \in Requests, LoadFails(r) PROVE CurrentInv'
  BY <1>0, <1>8, RequestStep, ZenonT(60) DEF LoadFails, storeVars, loadVars, Inv, CurrentInv
<1>9. ASSUME NEW r \in Requests, LoadRetries(r) PROVE CurrentInv'
  <2>1. /\ state[r] = "committing" /\ state'[r] = "committing" /\ snap'[r] = seq
        /\ stores'[r] = Writes(r, entry)
        /\ \A q \in Requests \ {r} : snap'[q] = snap[q] /\ stores'[q] = stores[q]
    BY <1>9 DEF LoadRetries, Inv
  <2>2. stores'[r] => entry.version = seen[r].version
    BY <2>1 DEF Writes, Unchanged
  <2>3. LoadIsCurrent(r) /\ got[r] >= asked[r]
    BY <2>1 DEF Inv, CurrentInv
  <2> QED
    BY <1>9, <2>1, <2>2, <2>3, RequestStep
       DEF LoadRetries, storeVars, LoadIsCurrent, Inv, CurrentInv
<1>10. ASSUME NEW r \in Requests, LoadCommits(r) PROVE CurrentInv'
  <2>1. CASE ~stores[r]
    BY <1>0, <1>10, <2>1, RequestStep, ZenonT(60) DEF LoadCommits, storeVars, loadVars, Inv, CurrentInv
  <2>2. CASE stores[r]
    <3>1. got[r] >= known /\ got[r] \in Nat
      BY <1>10, <2>2 DEF LoadCommits, Conflict, Inv, CurrentInv
    <3>2. /\ entry' = [version |-> seq + 1, value |-> got[r], flag |-> "valid"]
          /\ seq' = seq + 1
      BY <1>10, <2>2 DEF LoadCommits, Stored, Versioned, FirstLoads
    <3>3. ValidIsCurrent' /\ entry' \in Entry /\ UNCHANGED <<known, source>>
      BY <1>10, <3>1, <3>2 DEF ValidIsCurrent, LoadCommits, Entry, Flags, Inv
    <3>4. \A q \in Requests \ {r} : state[q] \notin Holders
      BY <1>10 DEF LoadCommits, Inv, CurrentInv, SingleResolution, Holding, Holders
    <3>5. \A q \in Requests : /\ state'[q] \notin Holders
                              /\ state'[q] = "idle" => state[q] = "idle"
                              /\ state'[q] # "done" => state[q] # "done"
                              /\ state[q] = "stale" <=> state'[q] = "stale"
      BY <1>0, <1>10, <3>4 DEF LoadCommits, Holders
    <3> QED
      BY <1>10, <3>2, <3>3, <3>5, WriteStep DEF LoadCommits, loadVars, Inv, CurrentInv
  <2> QED
    BY <2>1, <2>2 DEF Inv
<1>11. CASE Put
  <2>1. /\ entry' = [version |-> seq + 1, value |-> source + 1, flag |-> "valid"]
        /\ entry' \in Entry
    BY <1>11 DEF Put, Stored, Versioned, FirstLoads, Entry, Flags, Inv
  <2> QED
    BY <1>11, <2>1, WriteStep
       DEF Put, Change, loadVars, ValidIsCurrent, Inv, CurrentInv
<1>12. CASE Invalidate
  <2>1. /\ entry' = [version |-> seq + 1, value |-> entry.value, flag |-> "invalidated"]
        /\ entry' \in Entry
    BY <1>12 DEF Invalidate, Versioned, Entry, Flags, Inv
  <2> QED
    BY <1>12, <2>1, WriteStep
       DEF Invalidate, Change, loadVars, ValidIsCurrent, Inv, CurrentInv
<1>13. CASE Evict
  <2>1. \A q \in Requests : state[q] \notin Holders
    BY <1>13 DEF Evict, NoLock, Inv, CurrentInv, SingleResolution, Holding
  <2>2. entry' = [version |-> 0, value |-> 0, flag |-> "missing"] /\ entry' \in Entry
    BY <1>13 DEF Evict, NoEntry, Entry, Flags
  <2> QED
    BY <1>13, <2>1, <2>2, WriteStep
       DEF Evict, Change, loadVars, ValidIsCurrent, Inv, CurrentInv
<1>14. CASE SourceChanges
  BY <1>14 DEF SourceChanges, Change, loadVars, ValidIsCurrent, LoadIsCurrent, Inv, CurrentInv
<1>15. CASE UNCHANGED vars
  BY <1>15 DEF vars, storeVars, loadVars, ValidIsCurrent, LoadIsCurrent, Inv, CurrentInv
<1>16. ~Expire /\ \A r \in Requests : ~LockTimeout(r)
  BY DEF Expire, LockTimeout, FirstLoads
<1> QED
  BY <1>1, <1>2, <1>3, <1>4, <1>5, <1>6, <1>7, <1>7a, <1>8, <1>9, <1>10, <1>11, <1>12,
     <1>13, <1>14, <1>15, <1>16 DEF Next, Step

THEOREM CurrentInvariant == ASSUME FirstLoads PROVE Spec => []Inv
<1>1. Init => Inv
  BY CurrentInit, TypeInit
     DEF Inv, Init, LockInv, SingleResolution, WaitersHaveLock, Holding, Holders
<1>2. Inv /\ [Next]_vars => Inv'
  BY LockStep, CurrentStep DEF Inv
<1> QED
  BY <1>1, <1>2, PTL DEF Spec

\* No load puts back what it had read from the source before the last write or
\* invalidation of the record: the version compared in the commit function, the
\* conflict check of the store and the lock that evict respects see to it together.
THEOREM CacheIsCurrent == ASSUME FirstLoads PROVE Spec => []ValidIsCurrent
  BY CurrentInvariant, PTL DEF Inv, CurrentInv

\* No request is answered with a value older than the last write or invalidation
\* before it began, whether from the cache, from the source or after a wait, but one
\* that does not say mustRevalidate and finds the source unreachable.
THEOREM AnswersCurrent == ASSUME FirstLoads PROVE Spec => []AnswersAreCurrent
<1>1. Inv => AnswersAreCurrent
  BY DEF Inv, CurrentInv, AnswersAreCurrent
<1> QED
  BY <1>1, CurrentInvariant, PTL
=============================================================================
