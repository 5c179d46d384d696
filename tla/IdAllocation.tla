---------------------------- MODULE IdAllocation ----------------------------
(***************************************************************************)
(* The numeric ids of new records (TableResource.getNewId): the threads    *)
(* count with one shared, atomic number, within a range of ids that is     *)
(* stored and that each thread extends when its own limit, maxSafeId,      *)
(* comes near; where another key is in the way a new range is taken.       *)
(*                                                                         *)
(* Over RocksDB the stored range has no version, so that the comparison in *)
(* createNewAllocation always finds it unchanged, every put is made, and   *)
(* transactionSync keeps no other thread from its own.                     *)
(*                                                                         *)
(* The numbers of type Int are 0x400, 0x3ff, 0x200 and 100 in the code and *)
(* constants here.                                                         *)
(***************************************************************************)
EXTENDS Integers, Sequences, FiniteSets, FiniteSetsExt

CONSTANTS
    Threads,
    MaxId,          \* the largest id of the type; no key is found above it
    Starts,         \* what Math.random may choose as the start of a range
    Others,         \* the keys that are chosen by clients or other nodes
    MaxIds,         \* bound on the ids given by this table
    MaxSaves,       \* bound on the records stored with them
    MaxRestarts,
    RangeSize,      \* 0x400
    Extension,      \* 0x3ff
    Ahead,          \* asyncIdExpansionThreshold
    Near,           \* 100
    SafeDistance,   \* the last value safeDistance took, when the table is not dense
    Excused         \* see Causes

(***************************************************************************)
(* What an id that is not new may come from:                               *)
(*   collide:  Math.random chose a start close to ids that were given      *)
(*   infringe: a client stored a key in a range that is taken, or is being *)
(*             taken                                                       *)
(*   together: a thread stored its first range over that of another        *)
(*   moved:    a new range was taken while others used the last one        *)
(*   behind:   the range was stored as it was before another thread did    *)
(*   overrun:  an id was taken that is not in the stored range, or is the  *)
(*             last of it                                                  *)
(***************************************************************************)
Causes == {"collide", "infringe", "together", "moved", "behind", "overrun"}

ASSUME IdAssumption ==
    /\ {MaxId, MaxIds, MaxSaves, MaxRestarts, SafeDistance} \subseteq Nat
    /\ {RangeSize, Extension, Ahead, Near} \subseteq Nat \ {0}
    /\ Near < Ahead /\ Ahead + Near <= Extension /\ Extension < RangeSize
    /\ RangeSize <= SafeDistance
    /\ Starts \subseteq 1 .. MaxId /\ Others \subseteq 1 .. MaxId
    /\ Excused \subseteq Causes

VARIABLES
    keys,           \* the keys of the records in the store
    allocation,     \* id_allocation; its end is 0 when there is none
    idIncrementer,  \* the shared buffer, 0 when no thread has registered it
    thread,         \* what each thread knows and is doing
    unsaved,        \* the ids that were taken and whose records are not stored yet
    given,          \* history: the ids taken since the start
    taken,          \* how many ids were taken
    restarts,
    causes          \* history: the Causes that there were

vars == <<keys, allocation, idIncrementer, thread, unsaved, given, taken, restarts, causes>>

\* maxSafeId: 0 when idIncrementer is undefined.  pending: the nextId of each
\* updateEnd in setImmediate.  nextId: that of the updateEnd under way, which is
\* returned after it if it is inTxn.
NewThread == [at |-> "idle", maxSafeId |-> 0, pending |-> <<>>, nextId |-> 0, inTxn |-> FALSE,
              newestId |-> 0, idAfter |-> 0, proposal |-> 0, start |-> 0]

\* What is left when getNewId, or an updateEnd in setImmediate, is done.
Idle(s) == [NewThread EXCEPT !.maxSafeId = s.maxSafeId, !.pending = s.pending]

\* getKeys with limit 1 from x upwards, and from x downwards.
KeyFrom(x, end) == Min({k \in keys : k >= x} \cup {end})
KeyBefore(x) == Max({k \in keys : k <= x} \cup {0})
LastKey(a) == Max({k \in keys : a.start <= k /\ k <= a.end} \cup {a.start})

InRange(a) == a.start .. a.end

If(happens, cause) == IF happens THEN {cause} ELSE {}

Init ==
    /\ keys = {}
    /\ allocation = [start |-> 0, end |-> 0]
    /\ idIncrementer = 0
    /\ thread = [t \in Threads |-> NewThread]
    /\ unsaved = {} /\ given = {} /\ taken = 0
    /\ restarts = 0
    /\ causes = {}

-----------------------------------------------------------------------------
\* The first getNewId of a thread reads the stored allocation.
LoadAllocation(t) ==
    /\ thread[t].at = "idle" /\ thread[t].maxSafeId = 0
    /\ taken < MaxIds
    /\ thread' = [thread EXCEPT ![t] =
          IF allocation.end = 0
          THEN [@ EXCEPT !.at = "create"]
          ELSE [@ EXCEPT !.at = "register", !.proposal = LastKey(allocation) + 1,
                         !.maxSafeId = allocation.end]]
    /\ UNCHANGED <<keys, allocation, idIncrementer, unsaved, given, taken, restarts, causes>>

\* The loop of createNewAllocation ends with a start that has a gap around it.
Gap(s) ==
    LET idBefore == KeyBefore(s)
    IN /\ SafeDistance < KeyFrom(s + 1, MaxId) - s
       /\ SafeDistance < s - idBefore \/ idBefore = 0

\* A range from s and one around x may meet.
Close(s, x) == s - x <= RangeSize + MaxIds /\ x - s <= RangeSize + MaxIds

Collides(s) ==
    \/ \E x \in given \cup {idIncrementer} : x > 0 /\ Close(s, x)
    \/ \E t \in Threads : thread[t].proposal > 0 /\ Close(s, thread[t].proposal)

CreateAllocation(t) ==
    /\ thread[t].at = "create"
    /\ \E s \in Starts :
          /\ Gap(s)
          /\ thread' = [thread EXCEPT ![t].at = "store", ![t].proposal = s]
          /\ causes' = causes \cup If(Collides(s), "collide")
    /\ UNCHANGED <<keys, allocation, idIncrementer, unsaved, given, taken, restarts>>

\* The transaction of createNewAllocation, of a first getNewId or an updateEnd.
StoreAllocation(t) ==
    LET s == thread[t].proposal
        first == thread[t].nextId = 0
    IN /\ thread[t].at = "store"
       /\ allocation' = [start |-> s, end |-> s + RangeSize]
       /\ thread' = [thread EXCEPT ![t] =
            IF first THEN [@ EXCEPT !.at = "register", !.proposal = s + 1, !.maxSafeId = s + RangeSize]
            ELSE [@ EXCEPT !.at = "move"]]
       /\ causes' = causes
            \cup If(first /\ allocation.end # 0, "together")
            \cup If(~first /\ \E u \in Threads \ {t} : thread[u].maxSafeId > 0, "moved")
       /\ UNCHANGED <<keys, idIncrementer, unsaved, given, taken, restarts>>

\* A mutant of Register: each thread's proposal counts.
RegisterAgain(t) ==
    /\ thread[t].at = "register"
    /\ idIncrementer' = thread[t].proposal
    /\ thread' = [thread EXCEPT ![t].at = "take", ![t].proposal = 0]
    /\ UNCHANGED <<keys, allocation, unsaved, given, taken, restarts, causes>>

\* getUserSharedBuffer: the first thread's proposal is the one that counts.
Register(t) ==
    /\ thread[t].at = "register"
    /\ idIncrementer' = IF idIncrementer = 0 THEN thread[t].proposal ELSE idIncrementer
    /\ thread' = [thread EXCEPT ![t].at = "take", ![t].proposal = 0]
    /\ UNCHANGED <<keys, allocation, unsaved, given, taken, restarts, causes>>

\* Between the put of a new range and the store of its start in the shared number.
Moving == \E t \in Threads : thread[t].at = "move"

\* Atomics.add, and what nextId requires before it is returned.
Take(t) ==
    LET nextId == idIncrementer
        s == thread[t]
    IN /\ s.at = "take" \/ (s.at = "idle" /\ s.maxSafeId > 0)
       /\ taken < MaxIds
       /\ taken' = taken + 1
       /\ idIncrementer' = nextId + 1
       /\ given' = given \cup {nextId}
       /\ unsaved' = unsaved \cup {nextId}
       /\ thread' = [thread EXCEPT ![t] =
            IF nextId + Ahead = s.maxSafeId
            THEN [s EXCEPT !.at = "idle", !.pending = Append(@, nextId)]
            ELSE IF nextId + Near >= s.maxSafeId
            THEN [s EXCEPT !.at = "sync", !.nextId = nextId, !.inTxn = TRUE]
            ELSE [s EXCEPT !.at = "idle"]]
       /\ causes' = causes \cup If(Moving, "moved")
                           \cup If(~({nextId, nextId + 1} \subseteq InRange(allocation)), "overrun")
       /\ UNCHANGED <<keys, allocation, restarts>>

\* updateEnd in transactionSync, up to the search for a key in the way, which has
\* no snapshot.
SyncUpdate(t) ==
    /\ thread[t].at = "sync"
    /\ thread' = [thread EXCEPT ![t] =
          [@ EXCEPT !.at = "search", !.maxSafeId = thread[t].nextId + Extension,
                    !.newestId = idIncrementer]]
    /\ UNCHANGED <<keys, allocation, idIncrementer, unsaved, given, taken, restarts, causes>>

SyncSearch(t) ==
    /\ thread[t].at = "search"
    /\ thread' = [thread EXCEPT ![t].at = "read",
                                ![t].idAfter = KeyFrom(thread[t].newestId + 1, MaxId)]
    /\ UNCHANGED <<keys, allocation, idIncrementer, unsaved, given, taken, restarts, causes>>

\* updateEnd in setImmediate, which searches a snapshot from before it knew newestId.
AsyncUpdate(t) ==
    LET s == thread[t]
        nextId == Head(s.pending)
    IN /\ s.at = "idle" /\ s.pending # <<>>
       /\ thread' = [thread EXCEPT ![t] =
            [s EXCEPT !.at = "read", !.nextId = nextId, !.pending = Tail(s.pending),
                      !.maxSafeId = nextId + Extension, !.newestId = idIncrementer,
                      !.idAfter = KeyFrom(idIncrementer + 1, MaxId)]]
       /\ UNCHANGED <<keys, allocation, idIncrementer, unsaved, given, taken, restarts, causes>>

\* A mutant of Extended: without the reserve.
ExtendedRarely(s) == allocation.end > s.maxSafeId - Ahead - Near

\* Another thread has extended the range, but for the reserve.
Extended(s) == allocation.end > s.maxSafeId - Near

\* The rest of updateEnd: a new range, nothing, or the put of the new end.
ReadAllocation(t) ==
    LET s == thread[t]
    IN /\ s.at = "read"
       /\ thread' = [thread EXCEPT ![t] =
            IF s.maxSafeId >= s.idAfter THEN [s EXCEPT !.at = "create"]
            ELSE IF Extended(s) THEN Idle(s)
            ELSE [s EXCEPT !.at = "put", !.start = allocation.start]]
       /\ UNCHANGED <<keys, allocation, idIncrementer, unsaved, given, taken, restarts, causes>>

PutEnd(t) ==
    LET s == thread[t]
    IN /\ s.at = "put"
       /\ allocation' = [start |-> s.start, end |-> s.maxSafeId]
       /\ thread' = [thread EXCEPT ![t] = Idle(s)]
       /\ causes' = causes \cup If(allocation.start # s.start \/ allocation.end > s.maxSafeId,
                                   "behind")
       /\ UNCHANGED <<keys, idIncrementer, unsaved, given, taken, restarts>>

\* The shared number is moved to the new range.
MoveCounter(t) ==
    LET s == thread[t]
    IN /\ s.at = "move"
       /\ idIncrementer' = s.proposal + 1
       /\ thread' = [thread EXCEPT ![t] = [Idle(s) EXCEPT !.maxSafeId = s.proposal + RangeSize]]
       /\ UNCHANGED <<keys, allocation, unsaved, given, taken, restarts, causes>>

-----------------------------------------------------------------------------
\* The record of an id that was returned is committed.
Save(x) ==
    /\ x \in unsaved
    /\ \A t \in Threads : ~(thread[t].inTxn /\ thread[t].nextId = x)
    /\ Cardinality(keys \ Others) < MaxSaves
    /\ keys' = keys \cup {x}
    /\ unsaved' = unsaved \ {x}
    /\ UNCHANGED <<allocation, idIncrementer, thread, given, taken, restarts, causes>>

\* The stored range, the ids in use, and the ranges that are being taken.
Claimed ==
    InRange(allocation) \cup unsaved
    \cup UNION {IF thread[t].at = "store"
                THEN thread[t].proposal .. (thread[t].proposal + RangeSize)
                ELSE IF thread[t].at \in {"read", "put"}
                THEN thread[t].newestId .. thread[t].maxSafeId
                ELSE {} : t \in Threads}

\* A record is stored under a key that a client or another node has chosen.
Insert(k) ==
    /\ k \in Others \ keys
    /\ keys' = keys \cup {k}
    /\ causes' = causes \cup If(k \in Claimed, "infringe")
    /\ UNCHANGED <<allocation, idIncrementer, thread, unsaved, given, taken, restarts>>

\* The process ends and starts again, with the records that were committed.
Restart ==
    /\ restarts < MaxRestarts
    /\ restarts' = restarts + 1
    /\ idIncrementer' = 0
    /\ thread' = [t \in Threads |-> NewThread]
    /\ unsaved' = {} /\ given' = {}
    /\ UNCHANGED <<keys, allocation, taken, causes>>

Next ==
    \/ \E t \in Threads : \/ LoadAllocation(t) \/ CreateAllocation(t) \/ StoreAllocation(t)
                          \/ Register(t) \/ Take(t) \/ SyncUpdate(t) \/ SyncSearch(t)
                          \/ AsyncUpdate(t) \/ ReadAllocation(t) \/ PutEnd(t) \/ MoveCounter(t)
    \/ \E x \in unsaved : Save(x)
    \/ \E k \in Others : Insert(k)
    \/ Restart

Spec == Init /\ [][Next]_vars

-----------------------------------------------------------------------------
\* While the server runs the threads never take an id twice, whatever ranges they
\* store over each other's and wherever the shared number is moved, unless a new
\* start collides.
GivenOnce ==
    "collide" \notin causes /\ idIncrementer > 0 => idIncrementer \notin given

\* No record has the id that is taken for a new one, restarts included, unless one
\* of the causes in Excused has come about.
IdsAreNew ==
    causes \cap Excused = {} => unsaved \cap keys = {}
=============================================================================
