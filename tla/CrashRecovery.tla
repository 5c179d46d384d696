--------------------------- MODULE CrashRecovery ---------------------------
(***************************************************************************)
(* A crash and the replay of the transaction logs (replayLogs.ts), for the *)
(* record of RecordResolution.  Commits go to the logs, one for each node, *)
(* and to memory, which is flushed to the store from time to time.  After  *)
(* a crash the store is as it was flushed; the main thread reads all logs  *)
(* from where they were at the last flush, or before, merged by the time   *)
(* of their next entries, and commits every update again, without logging  *)
(* it.  No other commit runs meanwhile; another crash may happen.          *)
(*                                                                         *)
(* That the log outlives the process, and that the walk finds the entries  *)
(* that are being replayed, is what the code takes from RocksDB.           *)
(***************************************************************************)
EXTENDS RecordResolution, FiniteSetsExt

CONSTANTS
    MaxCrashes,
    Allowed     \* see Circumstances

\* What may happen besides: a transaction writes the record twice.
Circumstances == {"WriteTwice"}

ASSUME CrashAssumption == MaxCrashes \in Nat /\ Allowed \subseteq Circumstances

Nodes == {c.node : c \in Contents}

VARIABLES
    logs,       \* the entries of the transaction log of each node, in its order
    flushed,    \* the entry that was flushed last
    position,   \* where to start in each log: no entry before it is missing in flushed
    replay,     \* what is left of each log to replay
    lost,       \* history: the entry that the crash has lost, or NoEntry
    crashes

recovery == <<logs, flushed, position, replay, lost, crashes>>
allVars  == <<vars, recovery>>

Replaying == \E n \in Nodes : replay[n] # <<>>

\* The log of the node that an update comes from; every node's exists.
LogOf(t) == updates[t].node
-----------------------------------------------------------------------------
(***************************************************************************)
(* Before the crash.                                                       *)
(***************************************************************************)

RecoverInit ==
    /\ Init
    /\ logs = [n \in Nodes |-> <<>>]
    /\ flushed = NoEntry
    /\ position = [n \in Nodes |-> 0]
    /\ replay = [n \in Nodes |-> <<>>]
    /\ lost = NoEntry
    /\ crashes = 0

\* The commit function returned before it reached put() of the log.
Dropped(t) ==
    /\ PrecedesExistingVersion(t)
    /\ \/ updates[t].type = "delete"
       \/ \E i \in DOMAIN Walked(t) : Supersedes(t, Walked(t)[i])

\* Mutant: a late update is not logged.
PutNewer(t) ==
    logs' = IF PrecedesExistingVersion(t) THEN logs ELSE [logs EXCEPT ![LogOf(t)] = Append(@, t)]

Put(t) == logs' = IF Dropped(t) THEN logs ELSE [logs EXCEPT ![LogOf(t)] = Append(@, t)]

\* A patch that is written twice by one transaction, with one timestamp and an
\* entry each.  The walk of the second does not find the first, as it is not
\* committed yet.
MayWriteTwice(t) ==
    /\ "WriteTwice" \in Allowed
    /\ t \notin received
    /\ updates[t].type = "patch"
    /\ ~PrecedesExistingVersion(t)

WriteTwice(t) ==
    /\ received' = received \cup {t}
    /\ entry' = [version |-> t, node |-> updates[t].node, exists |-> TRUE, refs |-> <<>>,
                 fields |-> UpdateAndFreeze(UpdateAndFreeze(entry.fields, Ops(t)), Ops(t))]
    /\ Logged(t)
    /\ logs' = [logs EXCEPT ![LogOf(t)] = @ \o <<t, t>>]
    /\ UNCHANGED <<updates, late, ordered, repeated>>

\* An update is committed.
Receives ==
    /\ ~Replaying
    /\ \E t \in Times :
          IF MayWriteTwice(t) THEN WriteTwice(t)
          ELSE /\ Receive(t) \/ ReceiveAgain(t)
               /\ Put(t)
    /\ UNCHANGED <<flushed, position, replay, lost, crashes>>

\* Mutant: the position remembered is that of the end of the logs, although
\* the entry that is written is an older one.
FlushAhead ==
    /\ position' = [n \in Nodes |-> Len(logs[n])]
    /\ UNCHANGED <<vars, logs, flushed, replay, lost, crashes>>

\* Memory is written to the store.  The position may be earlier in any log; as
\* long as a replay goes on, it stays.
Flush ==
    /\ flushed' = entry
    /\ \E p \in [Nodes -> 0..(N + Repeats)] :
          /\ \A n \in Nodes : position[n] <= p[n] /\ p[n] <= Len(logs[n])
          /\ Replaying => p = position
          /\ position' = p
    /\ UNCHANGED <<vars, logs, replay, lost, crashes>>

\* The process ends, also while it replays.
Crash ==
    /\ crashes < MaxCrashes
    /\ crashes' = crashes + 1
    /\ lost' = IF Replaying THEN lost ELSE entry
    /\ entry' = flushed
    /\ replay' = [n \in Nodes |-> SubSeq(logs[n], position[n] + 1, Len(logs[n]))]
    /\ UNCHANGED <<updates, log, received, late, ordered, repeated, logs, flushed, position>>
-----------------------------------------------------------------------------
(***************************************************************************)
(* The replay.                                                             *)
(***************************************************************************)

\* getRange: the log whose next entry is the earliest.
Earliest(n) ==
    /\ replay[n] # <<>>
    /\ \A m \in Nodes : replay[m] # <<>> => Head(replay[n]) <= Head(replay[m])

\* The commit function once more, in a transaction that counts as a retry, so
\* that put() does not log.  (Commit leaves the log as it is: t is in it.)
ReplayNext ==
    /\ \E n \in Nodes :
          /\ Earliest(n)
          /\ Commit(Head(replay[n]))
          /\ replay' = [replay EXCEPT ![n] = Tail(@)]
    /\ UNCHANGED <<updates, received, late, ordered, repeated, logs, flushed, position, lost, crashes>>

RecoverNext == Receives \/ Flush \/ Crash \/ ReplayNext

RecoverSpec == RecoverInit /\ [][RecoverNext]_allVars
-----------------------------------------------------------------------------
(***************************************************************************)
(* Properties.                                                             *)
(***************************************************************************)

\* A late update is in the log of those that are newer: a walk that begins in
\* the log of another node misses some (DuplicatesIgnored of RecordResolution).
InOneLog == \A t \in late : \A u \in received : u > t => LogOf(u) = LogOf(t)

\* Where the late updates came in the order of their timestamps, the record is
\* after the replay what it was before the crash, wherever in the logs the
\* replay began, in whatever order it took them and however often it was tried.
Restored ==
    [][ ReplayNext /\ ~Replaying' /\ ordered /\ InOneLog /\ (\A t \in late : Covers(t)) =>
            /\ entry'.exists = lost.exists
            /\ entry'.fields = lost.fields ]_allVars

\* And in whatever order they came, the newest one stands.
NewestRestored == ~Replaying /\ InOneLog => NewestPrevails

\* After the replay an update that arrives again is still known, although the
\* references to it have been made anew.
StillKnown ==
    [][ \A t \in Times : ordered /\ InOneLog /\ ReceiveAgain(t) => UNCHANGED entry ]_vars
=============================================================================
