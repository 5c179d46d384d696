-------------------------- MODULE RecordResolution --------------------------
(***************************************************************************)
(* How a record takes updates that arrive in another order than that of    *)
(* their timestamps: the commit functions of _writeUpdate and _writeDelete *)
(* in resources/Table.ts, with the walk over the record's entries in the   *)
(* transaction log and rebuildUpdateBefore of resources/crdt.ts, over      *)
(* RocksDB.                                                                *)
(*                                                                         *)
(* Updates arrive late from other nodes, from the subscription to a source *)
(* and from transactions of this node that committed in another order than *)
(* they began.  One record is modelled.  An update is named by its         *)
(* timestamp, which no other update has, so that two with the same one are *)
(* the same update twice.  A value set by an update and an amount added by *)
(* it tell which update it was.                                            *)
(***************************************************************************)
EXTENDS Integers, Sequences, FiniteSets, SequencesExt

CONSTANTS
    N,          \* the timestamps of the updates are 1..N
    Contents,   \* what an update may be: a set of [type, fields, node], where
                \* node is 0 for an update made here, and has its log
    Repeats     \* bound: updates that arrive again

Times  == 1..N
Fields == UNION {DOMAIN c.fields : c \in Contents}

ASSUME NAssumption      == N \in Nat
ASSUME NodeAssumption   == \A c \in Contents : c.node \in Nat
ASSUME RepeatAssumption == Repeats \in Nat

VARIABLES
    updates,    \* the updates that were made, by timestamp
    entry,      \* the record's entry in primaryStore
    log,        \* the record's entries in the transaction log, by timestamp
    received,   \* history: the updates that arrived
    late,       \* history: those of them that were older than the record
    ordered,    \* history: each of these was newer than those before it
    repeated    \* number of updates that arrived again

vars == <<updates, entry, log, received, late, ordered, repeated>>

NoFields == [f \in {} |-> 0]

\* getEntry of a record that is not there; a tombstone has no value either.
NoEntry == [version |-> 0, node |-> 0, exists |-> FALSE, fields |-> NoFields, refs |-> <<>>]

(***************************************************************************)
(* The content of an update: for each of its fields a value, or an amount  *)
(* to add ({ __op__: 'add', value }).                                      *)
(***************************************************************************)
ValueSet(t)    == 1000 * t
AmountAdded(t) == 4 ^ t

Ops(t) ==
    [f \in DOMAIN updates[t].fields |->
        [op    |-> updates[t].fields[f],
         value |-> IF updates[t].fields[f] = "add" THEN AmountAdded(t) ELSE ValueSet(t)]]

\* updateAndFreeze: changes applied to a record.  An amount is added to
\* nothing as if to 0.
UpdateAndFreeze(fields, changes) ==
    [f \in DOMAIN fields \cup DOMAIN changes |->
        IF f \notin DOMAIN changes THEN fields[f]
        ELSE IF changes[f].op = "add" /\ f \in DOMAIN fields
             THEN fields[f] + changes[f].value
             ELSE changes[f].value]

\* rebuildUpdateBefore: what is left of an update once a newer one is applied.
\* Mutant: what a newer update set does not replace the older one.
RebuildKeepingAll(update, newer, full) == update

\* Mutant: a newer amount replaces the older one.
RebuildDroppingAdds(update, newer, full) ==
    [f \in DOMAIN update \ DOMAIN newer |-> update[f]]

RebuildUpdateBefore(update, newer, full) ==
    [f \in {g \in DOMAIN update : g \in DOMAIN newer => newer[g].op = "add" \/ full} |->
        IF f \notin DOMAIN newer THEN update[f]
        ELSE IF newer[f].op = "set" THEN newer[f]
        ELSE IF update[f].op = "add" THEN update[f]
        ELSE [op |-> "set", value |-> update[f].value + newer[f].value]]
-----------------------------------------------------------------------------
(***************************************************************************)
(* The walk over the log, for an update of timestamp t.                    *)
(***************************************************************************)

\* The log entries one branch of the walk reads: from the entry at localTime
\* down to the first that is older than t, and the branches these refer to.
Branch(t) ==
    LET visited[localTime \in 0..N, auditedVersion \in 0..N] ==
            IF localTime \notin DOMAIN log \/ (localTime <= t /\ auditedVersion < t)
            THEN <<>>
            ELSE <<localTime>>
                 \o visited[log[localTime].previousVersion, localTime]
                 \o FoldLeft(LAMBDA seen, ref : seen \o visited[ref, ref],
                             <<>>, log[localTime].previousRefs)
    IN visited

\* All it reads, from the record's version and its references; some of it
\* several times.  The version is looked for in the log of the entry's node, or
\* in all logs if it has none; an entry that was written by a late update has
\* the node of that update.
Walked(t) ==
    FoldLeft(LAMBDA seen, ref : seen \o Branch(t)[ref, ref],
             IF entry.node \in {0, updates[entry.version].node}
             THEN Branch(t)[entry.version, entry.version] ELSE <<>>,
             entry.refs)

\* Mutants: any newer update supersedes; the update itself is not recognised.
SupersedesAlways(t, u) == u >= t
NoTies(t, u)           == u >= t /\ updates[u].type # "patch"

\* A log entry that ends the walk: a newer put or delete, which supersedes the
\* update, or the update itself.
Supersedes(t, u) ==
    \/ u >= t /\ updates[u].type # "patch"
    \/ u = t

\* The newer patches, in order of their timestamps.
Succeeding(t) == SortSeq(SelectSeq(Walked(t), LAMBDA u : u >= t), <)

\* The update as it has to be applied to a record that has the newer patches.
Rebuilt(t) ==
    FoldLeft(LAMBDA update, u : RebuildUpdateBefore(update, Ops(u), updates[t].type = "put"),
             Ops(t), Succeeding(t))

\* additionalAuditRefs: those that are not newer, and the update itself, if the
\* walk found anything.
AdditionalAuditRefs(t) ==
    SelectSeq(entry.refs, LAMBDA ref : ref <= t) \o (IF Walked(t) = <<>> THEN <<>> ELSE <<t>>)
-----------------------------------------------------------------------------
(***************************************************************************)
(* The commit functions.                                                   *)
(***************************************************************************)

\* Mutant: the log entry is not written.
Unlogged(t) == log' = log

\* recordUpdater adds a log entry; get finds the first with a timestamp.
Logged(t) ==
    log' = [u \in DOMAIN log \cup {t} |->
               IF u \in DOMAIN log THEN log[u]
               ELSE [previousVersion |-> entry.version, previousRefs |-> entry.refs]]

\* Mutant: an older update is taken for a newer one.
NeverPrecedes(t) == FALSE

\* The names of the nodes, which are ordered as their numbers are here, decide
\* when the record has the same timestamp; it may name another node.
PrecedesExistingVersion(t) ==
    \/ t < entry.version
    \/ t = entry.version /\ (entry.node = 0 \/ updates[t].node <= entry.node)

\* A put or patch that is newer than the record.
Update(t) ==
    /\ updates[t].type # "delete"
    /\ ~PrecedesExistingVersion(t)
    /\ entry' = [version |-> t, node |-> updates[t].node, exists |-> TRUE, refs |-> <<>>,
                 fields |-> UpdateAndFreeze(IF updates[t].type = "put" THEN NoFields
                                            ELSE entry.fields, Ops(t))]
    /\ Logged(t)

\* A put or patch that is superseded, or a duplicate.
Drop(t) ==
    /\ updates[t].type # "delete"
    /\ PrecedesExistingVersion(t)
    /\ \E i \in DOMAIN Walked(t) : Supersedes(t, Walked(t)[i])
    /\ UNCHANGED <<entry, log>>

\* A put or patch that arrives late is applied before the newer patches; a
\* patch of which nothing is left is only logged.  (A put keeps its primary key.)
Resequence(t) ==
    /\ updates[t].type # "delete"
    /\ PrecedesExistingVersion(t)
    /\ \A i \in DOMAIN Walked(t) : ~Supersedes(t, Walked(t)[i])
    /\ entry' = IF updates[t].type = "patch" /\ DOMAIN Rebuilt(t) = {} THEN entry
                ELSE [entry EXCEPT !.fields = UpdateAndFreeze(@, Rebuilt(t)),
                                   !.refs = AdditionalAuditRefs(t),
                                   !.node = updates[t].node]
    /\ Logged(t)

\* _writeDelete: an older one is dropped.
Delete(t) ==
    /\ updates[t].type = "delete"
    /\ ~PrecedesExistingVersion(t)
    /\ entry' = [NoEntry EXCEPT !.version = t, !.node = updates[t].node]
    /\ Logged(t)

DropDelete(t) ==
    /\ updates[t].type = "delete"
    /\ PrecedesExistingVersion(t)
    /\ UNCHANGED <<entry, log>>

Commit(t) == Update(t) \/ Drop(t) \/ Resequence(t) \/ Delete(t) \/ DropDelete(t)

\* An update arrives, for the first time or again.
Receive(t) ==
    /\ t \notin received
    /\ received' = received \cup {t}
    /\ late' = IF t <= entry.version THEN late \cup {t} ELSE late
    /\ ordered' = (ordered /\ \A u \in late : u < t)
    /\ Commit(t)
    /\ UNCHANGED <<updates, repeated>>

ReceiveAgain(t) ==
    /\ t \in received
    /\ repeated < Repeats
    /\ repeated' = repeated + 1
    /\ Commit(t)
    /\ UNCHANGED <<updates, received, late, ordered>>

Init ==
    /\ updates \in [Times -> Contents]
    /\ entry = NoEntry
    /\ log = [u \in {} |-> 0]
    /\ received = {}
    /\ late = {}
    /\ ordered = TRUE
    /\ repeated = 0

Next == \E t \in Times : Receive(t) \/ ReceiveAgain(t)

Spec == Init /\ [][Next]_vars
-----------------------------------------------------------------------------
(***************************************************************************)
(* Properties.                                                             *)
(***************************************************************************)

\* Every version and reference, of the record and in the log, is that of an
\* update in the log, so that no walk breaks off.
TypeOK ==
    /\ updates \in [Times -> Contents]
    /\ entry.version \in {0} \cup DOMAIN log
    /\ entry.node \in {0} \cup {updates[u].node : u \in received}
    /\ entry.exists \in BOOLEAN
    /\ \A f \in DOMAIN entry.fields : f \in Fields /\ entry.fields[f] \in Nat
    /\ Range(entry.refs) \subseteq DOMAIN log
    /\ DOMAIN log \subseteq received
    /\ \A u \in DOMAIN log :
          /\ log[u].previousVersion \in {0} \cup (DOMAIN log \ {u})
          /\ Range(log[u].previousRefs) \subseteq DOMAIN log \ {u}
    /\ received \subseteq Times /\ late \subseteq received
    /\ ordered \in BOOLEAN
    /\ repeated \in 0..Repeats

\* What the record would be, had a set of updates come in order.
Replay(S) ==
    FoldLeft(LAMBDA r, t :
                 CASE t \notin S                    -> r
                   [] updates[t].type = "delete"    -> [exists |-> FALSE, fields |-> NoFields]
                   [] updates[t].type = "put"       ->
                         [exists |-> TRUE, fields |-> UpdateAndFreeze(NoFields, Ops(t))]
                   [] OTHER                         ->
                         [exists |-> TRUE, fields |-> UpdateAndFreeze(r.fields, Ops(t))],
             [exists |-> FALSE, fields |-> NoFields],
             [t \in Times |-> t])

Record == [exists |-> entry.exists, fields |-> entry.fields]

\* The record does not depend on the order in which its updates arrived: it
\* is what it would be had they come in the order of their timestamps.
Converged == Record = Replay(received)

\* A patch, or a put that replaces every field there is.
Covers(t) ==
    \/ updates[t].type = "patch"
    \/ updates[t].type = "put" /\ DOMAIN updates[t].fields = Fields

\* Where the late updates come in the order of their timestamps, and are
\* patches or puts of all fields, the record is as if they had come in time.
\* So it is with two nodes that each send their updates in order.
InOrderConverges == ordered /\ (\A t \in late : Covers(t)) => Converged

\* Whatever arrived late, and however often the log was walked: what the newest
\* update says of the record stands.
NewestPrevails ==
    \A t \in received :
        (\A u \in received : u <= t) =>
            IF updates[t].type = "patch"
            THEN \A f \in DOMAIN Ops(t) :
                    Ops(t)[f].op = "set" => entry.exists /\ entry.fields[f] = Ops(t)[f].value
            ELSE Record = Replay({t})

\* A field that is only added to counts every update once, in whatever order
\* they came; also if some come again, where the late ones came in order.
CountersExact ==
    repeated = 0 \/ ordered =>
        \A f \in Fields :
            ( \A t \in received : /\ updates[t].type = "patch"
                                  /\ f \in DOMAIN Ops(t) => Ops(t)[f].op = "add" )
                => /\ f \in DOMAIN entry.fields <=> f \in DOMAIN Replay(received).fields
                   /\ f \in DOMAIN entry.fields => entry.fields[f] = Replay(received).fields[f]

\* The log, from which the updates are sent on and replayed, has all that
\* matters of what arrived, unless a delete came late.
LogSuffices ==
    (\A t \in late : updates[t].type # "delete") => Replay(DOMAIN log) = Replay(received)

\* Under the same condition, an update that arrives again changes nothing.
DuplicatesIgnored ==
    [][ \A t \in Times : (ordered /\ ReceiveAgain(t)) => UNCHANGED entry ]_vars
=============================================================================
