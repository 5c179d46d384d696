------------------------ MODULE SecondaryIndexProofs ------------------------
(***************************************************************************)
(* Proofs about SecondaryIndex, for any number of threads, records,        *)
(* values, transactions, writes and restarts: types, and that an index     *)
(* that is ready is exact, but for the entries that the Causes touched.    *)
(***************************************************************************)
EXTENDS SecondaryIndex, SequenceTheorems, WellFoundedInduction, TLAPS

\* An entry of the index, and a transaction.
Pair == Values \X Keys

Txn == [timestamp : 0..MaxTime, writes : Seq(Writes),
        staged : UNION {[D -> Records] : D \in SUBSET Keys},
        based : UNION {[D -> 0..MaxTime] : D \in SUBSET Keys},
        adds : SUBSET Pair, removes : SUBSET Pair, unaware : SUBSET Keys, deleted : SUBSET Pair]

\* A transaction, with the index and what is astray, while writes are saved.
Saving == {x \in [txn : Txn, index : SUBSET Pair, astray : SUBSET Pair] :
              /\ DOMAIN x.txn.staged = DOMAIN x.txn.based /\ x.txn.adds \cap x.txn.removes = {}
              /\ x.txn.unaware \subseteq DOMAIN x.txn.staged}

\* The types, and that the scan puts the values of a key there is.
TypeInv ==
    /\ store \in [Keys -> Records]
    /\ index \subseteq Pair /\ astray \subseteq Pair
    /\ txn \in [Threads -> Txn]
    /\ \A t \in Threads : /\ DOMAIN txn[t].staged = DOMAIN txn[t].based
                          /\ txn[t].adds \cap txn[t].removes = {}
                          /\ txn[t].unaware \subseteq DOMAIN txn[t].staged
    /\ known \subseteq Threads
    /\ descriptor \in [state : {"none", "building", "ready"}, lastIndexedKey : 0..LastKey,
                      mine : BOOLEAN]
    /\ isIndexing \in BOOLEAN
    /\ indexer \in [at : {"none", "signal", "scan", "put", "done"}, cursor : 1..LastKey + 1,
                    pending : SUBSET Pair]
    /\ indexer.at = "put" => indexer.cursor <= LastKey
    /\ time \in 0..MaxTime

\* Timestamps are given once: an open transaction has none that a record has, or had
\* when a transaction wrote over it.
TimeInv ==
    /\ \A k \in Keys : store[k].version <= time
    /\ \A k \in Keys : store[k].version = 0 => store[k].values = {}
    /\ \A t \in Threads :
          /\ txn[t].timestamp <= time
          /\ \A k \in DOMAIN txn[t].based : txn[t].based[k] <= time
          /\ Open(t) => /\ \A k \in Keys : store[k].version # txn[t].timestamp
                        /\ \A u \in Threads \ {t} : txn[u].timestamp # txn[t].timestamp
                        /\ \A u \in Threads : \A k \in DOMAIN txn[u].based :
                              txn[u].based[k] # txn[t].timestamp

\* What transaction x does to the index is what takes key k from the values old to
\* those it writes, but for the entries that it removed at once, and those it did not
\* know of.
Moves(x, k, old) ==
    \A v \in Values :
        \/ <<v, k>> \in x.deleted
        \/ k \in x.unaware /\ ~(v \in old <=> v \in x.staged[k].values)
        \/ /\ <<v, k>> \in x.adds => v \in x.staged[k].values
           /\ v \in x.staged[k].values /\ v \notin old => <<v, k>> \in x.adds
           /\ <<v, k>> \in x.removes => v \notin x.staged[k].values
           /\ v \in old /\ v \notin x.staged[k].values => <<v, k>> \in x.removes

\* The values of k when it had that version.
Had(k, version, old) ==
    \/ version = store[k].version /\ old = store[k].values
    \/ version = 0 /\ old = {}

\* A transaction touches only the entries of the keys it wrote, and what it does to
\* them is right for as long as nobody else has written those records.
TxnInv(t) ==
    /\ ~Open(t) => txn[t].writes = <<>>
    /\ txn[t].writes = <<>> => DOMAIN txn[t].staged = {}
    /\ \A p \in txn[t].adds \cup txn[t].removes : p[2] \in DOMAIN txn[t].staged
    /\ t \notin known => txn[t].adds = {} /\ txn[t].removes = {}
    /\ \A k \in DOMAIN txn[t].staged : txn[t].staged[k].version = txn[t].timestamp
    /\ \A k \in DOMAIN txn[t].staged, old \in SUBSET Values :
          Had(k, txn[t].based[k], old) => Moves(txn[t], k, old)

\* No entry without the value, and all values of k have one.
NoneStale == \A p \in index \ astray : p[1] \in store[p[2]].values
Complete(k) == Pairs(k, store[k].values) \subseteq index \cup astray

\* No entry is stale; those of the keys that the scan has passed, or that a later scan
\* will not come to again, are all there.
PhaseInv ==
    /\ descriptor.state = "none" => known = {} /\ index = {} /\ indexer.at = "none"
    /\ descriptor.lastIndexedKey # 0 => descriptor.state = "building"
    /\ indexer.at \in {"signal", "scan", "put"} => descriptor.state = "building"
    /\ NoneStale
    /\ descriptor.state = "ready" => \A k \in Keys : Complete(k)
    /\ \A k \in 1..descriptor.lastIndexedKey : Complete(k)
    /\ indexer.at \in {"scan", "put"} => \A k \in 1..(indexer.cursor - 1) : Complete(k)
    /\ indexer.at = "put" => Pairs(indexer.cursor, store[indexer.cursor].values)
                             \subseteq index \cup indexer.pending \cup astray

IndexInv ==
    /\ TypeInv /\ TimeInv /\ PhaseInv
    /\ \A t \in Threads : TxnInv(t)

-----------------------------------------------------------------------------
LEMMA Constants ==
  /\ Main \in Threads
  /\ LastKey \in Nat /\ MaxTime \in Nat /\ MaxWrites \in Nat /\ MaxRestarts \in Nat
  /\ \A k \in Keys : k \in Nat /\ k >= 1 /\ k <= LastKey
  /\ Absent \in Records /\ Absent.values = {} /\ Absent.version = 0
<1>1. Main \in Threads /\ LastKey \in Nat /\ MaxTime \in Nat /\ MaxWrites \in Nat /\ MaxRestarts \in Nat
  BY IndexAssumption
<1> QED
  BY <1>1 DEF Keys, Absent, Records

\* A function on some of the keys.
LEMMA OnKeys ==
  ASSUME NEW R, NEW f
  PROVE  f \in UNION {[D -> R] : D \in SUBSET Keys} <=> DOMAIN f \subseteq Keys /\ f \in [DOMAIN f -> R]
  OBVIOUS

LEMMA SavingFields ==
  ASSUME NEW x \in Saving
  PROVE  /\ x.index \subseteq Pair /\ x.astray \subseteq Pair /\ x.txn \in Txn
         /\ x.txn.unaware \subseteq DOMAIN x.txn.staged /\ x.txn.deleted \subseteq Pair
         /\ x.txn.timestamp \in 0 .. MaxTime /\ x.txn.writes \in Seq(Writes)
         /\ DOMAIN x.txn.staged \subseteq Keys /\ x.txn.staged \in [DOMAIN x.txn.staged -> Records]
         /\ DOMAIN x.txn.based = DOMAIN x.txn.staged /\ x.txn.based \in [DOMAIN x.txn.staged -> 0 .. MaxTime]
         /\ x.txn.adds \subseteq Pair /\ x.txn.removes \subseteq Pair /\ x.txn.adds \cap x.txn.removes = {}
<1>1. /\ x \in [txn : Txn, index : SUBSET Pair, astray : SUBSET Pair]
      /\ DOMAIN x.txn.staged = DOMAIN x.txn.based /\ x.txn.adds \cap x.txn.removes = {}
      /\ x.txn.unaware \subseteq DOMAIN x.txn.staged
  BY DEF Saving
<1>2. x.txn \in Txn /\ x.index \subseteq Pair /\ x.astray \subseteq Pair
  BY <1>1
<1>3. /\ x.txn.timestamp \in 0 .. MaxTime /\ x.txn.writes \in Seq(Writes)
      /\ x.txn.staged \in UNION {[D -> Records] : D \in SUBSET Keys}
      /\ x.txn.based \in UNION {[D -> 0 .. MaxTime] : D \in SUBSET Keys}
      /\ x.txn.adds \in SUBSET Pair /\ x.txn.removes \in SUBSET Pair /\ x.txn.deleted \in SUBSET Pair
  BY <1>2 DEF Txn
<1> QED
  BY <1>1, <1>2, <1>3, OnKeys

\* The pairs of one key.
LEMMA PairsOf ==
  ASSUME NEW k \in Keys, NEW values \in SUBSET Values
  PROVE  /\ Pairs(k, values) \subseteq Pair
         /\ \A v \in Values, j \in Keys : <<v, j>> \in Pairs(k, values) <=> v \in values /\ j = k
  BY DEF Pairs, Pair

\* u is x, with the pairs of k moved from the values old to those in new.
Updated(u, x, k, old, new) ==
  /\ u \in Saving /\ u.index = x.index /\ u.astray = x.astray
  /\ u.txn.timestamp = x.txn.timestamp /\ u.txn.writes = x.txn.writes
  /\ u.txn.staged = x.txn.staged /\ u.txn.based = x.txn.based
  /\ u.txn.unaware = x.txn.unaware /\ u.txn.deleted = x.txn.deleted
  /\ u.txn.adds = (x.txn.adds \ Pairs(k, old \ new)) \cup Pairs(k, new \ old)
  /\ u.txn.removes = (x.txn.removes \ Pairs(k, new \ old)) \cup Pairs(k, old \ new)

LEMMA UpdateIndicesIs ==
  ASSUME NEW x \in Saving, NEW k \in Keys, NEW old \in SUBSET Values, NEW new \in SUBSET Values
  PROVE  Updated(UpdateIndices(x, k, old, new), x, k, old, new)
<1> DEFINE u == UpdateIndices(x, k, old, new)
<1> DEFINE S == UNION {[D -> Records] : D \in SUBSET Keys}
           B == UNION {[D -> 0 .. MaxTime] : D \in SUBSET Keys}
<1>1. x \in [txn : [timestamp : 0 .. MaxTime, writes : Seq(Writes), staged : S, based : B,
                    adds : SUBSET Pair, removes : SUBSET Pair, unaware : SUBSET Keys,
                    deleted : SUBSET Pair], index : SUBSET Pair, astray : SUBSET Pair]
  BY DEF Saving, Txn
<1>2. Pairs(k, old \ new) \subseteq Pair /\ Pairs(k, new \ old) \subseteq Pair
  BY PairsOf
<1> HIDE DEF S, B
<1>3. /\ u \in [txn : [timestamp : 0 .. MaxTime, writes : Seq(Writes), staged : S, based : B,
                       adds : SUBSET Pair, removes : SUBSET Pair, unaware : SUBSET Keys,
                    deleted : SUBSET Pair], index : SUBSET Pair, astray : SUBSET Pair]
      /\ u.index = x.index /\ u.astray = x.astray
      /\ u.txn.timestamp = x.txn.timestamp /\ u.txn.writes = x.txn.writes
      /\ u.txn.staged = x.txn.staged /\ u.txn.based = x.txn.based
      /\ u.txn.unaware = x.txn.unaware /\ u.txn.deleted = x.txn.deleted
      /\ u.txn.adds = (x.txn.adds \ Pairs(k, old \ new)) \cup Pairs(k, new \ old)
      /\ u.txn.removes = (x.txn.removes \ Pairs(k, new \ old)) \cup Pairs(k, old \ new)
  BY <1>1, <1>2 DEF UpdateIndices
<1>4. u.txn.adds \cap u.txn.removes = {}
  <2>1. Pairs(k, old \ new) \cap Pairs(k, new \ old) = {}
    BY DEF Pairs
  <2>2. x.txn.adds \cap x.txn.removes = {}
    BY SavingFields
  <2> QED
    BY <2>1, <2>2, <1>3
<1>5. DOMAIN u.txn.staged = DOMAIN u.txn.based /\ u.txn.unaware \subseteq DOMAIN u.txn.staged
  BY <1>3, SavingFields
<1>6. u \in [txn : Txn, index : SUBSET Pair, astray : SUBSET Pair]
  BY <1>3 DEF S, B, Txn
<1>7. u \in Saving
  BY <1>4, <1>5, <1>6 DEF Saving
<1> QED
  BY <1>3, <1>7 DEF Updated

\* u is x, with the record staged for k, indexed if b.
Staged(u, x, k, record, b) ==
  /\ u \in Saving
  /\ u.txn.unaware = IF b THEN x.txn.unaware ELSE x.txn.unaware \cup {k}
  /\ u.txn.timestamp = x.txn.timestamp /\ u.txn.writes = x.txn.writes
  /\ DOMAIN u.txn.staged = DOMAIN x.txn.staged \cup {k}
  /\ DOMAIN u.txn.based = DOMAIN x.txn.staged \cup {k}
  /\ u.txn.staged[k] = record
  /\ \A j \in DOMAIN x.txn.staged : j # k => u.txn.staged[j] = x.txn.staged[j]
  /\ \A j \in DOMAIN x.txn.staged : u.txn.based[j] = x.txn.based[j]
  /\ k \notin DOMAIN x.txn.staged => u.txn.based[k] = store[k].version

LEMMA StageIs ==
  ASSUME store \in [Keys -> Records], NEW x \in Saving, NEW k \in Keys, NEW record \in Records,
         NEW b \in BOOLEAN
  PROVE  LET u == Stage(x, k, record, b)
         IN /\ Staged(u, x, k, record, b)
            /\ u.index = x.index /\ u.astray = x.astray /\ u.txn.deleted = x.txn.deleted
            /\ u.txn.adds = x.txn.adds /\ u.txn.removes = x.txn.removes
<1> DEFINE u == Stage(x, k, record, b)
           unaware == IF b THEN x.txn.unaware ELSE x.txn.unaware \cup {k}
<1> DEFINE S == UNION {[D -> Records] : D \in SUBSET Keys}
           B == UNION {[D -> 0 .. MaxTime] : D \in SUBSET Keys}
           staged == [j \in DOMAIN x.txn.staged \cup {k} |->
                        IF j = k THEN record ELSE x.txn.staged[j]]
           based == [j \in DOMAIN x.txn.based \cup {k} |->
                       IF j \in DOMAIN x.txn.based THEN x.txn.based[j] ELSE store[k].version]
<1>1. x \in [txn : [timestamp : 0 .. MaxTime, writes : Seq(Writes), staged : S, based : B,
                    adds : SUBSET Pair, removes : SUBSET Pair, unaware : SUBSET Keys,
                    deleted : SUBSET Pair], index : SUBSET Pair, astray : SUBSET Pair]
  BY DEF Saving, Txn
<1>2. /\ DOMAIN x.txn.staged \subseteq Keys /\ x.txn.staged \in [DOMAIN x.txn.staged -> Records]
      /\ DOMAIN x.txn.based = DOMAIN x.txn.staged /\ x.txn.based \in [DOMAIN x.txn.staged -> 0 .. MaxTime]
  BY SavingFields
<1>3. store[k].version \in 0 .. MaxTime
  BY DEF Records
<1>4. DOMAIN staged \subseteq Keys /\ staged \in [DOMAIN staged -> Records]
  BY <1>2
<1>5. DOMAIN based \subseteq Keys /\ based \in [DOMAIN based -> 0 .. MaxTime]
  BY <1>2, <1>3
<1>6. staged \in S /\ based \in B /\ unaware \in SUBSET Keys
  <2>1. unaware \in SUBSET Keys
    BY <1>2, SavingFields
  <2> HIDE DEF staged, based
  <2> QED
    BY <1>4, <1>5, <2>1
<1>7. /\ DOMAIN staged = DOMAIN x.txn.staged \cup {k} /\ DOMAIN based = DOMAIN x.txn.staged \cup {k}
      /\ staged[k] = record
      /\ \A j \in DOMAIN x.txn.staged : j # k => staged[j] = x.txn.staged[j]
      /\ \A j \in DOMAIN x.txn.staged : based[j] = x.txn.based[j]
      /\ k \notin DOMAIN x.txn.staged => based[k] = store[k].version
  BY <1>2
<1> HIDE DEF S, B
<1>8. /\ u \in [txn : [timestamp : 0 .. MaxTime, writes : Seq(Writes), staged : S, based : B,
                       adds : SUBSET Pair, removes : SUBSET Pair, unaware : SUBSET Keys,
                    deleted : SUBSET Pair], index : SUBSET Pair, astray : SUBSET Pair]
      /\ u.index = x.index /\ u.astray = x.astray
      /\ u.txn.timestamp = x.txn.timestamp /\ u.txn.writes = x.txn.writes
      /\ u.txn.adds = x.txn.adds /\ u.txn.removes = x.txn.removes
      /\ u.txn.staged = staged /\ u.txn.based = based
      /\ u.txn.unaware = unaware /\ u.txn.deleted = x.txn.deleted
  <2>1. u = [x EXCEPT !.txn.staged = staged, !.txn.based = based, !.txn.unaware = unaware]
    BY DEF Stage
  <2> HIDE DEF staged, based, unaware
  <2>2. u \in [txn : [timestamp : 0 .. MaxTime, writes : Seq(Writes), staged : S, based : B,
                      adds : SUBSET Pair, removes : SUBSET Pair, unaware : SUBSET Keys,
                    deleted : SUBSET Pair], index : SUBSET Pair, astray : SUBSET Pair]
    <3> DEFINE R == [timestamp : 0 .. MaxTime, writes : Seq(Writes), staged : S, based : B,
                     adds : SUBSET Pair, removes : SUBSET Pair, unaware : SUBSET Keys,
                     deleted : SUBSET Pair]
               y == [x.txn EXCEPT !.staged = staged, !.based = based, !.unaware = unaware]
    <3>1. x.txn \in R /\ x \in [txn : R, index : SUBSET Pair, astray : SUBSET Pair]
      BY ONLY <1>1
    <3>2. y \in R
      BY ONLY <3>1, <1>6, ZenonT(60)
    <3>3. u = [x EXCEPT !.txn = y]
      BY ONLY <3>1, <2>1, ZenonT(60)
    <3> HIDE DEF R, y
    <3>4. u \in [txn : R, index : SUBSET Pair, astray : SUBSET Pair]
      BY ONLY <3>1, <3>2, <3>3
    <3> QED
      BY ONLY <3>4 DEF R
  <2>3. u.index = x.index /\ u.astray = x.astray
    BY ONLY <1>1, <2>1, ZenonT(60)
  <2>4. u.txn.timestamp = x.txn.timestamp /\ u.txn.writes = x.txn.writes
    BY ONLY <1>1, <2>1, ZenonT(60)
  <2>5. u.txn.adds = x.txn.adds /\ u.txn.removes = x.txn.removes
    BY ONLY <1>1, <2>1, ZenonT(60)
  <2>6. u.txn.staged = staged /\ u.txn.based = based
    <3>1. u.txn.staged = staged
      BY ONLY <1>1, <2>1, ZenonT(60)
    <3>2. u.txn.based = based
      BY ONLY <1>1, <2>1, ZenonT(60)
    <3> QED
      BY ONLY <3>1, <3>2
  <2>7. u.txn.unaware = unaware
    BY ONLY <1>1, <2>1, ZenonT(60)
  <2>8. u.txn.deleted = x.txn.deleted
    BY ONLY <1>1, <2>1, ZenonT(60)
  <2> QED
    BY ONLY <2>2, <2>3, <2>4, <2>5, <2>6, <2>7, <2>8
<1> HIDE DEF staged, based
<1>9. /\ DOMAIN u.txn.staged = DOMAIN u.txn.based /\ u.txn.adds \cap u.txn.removes = {}
      /\ u.txn.unaware \subseteq DOMAIN u.txn.staged
  BY <1>7, <1>8, SavingFields
<1>10. u \in [txn : Txn, index : SUBSET Pair, astray : SUBSET Pair]
  BY <1>8 DEF S, B, Txn
<1>11. u \in Saving
  BY <1>9, <1>10 DEF Saving
<1> QED
  BY <1>7, <1>8, <1>11 DEF Staged

LEMMA GetEntryIs ==
  ASSUME store \in [Keys -> Records], NEW x \in Saving, NEW k \in Keys
  PROVE  GetEntry(x, k) \in Records /\ GetEntry(x, k).values \in SUBSET Values
<1>1. GetEntry(x, k) \in Records
  BY SavingFields DEF GetEntry
<1> QED
  BY <1>1 DEF Records

\* What a put does that is not older than the record.
Put(u, x, w, b) ==
  LET old == GetEntry(x, w.key).values
  IN /\ ~(x.txn.timestamp < GetEntry(x, w.key).version)
     /\ Staged(u, x, w.key, [exists |-> TRUE, values |-> w.values, version |-> x.txn.timestamp], b)
     /\ u.index = x.index /\ u.astray = x.astray /\ u.txn.deleted = x.txn.deleted
     /\ IF b THEN /\ u.txn.adds = (x.txn.adds \ Pairs(w.key, old \ w.values))
                                  \cup Pairs(w.key, w.values \ old)
                  /\ u.txn.removes = (x.txn.removes \ Pairs(w.key, w.values \ old))
                                     \cup Pairs(w.key, old \ w.values)
        ELSE u.txn.adds = x.txn.adds /\ u.txn.removes = x.txn.removes

LEMMA WriteUpdateIs ==
  ASSUME store \in [Keys -> Records], NEW x \in Saving, NEW w, w.key \in Keys,
         w.values \in SUBSET Values, NEW b \in BOOLEAN
  PROVE  WriteUpdate(x, w, b) = x \/ Put(WriteUpdate(x, w, b), x, w, b)
<1> DEFINE u == WriteUpdate(x, w, b)
           existing == GetEntry(x, w.key)
           old == existing.values
           updated == IF b THEN UpdateIndices(x, w.key, old, w.values) ELSE x
           record == [exists |-> TRUE, values |-> w.values, version |-> x.txn.timestamp]
<1>1. old \in SUBSET Values
  BY GetEntryIs
<1>2. record \in Records
  BY SavingFields DEF Records
<1>3. /\ updated \in Saving /\ updated.index = x.index /\ updated.astray = x.astray
      /\ updated.txn.unaware = x.txn.unaware /\ updated.txn.deleted = x.txn.deleted
      /\ updated.txn.timestamp = x.txn.timestamp /\ updated.txn.writes = x.txn.writes
      /\ updated.txn.staged = x.txn.staged /\ updated.txn.based = x.txn.based
      /\ IF b THEN /\ updated.txn.adds = (x.txn.adds \ Pairs(w.key, old \ w.values))
                                         \cup Pairs(w.key, w.values \ old)
                   /\ updated.txn.removes = (x.txn.removes \ Pairs(w.key, w.values \ old))
                                            \cup Pairs(w.key, old \ w.values)
         ELSE updated.txn.adds = x.txn.adds /\ updated.txn.removes = x.txn.removes
  <2> HIDE DEF existing
  <2>1. CASE b
    <3>1. updated = UpdateIndices(x, w.key, old, w.values)
      BY <2>1
    <3>2. Updated(updated, x, w.key, old, w.values)
      <4> HIDE DEF old
      <4> QED
        BY <1>1, <3>1, UpdateIndicesIs
    <3> HIDE DEF updated, old
    <3> QED
      BY <2>1, <3>2 DEF Updated
  <2>2. CASE ~b
    BY <2>2
  <2> QED
    BY <2>1, <2>2
<1>4. CASE x.txn.timestamp < existing.version
  BY <1>4 DEF WriteUpdate
<1>5. CASE ~(x.txn.timestamp < existing.version)
  <2>1. u = Stage(updated, w.key, record, b)
    BY <1>5 DEF WriteUpdate
  <2>2. ~(x.txn.timestamp < GetEntry(x, w.key).version)
    BY <1>5
  <2> HIDE DEF u, record, updated, existing
  <2>3. Staged(u, updated, w.key, record, b) /\ u.index = updated.index
        /\ u.astray = updated.astray /\ u.txn.deleted = updated.txn.deleted
        /\ u.txn.adds = updated.txn.adds /\ u.txn.removes = updated.txn.removes
    BY <2>1, <1>2, <1>3, StageIs
  <2>4. Staged(u, x, w.key, record, b)
    BY <1>3, <2>3 DEF Staged
  <2>5. Put(u, x, w, b)
    BY <1>3, <2>2, <2>3, <2>4 DEF Put, record, existing
  <2> QED
    BY <2>5 DEF u
<1> QED
  BY <1>4, <1>5

\* What a delete does that is newer than the record.
Deleted(u, x, w, b) ==
  LET removed == IF b THEN Pairs(w.key, GetEntry(x, w.key).values) ELSE {}
  IN /\ Staged(u, x, w.key, [Absent EXCEPT !.version = x.txn.timestamp], b)
     /\ u.index = x.index \ removed
     /\ u.astray = x.astray \cup Touched("delete", removed)
     /\ u.txn.deleted = x.txn.deleted \cup removed
     /\ u.txn.adds = x.txn.adds /\ u.txn.removes = x.txn.removes

LEMMA WriteDeleteIs ==
  ASSUME store \in [Keys -> Records], NEW x \in Saving, NEW w, w.key \in Keys, NEW b \in BOOLEAN
  PROVE  WriteDelete(x, w, b) = x \/ Deleted(WriteDelete(x, w, b), x, w, b)
<1> DEFINE u == WriteDelete(x, w, b)
           existing == GetEntry(x, w.key)
           removed == IF b THEN Pairs(w.key, existing.values) ELSE {}
           touched == Touched("delete", removed)
           cleared == [x EXCEPT !.index = @ \ removed, !.txn.deleted = @ \cup removed,
                                !.astray = @ \cup touched]
           record == [Absent EXCEPT !.version = x.txn.timestamp]
<1>1. record \in Records
  BY Constants, SavingFields DEF Records
<1>2. removed \subseteq Pair /\ touched \subseteq Pair
  <2>1. existing.values \in SUBSET Values
    BY GetEntryIs
  <2>2. removed \subseteq Pair
    BY <2>1, PairsOf
  <2> QED
    BY <2>2 DEF Touched
<1>3. /\ cleared \in Saving /\ cleared.index = x.index \ removed
      /\ cleared.astray = x.astray \cup touched
      /\ cleared.txn.deleted = x.txn.deleted \cup removed
      /\ cleared.txn.timestamp = x.txn.timestamp /\ cleared.txn.writes = x.txn.writes
      /\ cleared.txn.staged = x.txn.staged /\ cleared.txn.based = x.txn.based
      /\ cleared.txn.adds = x.txn.adds /\ cleared.txn.removes = x.txn.removes
      /\ cleared.txn.unaware = x.txn.unaware
  <2> DEFINE S == UNION {[D -> Records] : D \in SUBSET Keys}
             B == UNION {[D -> 0 .. MaxTime] : D \in SUBSET Keys}
  <2>1. x \in [txn : [timestamp : 0 .. MaxTime, writes : Seq(Writes), staged : S, based : B,
                      adds : SUBSET Pair, removes : SUBSET Pair, unaware : SUBSET Keys,
                      deleted : SUBSET Pair], index : SUBSET Pair, astray : SUBSET Pair]
    BY DEF Saving, Txn
  <2> HIDE DEF S, B, removed, touched
  <2>2. /\ cleared.index = x.index \ removed
        /\ cleared.astray = x.astray \cup touched
        /\ cleared.txn.deleted = x.txn.deleted \cup removed
    BY <2>1
  <2>3. /\ cleared.txn.timestamp = x.txn.timestamp /\ cleared.txn.writes = x.txn.writes
        /\ cleared.txn.staged = x.txn.staged /\ cleared.txn.based = x.txn.based
    BY <2>1
  <2>4. /\ cleared.txn.adds = x.txn.adds /\ cleared.txn.removes = x.txn.removes
        /\ cleared.txn.unaware = x.txn.unaware
    BY <2>1
  <2>5. cleared \in [txn : [timestamp : 0 .. MaxTime, writes : Seq(Writes), staged : S, based : B,
                            adds : SUBSET Pair, removes : SUBSET Pair, unaware : SUBSET Keys,
                            deleted : SUBSET Pair], index : SUBSET Pair, astray : SUBSET Pair]
    BY <1>2, <2>1
  <2>6. cleared \in [txn : Txn, index : SUBSET Pair, astray : SUBSET Pair]
    BY <2>5 DEF S, B, Txn
  <2> HIDE DEF cleared
  <2>7. cleared \in Saving
    BY <2>3, <2>4, <2>6, SavingFields DEF Saving
  <2> QED
    BY <2>2, <2>3, <2>4, <2>7
<1>4. CASE x.txn.timestamp <= existing.version
  BY <1>4 DEF WriteDelete
<1>5. CASE ~(x.txn.timestamp <= existing.version)
  <2>1. u = Stage(cleared, w.key, record, b)
    BY <1>5 DEF WriteDelete
  <2> HIDE DEF u, record, cleared
  <2>2. /\ Staged(u, cleared, w.key, record, b) /\ u.index = cleared.index
        /\ u.astray = cleared.astray /\ u.txn.deleted = cleared.txn.deleted
        /\ u.txn.adds = cleared.txn.adds /\ u.txn.removes = cleared.txn.removes
    BY <2>1, <1>1, <1>3, StageIs
  <2>3. Staged(u, x, w.key, record, b)
    BY <1>3, <2>2 DEF Staged
  <2>4. Deleted(u, x, w, b)
    BY <1>3, <2>2, <2>3 DEF Deleted, record
  <2> QED
    BY <2>4 DEF u
<1> QED
  BY <1>4, <1>5

LEMMA WritesAre ==
  ASSUME NEW w \in Writes
  PROVE  w.type \in {"put", "delete"} /\ w.key \in Keys /\ w.values \in SUBSET Values
  BY DEF Writes

LEMMA SaveIs ==
  ASSUME store \in [Keys -> Records], NEW x \in Saving, NEW w \in Writes, NEW b \in BOOLEAN
  PROVE  \/ Save(x, w, b) = x
         \/ Put(Save(x, w, b), x, w, b)
         \/ Deleted(Save(x, w, b), x, w, b)
<1>1. w.key \in Keys /\ w.values \in SUBSET Values
  BY WritesAre
<1>2. CASE w.type = "put"
  <2>1. Save(x, w, b) = WriteUpdate(x, w, b)
    BY <1>2 DEF Save
  <2> QED
    BY <1>1, <2>1, WriteUpdateIs
<1>3. CASE w.type # "put"
  <2>1. Save(x, w, b) = WriteDelete(x, w, b)
    BY <1>3 DEF Save
  <2> QED
    BY <1>1, <2>1, WriteDeleteIs
<1> QED
  BY <1>2, <1>3

LEMMA SaveIn ==
  ASSUME store \in [Keys -> Records], NEW x \in Saving, NEW w \in Writes, NEW b \in BOOLEAN
  PROVE  Save(x, w, b) \in Saving
  BY SaveIs DEF Put, Deleted, Staged

-----------------------------------------------------------------------------
(***************************************************************************)
(* The saving of all writes of a transaction again.                        *)
(***************************************************************************)
LEMMA Least ==
  ASSUME NEW D \in SUBSET Nat, D # {}
  PROVE  \E d \in D : \A e \in D : d <= e
<1>1. PICK d \in D : \A e \in D : ~(<<e, d>> \in OpToRel(<, Nat))
  BY NatLessThanWellFounded, WFMin
<1>2. ASSUME NEW e \in D PROVE d <= e
  <2>1. ~(<<e, d>> \in {ss \in Nat \X Nat : ss[1] < ss[2]})
    BY <1>1 DEF OpToRel
  <2>2. <<e, d>> \in Nat \X Nat /\ e \in Nat /\ d \in Nat
    OBVIOUS
  <2> QED
    BY <2>1, <2>2
<1> QED
  BY <1>2

\* What holds at first, and whatever write is saved, holds when all have been.
LEMMA SavedAgainIn ==
  ASSUME NEW t \in Threads, txn[t].writes \in Seq(Writes), NEW X,
         [txn |-> [NoTxn EXCEPT !.timestamp = txn[t].timestamp, !.writes = txn[t].writes],
          index |-> index, astray |-> astray] \in X,
         \A x \in X, w \in Writes : Save(x, w, t \in known) \in X
  PROVE  SavedAgain(t) \in X
<1> DEFINE n == Len(txn[t].writes)
           a == [txn |-> [NoTxn EXCEPT !.timestamp = txn[t].timestamp, !.writes = txn[t].writes],
                 index |-> index, astray |-> astray]
           G(x, i) == Save(x, txn[t].writes[i], t \in known)
           Saves(f, m) == f = [i \in 0 .. m |-> IF i = 0 THEN a ELSE G(f[i - 1], i)]
           f == CHOOSE saved : Saves(saved, n)
           None == {m \in 0 .. n : ~\E g : Saves(g, m)}
           Out == {i \in 0 .. n : f[i] \notin X}
<1>1. SavedAgain(t) = f[n]
  BY DEF SavedAgain, State
<1>2. n \in Nat /\ a \in X
  OBVIOUS
<1>3. ASSUME NEW i \in 1 .. n, NEW x \in X PROVE G(x, i) \in X
  <2>1. txn[t].writes[i] \in Writes
    OBVIOUS
  <2> QED
    BY <2>1
<1> HIDE DEF n, a, G, f
<1>4. None = {}
  <2> SUFFICES ASSUME None # {} PROVE FALSE
    OBVIOUS
  <2>1. None \in SUBSET Nat
    BY <1>2
  <2>2. PICK m \in None : \A e \in None : m <= e
    BY <2>1, Least
  <2>3. m \in 0 .. n /\ ~\E g : Saves(g, m)
    OBVIOUS
  <2>4. CASE m = 0
    <3>1. Saves([i \in 0 .. 0 |-> a], 0)
      OBVIOUS
    <3> QED
      BY <2>3, <2>4, <3>1
  <2>5. CASE m # 0
    <3>1. m - 1 \in 0 .. n /\ ~(m <= m - 1)
      BY <1>2, <2>3, <2>5
    <3>2. PICK g : Saves(g, m - 1)
      BY <2>2, <3>1
    <3> DEFINE h == [i \in 0 .. m |-> IF i = m THEN G(g[m - 1], m) ELSE g[i]]
    <3>3. ASSUME NEW i \in 0 .. m PROVE h[i] = IF i = 0 THEN a ELSE G(h[i - 1], i)
      <4>1. CASE i = m
        <5>1. m - 1 \in 0 .. m /\ m - 1 # m /\ m # 0
          BY <2>3, <2>5
        <5>2. h[m - 1] = g[m - 1]
          BY <5>1
        <5> QED
          BY <4>1, <5>1, <5>2
      <4>2. CASE i = 0 /\ i # m
        <5>1. i \in 0 .. m - 1
          BY <4>2, <2>3
        <5>2. g[i] = a
          BY <5>1, <4>2, <3>2
        <5> QED
          BY <4>2, <5>2
      <4>3. CASE i # 0 /\ i # m
        <5>1. i \in 0 .. m - 1 /\ i - 1 \in 0 .. m /\ i - 1 # m
          BY <4>3, <2>3
        <5>2. g[i] = G(g[i - 1], i)
          BY <5>1, <4>3, <3>2
        <5>3. h[i - 1] = g[i - 1] /\ h[i] = g[i]
          BY <4>3, <5>1
        <5> QED
          BY <4>3, <5>2, <5>3
      <4> QED
        BY <4>1, <4>2, <4>3
    <3>4. h = [i \in 0 .. m |-> h[i]]
      OBVIOUS
    <3> HIDE DEF h
    <3>5. Saves(h, m)
      BY <3>3, <3>4
    <3> QED
      BY <2>3, <3>5
  <2> QED
    BY <2>4, <2>5
<1>5. Saves(f, n)
  <2>1. n \in 0 .. n
    BY <1>2
  <2>2. \E g : Saves(g, n)
    BY <1>4, <2>1
  <2> HIDE DEF Saves
  <2> QED
    BY <2>2 DEF f
<1>6. Out = {}
  <2> SUFFICES ASSUME Out # {} PROVE FALSE
    OBVIOUS
  <2>1. Out \in SUBSET Nat
    BY <1>2
  <2>2. PICK m \in Out : \A e \in Out : m <= e
    BY <2>1, Least
  <2>3. m \in 0 .. n /\ f[m] \notin X
    OBVIOUS
  <2>4. CASE m = 0
    BY <1>2, <1>5, <2>3, <2>4
  <2>5. CASE m # 0
    <3>1. m - 1 \in 0 .. n /\ ~(m <= m - 1) /\ m \in 1 .. n
      BY <1>2, <2>3, <2>5
    <3>2. f[m - 1] \in X
      BY <2>2, <3>1
    <3>3. f[m] = G(f[m - 1], m)
      BY <1>5, <2>3, <2>5
    <3> QED
      BY <1>3, <2>3, <3>1, <3>2, <3>3
  <2> QED
    BY <2>4, <2>5
<1> QED
  BY <1>1, <1>2, <1>6

-----------------------------------------------------------------------------
(***************************************************************************)
(* The types.                                                              *)
(***************************************************************************)
\* A transaction of the right type.
TxnOK(y) ==
  /\ y \in Txn /\ DOMAIN y.staged = DOMAIN y.based /\ y.adds \cap y.removes = {}
  /\ y.unaware \subseteq DOMAIN y.staged

LEMMA SavingTxn ==
  /\ \A x \in Saving : TxnOK(x.txn) /\ x.index \in SUBSET Pair /\ x.astray \in SUBSET Pair
  /\ \A y, i, a : TxnOK(y) /\ i \in SUBSET Pair /\ a \in SUBSET Pair
                  => [txn |-> y, index |-> i, astray |-> a] \in Saving
<1>1. ASSUME NEW x \in Saving
      PROVE  TxnOK(x.txn) /\ x.index \in SUBSET Pair /\ x.astray \in SUBSET Pair
  BY DEF Saving, TxnOK
<1>2. ASSUME NEW y, NEW i, NEW a, TxnOK(y), i \in SUBSET Pair, a \in SUBSET Pair
      PROVE  [txn |-> y, index |-> i, astray |-> a] \in Saving
  BY <1>2 DEF Saving, TxnOK
<1> QED
  BY <1>1, <1>2

LEMMA StateIn ==
  ASSUME TypeInv, NEW t \in Threads
  PROVE  State(t) \in Saving /\ TxnOK(txn[t]) /\ txn[t].writes \in Seq(Writes)
<1>1. TxnOK(txn[t]) /\ index \in SUBSET Pair /\ astray \in SUBSET Pair
  BY DEF TypeInv, TxnOK
<1>2. State(t) \in Saving
  BY <1>1, SavingTxn DEF State
<1>3. txn[t].writes \in Seq(Writes)
  BY <1>1 DEF TxnOK, Txn
<1> QED
  BY <1>1, <1>2, <1>3

LEMMA NoTxnOK ==
  /\ TxnOK(NoTxn) /\ NoTxn.timestamp = 0 /\ NoTxn.writes = <<>> /\ DOMAIN NoTxn.staged = {}
  /\ DOMAIN NoTxn.based = {} /\ NoTxn.adds = {} /\ NoTxn.removes = {}
  /\ NoTxn.unaware = {} /\ NoTxn.deleted = {}
<1>1. /\ <<>> \in Seq(Writes) /\ DOMAIN <<>> = {} /\ 0 \in 0 .. MaxTime
      /\ <<>> \in UNION {[D -> Records] : D \in SUBSET Keys}
      /\ <<>> \in UNION {[D -> 0 .. MaxTime] : D \in SUBSET Keys}
  <2>1. DOMAIN <<>> = {} /\ <<>> \in Seq(Writes)
    OBVIOUS
  <2>2. <<>> \in [{} -> Records] /\ <<>> \in [{} -> 0 .. MaxTime] /\ {} \in SUBSET Keys
    BY <2>1
  <2>3. /\ <<>> \in UNION {[D -> Records] : D \in SUBSET Keys}
        /\ <<>> \in UNION {[D -> 0 .. MaxTime] : D \in SUBSET Keys}
    BY <2>2
  <2>4. 0 \in 0 .. MaxTime
    BY Constants
  <2> QED
    BY ONLY <2>1, <2>3, <2>4
<1>2. /\ NoTxn.timestamp = 0 /\ NoTxn.writes = <<>> /\ NoTxn.staged = <<>> /\ NoTxn.based = <<>>
      /\ NoTxn.adds = {} /\ NoTxn.removes = {} /\ NoTxn.unaware = {} /\ NoTxn.deleted = {}
  BY DEF NoTxn
<1>3. NoTxn \in Txn
  BY <1>1 DEF NoTxn, Txn
<1> QED
  BY <1>1, <1>2, <1>3 DEF TxnOK

\* A transaction that has only its timestamp and its writes.
Reset(T, W) == [NoTxn EXCEPT !.timestamp = T, !.writes = W]

LEMMA ResetIs ==
  ASSUME NEW T \in 0 .. MaxTime, NEW W \in Seq(Writes)
  PROVE  /\ TxnOK(Reset(T, W)) /\ Reset(T, W).timestamp = T /\ Reset(T, W).writes = W
         /\ DOMAIN Reset(T, W).staged = {} /\ DOMAIN Reset(T, W).based = {}
         /\ Reset(T, W).adds = {} /\ Reset(T, W).removes = {}
         /\ Reset(T, W).unaware = {} /\ Reset(T, W).deleted = {}
<1> DEFINE y == Reset(T, W)
<1>1. NoTxn \in Txn
  BY NoTxnOK DEF TxnOK
<1>2. y \in Txn
  BY <1>1 DEF Txn, Reset
<1>3. /\ y.timestamp = T /\ y.writes = W /\ y.staged = NoTxn.staged
      /\ y.based = NoTxn.based /\ y.adds = NoTxn.adds /\ y.removes = NoTxn.removes
      /\ y.unaware = NoTxn.unaware /\ y.deleted = NoTxn.deleted
  BY <1>1 DEF Txn, Reset
<1> HIDE DEF y
<1>4. TxnOK(y) /\ DOMAIN y.staged = {} /\ DOMAIN y.based = {} /\ y.adds = {} /\ y.removes = {}
      /\ y.unaware = {} /\ y.deleted = {}
  BY <1>2, <1>3, NoTxnOK DEF TxnOK
<1> QED
  BY <1>3, <1>4 DEF y

LEMMA TxnsStep ==
  ASSUME TypeInv, NEW t \in Threads, NEW y, TxnOK(y), txn' = [txn EXCEPT ![t] = y]
  PROVE  /\ txn' \in [Threads -> Txn]
         /\ \A u \in Threads : /\ DOMAIN txn'[u].staged = DOMAIN txn'[u].based
                               /\ txn'[u].adds \cap txn'[u].removes = {}
                               /\ txn'[u].unaware \subseteq DOMAIN txn'[u].staged
  BY DEF TypeInv, TxnOK

LEMMA SaveAt ==
  ASSUME store \in [Keys -> Records], NEW t \in Threads, NEW x \in Saving, NEW w \in Writes
  PROVE  Save(x, w, t \in known) \in Saving
<1>1. \A b \in BOOLEAN : Save(x, w, b) \in Saving
  BY SaveIn
<1>2. CASE t \in known
  <2>1. Save(x, w, TRUE) \in Saving
    BY <1>1
  <2>2. (t \in known) = TRUE
    BY <1>2
  <2> QED
    BY <2>1, <2>2
<1>3. CASE t \notin known
  <2>1. Save(x, w, FALSE) \in Saving
    BY <1>1
  <2>2. (t \in known) = FALSE
    BY <1>3
  <2> QED
    BY <2>1, <2>2
<1> QED
  BY <1>2, <1>3

LEMMA SavedAgainTypes ==
  ASSUME TypeInv, NEW t \in Threads
  PROVE  SavedAgain(t) \in Saving
<1> DEFINE y == Reset(txn[t].timestamp, txn[t].writes)
<1>1. txn[t].timestamp \in 0 .. MaxTime /\ txn[t].writes \in Seq(Writes)
  BY DEF TypeInv, Txn
<1>2. TxnOK(y)
  BY <1>1, ResetIs
<1> HIDE DEF y
<1>3. [txn |-> y, index |-> index, astray |-> astray] \in Saving
  BY <1>2, SavingTxn DEF TypeInv
<1>4. \A x \in Saving, w \in Writes : Save(x, w, t \in known) \in Saving
  BY SaveAt DEF TypeInv
<1> QED
  BY <1>1, <1>3, <1>4, SavedAgainIn DEF y, Reset

\* What the native commit stores.
LEMMA StoreAllTypes ==
  ASSUME TypeInv, NEW t \in Threads, StoreAll(txn[t])
  PROVE  store' \in [Keys -> Records] /\ index' \subseteq Pair /\ astray' \subseteq Pair
<1> DEFINE y == txn[t]
<1>1. PICK x \in Saving : x = State(t)
  BY StateIn
<1>2. /\ DOMAIN y.staged \subseteq Keys /\ y.staged \in [DOMAIN y.staged -> Records]
      /\ y.adds \subseteq Pair /\ y.deleted \subseteq Pair /\ y.unaware \subseteq DOMAIN y.staged
  <2>1. x.txn = y
    BY <1>1 DEF State
  <2> HIDE DEF y
  <2> QED
    BY <2>1, SavingFields
<1>3. Missed(y) \subseteq Pair
  <2>1. ASSUME NEW k \in y.unaware
        PROVE  Pairs(k, (store[k].values \ y.staged[k].values) \cup
                        (y.staged[k].values \ store[k].values)) \subseteq Pair
    <3>1. k \in Keys /\ y.staged[k].values \in SUBSET Values /\ store[k].values \in SUBSET Values
      BY <1>2 DEF TypeInv, Records
    <3>2. (store[k].values \ y.staged[k].values) \cup (y.staged[k].values \ store[k].values)
          \in SUBSET Values
      BY <3>1
    <3> QED
      BY <3>1, <3>2, PairsOf
  <2> HIDE DEF y
  <2> QED
    BY <2>1 DEF Missed
<1> QED
  BY <1>2, <1>3 DEF StoreAll, TypeInv, Touched

LEMMA AppendOK ==
  ASSUME NEW y, TxnOK(y), NEW w \in Writes
  PROVE  LET z == [y EXCEPT !.writes = Append(@, w)]
         IN /\ TxnOK(z) /\ z.writes = Append(y.writes, w) /\ z.timestamp = y.timestamp
            /\ z.staged = y.staged /\ z.based = y.based /\ z.adds = y.adds /\ z.removes = y.removes
            /\ z.unaware = y.unaware /\ z.deleted = y.deleted
<1> DEFINE z == [y EXCEPT !.writes = Append(@, w)]
           S == UNION {[D -> Records] : D \in SUBSET Keys}
           B == UNION {[D -> 0 .. MaxTime] : D \in SUBSET Keys}
<1>1. y \in [timestamp : 0 .. MaxTime, writes : Seq(Writes), staged : S, based : B,
             adds : SUBSET Pair, removes : SUBSET Pair, unaware : SUBSET Keys, deleted : SUBSET Pair]
  BY DEF TxnOK, Txn
<1> HIDE DEF S, B
<1>2. Append(y.writes, w) \in Seq(Writes)
  BY <1>1
<1>3. /\ z \in [timestamp : 0 .. MaxTime, writes : Seq(Writes), staged : S, based : B,
                adds : SUBSET Pair, removes : SUBSET Pair, unaware : SUBSET Keys,
                deleted : SUBSET Pair]
      /\ z.writes = Append(y.writes, w) /\ z.timestamp = y.timestamp
      /\ z.staged = y.staged /\ z.based = y.based /\ z.adds = y.adds /\ z.removes = y.removes
      /\ z.unaware = y.unaware /\ z.deleted = y.deleted
  BY <1>1, <1>2
<1> HIDE DEF z
<1>4. TxnOK(z)
  BY <1>3 DEF TxnOK, Txn, S, B
<1> QED
  BY <1>3, <1>4 DEF z

LEMMA NoIndexerOK ==
  /\ NoIndexer \in [at : {"none", "signal", "scan", "put", "done"}, cursor : 1 .. LastKey + 1,
                    pending : SUBSET Pair]
  /\ NoIndexer.at = "none" /\ NoIndexer.cursor = 1 /\ NoIndexer.pending = {}
<1>1. 1 \in 1 .. LastKey + 1
  BY Constants
<1> QED
  BY <1>1 DEF NoIndexer

LEMMA TypeInit == Init => TypeInv
<1> SUFFICES ASSUME Init PROVE TypeInv
  OBVIOUS
<1>1. /\ store \in [Keys -> Records] /\ index \subseteq Pair /\ astray \subseteq Pair
      /\ time \in 0 .. MaxTime
  BY Constants DEF Init
<1>2. /\ txn \in [Threads -> Txn]
      /\ \A t \in Threads : /\ DOMAIN txn[t].staged = DOMAIN txn[t].based
                            /\ txn[t].adds \cap txn[t].removes = {}
                            /\ txn[t].unaware \subseteq DOMAIN txn[t].staged
  BY NoTxnOK DEF Init, TxnOK
<1>3. known \subseteq Threads /\ isIndexing \in BOOLEAN
  BY DEF Init
<1>4. descriptor \in [state : {"none", "building", "ready"}, lastIndexedKey : 0 .. LastKey,
                      mine : BOOLEAN]
  <2>1. 0 \in 0 .. LastKey
    BY Constants
  <2> QED
    BY <2>1 DEF Init
<1>5. /\ indexer \in [at : {"none", "signal", "scan", "put", "done"}, cursor : 1 .. LastKey + 1,
                      pending : SUBSET Pair]
      /\ indexer.at # "put"
  BY NoIndexerOK DEF Init
<1> QED
  BY <1>1, <1>2, <1>3, <1>4, <1>5 DEF TypeInv

LEMMA TypeStep == TypeInv /\ [Next]_vars => TypeInv'
<1> SUFFICES ASSUME TypeInv, [Next]_vars PROVE TypeInv'
  OBVIOUS
<1> USE Constants
<1>1. ASSUME NEW t \in Threads, Begin(t) PROVE TypeInv'
  <2>1. PICK y : y = [txn[t] EXCEPT !.timestamp = time']
    OBVIOUS
  <2>2. time' \in 0 .. MaxTime
    BY <1>1 DEF Begin, TypeInv
  <2>3. TxnOK(y)
    BY <2>1, <2>2, StateIn DEF TxnOK, Txn
  <2>4. txn' = [txn EXCEPT ![t] = y]
    BY <1>1, <2>1 DEF Begin
  <2> QED
    BY <1>1, <2>2, <2>3, <2>4, TxnsStep DEF Begin, TypeInv
<1>2. ASSUME NEW t \in Threads, Write(t) PROVE TypeInv'
  <2>1. PICK w \in Writes :
          LET saved == Save(State(t), w, t \in known)
          IN /\ txn' = [txn EXCEPT ![t] = [saved.txn EXCEPT !.writes = Append(@, w)]]
             /\ index' = saved.index /\ astray' = saved.astray
    BY <1>2 DEF Write
  <2>2. PICK saved \in Saving : saved = Save(State(t), w, t \in known)
    BY StateIn, SaveAt DEF TypeInv
  <2>3. PICK y : y = [saved.txn EXCEPT !.writes = Append(@, w)]
    OBVIOUS
  <2>4. TxnOK(y) /\ index' \subseteq Pair /\ astray' \subseteq Pair
    BY <2>1, <2>2, <2>3, SavingTxn, AppendOK
  <2>5. txn' = [txn EXCEPT ![t] = y]
    BY <2>1, <2>2, <2>3
  <2> QED
    BY <1>2, <2>4, <2>5, TxnsStep DEF Write, TypeInv
<1>3. ASSUME NEW t \in Threads, Commit(t) PROVE TypeInv'
  <2>1. store' \in [Keys -> Records] /\ index' \subseteq Pair /\ astray' \subseteq Pair
    BY <1>3, StoreAllTypes DEF Commit
  <2>2. txn' = [txn EXCEPT ![t] = NoTxn]
    BY <1>3 DEF Commit
  <2> QED
    BY <1>3, <2>1, <2>2, NoTxnOK, TxnsStep DEF Commit, TypeInv
<1>4. ASSUME NEW t \in Threads, CommitRetries(t) PROVE TypeInv'
  <2>1. PICK saved \in Saving : saved = SavedAgain(t)
    BY SavedAgainTypes
  <2>2. TxnOK(saved.txn) /\ index' \subseteq Pair /\ astray' \subseteq Pair
    BY <1>4, <2>1, SavingTxn DEF CommitRetries
  <2>3. txn' = [txn EXCEPT ![t] = saved.txn]
    BY <1>4, <2>1 DEF CommitRetries
  <2> QED
    BY <1>4, <2>2, <2>3, TxnsStep DEF CommitRetries, TypeInv
<1>5. ASSUME NEW t \in Threads, Abort(t) PROVE TypeInv'
  <2>1. txn' = [txn EXCEPT ![t] = NoTxn]
    BY <1>5 DEF Abort
  <2> QED
    BY <1>5, <2>1, NoTxnOK, TxnsStep DEF Abort, TypeInv
<1>6. ASSUME NEW k \in Keys, Evict(k) PROVE TypeInv'
  <2>1. store' \in [Keys -> Records]
    BY <1>6 DEF Evict, TypeInv
  <2>2. astray' \subseteq Pair
    BY <1>6 DEF Evict, TypeInv, Touched
  <2> QED
    BY <1>6, <2>1, <2>2 DEF Evict, TypeInv
<1>7. ASSUME NEW t \in Threads, LoadIndex(t) PROVE TypeInv'
  BY <1>7 DEF LoadIndex, TypeInv
<1>8. CASE DefineIndex
  <2>2. isIndexing' \in BOOLEAN /\ known' \subseteq Threads
    BY <1>8 DEF DefineIndex, TypeInv, HasExistingData
  <2>3. descriptor' \in [state : {"none", "building", "ready"}, lastIndexedKey : 0 .. LastKey,
                         mine : BOOLEAN]
    <3>1. CASE HasExistingData
      BY <1>8, <3>1 DEF DefineIndex, TypeInv
    <3>2. CASE ~HasExistingData
      <4>1. descriptor' = [descriptor EXCEPT !.state = "ready", !.lastIndexedKey = 0, !.mine = TRUE]
        BY <1>8, <3>2 DEF DefineIndex
      <4>2. 0 \in 0 .. LastKey
        OBVIOUS
      <4> QED
        BY <4>1, <4>2 DEF TypeInv
    <3> QED
      BY <3>1, <3>2
  <2>4. /\ indexer' \in [at : {"none", "signal", "scan", "put", "done"}, cursor : 1 .. LastKey + 1,
                         pending : SUBSET Pair]
        /\ indexer'.at # "put"
    BY <1>8, NoIndexerOK DEF DefineIndex
  <2> QED
    BY <1>8, <2>2, <2>3, <2>4 DEF DefineIndex, TypeInv
<1>9. CASE StartScan
  <2>1. PICK c \in 1 .. LastKey + 1 : c = IF descriptor.lastIndexedKey = 0 THEN 1
                                            ELSE descriptor.lastIndexedKey
    BY DEF TypeInv
  <2>2. indexer' = [indexer EXCEPT !.at = "scan", !.cursor = c]
    BY <1>9, <2>1 DEF StartScan, TypeInv
  <2>3. indexer' \in [at : {"none", "signal", "scan", "put", "done"}, cursor : 1 .. LastKey + 1,
                      pending : SUBSET Pair] /\ indexer'.at # "put"
    BY <2>2 DEF TypeInv
  <2>4. index' \subseteq Pair /\ astray' \subseteq Pair
    BY <1>9 DEF StartScan, TypeInv
  <2> QED
    BY <1>9, <2>3, <2>4 DEF StartScan, TypeInv
<1>10. CASE ScanRead
  <2>1. indexer.cursor \in Keys
    BY <1>10 DEF ScanRead, TypeInv, Keys
  <2>2. Pairs(indexer.cursor, store[indexer.cursor].values) \subseteq Pair
    BY <2>1, PairsOf DEF TypeInv, Records
  <2> QED
    BY <1>10, <2>2 DEF ScanRead, TypeInv
<1>11. CASE ScanPut
  <2>1. indexer.cursor \in 1 .. LastKey /\ indexer.pending \subseteq Pair
    BY <1>11 DEF ScanPut, TypeInv
  <2>2. indexer' \in [at : {"none", "signal", "scan", "put", "done"}, cursor : 1 .. LastKey + 1,
                      pending : SUBSET Pair] /\ indexer'.at # "put"
    BY <1>11, <2>1 DEF ScanPut, TypeInv
  <2>3. descriptor' \in [state : {"none", "building", "ready"}, lastIndexedKey : 0 .. LastKey,
                         mine : BOOLEAN]
    BY <1>11, <2>1 DEF ScanPut, TypeInv, IndexedKey
  <2>4. astray' \subseteq Pair
    BY <1>11, <2>1 DEF ScanPut, TypeInv, Touched
  <2> QED
    BY <1>11, <2>1, <2>2, <2>3, <2>4 DEF ScanPut, TypeInv
<1>12. CASE Finish
  <2>1. descriptor' \in [state : {"none", "building", "ready"}, lastIndexedKey : 0 .. LastKey,
                         mine : BOOLEAN]
    BY <1>12 DEF Finish, Interrupted, TypeInv
  <2>2. indexer' \in [at : {"none", "signal", "scan", "put", "done"}, cursor : 1 .. LastKey + 1,
                      pending : SUBSET Pair] /\ indexer'.at # "put"
    BY <1>12, NoIndexerOK DEF Finish, TypeInv
  <2> QED
    BY <1>12, <2>1, <2>2 DEF Finish, TypeInv
<1>13. CASE Restart
  <2>1. /\ txn' \in [Threads -> Txn]
        /\ \A u \in Threads : /\ DOMAIN txn'[u].staged = DOMAIN txn'[u].based
                              /\ txn'[u].adds \cap txn'[u].removes = {}
                              /\ txn'[u].unaware \subseteq DOMAIN txn'[u].staged
    BY <1>13, NoTxnOK DEF Restart, TxnOK
  <2>2. descriptor' \in [state : {"none", "building", "ready"}, lastIndexedKey : 0 .. LastKey,
                         mine : BOOLEAN]
    BY <1>13 DEF Restart, TypeInv
  <2>3. index' \subseteq Pair /\ astray' \subseteq Pair
    BY <1>13 DEF Restart, TypeInv, Lost, Touched
  <2> QED
    BY <1>13, <2>1, <2>2, <2>3, NoIndexerOK DEF Restart, TypeInv
<1>14. CASE UNCHANGED vars
  BY <1>14 DEF vars, TypeInv
<1> QED
  BY <1>1, <1>2, <1>3, <1>4, <1>5, <1>6, <1>7, <1>8, <1>9, <1>10, <1>11, <1>12, <1>13, <1>14
     DEF Next, Request, Indexing

\* Every variable has its type.
THEOREM TypeCorrect == Spec => []TypeOK
<1>1. TypeInv => TypeOK
  <2> SUFFICES ASSUME TypeInv PROVE TypeOK
    OBVIOUS
  <2>1. \A t \in Threads : txn[t].timestamp \in 0 .. MaxTime
    BY DEF TypeInv, Txn
  <2> QED
    BY <2>1 DEF TypeInv, TypeOK, Pair
<1> QED
  BY <1>1, TypeInit, TypeStep, PTL DEF Spec

-----------------------------------------------------------------------------
(***************************************************************************)
(* What the transactions do to the index.                                  *)
(***************************************************************************)
\* What holds of x while the writes of thread t are saved: what the index lost is
\* astray.
Good(t, x) ==
  /\ x \in Saving
  /\ x.txn.timestamp = txn[t].timestamp /\ x.txn.writes = txn[t].writes
  /\ x.index \subseteq index /\ astray \subseteq x.astray /\ index \ x.index \subseteq x.astray
  /\ \A p \in x.txn.adds \cup x.txn.removes : p[2] \in DOMAIN x.txn.staged
  /\ t \notin known => x.txn.adds = {} /\ x.txn.removes = {}
  /\ \A k \in DOMAIN x.txn.staged : x.txn.staged[k].version = x.txn.timestamp
  /\ \A k \in DOMAIN x.txn.based :
        /\ x.txn.based[k] <= time
        /\ \A u \in Threads : Open(u) => x.txn.based[k] # txn[u].timestamp
  /\ \A k \in DOMAIN x.txn.staged, old \in SUBSET Values :
        Had(k, x.txn.based[k], old) => Moves(x.txn, k, old)

LEMMA SaveBy ==
  ASSUME store \in [Keys -> Records], NEW t \in Threads, NEW x \in Saving, NEW w \in Writes
  PROVE  \/ Save(x, w, t \in known) = x
         \/ \E b \in {TRUE, FALSE} :
               /\ t \in known <=> b
               /\ \/ Put(Save(x, w, t \in known), x, w, b)
                  \/ Deleted(Save(x, w, t \in known), x, w, b)
<1>1. \A b \in BOOLEAN : \/ Save(x, w, b) = x
                         \/ Put(Save(x, w, b), x, w, b)
                         \/ Deleted(Save(x, w, b), x, w, b)
  BY SaveIs
<1>2. CASE t \in known
  <2>1. (t \in known) = TRUE
    BY <1>2
  <2> QED
    BY <1>1, <1>2, <2>1
<1>3. CASE t \notin known
  <2>1. (t \in known) = FALSE
    BY <1>3
  <2> QED
    BY <1>1, <1>3, <2>1
<1> QED
  BY <1>2, <1>3

\* What a write stages, and does to the pairs of its key, where it found the values
\* old.
Wrote(u, x, w, b, old) ==
  /\ u \in Saving /\ w.key \in Keys /\ old \in SUBSET Values
  /\ u.txn.timestamp = x.txn.timestamp /\ u.txn.writes = x.txn.writes
  /\ DOMAIN u.txn.staged = DOMAIN x.txn.staged \cup {w.key}
  /\ DOMAIN u.txn.based = DOMAIN x.txn.staged \cup {w.key}
  /\ u.txn.staged[w.key].version = x.txn.timestamp
  /\ \A j \in DOMAIN x.txn.staged : j # w.key => u.txn.staged[j] = x.txn.staged[j]
  /\ \A j \in DOMAIN x.txn.staged : u.txn.based[j] = x.txn.based[j]
  /\ w.key \notin DOMAIN x.txn.staged => u.txn.based[w.key] = store[w.key].version
  /\ u.txn.unaware = IF b THEN x.txn.unaware ELSE x.txn.unaware \cup {w.key}
  /\ \/ /\ u.txn.staged[w.key].values = w.values /\ w.values \in SUBSET Values
        /\ u.index = x.index /\ u.astray = x.astray /\ u.txn.deleted = x.txn.deleted
        /\ IF b THEN /\ u.txn.adds = (x.txn.adds \ Pairs(w.key, old \ w.values))
                                     \cup Pairs(w.key, w.values \ old)
                     /\ u.txn.removes = (x.txn.removes \ Pairs(w.key, w.values \ old))
                                        \cup Pairs(w.key, old \ w.values)
           ELSE u.txn.adds = x.txn.adds /\ u.txn.removes = x.txn.removes
     \/ /\ u.txn.staged[w.key].values = {}
        /\ u.index = x.index \ (IF b THEN Pairs(w.key, old) ELSE {})
        /\ u.astray = x.astray \cup Touched("delete", IF b THEN Pairs(w.key, old) ELSE {})
        /\ u.txn.deleted = x.txn.deleted \cup (IF b THEN Pairs(w.key, old) ELSE {})
        /\ u.txn.adds = x.txn.adds /\ u.txn.removes = x.txn.removes

LEMMA Written ==
  ASSUME store \in [Keys -> Records], NEW x \in Saving, NEW w \in Writes, NEW u, NEW b \in BOOLEAN,
         Put(u, x, w, b) \/ Deleted(u, x, w, b)
  PROVE  Wrote(u, x, w, b, GetEntry(x, w.key).values)
<1>1. w.key \in Keys /\ w.values \in SUBSET Values
  BY WritesAre
<1>2. GetEntry(x, w.key).values \in SUBSET Values
  BY <1>1, GetEntryIs
<1>3. CASE Put(u, x, w, b)
  <2>1. Staged(u, x, w.key, [exists |-> TRUE, values |-> w.values, version |-> x.txn.timestamp], b)
    BY <1>3 DEF Put
  <2>2. u.txn.staged[w.key].values = w.values /\ u.txn.staged[w.key].version = x.txn.timestamp
    BY <2>1 DEF Staged
  <2> QED
    BY <1>1, <1>2, <1>3, <2>1, <2>2 DEF Put, Staged, Wrote
<1>4. CASE Deleted(u, x, w, b)
  <2> DEFINE record == [Absent EXCEPT !.version = x.txn.timestamp]
  <2>1. Staged(u, x, w.key, record, b)
    BY <1>4 DEF Deleted
  <2>2. record.values = {} /\ record.version = x.txn.timestamp
    BY DEF Absent
  <2>3. u.txn.staged[w.key] = record
    BY <2>1 DEF Staged
  <2> HIDE DEF record
  <2>4. u.txn.staged[w.key].values = {} /\ u.txn.staged[w.key].version = x.txn.timestamp
    BY <2>2, <2>3
  <2>5. LET removed == IF b THEN Pairs(w.key, GetEntry(x, w.key).values) ELSE {}
        IN /\ u.index = x.index \ removed
           /\ u.astray = x.astray \cup Touched("delete", removed)
           /\ u.txn.deleted = x.txn.deleted \cup removed
           /\ u.txn.adds = x.txn.adds /\ u.txn.removes = x.txn.removes
    BY <1>4 DEF Deleted
  <2> QED
    BY <1>1, <1>2, <2>1, <2>4, <2>5 DEF Staged, Wrote
<1> QED
  BY <1>3, <1>4

LEMMA WriteMoves ==
  ASSUME store \in [Keys -> Records], NEW x \in Saving, NEW w \in Writes, NEW u, NEW b \in BOOLEAN,
         Put(u, x, w, b) \/ Deleted(u, x, w, b),
         \A p \in x.txn.adds \cup x.txn.removes : p[2] \in DOMAIN x.txn.staged,
         ~b => x.txn.adds = {} /\ x.txn.removes = {},
         NEW k \in DOMAIN u.txn.staged, store[k].version = 0 => store[k].values = {},
         NEW old \in SUBSET Values, Had(k, u.txn.based[k], old),
         k \in DOMAIN x.txn.staged => Moves(x.txn, k, old)
  PROVE  Moves(u.txn, k, old)
<1> DEFINE found == GetEntry(x, w.key).values
<1>0. Wrote(u, x, w, b, found)
  BY Written
<1> SUFFICES ASSUME NEW v \in Values
    PROVE  \/ <<v, k>> \in u.txn.deleted
           \/ k \in u.txn.unaware /\ ~(v \in old <=> v \in u.txn.staged[k].values)
           \/ /\ <<v, k>> \in u.txn.adds => v \in u.txn.staged[k].values
              /\ v \in u.txn.staged[k].values /\ v \notin old => <<v, k>> \in u.txn.adds
              /\ <<v, k>> \in u.txn.removes => v \notin u.txn.staged[k].values
              /\ v \in old /\ v \notin u.txn.staged[k].values => <<v, k>> \in u.txn.removes
  BY DEF Moves
<1> DEFINE p == <<v, k>>
<1>1. /\ w.key \in Keys /\ found \in SUBSET Values /\ DOMAIN x.txn.staged \subseteq Keys
      /\ DOMAIN u.txn.staged = DOMAIN x.txn.staged \cup {w.key}
      /\ \A j \in DOMAIN x.txn.staged : j # w.key => u.txn.staged[j] = x.txn.staged[j]
      /\ u.txn.unaware = IF b THEN x.txn.unaware ELSE x.txn.unaware \cup {w.key}
      /\ w.key \notin DOMAIN x.txn.staged => u.txn.based[w.key] = store[w.key].version
  BY <1>0, SavingFields DEF Wrote
<1>2. k \in Keys
  BY <1>1
<1>3. k = w.key => found = IF k \in DOMAIN x.txn.staged THEN x.txn.staged[k].values
                           ELSE store[k].values
  BY DEF GetEntry
<1>4. k \in DOMAIN x.txn.staged =>
         \/ p \in x.txn.deleted
         \/ k \in x.txn.unaware /\ ~(v \in old <=> v \in x.txn.staged[k].values)
         \/ /\ p \in x.txn.adds => v \in x.txn.staged[k].values
            /\ v \in x.txn.staged[k].values /\ v \notin old => p \in x.txn.adds
            /\ p \in x.txn.removes => v \notin x.txn.staged[k].values
            /\ v \in old /\ v \notin x.txn.staged[k].values => p \in x.txn.removes
  BY DEF Moves
<1>5. k \notin DOMAIN x.txn.staged =>
         /\ k = w.key /\ old = store[k].values
         /\ p \notin x.txn.adds /\ p \notin x.txn.removes
  <2> SUFFICES ASSUME k \notin DOMAIN x.txn.staged
               PROVE  k = w.key /\ old = store[k].values /\ p \notin x.txn.adds \cup x.txn.removes
    OBVIOUS
  <2>1. k = w.key /\ u.txn.based[k] = store[k].version
    BY <1>1
  <2>2. old = store[k].values
    BY <2>1 DEF Had
  <2>3. p[2] = k
    OBVIOUS
  <2> QED
    BY <2>1, <2>2, <2>3
<1>6. \A s \in SUBSET Values : p \in Pairs(w.key, s) <=> v \in s /\ k = w.key
  BY <1>1, <1>2, PairsOf
<1>7. \/ /\ u.txn.staged[w.key].values = w.values /\ w.values \in SUBSET Values
         /\ u.txn.deleted = x.txn.deleted
         /\ IF b THEN /\ u.txn.adds = (x.txn.adds \ Pairs(w.key, found \ w.values))
                                      \cup Pairs(w.key, w.values \ found)
                      /\ u.txn.removes = (x.txn.removes \ Pairs(w.key, w.values \ found))
                                         \cup Pairs(w.key, found \ w.values)
            ELSE u.txn.adds = x.txn.adds /\ u.txn.removes = x.txn.removes
      \/ /\ u.txn.staged[w.key].values = {}
         /\ u.txn.deleted = x.txn.deleted \cup (IF b THEN Pairs(w.key, found) ELSE {})
         /\ u.txn.adds = x.txn.adds /\ u.txn.removes = x.txn.removes
  BY <1>0 DEF Wrote
<1> HIDE DEF found, p
<1>8. CASE b
  <2>1. \/ /\ u.txn.staged[w.key].values = w.values
           /\ p \in u.txn.deleted <=> p \in x.txn.deleted
           /\ p \in u.txn.adds <=> \/ p \in x.txn.adds /\ ~(k = w.key /\ v \in found /\ v \notin w.values)
                                   \/ k = w.key /\ v \in w.values /\ v \notin found
           /\ p \in u.txn.removes <=> \/ p \in x.txn.removes /\ ~(k = w.key /\ v \in w.values /\ v \notin found)
                                      \/ k = w.key /\ v \in found /\ v \notin w.values
        \/ /\ u.txn.staged[w.key].values = {}
           /\ p \in u.txn.deleted <=> p \in x.txn.deleted \/ (k = w.key /\ v \in found)
           /\ p \in u.txn.adds <=> p \in x.txn.adds
           /\ p \in u.txn.removes <=> p \in x.txn.removes
    <3>1. CASE u.txn.staged[w.key].values = w.values /\ w.values \in SUBSET Values
               /\ u.txn.deleted = x.txn.deleted
               /\ u.txn.adds = (x.txn.adds \ Pairs(w.key, found \ w.values))
                               \cup Pairs(w.key, w.values \ found)
               /\ u.txn.removes = (x.txn.removes \ Pairs(w.key, w.values \ found))
                                  \cup Pairs(w.key, found \ w.values)
      <4>1. found \ w.values \in SUBSET Values /\ w.values \ found \in SUBSET Values
        BY <1>1, <3>1
      <4>2. /\ p \in Pairs(w.key, found \ w.values) <=> v \in found \ w.values /\ k = w.key
            /\ p \in Pairs(w.key, w.values \ found) <=> v \in w.values \ found /\ k = w.key
        BY <1>6, <4>1
      <4> QED
        BY <3>1, <4>2
    <3>2. CASE u.txn.staged[w.key].values = {}
               /\ u.txn.deleted = x.txn.deleted \cup Pairs(w.key, found)
               /\ u.txn.adds = x.txn.adds /\ u.txn.removes = x.txn.removes
      <4>1. p \in Pairs(w.key, found) <=> v \in found /\ k = w.key
        BY <1>1, <1>6
      <4> QED
        BY <3>2, <4>1
    <3> QED
      BY <1>7, <1>8, <3>1, <3>2
  <2>2. u.txn.unaware = x.txn.unaware
    BY <1>1, <1>8
  <2>3. CASE k # w.key
    <3>1. k \in DOMAIN x.txn.staged /\ u.txn.staged[k] = x.txn.staged[k]
      BY <1>1, <1>5, <2>3
    <3>2. /\ p \in u.txn.deleted <=> p \in x.txn.deleted
          /\ p \in u.txn.adds <=> p \in x.txn.adds
          /\ p \in u.txn.removes <=> p \in x.txn.removes
      BY <2>1, <2>3
    <3> QED
      BY <1>4, <2>2, <3>1, <3>2 DEF p
  <2>4. CASE k = w.key
    <3>1. CASE k \in DOMAIN x.txn.staged
      <4> DEFINE s == x.txn.staged[k].values
                 n == u.txn.staged[k].values
      <4>1. found = s
        BY <1>3, <2>4, <3>1
      <4>2. \/ p \in x.txn.deleted
            \/ k \in x.txn.unaware /\ ~(v \in old <=> v \in s)
            \/ /\ p \in x.txn.adds => v \in s
               /\ v \in s /\ v \notin old => p \in x.txn.adds
               /\ p \in x.txn.removes => v \notin s
               /\ v \in old /\ v \notin s => p \in x.txn.removes
        BY <1>4, <3>1
      <4>3. \/ /\ p \in u.txn.deleted <=> p \in x.txn.deleted
               /\ p \in u.txn.adds <=> \/ p \in x.txn.adds /\ ~(v \in s /\ v \notin n)
                                       \/ v \in n /\ v \notin s
               /\ p \in u.txn.removes <=> \/ p \in x.txn.removes /\ ~(v \in n /\ v \notin s)
                                          \/ v \in s /\ v \notin n
            \/ /\ v \notin n
               /\ p \in u.txn.deleted <=> p \in x.txn.deleted \/ v \in s
               /\ p \in u.txn.adds <=> p \in x.txn.adds
               /\ p \in u.txn.removes <=> p \in x.txn.removes
        BY <2>1, <2>4, <4>1
      <4> HIDE DEF s, n
      <4>4. \/ p \in u.txn.deleted
            \/ k \in u.txn.unaware /\ ~(v \in old <=> v \in n)
            \/ /\ p \in u.txn.adds => v \in n
               /\ v \in n /\ v \notin old => p \in u.txn.adds
               /\ p \in u.txn.removes => v \notin n
               /\ v \in old /\ v \notin n => p \in u.txn.removes
        BY <2>2, <4>2, <4>3
      <4> QED
        BY <4>4 DEF p, n
    <3>2. CASE k \notin DOMAIN x.txn.staged
      BY <1>3, <1>5, <2>1, <2>2, <2>4, <3>2 DEF p
    <3> QED
      BY <3>1, <3>2
  <2> QED
    BY <2>3, <2>4
<1>9. CASE ~b
  <2>1. p \notin u.txn.adds /\ p \notin u.txn.removes /\ u.txn.deleted = x.txn.deleted
    BY <1>7, <1>9
  <2>2. p \notin x.txn.adds /\ p \notin x.txn.removes
    BY <1>9
  <2>3. CASE k # w.key
    <3>1. k \in DOMAIN x.txn.staged /\ u.txn.staged[k] = x.txn.staged[k]
          /\ (k \in u.txn.unaware <=> k \in x.txn.unaware)
      BY <1>1, <1>9, <2>3
    <3> QED
      BY <1>4, <2>1, <2>2, <3>1 DEF p
  <2>4. CASE k = w.key
    <3>1. k \in u.txn.unaware
      BY <1>1, <1>9, <2>4
    <3> QED
      BY <2>1, <3>1 DEF p
  <2> QED
    BY <2>3, <2>4
<1> QED
  BY <1>8, <1>9

LEMMA GoodSave ==
  ASSUME TypeInv, TimeInv, Excused = Causes, NEW t \in Threads, NEW x, Good(t, x), NEW w \in Writes
  PROVE  Good(t, Save(x, w, t \in known))
<1>1. x \in Saving /\ store \in [Keys -> Records]
  BY DEF Good, TypeInv
<1>2. PICK u : u = Save(x, w, t \in known)
  OBVIOUS
<1>3. CASE u = x
  BY <1>2, <1>3
<1>4. ASSUME NEW b \in {TRUE, FALSE}, t \in known <=> b, Put(u, x, w, b) \/ Deleted(u, x, w, b)
      PROVE  Good(t, u)
  <2> DEFINE found == GetEntry(x, w.key).values
  <2>0. Wrote(u, x, w, b, found)
    BY <1>1, <1>4, Written
  <2>1. /\ u \in Saving /\ w.key \in Keys
        /\ u.txn.timestamp = x.txn.timestamp /\ u.txn.writes = x.txn.writes
        /\ DOMAIN u.txn.staged = DOMAIN x.txn.staged \cup {w.key}
        /\ DOMAIN u.txn.based = DOMAIN x.txn.staged \cup {w.key}
        /\ u.txn.staged[w.key].version = x.txn.timestamp
        /\ \A j \in DOMAIN x.txn.staged : j # w.key => u.txn.staged[j] = x.txn.staged[j]
        /\ \A j \in DOMAIN x.txn.staged : u.txn.based[j] = x.txn.based[j]
        /\ w.key \notin DOMAIN x.txn.staged => u.txn.based[w.key] = store[w.key].version
        /\ \/ /\ u.index = x.index /\ u.astray = x.astray
              /\ IF b THEN /\ u.txn.adds = (x.txn.adds \ Pairs(w.key, found \ w.values))
                                           \cup Pairs(w.key, w.values \ found)
                           /\ u.txn.removes = (x.txn.removes \ Pairs(w.key, w.values \ found))
                                              \cup Pairs(w.key, found \ w.values)
                 ELSE u.txn.adds = x.txn.adds /\ u.txn.removes = x.txn.removes
           \/ /\ u.index = x.index \ (IF b THEN Pairs(w.key, found) ELSE {})
              /\ u.astray = x.astray \cup Touched("delete", IF b THEN Pairs(w.key, found) ELSE {})
              /\ u.txn.adds = x.txn.adds /\ u.txn.removes = x.txn.removes
    BY <2>0 DEF Wrote
  <2>2. DOMAIN x.txn.based = DOMAIN x.txn.staged /\ DOMAIN x.txn.staged \subseteq Keys
    BY <1>1, SavingFields
  <2>3. \A k \in DOMAIN u.txn.staged : u.txn.staged[k].version = u.txn.timestamp
    BY <2>1 DEF Good
  <2>4. \A k \in DOMAIN u.txn.based :
           /\ u.txn.based[k] <= time
           /\ \A s \in Threads : Open(s) => u.txn.based[k] # txn[s].timestamp
    <3>1. /\ store[w.key].version <= time
          /\ \A s \in Threads : Open(s) => store[w.key].version # txn[s].timestamp
      BY <2>1 DEF TimeInv
    <3>2. \A k \in DOMAIN x.txn.staged :
             /\ x.txn.based[k] <= time
             /\ \A s \in Threads : Open(s) => x.txn.based[k] # txn[s].timestamp
      BY <2>2 DEF Good
    <3>3. \A k \in DOMAIN u.txn.based : \/ k \in DOMAIN x.txn.staged /\ u.txn.based[k] = x.txn.based[k]
                                        \/ u.txn.based[k] = store[w.key].version
      BY <2>1
    <3> QED
      BY <3>1, <3>2, <3>3
  <2>5. u.index \subseteq index /\ astray \subseteq u.astray /\ index \ u.index \subseteq u.astray
    <3>1. x.index \subseteq index /\ astray \subseteq x.astray /\ index \ x.index \subseteq x.astray
      BY DEF Good
    <3>2. \A pairs : Touched("delete", pairs) = pairs
      BY DEF Touched, Causes
    <3> HIDE DEF found
    <3> QED
      BY <2>1, <3>1, <3>2
  <2>6. \A p \in u.txn.adds \cup u.txn.removes : p[2] \in DOMAIN u.txn.staged
    <3>1. \A s : \A p \in Pairs(w.key, s) : p[2] = w.key
      BY DEF Pairs
    <3>2. \A p \in x.txn.adds \cup x.txn.removes : p[2] \in DOMAIN x.txn.staged
      BY DEF Good
    <3> HIDE DEF found
    <3> QED
      BY <2>1, <3>1, <3>2
  <2>7. t \notin known => u.txn.adds = {} /\ u.txn.removes = {}
    <3> SUFFICES ASSUME t \notin known PROVE u.txn.adds = {} /\ u.txn.removes = {}
      OBVIOUS
    <3>1. ~b /\ x.txn.adds = {} /\ x.txn.removes = {}
      BY <1>4 DEF Good
    <3> QED
      BY <2>1, <3>1
  <2>8. ASSUME NEW k \in DOMAIN u.txn.staged, NEW old \in SUBSET Values, Had(k, u.txn.based[k], old)
        PROVE  Moves(u.txn, k, old)
    <3>1. k \in DOMAIN x.txn.staged => Moves(x.txn, k, old)
      BY <2>1, <2>8 DEF Good
    <3>2. \A p \in x.txn.adds \cup x.txn.removes : p[2] \in DOMAIN x.txn.staged
      BY DEF Good
    <3>3. ~b => x.txn.adds = {} /\ x.txn.removes = {}
      BY <1>4 DEF Good
    <3>4. store[k].version = 0 => store[k].values = {}
      BY <2>1, <2>2 DEF TimeInv
    <3>5. b \in BOOLEAN
      OBVIOUS
    <3> QED
      BY <1>1, <1>4, <2>8, <3>1, <3>2, <3>3, <3>4, <3>5, WriteMoves, ZenonT(60)
  <2> HIDE DEF found
  <2> QED
    BY <2>1, <2>3, <2>4, <2>5, <2>6, <2>7, <2>8 DEF Good
<1> QED
  BY <1>1, <1>2, <1>3, <1>4, SaveBy

LEMMA GoodState ==
  ASSUME TypeInv, TimeInv, NEW t \in Threads, TxnInv(t)
  PROVE  Good(t, State(t))
<1>1. /\ State(t) \in Saving /\ State(t).txn = txn[t] /\ State(t).index = index
      /\ State(t).astray = astray
  BY StateIn DEF State
<1> QED
  BY <1>1 DEF Good, TimeInv, TxnInv

LEMMA GoodAgain ==
  ASSUME TypeInv, TimeInv, Excused = Causes, NEW t \in Threads
  PROVE  Good(t, SavedAgain(t))
<1> DEFINE y == Reset(txn[t].timestamp, txn[t].writes)
           x == [txn |-> y, index |-> index, astray |-> astray]
           X == {z \in Saving : Good(t, z)}
<1>1. txn[t].timestamp \in 0 .. MaxTime /\ txn[t].writes \in Seq(Writes)
  BY DEF TypeInv, Txn
<1>2. /\ TxnOK(y) /\ y.timestamp = txn[t].timestamp /\ y.writes = txn[t].writes
      /\ DOMAIN y.staged = {} /\ DOMAIN y.based = {} /\ y.adds = {} /\ y.removes = {}
  BY <1>1, ResetIs
<1> HIDE DEF y
<1>3. x \in Saving /\ x.txn = y /\ x.index = index /\ x.astray = astray
  BY <1>2, SavingTxn DEF TypeInv
<1> HIDE DEF x
<1>4. Good(t, x)
  BY <1>2, <1>3 DEF Good
<1>5. x \in X
  BY <1>3, <1>4
<1>6. \A z \in X, w \in Writes : Save(z, w, t \in known) \in X
  <2> SUFFICES ASSUME NEW z \in X, NEW w \in Writes PROVE Save(z, w, t \in known) \in X
    OBVIOUS
  <2>1. Good(t, z)
    OBVIOUS
  <2>2. Good(t, Save(z, w, t \in known))
    BY <2>1, GoodSave
  <2>3. Save(z, w, t \in known) \in Saving
    BY <2>2 DEF Good
  <2> QED
    BY <2>2, <2>3
<1>7. [txn |-> [NoTxn EXCEPT !.timestamp = txn[t].timestamp, !.writes = txn[t].writes],
       index |-> index, astray |-> astray] \in X
  BY <1>5 DEF x, y, Reset
<1> HIDE DEF X
<1>8. SavedAgain(t) \in X
  BY <1>1, <1>6, <1>7, SavedAgainIn
<1> QED
  BY <1>8 DEF X

\* A step that only saves writes of thread t.
LEMMA Resaved ==
  ASSUME IndexInv, NEW t \in Threads, Open(t), NEW x, Good(t, x),
         NEW y, y \in Txn, y.timestamp = x.txn.timestamp, y.writes # <<>>, y.staged = x.txn.staged,
         y.based = x.txn.based, y.adds = x.txn.adds, y.removes = x.txn.removes,
         y.unaware = x.txn.unaware, y.deleted = x.txn.deleted,
         txn' = [txn EXCEPT ![t] = y], UNCHANGED <<store, known, time>>
  PROVE  TimeInv' /\ \A u \in Threads : TxnInv(u)'
<1>1. /\ txn'[t] = y /\ \A u \in Threads \ {t} : txn'[u] = txn[u]
      /\ store' = store /\ known' = known /\ time' = time
  BY DEF IndexInv, TypeInv
<1>2. y.timestamp = txn[t].timestamp
  BY DEF Good
<1>3. \A u \in Threads : txn'[u].timestamp = txn[u].timestamp
  BY <1>1, <1>2
<1>4. \A k \in DOMAIN y.based : /\ y.based[k] <= time
                                /\ \A u \in Threads : Open(u) => y.based[k] # txn[u].timestamp
  BY DEF Good
<1>5. TimeInv'
  <2>0. \A k \in Keys : store'[k].version = 0 => store'[k].values = {}
    BY <1>1 DEF IndexInv, TimeInv
  <2>1. \A k \in Keys : store'[k].version <= time'
    BY <1>1 DEF IndexInv, TimeInv
  <2>2. ASSUME NEW u \in Threads
        PROVE  txn'[u].timestamp <= time' /\ \A k \in DOMAIN txn'[u].based : txn'[u].based[k] <= time'
    BY <1>1, <1>3, <1>4 DEF IndexInv, TimeInv
  <2>3. ASSUME NEW u \in Threads, txn'[u].timestamp > 0
        PROVE  /\ \A k \in Keys : store'[k].version # txn'[u].timestamp
               /\ \A s \in Threads \ {u} : txn'[s].timestamp # txn'[u].timestamp
               /\ \A s \in Threads : \A k \in DOMAIN txn'[s].based : txn'[s].based[k] # txn'[u].timestamp
    <3>1. Open(u)
      BY <1>3, <2>3 DEF Open
    <3>2. \A k \in Keys : store'[k].version # txn'[u].timestamp
      BY <1>1, <1>3, <3>1 DEF IndexInv, TimeInv
    <3>3. \A s \in Threads \ {u} : txn'[s].timestamp # txn'[u].timestamp
      BY <1>3, <3>1 DEF IndexInv, TimeInv
    <3>4. ASSUME NEW s \in Threads, NEW k \in DOMAIN txn'[s].based
          PROVE  txn'[s].based[k] # txn'[u].timestamp
      <4>1. CASE s = t
        BY <1>1, <1>3, <1>4, <3>1, <4>1
      <4>2. CASE s # t
        BY <1>1, <1>3, <3>1, <4>2 DEF IndexInv, TimeInv
      <4> QED
        BY <4>1, <4>2
    <3> QED
      BY <3>2, <3>3, <3>4
  <2> QED
    BY <2>0, <2>1, <2>2, <2>3 DEF TimeInv, Open
<1>6. ASSUME NEW u \in Threads PROVE TxnInv(u)'
  <2>1. CASE u = t
    <3>1. txn'[u].timestamp > 0
      BY <1>3, <2>1 DEF Open
    <3>2. /\ \A p \in y.adds \cup y.removes : p[2] \in DOMAIN y.staged
          /\ t \notin known => y.adds = {} /\ y.removes = {}
          /\ \A k \in DOMAIN y.staged : y.staged[k].version = y.timestamp
      BY DEF Good
    <3>3. ASSUME NEW k \in DOMAIN y.staged, NEW old \in SUBSET Values, Had(k, y.based[k], old)
          PROVE  Moves(y, k, old)
      <4>1. Moves(x.txn, k, old)
        BY <3>3 DEF Good
      <4> QED
        BY <4>1 DEF Moves
    <3>4. \A k \in DOMAIN txn'[u].staged, old \in SUBSET Values :
             (Had(k, txn[u].based[k], old) => Moves(txn[u], k, old))'
      BY <1>1, <2>1, <3>3 DEF Had, Moves
    <3>5. txn'[u] = y
      BY <1>1, <2>1
    <3> QED
      BY <1>1, <2>1, <3>1, <3>2, <3>4, <3>5 DEF TxnInv, Open
  <2>2. CASE u # t
    <3>1. TxnInv(u)
      BY DEF IndexInv
    <3> QED
      BY <1>1, <2>2, <3>1 DEF TxnInv, Open, Moves, Had
  <2> QED
    BY <2>1, <2>2
<1> QED
  BY <1>5, <1>6

-----------------------------------------------------------------------------
(***************************************************************************)
(* The steps, on the timestamps and the transactions.                      *)
(***************************************************************************)
LEMMA TxnFields ==
  ASSUME TypeInv, NEW u \in Threads
  PROVE  /\ txn[u].timestamp \in Nat /\ DOMAIN txn[u].based = DOMAIN txn[u].staged
         /\ DOMAIN txn[u].staged \subseteq Keys
         /\ \A k \in DOMAIN txn[u].based : txn[u].based[k] \in Nat
         /\ \A k \in DOMAIN txn[u].staged : txn[u].staged[k] \in Records
         /\ txn[u].adds \subseteq Pair /\ txn[u].removes \subseteq Pair
<1>1. PICK x \in Saving : x = State(u)
  BY StateIn
<1>2. /\ x.txn.timestamp \in 0 .. MaxTime /\ DOMAIN x.txn.based = DOMAIN x.txn.staged
      /\ DOMAIN x.txn.staged \subseteq Keys /\ x.txn.staged \in [DOMAIN x.txn.staged -> Records]
      /\ x.txn.based \in [DOMAIN x.txn.staged -> 0 .. MaxTime]
      /\ x.txn.adds \subseteq Pair /\ x.txn.removes \subseteq Pair
  BY SavingFields
<1>3. x.txn = txn[u]
  BY <1>1 DEF State
<1>4. \A n \in 0 .. MaxTime : n \in Nat
  BY Constants
<1> QED
  BY <1>2, <1>3, <1>4

\* A transaction that a step leaves, with the records it wrote over, with others, or
\* with none.
LEMMA LeftAlone ==
  ASSUME NEW u \in Threads, TxnInv(u), txn'[u] = txn[u], u \in known => u \in known',
         \A k \in DOMAIN txn[u].staged : \/ store'[k] = store[k]
                                         \/ store'[k].version # txn[u].based[k]
                                         \/ store'[k].version = 0 /\ store'[k].values = {}
  PROVE  TxnInv(u)'
<1>1. ASSUME NEW k \in DOMAIN txn[u].staged, NEW old \in SUBSET Values, Had(k, txn[u].based[k], old)'
      PROVE  Moves(txn[u], k, old)
  <2>1. \/ txn'[u].based[k] = store'[k].version /\ old = store'[k].values
        \/ txn'[u].based[k] = 0 /\ old = {}
    BY <1>1 DEF Had
  <2>2. Had(k, txn[u].based[k], old)
    <3>1. CASE txn[u].based[k] = 0 /\ old = {}
      BY <3>1 DEF Had
    <3>2. CASE txn[u].based[k] = store'[k].version /\ old = store'[k].values
      <4>1. \/ store'[k] = store[k]
            \/ store'[k].version = 0 /\ store'[k].values = {}
        BY <3>2
      <4> QED
        BY <3>2, <4>1 DEF Had
    <3> QED
      BY <2>1, <3>1, <3>2
  <2> QED
    BY <2>2 DEF TxnInv
<1>2. /\ ~Open(u) => txn[u].writes = <<>>
      /\ txn[u].writes = <<>> => DOMAIN txn[u].staged = {}
      /\ \A p \in txn[u].adds \cup txn[u].removes : p[2] \in DOMAIN txn[u].staged
      /\ u \notin known' => txn[u].adds = {} /\ txn[u].removes = {}
      /\ \A k \in DOMAIN txn[u].staged : txn[u].staged[k].version = txn[u].timestamp
  BY DEF TxnInv
<1>3. \A k \in DOMAIN txn'[u].staged, old \in SUBSET Values :
         Had(k, txn[u].based[k], old)' => Moves(txn'[u], k, old)
  <2> SUFFICES ASSUME NEW k \in DOMAIN txn[u].staged, NEW old \in SUBSET Values,
                      Had(k, txn[u].based[k], old)'
               PROVE  Moves(txn[u], k, old)
    OBVIOUS
  <2> QED
    BY <1>1
<1> QED
  BY <1>2, <1>3 DEF TxnInv, Open, Moves, Had

LEMMA NoTxnInv ==
  ASSUME NEW u \in Threads, txn'[u] = NoTxn
  PROVE  TxnInv(u)'
  BY NoTxnOK DEF TxnInv, Open

\* A step that ends the transaction of thread t, and stores records with its
\* timestamp.
LEMMA Ended ==
  ASSUME IndexInv, NEW t \in Threads, Open(t), txn' = [txn EXCEPT ![t] = NoTxn],
         \A k \in Keys : store'[k] = store[k] \/ store'[k].version = txn[t].timestamp,
         UNCHANGED <<known, time>>
  PROVE  TimeInv' /\ \A u \in Threads : TxnInv(u)'
<1>1. /\ txn'[t] = NoTxn /\ \A u \in Threads \ {t} : txn'[u] = txn[u]
      /\ known' = known /\ time' = time
  BY DEF IndexInv, TypeInv
<1>2. ~(NoTxn.timestamp > 0) /\ NoTxn.timestamp = 0 /\ DOMAIN NoTxn.based = {}
  BY NoTxnOK
<1>3. time \in Nat /\ txn[t].timestamp <= time
  BY Constants DEF IndexInv, TypeInv, TimeInv
<1>0. \A k \in Keys : store'[k].version = 0 => store'[k].values = {}
  <2>1. txn[t].timestamp # 0
    BY Constants DEF Open
  <2> QED
    BY <2>1 DEF IndexInv, TimeInv
<1>4. \A k \in Keys : store'[k].version <= time'
  BY <1>1, <1>3 DEF IndexInv, TimeInv
<1>5. ASSUME NEW u \in Threads
      PROVE  txn'[u].timestamp <= time' /\ \A k \in DOMAIN txn'[u].based : txn'[u].based[k] <= time'
  BY <1>1, <1>2, <1>3 DEF IndexInv, TimeInv
<1>6. ASSUME NEW u \in Threads, txn'[u].timestamp > 0
      PROVE  /\ \A k \in Keys : store'[k].version # txn'[u].timestamp
             /\ \A s \in Threads \ {u} : txn'[s].timestamp # txn'[u].timestamp
             /\ \A s \in Threads : \A k \in DOMAIN txn'[s].based : txn'[s].based[k] # txn'[u].timestamp
  <2>1. u # t
    BY <1>1, <1>2, <1>6
  <2>2. txn'[u] = txn[u] /\ Open(u)
    BY <1>1, <1>6, <2>1 DEF Open
  <2>3. \A s \in Threads \ {u} : txn[s].timestamp # txn[u].timestamp
    BY <2>2 DEF IndexInv, TimeInv
  <2>4. \A s \in Threads \ {u} : txn'[s].timestamp # txn'[u].timestamp
    BY <1>1, <1>2, <1>6, <2>2, <2>3
  <2>5. \A k \in Keys : store'[k].version # txn'[u].timestamp
    BY <2>1, <2>2, <2>3 DEF IndexInv, TimeInv
  <2>6. \A s \in Threads : \A k \in DOMAIN txn'[s].based : txn'[s].based[k] # txn'[u].timestamp
    BY <1>1, <1>2, <2>2 DEF IndexInv, TimeInv
  <2> QED
    BY <2>4, <2>5, <2>6
<1>7. TimeInv'
  BY <1>0, <1>4, <1>5, <1>6 DEF TimeInv, Open
<1>8. ASSUME NEW u \in Threads PROVE TxnInv(u)'
  <2>1. CASE u = t
    BY <1>1, <2>1, NoTxnInv
  <2>2. CASE u # t
    <3>1. TxnInv(u) /\ DOMAIN txn[u].staged = DOMAIN txn[u].based /\ DOMAIN txn[u].staged \subseteq Keys
      BY TxnFields DEF IndexInv
    <3>2. \A k \in DOMAIN txn[u].based : txn[u].based[k] # txn[t].timestamp
      BY DEF IndexInv, TimeInv
    <3>3. \A k \in DOMAIN txn[u].staged : store'[k] = store[k] \/ store'[k].version # txn[u].based[k]
      BY <3>1, <3>2
    <3> QED
      BY <1>1, <2>2, <3>1, <3>3, LeftAlone
  <2> QED
    BY <2>1, <2>2
<1> QED
  BY <1>7, <1>8

LEMMA TxnStep ==
  ASSUME IndexInv, Excused = Causes, [Next]_vars
  PROVE  TimeInv' /\ \A u \in Threads : TxnInv(u)'
<1> USE DEF IndexInv
<1>1. ASSUME NEW t \in Threads, Begin(t) PROVE TimeInv' /\ \A u \in Threads : TxnInv(u)'
  <2>1. /\ time \in Nat /\ time' = time + 1 /\ store' = store /\ known' = known
        /\ txn'[t] = [txn[t] EXCEPT !.timestamp = time + 1]
        /\ \A u \in Threads \ {t} : txn'[u] = txn[u]
    BY <1>1, Constants DEF Begin, TypeInv
  <2>2. /\ txn'[t].timestamp = time + 1 /\ txn'[t].writes = txn[t].writes /\ txn'[t].staged = txn[t].staged
        /\ txn'[t].based = txn[t].based /\ txn'[t].adds = txn[t].adds /\ txn'[t].removes = txn[t].removes
        /\ txn'[t].unaware = txn[t].unaware /\ txn'[t].deleted = txn[t].deleted
    BY <2>1 DEF TypeInv, Txn
  <2>3. ~Open(t) /\ txn[t].writes = <<>> /\ DOMAIN txn[t].staged = {}
    BY <1>1 DEF Begin, TxnInv
  <2>4. /\ \A u \in Threads : \A k \in DOMAIN txn[u].based : txn[u].based[k] \in Nat /\ txn[u].based[k] <= time
        /\ \A u \in Threads : txn[u].timestamp \in Nat /\ txn[u].timestamp <= time
        /\ \A k \in Keys : store[k].version \in Nat /\ store[k].version <= time
    <3>1. \A k \in Keys : store[k].version \in Nat
      BY Constants DEF TypeInv, Records
    <3>2. ASSUME NEW u \in Threads
          PROVE  txn[u].timestamp \in Nat /\ \A k \in DOMAIN txn[u].based : txn[u].based[k] \in Nat
      BY TxnFields
    <3> QED
      BY <3>1, <3>2 DEF TimeInv
  <2>5. \A u \in Threads : txn'[u].based = txn[u].based
    BY <2>1, <2>2
  <2>6. TimeInv'
    <3>1. ASSUME NEW u \in Threads, txn'[u].timestamp > 0
          PROVE  /\ \A k \in Keys : store'[k].version # txn'[u].timestamp
                 /\ \A s \in Threads \ {u} : txn'[s].timestamp # txn'[u].timestamp
                 /\ \A s \in Threads : \A k \in DOMAIN txn'[s].based : txn'[s].based[k] # txn'[u].timestamp
      <4>1. CASE u = t
        <5>1. txn'[u].timestamp = time + 1
          BY <2>2, <4>1
        <5>2. \A n \in Nat : n <= time => n # time + 1
          BY <2>1
        <5>3. \A k \in Keys : store'[k].version # time + 1
          BY <2>1, <2>4, <5>2
        <5>4. \A s \in Threads \ {u} : txn'[s].timestamp # time + 1
          BY <2>1, <2>4, <4>1, <5>2
        <5>5. \A s \in Threads : \A k \in DOMAIN txn'[s].based : txn'[s].based[k] # time + 1
          BY <2>4, <2>5, <5>2
        <5> QED
          BY <5>1, <5>3, <5>4, <5>5
      <4>2. CASE u # t
        <5>1. Open(u) /\ txn'[u] = txn[u]
          BY <2>1, <3>1, <4>2 DEF Open
        <5>2. \A s \in Threads \ {u} : txn'[s].timestamp # txn'[u].timestamp
          <6>1. \A s \in Threads \ {u} : txn[s].timestamp # txn[u].timestamp
            BY <5>1 DEF TimeInv
          <6>2. txn[u].timestamp # time + 1
            BY <2>1, <2>4
          <6> QED
            BY <2>1, <2>2, <5>1, <6>1, <6>2
        <5> QED
          BY <2>1, <2>5, <5>1, <5>2 DEF TimeInv
      <4> QED
        BY <4>1, <4>2
    <3>2. ASSUME NEW u \in Threads
          PROVE  txn'[u].timestamp <= time' /\ \A k \in DOMAIN txn'[u].based : txn'[u].based[k] <= time'
      <4>1. txn'[u].timestamp <= time'
        <5>1. CASE u = t
          <6>1. txn'[u].timestamp = time + 1
            BY <2>2, <5>1
          <6>2. time + 1 <= time + 1 /\ time' = time + 1
            BY <2>1
          <6> QED
            BY <6>1, <6>2
        <5>2. CASE u # t
          BY <2>1, <2>4, <5>2
        <5> QED
          BY <5>1, <5>2
      <4>2. \A k \in DOMAIN txn'[u].based : txn'[u].based[k] <= time'
        BY <2>1, <2>4, <2>5
      <4> QED
        BY <4>1, <4>2
    <3>3. \A k \in Keys : store'[k].version <= time'
      BY <2>1, <2>4
    <3>4. \A k \in Keys : store'[k].version = 0 => store'[k].values = {}
      BY <2>1 DEF TimeInv
    <3> QED
      BY <3>1, <3>2, <3>3, <3>4 DEF TimeInv, Open
  <2>7. ASSUME NEW u \in Threads PROVE TxnInv(u)'
    <3>1. CASE u = t
      <4>1. txn'[t].adds \cup txn'[t].removes = {}
        BY <2>2, <2>3 DEF TxnInv
      <4> QED
        BY <2>1, <2>2, <2>3, <3>1, <4>1 DEF TxnInv, Open
    <3>2. CASE u # t
      BY <2>1, <3>2, LeftAlone
    <3> QED
      BY <3>1, <3>2
  <2> QED
    BY <2>6, <2>7
<1>2. ASSUME NEW t \in Threads, Write(t) PROVE TimeInv' /\ \A u \in Threads : TxnInv(u)'
  <2>1. PICK w \in Writes :
          LET saved == Save(State(t), w, t \in known)
          IN /\ txn' = [txn EXCEPT ![t] = [saved.txn EXCEPT !.writes = Append(@, w)]]
             /\ index' = saved.index /\ astray' = saved.astray
    BY <1>2 DEF Write
  <2>2. PICK x : x = Save(State(t), w, t \in known)
    OBVIOUS
  <2>3. Good(t, x)
    BY <2>2, GoodState, GoodSave
  <2>4. PICK y : y = [x.txn EXCEPT !.writes = Append(@, w)]
    OBVIOUS
  <2>5. TxnOK(x.txn)
    BY <2>3, SavingTxn DEF Good
  <2>6. /\ TxnOK(y) /\ y.writes = Append(x.txn.writes, w) /\ y.timestamp = x.txn.timestamp
        /\ y.staged = x.txn.staged /\ y.based = x.txn.based /\ y.adds = x.txn.adds
        /\ y.removes = x.txn.removes /\ y.unaware = x.txn.unaware /\ y.deleted = x.txn.deleted
    BY <2>4, <2>5, AppendOK
  <2>7. y.writes # <<>> /\ y \in Txn
    <3>1. x.txn.writes \in Seq(Writes)
      BY <2>5 DEF TxnOK, Txn
    <3>2. Append(x.txn.writes, w) # <<>>
      BY <3>1
    <3> QED
      BY <2>6, <3>2 DEF TxnOK
  <2>8. txn' = [txn EXCEPT ![t] = y]
    BY <2>1, <2>2, <2>4
  <2> QED
    BY <1>2, <2>3, <2>6, <2>7, <2>8, Resaved, ZenonT(60) DEF Write
<1>3. ASSUME NEW t \in Threads, Commit(t) PROVE TimeInv' /\ \A u \in Threads : TxnInv(u)'
  <2>1. \A k \in DOMAIN txn[t].staged : txn[t].staged[k].version = txn[t].timestamp
    BY DEF TxnInv
  <2>2. \A k \in Keys : store'[k] = IF k \in DOMAIN txn[t].staged THEN txn[t].staged[k] ELSE store[k]
    BY <1>3 DEF Commit, StoreAll
  <2>3. \A k \in Keys : store'[k] = store[k] \/ store'[k].version = txn[t].timestamp
    BY <2>1, <2>2
  <2> QED
    BY <1>3, <2>3, Ended DEF Commit
<1>4. ASSUME NEW t \in Threads, CommitRetries(t) PROVE TimeInv' /\ \A u \in Threads : TxnInv(u)'
  <2>1. PICK x : x = SavedAgain(t)
    OBVIOUS
  <2>2. Good(t, x)
    BY <2>1, GoodAgain
  <2>3. x.txn \in Txn
    BY <2>2, SavingTxn DEF Good, TxnOK
  <2>4. x.txn.writes # <<>>
    <3>1. DOMAIN txn[t].staged # {}
      BY <1>4 DEF CommitRetries, Conflicts
    <3>2. txn[t].writes # <<>>
      BY <3>1 DEF TxnInv
    <3> QED
      BY <2>2, <3>2 DEF Good
  <2>5. txn' = [txn EXCEPT ![t] = x.txn]
    BY <1>4, <2>1 DEF CommitRetries
  <2> QED
    BY <1>4, <2>2, <2>3, <2>4, <2>5, Resaved DEF CommitRetries
<1>5. ASSUME NEW t \in Threads, Abort(t) PROVE TimeInv' /\ \A u \in Threads : TxnInv(u)'
  <2>1. \A k \in Keys : store'[k] = store[k]
    BY <1>5 DEF Abort
  <2> QED
    BY <1>5, <2>1, Ended DEF Abort
<1>6. ASSUME NEW k \in Keys, Evict(k) PROVE TimeInv' /\ \A u \in Threads : TxnInv(u)'
  <2>1. txn' = txn /\ known' = known /\ time' = time /\ time \in Nat
    BY <1>6 DEF Evict, TypeInv
  <2>2. \A j \in Keys : store'[j] = store[j] \/ (store'[j].version = 0 /\ store'[j].values = {})
    BY <1>6, Constants DEF Evict, TypeInv
  <2>3. TimeInv'
    <3>1. \A j \in Keys : store'[j].version <= time'
      BY <2>1, <2>2 DEF TimeInv
    <3>2. \A j \in Keys : store'[j].version = 0 => store'[j].values = {}
      BY <2>2 DEF TimeInv
    <3>3. ASSUME NEW u \in Threads, txn[u].timestamp > 0
          PROVE  \A j \in Keys : store'[j].version # txn[u].timestamp
      <4>1. Open(u) /\ txn[u].timestamp # 0
        BY <3>3, TxnFields DEF Open
      <4> QED
        BY <2>2, <4>1 DEF TimeInv
    <3> QED
      BY <2>1, <3>1, <3>2, <3>3 DEF TimeInv, Open
  <2>4. ASSUME NEW u \in Threads PROVE TxnInv(u)'
    <3>1. DOMAIN txn[u].staged \subseteq Keys
      BY TxnFields
    <3>2. \A j \in DOMAIN txn[u].staged : \/ store'[j] = store[j]
                                          \/ store'[j].version = 0 /\ store'[j].values = {}
      BY <2>2, <3>1
    <3> QED
      BY <2>1, <3>2, LeftAlone
  <2> QED
    BY <2>3, <2>4
<1>7. ASSUME UNCHANGED <<store, txn, time>>, known \subseteq known'
      PROVE  TimeInv' /\ \A u \in Threads : TxnInv(u)'
  <2>1. TimeInv'
    BY <1>7 DEF TimeInv, Open
  <2>2. ASSUME NEW u \in Threads PROVE TxnInv(u)'
    BY <1>7, LeftAlone
  <2> QED
    BY <2>1, <2>2
<1>8. ASSUME NEW t \in Threads, LoadIndex(t) PROVE TimeInv' /\ \A u \in Threads : TxnInv(u)'
  BY <1>7, <1>8 DEF LoadIndex
<1>9. CASE DefineIndex
  BY <1>7, <1>9 DEF DefineIndex
<1>10. CASE Indexing
  BY <1>7, <1>10 DEF Indexing, StartScan, ScanRead, ScanPut, Finish
<1>11. CASE Restart
  <2>1. \A u \in Threads : txn'[u] = NoTxn
    BY <1>11 DEF Restart
  <2>2. \A u \in Threads : TxnInv(u)'
    BY <2>1, NoTxnInv
  <2>3. TimeInv'
    BY <1>11, <2>1, NoTxnOK, Constants DEF Restart, TimeInv, Open, TypeInv
  <2> QED
    BY <2>2, <2>3
<1>12. CASE UNCHANGED vars
  BY <1>7, <1>12 DEF vars
<1> QED
  BY <1>1, <1>2, <1>3, <1>4, <1>5, <1>6, <1>8, <1>9, <1>10, <1>11, <1>12 DEF Next, Request

-----------------------------------------------------------------------------
(***************************************************************************)
(* The steps, on the index and its building.                               *)
(***************************************************************************)
LEMMA PairOf ==
  /\ \A p \in Pair : p = <<p[1], p[2]>> /\ p[1] \in Values /\ p[2] \in Keys
  /\ \A v \in Values, k \in Keys : <<v, k>> \in Pair
  /\ \A k, values : \A p \in Pairs(k, values) : p[2] = k /\ p[1] \in values
  /\ \A v, k, values : <<v, k>> \in Pairs(k, values) <=> v \in values
  BY DEF Pair, Pairs

LEMMA EntriesAre ==
  ASSUME NEW p \in Pair
  PROVE  p \in Entries <=> p[1] \in store[p[2]].values
<1>1. p = <<p[1], p[2]>> /\ p[2] \in Keys
  BY PairOf
<1>2. ASSUME p[1] \in store[p[2]].values PROVE p \in Entries
  <2>1. p \in Pairs(p[2], store[p[2]].values)
    BY <1>1, <1>2, PairOf
  <2> QED
    BY <1>1, <2>1 DEF Entries
<1>3. ASSUME p \in Entries PROVE p[1] \in store[p[2]].values
  <2>1. PICK k \in Keys : p \in Pairs(k, store[k].values)
    BY <1>3 DEF Entries
  <2> QED
    BY <2>1, PairOf
<1> QED
  BY <1>2, <1>3

\* A step by which no entry that is not astray gets stale, and none goes missing.
LEMMA Kept ==
  ASSUME IndexInv, UNCHANGED <<descriptor, indexer>>, index' \subseteq Pair,
         descriptor.state = "none" => known' = {} /\ index' = {},
         \A p \in Pair : p \in index' \ astray' /\ (p \in index \ astray => p[1] \in store[p[2]].values)
                         => p[1] \in store'[p[2]].values,
         descriptor.state # "none" =>
            \A k \in Keys : \A v \in store'[k].values :
               /\ v \in store[k].values => (<<v, k>> \in index \cup astray => <<v, k>> \in index' \cup astray')
               /\ v \notin store[k].values => <<v, k>> \in index' \cup astray'
  PROVE  PhaseInv'
<1> USE DEF IndexInv
<1>1. /\ descriptor' = descriptor /\ indexer' = indexer
  OBVIOUS
<1>2. NoneStale'
  <2> SUFFICES ASSUME NEW p \in index' \ astray' PROVE p[1] \in store'[p[2]].values
    BY DEF NoneStale
  <2>1. p \in index \ astray => p[1] \in store[p[2]].values
    BY DEF PhaseInv, NoneStale
  <2> QED
    BY <2>1
<1>3. ASSUME NEW k \in Keys, descriptor.state # "none", Complete(k) PROVE Complete(k)'
  <2> SUFFICES ASSUME NEW v \in store'[k].values PROVE <<v, k>> \in index' \cup astray'
    BY DEF Complete, Pairs
  <2>1. v \in store[k].values => <<v, k>> \in index \cup astray
    BY <1>3, PairOf DEF Complete
  <2> QED
    BY <1>3, <2>1
<1>4. ASSUME indexer.at = "put"
      PROVE  Pairs(indexer.cursor, store'[indexer.cursor].values)
             \subseteq index' \cup indexer.pending \cup astray'
  <2>1. PICK c : c = indexer.cursor
    OBVIOUS
  <2>2. c \in Keys /\ descriptor.state # "none"
    BY <1>4, <2>1 DEF TypeInv, PhaseInv, Keys
  <2>3. ASSUME NEW v \in store'[c].values PROVE <<v, c>> \in index' \cup indexer.pending \cup astray'
    <3>1. v \in store[c].values => <<v, c>> \in index \cup indexer.pending \cup astray
      BY <1>4, <2>1, PairOf DEF PhaseInv
    <3> QED
      BY <2>2, <3>1
  <2> QED
    BY <2>1, <2>3 DEF Pairs
<1>5. descriptor'.state = "none" => known' = {} /\ index' = {} /\ indexer'.at = "none"
  BY <1>1 DEF PhaseInv
<1>6. descriptor'.state = "ready" => \A k \in Keys : Complete(k)'
  BY <1>1, <1>3 DEF PhaseInv
<1>7. \A k \in 1 .. descriptor'.lastIndexedKey : Complete(k)'
  <2> SUFFICES ASSUME NEW k \in 1 .. descriptor.lastIndexedKey PROVE Complete(k)'
    BY <1>1
  <2>1. k \in Keys /\ descriptor.lastIndexedKey # 0
    BY Constants DEF TypeInv, Keys
  <2> QED
    BY <1>3, <2>1 DEF PhaseInv
<1>8. ASSUME indexer.at \in {"scan", "put"}, NEW k \in 1 .. (indexer.cursor - 1) PROVE Complete(k)'
  <2>1. k \in Keys
    BY Constants DEF TypeInv, Keys
  <2>2. descriptor.state # "none"
    BY <1>8 DEF PhaseInv
  <2> QED
    BY <1>3, <1>8, <2>1, <2>2 DEF PhaseInv
<1>9. /\ descriptor'.lastIndexedKey # 0 => descriptor'.state = "building"
      /\ indexer'.at \in {"signal", "scan", "put"} => descriptor'.state = "building"
  BY <1>1 DEF PhaseInv
<1>10. indexer'.at = "put" => Pairs(indexer'.cursor, store'[indexer'.cursor].values)
                              \subseteq index' \cup indexer'.pending \cup astray'
  BY <1>1, <1>4
<1>11. indexer'.at \in {"scan", "put"} => \A k \in 1 .. (indexer'.cursor - 1) : Complete(k)'
  BY <1>1, <1>8
<1> QED
  BY ONLY <1>2, <1>5, <1>6, <1>7, <1>9, <1>10, <1>11 DEF PhaseInv

LEMMA CommitPhase ==
  ASSUME IndexInv, Excused = Causes, NEW t \in Threads, Commit(t), TypeInv'
  PROVE  PhaseInv'
<1> USE DEF IndexInv
<1> DEFINE y == txn[t]
           D == DOMAIN y.staged
<1>1. /\ ~Conflicts(y) /\ UNCHANGED <<known, descriptor, indexer>>
      /\ store' = [k \in Keys |-> IF k \in D THEN y.staged[k] ELSE store[k]]
      /\ index' = (index \cup y.adds) \ y.removes
      /\ astray' = astray \cup Missed(y) \cup y.deleted
  BY DEF Commit, StoreAll, Touched, Causes
<1>2. /\ D \subseteq Keys /\ \A k \in D : y.staged[k] \in Records
      /\ \A p \in y.adds \cup y.removes : p[2] \in D
      /\ t \notin known => y.adds = {} /\ y.removes = {}
      /\ y.adds \cap y.removes = {}
  BY TxnFields DEF TxnInv, TypeInv
<1>3. ASSUME NEW k \in D PROVE Moves(y, k, store[k].values)
  <2>1. Had(k, y.based[k], store[k].values)
    BY <1>1, <1>3 DEF Conflicts, Had
  <2>2. store[k].values \in SUBSET Values
    BY <1>2 DEF TypeInv, Records
  <2> QED
    BY <2>1, <2>2 DEF TxnInv
<1>4. ASSUME descriptor.state # "none", NEW k \in D \cap y.unaware, NEW v,
             ~(v \in store[k].values <=> v \in y.staged[k].values)
      PROVE  <<v, k>> \in Missed(y)
  <2>1. <<v, k>> \in Pairs(k, (store[k].values \ y.staged[k].values) \cup
                              (y.staged[k].values \ store[k].values))
    BY <1>4, PairOf
  <2> HIDE DEF y
  <2> QED
    BY <1>4, <2>1 DEF Missed
<1> HIDE DEF y, D
<1>5. ASSUME descriptor.state # "none", NEW k \in D, NEW v \in Values, <<v, k>> \notin astray'
      PROVE  /\ store'[k] = y.staged[k]
             /\ <<v, k>> \in y.adds => v \in y.staged[k].values
             /\ v \in y.staged[k].values /\ v \notin store[k].values => <<v, k>> \in y.adds
             /\ <<v, k>> \in y.removes => v \notin y.staged[k].values
             /\ v \in store[k].values /\ v \notin y.staged[k].values => <<v, k>> \in y.removes
  <2>1. <<v, k>> \notin y.deleted /\ <<v, k>> \notin Missed(y)
    BY <1>1, <1>5
  <2>2. ~(k \in y.unaware /\ ~(v \in store[k].values <=> v \in y.staged[k].values))
    BY <1>4, <1>5, <2>1
  <2>3. Moves(y, k, store[k].values)
    BY <1>3, <1>5
  <2>4. store'[k] = y.staged[k]
    BY <1>1, <1>2, <1>5
  <2> QED
    BY <1>5, <2>1, <2>2, <2>3, <2>4 DEF Moves
<1>6. ASSUME NEW k \in Keys \ D
      PROVE  /\ store'[k] = store[k]
             /\ \A v : <<v, k>> \in index' <=> <<v, k>> \in index
  <2>1. \A v : <<v, k>>[2] = k
    OBVIOUS
  <2>2. \A v : <<v, k>> \notin y.adds /\ <<v, k>> \notin y.removes
    BY <1>2, <2>1
  <2> QED
    BY <1>1, <2>2
<1>7. index' \subseteq Pair
  BY DEF TypeInv
<1>8. descriptor.state = "none" => known' = {} /\ index' = {}
  BY <1>1, <1>2 DEF PhaseInv
<1>9. ASSUME NEW p \in Pair, p \in index' \ astray',
             p \in index \ astray => p[1] \in store[p[2]].values
      PROVE  p[1] \in store'[p[2]].values
  <2>1. PICK v \in Values, k \in Keys : p = <<v, k>> /\ p[1] = v /\ p[2] = k
    BY PairOf
  <2>2. descriptor.state # "none"
    BY <1>8, <1>9
  <2>3. p \notin astray
    BY <1>1, <1>9
  <2>4. CASE k \in D
    <3>1. p \in index \/ p \in y.adds
      BY <1>1, <1>9
    <3>2. p \notin y.removes
      BY <1>1, <1>9
    <3> QED
      BY <1>5, <1>9, <2>1, <2>2, <2>3, <2>4, <3>1, <3>2
  <2>5. CASE k \notin D
    BY <1>6, <1>9, <2>1, <2>3, <2>5
  <2> QED
    BY <2>1, <2>4, <2>5
<1>10. ASSUME descriptor.state # "none", NEW k \in Keys, NEW v \in store'[k].values
       PROVE  /\ v \in store[k].values => (<<v, k>> \in index \cup astray => <<v, k>> \in index' \cup astray')
              /\ v \notin store[k].values => <<v, k>> \in index' \cup astray'
  <2>1. v \in Values
    BY <1>10 DEF TypeInv, Records
  <2>2. astray \subseteq astray'
    BY <1>1
  <2>3. CASE k \in D /\ <<v, k>> \notin astray'
    <3>1. v \in y.staged[k].values /\ <<v, k>> \notin y.removes
          /\ (v \notin store[k].values => <<v, k>> \in y.adds)
      BY <1>5, <1>10, <2>1, <2>3
    <3> QED
      BY <1>1, <2>2, <3>1
  <2>4. CASE k \notin D
    BY <1>6, <1>10, <2>2, <2>4
  <2> QED
    BY <2>2, <2>3, <2>4
<1> QED
  BY <1>1, <1>7, <1>8, <1>9, <1>10, Kept

\* A step that takes from the index only what is astray.
LEMMA Shrunk ==
  ASSUME IndexInv, UNCHANGED <<store, known, descriptor, indexer>>, index' \subseteq index,
         astray \subseteq astray', index \ index' \subseteq astray'
  PROVE  PhaseInv'
<1>1. index' \subseteq Pair
  BY DEF IndexInv, TypeInv
<1>2. descriptor.state = "none" => known' = {} /\ index' = {}
  BY DEF IndexInv, PhaseInv
<1>3. \A p \in Pair : p \in index' \ astray' /\ (p \in index \ astray => p[1] \in store[p[2]].values)
                      => p[1] \in store'[p[2]].values
  OBVIOUS
<1>4. \A k \in Keys : \A v \in store'[k].values :
         /\ v \in store[k].values => (<<v, k>> \in index \cup astray => <<v, k>> \in index' \cup astray')
         /\ v \notin store[k].values => <<v, k>> \in index' \cup astray'
  OBVIOUS
<1> QED
  BY <1>1, <1>2, <1>3, <1>4, Kept

LEMMA PhaseStep ==
  ASSUME IndexInv, Excused = Causes, [Next]_vars, TypeInv'
  PROVE  PhaseInv'
<1> USE DEF IndexInv
<1>1. ASSUME NEW t \in Threads, Write(t) PROVE PhaseInv'
  <2>1. PICK w \in Writes :
          LET saved == Save(State(t), w, t \in known)
          IN index' = saved.index /\ astray' = saved.astray
    BY <1>1 DEF Write
  <2>2. PICK x : x = Save(State(t), w, t \in known)
    OBVIOUS
  <2>3. Good(t, x)
    BY <2>2, GoodState, GoodSave
  <2>4. index' \subseteq index /\ astray \subseteq astray' /\ index \ index' \subseteq astray'
    BY <2>1, <2>2, <2>3 DEF Good
  <2> QED
    BY <1>1, <2>4, Shrunk DEF Write
<1>2. ASSUME NEW t \in Threads, CommitRetries(t) PROVE PhaseInv'
  <2>1. PICK x : x = SavedAgain(t)
    OBVIOUS
  <2>2. Good(t, x)
    BY <2>1, GoodAgain
  <2>3. index' \subseteq index /\ astray \subseteq astray' /\ index \ index' \subseteq astray'
    BY <1>2, <2>1, <2>2 DEF Good, CommitRetries
  <2> QED
    BY <1>2, <2>3, Shrunk DEF CommitRetries
<1>3. ASSUME NEW k \in Keys, Evict(k) PROVE PhaseInv'
  <2>1. /\ UNCHANGED <<known, descriptor, indexer>> /\ index' = index
        /\ astray' = astray \cup (index \cap Pairs(k, store[k].values))
        /\ store'[k].values = {} /\ \A j \in Keys \ {k} : store'[j] = store[j]
    BY <1>3, Constants DEF Evict, TypeInv, Touched, Causes
  <2>2. index' \subseteq Pair
    BY <2>1 DEF TypeInv
  <2>3. descriptor.state = "none" => known' = {} /\ index' = {}
    BY <2>1 DEF PhaseInv
  <2>4. ASSUME NEW p \in Pair, p \in index' \ astray',
               p \in index \ astray => p[1] \in store[p[2]].values
        PROVE  p[1] \in store'[p[2]].values
    <3>1. p \in index \ astray /\ p = <<p[1], p[2]>> /\ p[2] \in Keys
      BY <2>1, <2>4, PairOf
    <3>2. CASE p[2] = k
      <4>1. p \in Pairs(k, store[k].values)
        BY <2>4, <3>1, <3>2, PairOf
      <4> QED
        BY <2>1, <2>4, <3>1, <4>1
    <3>3. CASE p[2] # k
      BY <2>1, <2>4, <3>1, <3>3
    <3> QED
      BY <3>2, <3>3
  <2>5. \A j \in Keys : \A v \in store'[j].values :
           /\ v \in store[j].values => (<<v, j>> \in index \cup astray => <<v, j>> \in index' \cup astray')
           /\ v \notin store[j].values => <<v, j>> \in index' \cup astray'
    BY <2>1
  <2> QED
    BY <2>1, <2>2, <2>3, <2>4, <2>5, Kept
<1>4. ASSUME NEW t \in Threads, Begin(t) \/ Abort(t) PROVE PhaseInv'
  BY <1>4, Shrunk DEF Begin, Abort
<1>5. ASSUME NEW t \in Threads, LoadIndex(t) PROVE PhaseInv'
  BY <1>5 DEF LoadIndex, TypeInv, PhaseInv, NoneStale, Complete
<1>6. CASE DefineIndex
  <2>1. CASE HasExistingData
    <3>1. /\ descriptor' = [descriptor EXCEPT !.state = "building", !.lastIndexedKey = @, !.mine = TRUE]
          /\ indexer' = [NoIndexer EXCEPT !.at = "signal"] /\ store' = store /\ index' = index
          /\ astray' = astray
      BY <1>6, <2>1 DEF DefineIndex
    <3>2. descriptor'.state = "building" /\ descriptor'.lastIndexedKey = descriptor.lastIndexedKey
      BY <3>1 DEF TypeInv
    <3>3. indexer'.at = "signal"
      BY <3>1, NoIndexerOK
    <3>4. NoneStale /\ \A k \in 1 .. descriptor.lastIndexedKey : Complete(k)
      BY DEF PhaseInv
    <3>5. NoneStale' /\ \A k \in 1 .. descriptor'.lastIndexedKey : Complete(k)'
      BY <3>1, <3>2, <3>4 DEF NoneStale, Complete
    <3> QED
      BY <3>2, <3>3, <3>5 DEF PhaseInv
  <2>2. CASE ~HasExistingData
    <3>1. /\ descriptor' = [descriptor EXCEPT !.state = "ready", !.lastIndexedKey = 0, !.mine = TRUE]
          /\ indexer' = NoIndexer /\ store' = store /\ index' = index /\ astray' = astray
      BY <1>6, <2>2 DEF DefineIndex
    <3>2. descriptor'.state = "ready" /\ descriptor'.lastIndexedKey = 0
      BY <3>1 DEF TypeInv
    <3>3. indexer'.at = "none"
      BY <3>1, NoIndexerOK
    <3>4. \A k \in Keys : store[k].values = {}
      BY <2>2, Constants DEF HasExistingData
    <3>5. NoneStale' /\ \A k \in Keys : Complete(k)'
      BY <3>1, <3>4 DEF NoneStale, Complete, Pairs, PhaseInv
    <3>6. \A k \in 1 .. 0 : FALSE
      OBVIOUS
    <3> QED
      BY <3>2, <3>3, <3>5, <3>6 DEF PhaseInv
  <2> QED
    BY <2>1, <2>2
<1>7. CASE StartScan
  <2>1. /\ descriptor' = descriptor /\ store' = store /\ descriptor.state = "building"
        /\ indexer'.at = "scan"
    BY <1>7 DEF StartScan, PhaseInv, TypeInv
  <2>2. CASE descriptor.lastIndexedKey = 0
    <3>1. index' = {} /\ indexer'.cursor = 1
      BY <1>7, <2>2 DEF StartScan, TypeInv
    <3>2. \A k \in 1 .. 0 : FALSE
      OBVIOUS
    <3>3. 1 - 1 = 0
      OBVIOUS
    <3>4. NoneStale'
      BY <3>1 DEF NoneStale
    <3> QED
      BY <2>1, <2>2, <3>1, <3>2, <3>3, <3>4 DEF PhaseInv
  <2>3. CASE descriptor.lastIndexedKey # 0
    <3>1. index' = index /\ astray' = astray /\ indexer'.cursor = descriptor.lastIndexedKey
      BY <1>7, <2>3 DEF StartScan, TypeInv
    <3>2. \A k \in 1 .. (descriptor.lastIndexedKey - 1) : k \in 1 .. descriptor.lastIndexedKey
      BY DEF TypeInv
    <3>3. NoneStale' /\ \A k \in 1 .. descriptor.lastIndexedKey : Complete(k)'
      BY <2>1, <2>3, <3>1 DEF PhaseInv, NoneStale, Complete
    <3>4. \A k \in 1 .. (indexer'.cursor - 1) : Complete(k)'
      BY <3>1, <3>2, <3>3
    <3> QED
      BY <2>1, <2>3, <3>3, <3>4 DEF PhaseInv
  <2> QED
    BY <2>2, <2>3
<1>8. CASE ScanRead
  <2>1. /\ indexer'.at = "put" /\ indexer'.cursor = indexer.cursor
        /\ indexer'.pending = Pairs(indexer.cursor, store[indexer.cursor].values)
        /\ UNCHANGED <<store, index, known, descriptor, astray>> /\ indexer.at = "scan"
    BY <1>8 DEF ScanRead, TypeInv
  <2>2. /\ descriptor.state = "building" /\ NoneStale
        /\ \A k \in 1 .. (indexer.cursor - 1) : Complete(k)
    BY <2>1 DEF PhaseInv
  <2>3. /\ NoneStale' /\ \A k \in 1 .. (indexer'.cursor - 1) : Complete(k)'
        /\ \A k \in 1 .. descriptor'.lastIndexedKey : Complete(k)'
    BY <2>1, <2>2 DEF PhaseInv, NoneStale, Complete
  <2> QED
    BY <2>1, <2>2, <2>3 DEF PhaseInv
<1>9. CASE ScanPut
  <2>0. PICK c : c = indexer.cursor
    OBVIOUS
  <2>1. /\ indexer.at = "put" /\ index' = index \cup indexer.pending
        /\ astray' = astray \cup (indexer.pending \ Entries)
        /\ indexer'.at = "scan" /\ indexer'.cursor = c + 1
        /\ UNCHANGED <<store, known>>
    BY <1>9, <2>0 DEF ScanPut, TypeInv, Touched, Causes
  <2>2. /\ descriptor'.state = "building"
        /\ descriptor'.lastIndexedKey = c \/ descriptor'.lastIndexedKey = descriptor.lastIndexedKey
    BY <1>9, <2>0, <2>1 DEF ScanPut, IndexedKey, TypeInv, PhaseInv
  <2>3. c \in Keys /\ c \in Nat /\ c >= 1
    BY <2>0, <2>1, Constants DEF TypeInv, Keys
  <2>4. /\ NoneStale /\ \A k \in 1 .. (c - 1) : Complete(k)
        /\ \A k \in 1 .. descriptor.lastIndexedKey : Complete(k)
        /\ Pairs(c, store[c].values) \subseteq index \cup indexer.pending \cup astray
    BY <2>0, <2>1 DEF PhaseInv
  <2>5. NoneStale'
    <3> SUFFICES ASSUME NEW p \in index' \ astray' PROVE p[1] \in store'[p[2]].values
      BY DEF NoneStale
    <3>1. p \in Pair
      BY <2>1 DEF TypeInv
    <3>2. CASE p \in index
      BY <2>1, <2>4, <3>2 DEF NoneStale
    <3>3. CASE p \in indexer.pending
      BY <2>1, <3>1, <3>3, EntriesAre
    <3> QED
      BY <2>1, <3>2, <3>3
  <2>6. \A k \in 1 .. c : Complete(k)'
    <3>1. \A k \in 1 .. c : k \in 1 .. (c - 1) \/ k = c
      BY <2>3
    <3>2. \A k \in 1 .. (c - 1) : Complete(k)'
      BY <2>1, <2>4 DEF Complete
    <3>3. Complete(c)'
      BY <2>1, <2>4 DEF Complete
    <3> QED
      BY <3>1, <3>2, <3>3
  <2>7. \A k \in 1 .. descriptor.lastIndexedKey : Complete(k)'
    BY <2>1, <2>4 DEF Complete
  <2>8. \A k \in 1 .. descriptor'.lastIndexedKey : Complete(k)'
    BY <2>2, <2>6, <2>7
  <2>9. \A k \in 1 .. (indexer'.cursor - 1) : Complete(k)'
    <3>1. indexer'.cursor - 1 = c
      BY <2>1, <2>3
    <3> QED
      BY <2>6, <3>1
  <2> QED
    BY <2>1, <2>2, <2>5, <2>8, <2>9 DEF PhaseInv
<1>10. CASE Finish
  <2>1. /\ indexer.at = "scan" /\ UNCHANGED <<store, index, known, astray>>
        /\ indexer' = [NoIndexer EXCEPT !.at = "done"]
    BY <1>10 DEF Finish
  <2>2. indexer'.at = "done"
    BY <2>1, NoIndexerOK
  <2>3. /\ descriptor.state = "building" /\ NoneStale
        /\ \A k \in 1 .. (indexer.cursor - 1) : Complete(k)
    BY <2>1 DEF PhaseInv
  <2>4. NoneStale' /\ \A k \in 1 .. (indexer.cursor - 1) : Complete(k)'
    BY <2>1, <2>3 DEF NoneStale, Complete
  <2>5. CASE Interrupted
    <3>1. descriptor'.state = "building" /\ descriptor'.lastIndexedKey = indexer.cursor - 1
      BY <1>10, <2>3, <2>5 DEF Finish, TypeInv
    <3> QED
      BY <2>2, <2>4, <3>1 DEF PhaseInv
  <2>6. CASE ~Interrupted
    <3>1. descriptor'.state = "ready" /\ descriptor'.lastIndexedKey = 0 /\ indexer.cursor > LastKey
      BY <1>10, <2>6 DEF Finish
    <3>2. \A k \in Keys : k \in 1 .. (indexer.cursor - 1)
      BY <3>1, Constants DEF TypeInv, Keys
    <3>3. \A k \in 1 .. 0 : FALSE
      OBVIOUS
    <3> QED
      BY <2>2, <2>4, <3>1, <3>2, <3>3 DEF PhaseInv
  <2> QED
    BY <2>5, <2>6
<1>11. CASE Restart
  <2>1. /\ UNCHANGED store /\ index' \in {index, {}} /\ indexer' = NoIndexer
        /\ known' = IF descriptor.state = "none" THEN {} ELSE Threads
        /\ descriptor'.state = descriptor.state
        /\ descriptor'.lastIndexedKey = descriptor.lastIndexedKey
        /\ astray' = astray \cup Lost
    BY <1>11 DEF Restart, TypeInv, Touched, Causes
  <2>2. indexer'.at = "none"
    BY <2>1, NoIndexerOK
  <2>3. NoneStale'
    BY <2>1 DEF PhaseInv, NoneStale
  <2>4. ASSUME NEW k, Complete(k), descriptor.state = "ready" \/ descriptor.lastIndexedKey # 0
        PROVE  Complete(k)'
    <3>1. astray' = astray \cup (index \ index')
      BY <2>1, <2>4 DEF Lost
    <3> QED
      BY <2>1, <2>4, <3>1 DEF Complete
  <2>5. descriptor.state = "ready" => \A k \in Keys : Complete(k)'
    BY <2>4 DEF PhaseInv
  <2>6. \A k \in 1 .. descriptor.lastIndexedKey : Complete(k)'
    <3>1. CASE descriptor.lastIndexedKey = 0
      <4>1. \A k \in 1 .. 0 : FALSE
        OBVIOUS
      <4> QED
        BY <3>1, <4>1
    <3>2. CASE descriptor.lastIndexedKey # 0
      BY <2>4, <3>2 DEF PhaseInv
    <3> QED
      BY <3>1, <3>2
  <2>7. descriptor.state = "none" => index' = {}
    BY <2>1 DEF PhaseInv
  <2> QED
    BY <2>1, <2>2, <2>3, <2>5, <2>6, <2>7 DEF PhaseInv
<1>12. CASE UNCHANGED vars
  BY <1>12, Shrunk DEF vars
<1> QED
  BY <1>1, <1>2, <1>3, <1>4, <1>5, <1>6, <1>7, <1>8, <1>9, <1>10, <1>11, <1>12, CommitPhase
     DEF Next, Request, Indexing

LEMMA IndexInit == Init => IndexInv
<1> SUFFICES ASSUME Init PROVE IndexInv
  OBVIOUS
<1>1. TypeInv
  BY TypeInit
<1>2. TimeInv /\ \A t \in Threads : TxnInv(t)
  BY NoTxnOK, Constants DEF Init, TimeInv, TxnInv, Open
<1>3. PhaseInv
  <2>1. \A k \in 1 .. 0 : FALSE
    OBVIOUS
  <2> QED
    BY <2>1, NoIndexerOK DEF Init, PhaseInv, NoneStale
<1> QED
  BY <1>1, <1>2, <1>3 DEF IndexInv

LEMMA Exact ==
  ASSUME IndexInv
  PROVE  IndexExact
<1> SUFFICES ASSUME descriptor.state = "ready", NEW p \in (index \cup Entries) \ astray
             PROVE  p \in index /\ p \in Entries
  BY DEF IndexExact
<1>1. NoneStale /\ \A k \in Keys : Complete(k)
  BY DEF IndexInv, PhaseInv
<1>2. CASE p \in index
  <2>1. p \in Pair /\ p[1] \in store[p[2]].values
    BY <1>1, <1>2 DEF IndexInv, TypeInv, NoneStale
  <2> QED
    BY <1>2, <2>1, EntriesAre
<1>3. CASE p \in Entries
  <2>1. PICK k \in Keys : p \in Pairs(k, store[k].values)
    BY <1>3 DEF Entries
  <2>2. p \in index \cup astray
    BY <1>1, <2>1 DEF Complete
  <2> QED
    BY <1>3, <2>2
<1> QED
  BY <1>2, <1>3

\* An index that is ready has an entry for each value of each record, and no other,
\* whatever the threads write, retry, abort and evict while it is defined, built,
\* resumed after restarts and used, but for the entries that the Causes touched.
THEOREM IndexIsExact == Excused = Causes => (Spec => []IndexExact)
<1> SUFFICES ASSUME Excused = Causes PROVE Spec => []IndexExact
  OBVIOUS
<1>1. Init => IndexInv
  BY IndexInit
<1>2. IndexInv /\ [Next]_vars => IndexInv'
  <2> SUFFICES ASSUME IndexInv, [Next]_vars PROVE IndexInv'
    OBVIOUS
  <2>1. TypeInv'
    BY TypeStep DEF IndexInv
  <2>2. TimeInv' /\ \A u \in Threads : TxnInv(u)'
    BY TxnStep
  <2>3. PhaseInv'
    BY <2>1, PhaseStep
  <2> QED
    BY <2>1, <2>2, <2>3 DEF IndexInv
<1>3. IndexInv => IndexExact
  BY Exact
<1> QED
  BY <1>1, <1>2, <1>3, PTL DEF Spec
=============================================================================
