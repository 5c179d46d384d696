------------------ MODULE DatabaseTransactionUpdateProofs ------------------
(***************************************************************************)
(* No update is lost: a write of a request that neither loads from a       *)
(* source, nor goes on after a commit, nor runs into the monitor, is       *)
(* stored over the version of the record it was computed from.  For any    *)
(* chain of databases, writes by other requests, conflicts and retries,    *)
(* hooks that fail and iterators that outlive the request.                 *)
(***************************************************************************)
EXTENDS DatabaseTransactionProofs, FiniteSetTheorems

Alive == request \in {"running", "committing", "resolved", "rejected"}

Active(d)  == {s \in Scans : scan[s].state = "active" /\ scan[s].db = d}
KeysOf(d)  == {writes[d][i] : i \in 1 .. Len(writes[d])}
Unsaved(d) == KeysOf(d) \ saved[d]

\* An open object keeps the first native transaction it starts, and its use
\* count stays above the number of its iterators.
OpenKeeps(d) ==
    open[d] = "OPEN" =>
        /\ \A n \in DOMAIN native : native[n].db = d => n = transaction[d]
        /\ transaction[d] = None => Active(d) = {}
        /\ IsFiniteSet(Active(d))
        /\ used[d] = NaN \/ used[d] > Cardinality(Active(d))

\* A write not saved yet was read in the transaction its object still has.
UnsavedKeeps(d) ==
    \A k \in Unsaved(d) :
        /\ open[d] = "OPEN"
        /\ entry[d][k] # 0 => /\ transaction[d] # None
                              /\ entry[d][k] = native[transaction[d]].snap[k]

\* Once a commit of an object is under way in the store, and for each retry,
\* all its writes have been validated, so that they are read again.
RetriesReload(d) ==
    (retries[d] > 0 \/ \E c \in waits : c.db = d) => Len(writes[d]) <= validated[d]

\* The loop of commit leaves no write behind it unsaved.
LoopSaves(f) ==
    /\ f.at = "loop" =>
          \A j \in 1 .. Len(writes[f.db]) :
              j < f.i => \/ writes[f.db][j] \in saved[f.db]
                         \/ /\ ~Idle /\ Top.at = "save"
                            /\ Top.db = f.db /\ Top.key = writes[f.db][j]
    /\ f.at = "close" => KeysOf(f.db) \subseteq saved[f.db]

\* Below the top of the stack, loops of commit wait for what they called.
TopSaves ==
    /\ ~Idle => /\ Top.at # "aborted"
                /\ \A f \in FramesOf(Tail(stack)) : f.at = "loop"
    /\ (~Idle /\ Top.at = "save") =>
        /\ Top.key \in KeysOf(Top.db)
        /\ ~Top.reload => Top.key \in Unsaved(Top.db)
        /\ open[Top.db] # "OPEN" => Top.reload

OpsAtSnapshot ==
    \A n \in DOMAIN native : \A op \in native[n].ops : op.base = native[n].snap[op.key]

IssuedFirst ==
    \A d \in Dbs, k \in Keys :
        <<d, k>> \notin issued => k \notin saved[d] /\ k \notin KeysOf(d) /\ entry[d][k] = 0

NoLoads ==
    \A d \in Dbs, k \in Keys : load[d][k] = "no" /\ preset[d][k] = 0

AliveInv ==
    /\ \A d \in Dbs : OpenKeeps(d) /\ UnsavedKeeps(d) /\ RetriesReload(d)
    /\ \A f \in Live : LoopSaves(f)
    /\ TopSaves /\ OpsAtSnapshot /\ IssuedFirst

UpdateInv ==
    /\ NoLoads
    /\ NoLostUpdate
    /\ Alive => AliveInv
    /\ request = "running" => \A d \in Dbs : retries[d] = 0

LEMMA UpdateInit == Init => UpdateInv
<1> SUFFICES ASSUME Init PROVE UpdateInv
  OBVIOUS
<1>1. NoLoads /\ NoLostUpdate
  BY DEF Init, NoLoads, NoLostUpdate
<1>2. \A d \in Dbs : KeysOf(d) = {} /\ Active(d) = {}
  BY DEF Init, KeysOf, Active, NoScan
<1>3. DOMAIN native = {} /\ Live = {} /\ Idle
  BY DEF Init, Live, FramesOf, Idle
<1>4. ASSUME NEW d \in Dbs PROVE OpenKeeps(d) /\ UnsavedKeeps(d) /\ RetriesReload(d)
  <2>1. used[d] = NaN /\ transaction[d] = None /\ retries[d] = 0 /\ waits = {} /\ IsFiniteSet({})
    BY FS_EmptySet DEF Init
  <2>2. OpenKeeps(d)
    BY <1>2, <1>3, <2>1 DEF OpenKeeps
  <2>3. UnsavedKeeps(d)
    BY <1>2 DEF UnsavedKeeps, Unsaved
  <2>4. RetriesReload(d)
    BY <2>1 DEF RetriesReload
  <2> QED
    BY <2>2, <2>3, <2>4
<1>5. TopSaves /\ OpsAtSnapshot
  BY <1>3 DEF TopSaves, OpsAtSnapshot
<1>6. IssuedFirst
  BY <1>2 DEF IssuedFirst, Init
<1> QED
  BY <1>1, <1>3, <1>4, <1>5, <1>6 DEF UpdateInv, AliveInv, Init

(***************************************************************************)
(* What each part needs of a step in order to be kept.                     *)
(***************************************************************************)
\* Every native transaction stays that of its database, with its snapshot.
SnapsKept ==
    /\ Len(native) <= Len(native')
    /\ \A n \in 1 .. Len(native) : native'[n].db = native[n].db /\ native'[n].snap = native[n].snap

LEMMA OpenKept ==
  ASSUME TypeOK, NEW d \in Dbs, OpenKeeps(d), Len(native') = Len(native), TypeOK',
         \A n \in 1 .. Len(native) : native'[n].db = native[n].db,
         open'[d] = "OPEN" => open[d] = "OPEN" /\ transaction'[d] = transaction[d]
                              /\ used'[d] = used[d] /\ Active(d)' = Active(d)
  PROVE  OpenKeeps(d)'
<1>1. DOMAIN native = 1 .. Len(native) /\ DOMAIN native' = 1 .. Len(native)
  BY DEF TypeOK
<1> QED
  BY <1>1 DEF OpenKeeps

LEMMA UnsavedKept ==
  ASSUME TypeOK, TypeOK', NEW d \in Dbs, UnsavedKeeps(d),
         \A k \in Unsaved(d)' : k \in Unsaved(d) /\ entry'[d][k] = entry[d][k],
         Unsaved(d)' # {} => open'[d] = open[d] /\ transaction[d] \in {None, transaction'[d]},
         transaction[d] # None => native'[transaction[d]].snap = native[transaction[d]].snap
  PROVE  UnsavedKeeps(d)'
  BY DEF UnsavedKeeps

LEMMA LoopKept ==
  ASSUME TypeOK, TypeOK', NEW f \in Frames, LoopSaves(f),
         \A e \in Dbs : writes'[e] \in {writes[e], <<>>} /\ saved[e] \subseteq saved'[e],
         (~Idle /\ Top.at = "save") => Top.key \in saved'[Top.db]
  PROVE  LoopSaves(f)'
<1>1. f.db \in Dbs
  BY DEF Frames, CommitFrames, SaveFrames, AbortFrames
<1>2. CASE writes'[f.db] = writes[f.db]
  BY <1>1, <1>2 DEF LoopSaves, KeysOf
<1>3. CASE writes'[f.db] = <<>>
  <2>1. 1 .. Len(writes'[f.db]) = {} /\ KeysOf(f.db)' = {}
    BY <1>3 DEF KeysOf
  <2> QED
    BY <2>1 DEF LoopSaves
<1> QED
  BY <1>1, <1>2, <1>3

LEMMA NewLoop ==
  ASSUME TypeOK', NEW d \in Dbs, NEW opt, NEW main, NEW f, f = CommitFrame(d, opt, main)
  PROVE  LoopSaves(f)' /\ f.at = "loop"
<1>1. f.at = "loop" /\ f.i = 1 /\ f.db = d
  BY DEF CommitFrame
<1>2. \A j \in 1 .. Len(writes'[d]) : ~(j < 1)
  OBVIOUS
<1> QED
  BY <1>1, <1>2 DEF LoopSaves

\* Writes neither issued nor saved, and retries, are as they were.
LEMMA WritesKept ==
  ASSUME TypeOK, NEW d \in Dbs, RetriesReload(d),
         writes'[d] \in {writes[d], <<>>}, UNCHANGED <<retries, validated>>,
         \A c \in waits' : c.db = d => \E b \in waits : b.db = d
  PROVE  RetriesReload(d)'
<1>1. writes'[d] = <<>> => Len(writes'[d]) = 0 /\ validated[d] \in Nat
  BY DEF TypeOK
<1> QED
  BY <1>1 DEF RetriesReload

\* The last database of a commit that settled hands on to the next.
LEMMA AfterCommitUpdates ==
  ASSUME TypeOK, TypeOK', NEW d \in Dbs, NEW opt \in Nat, NEW main \in BOOLEAN,
         NEW rest \in Seq(Frames), AfterCommit(d, opt, main, rest),
         \A f \in FramesOf(rest) : f.at = "loop" /\ LoopSaves(f)'
  PROVE  /\ \A f \in FramesOf(stack') : LoopSaves(f)' /\ f.at = "loop"
         /\ TopSaves'
<1>1. /\ stack' \in Seq(Frames)
      /\ \A f \in FramesOf(stack') : LoopSaves(f)' /\ f.at = "loop"
  <2>1. CASE stack' = rest
    BY <2>1
  <2>2. CASE d < NDbs /\ stack' = <<CommitFrame(d + 1, opt, main)>> \o rest
    <3>1. d + 1 \in Dbs
      BY <2>2, DbsType
    <3>2. CommitFrame(d + 1, opt, main) \in Frames
      BY <3>1, FrameTypes DEF Frames
    <3>3. FramesOf(stack') = {CommitFrame(d + 1, opt, main)} \cup FramesOf(rest) /\ stack' \in Seq(Frames)
      BY <2>2, <3>2, PushFrame
    <3>4. \A f : f = CommitFrame(d + 1, opt, main) => LoopSaves(f)' /\ f.at = "loop"
      BY <3>1, NewLoop
    <3> QED
      BY <3>3, <3>4
  <2> QED
    BY <2>1, <2>2 DEF AfterCommit
<1>2. stack' # <<>> => FramesOf(stack') = {Head(stack')} \cup FramesOf(Tail(stack'))
  BY <1>1, PopFrame
<1>3. TopSaves'
  BY <1>1, <1>2 DEF TopSaves, Top, Idle
<1> QED
  BY <1>1, <1>3

(***************************************************************************)
(* The steps of the request's function.                                    *)
(***************************************************************************)
\* A read transaction taken on an open object.
LEMMA ReadKeeps ==
  ASSUME TypeOK, TypeOK', NEW d \in Dbs, NEW more \in {0, 1}, GetReadTxn(d, more),
         OpenState(d) = "OPEN", open[d] = "OPEN", OpenKeeps(d)
  PROVE  /\ SnapsKept
         /\ transaction'[d] # None
         /\ \A e \in Dbs : e # d => transaction'[e] = transaction[e] /\ used'[e] = used[e]
         /\ transaction[d] # None => transaction'[d] = transaction[d]
         /\ \A n \in DOMAIN native' :
               \/ n \in DOMAIN native /\ native'[n] = native[n]
               \/ n = transaction'[d] /\ native'[n] = FreshNative(d)
         /\ \A n \in DOMAIN native' : native'[n].db = d => n = transaction'[d]
         /\ used'[d] = NaN \/ used'[d] > Cardinality(Active(d)) + more
         /\ OpsAtSnapshot => OpsAtSnapshot'
<1>1. native \in Seq(NativeTxn) /\ DOMAIN native = 1 .. Len(native) /\ Len(native) \in Nat
      /\ transaction \in [Dbs -> 0 .. Len(native)]
  BY DEF TypeOK, Handles
<1>2. used \in [Dbs -> Int \cup {NaN}]
  BY DEF TypeOK
<1>3. IsFiniteSet(Active(d)) /\ Cardinality(Active(d)) \in Nat
  BY FS_CardinalityType DEF OpenKeeps
<1>4. native' = NativesOf(d) /\ transaction' = [transaction EXCEPT ![d] = ReadTxn(d)]
      /\ used' = [used EXCEPT ![d] = Plus(IF StartsNative(d) THEN 1 ELSE @, more)]
  BY DEF GetReadTxn
<1>5. \A e \in Dbs : e # d => transaction'[e] = transaction[e] /\ used'[e] = used[e]
  BY <1>1, <1>2, <1>4
<1>6. CASE transaction[d] # None
  <2>1. native' = native /\ transaction'[d] = transaction[d] /\ used'[d] = Plus(used[d], more)
    BY <1>1, <1>2, <1>4, <1>6 DEF StartsNative, NativesOf, ReadTxn
  <2>2. used'[d] = NaN \/ used'[d] > Cardinality(Active(d)) + more
    BY <1>2, <1>3, <2>1, NaNAssumption DEF OpenKeeps, Plus
  <2> QED
    BY <1>1, <1>5, <1>6, <2>1, <2>2 DEF SnapsKept, OpenKeeps, OpsAtSnapshot
<1>7. CASE transaction[d] = None
  <2>1. /\ native' = Append(native, FreshNative(d)) /\ transaction'[d] = Len(native) + 1
        /\ used'[d] = Plus(1, more)
    BY <1>1, <1>2, <1>4, <1>7 DEF StartsNative, NativesOf, ReadTxn
  <2>2. used'[d] = NaN \/ used'[d] > Cardinality(Active(d)) + more
    <3>1. Cardinality(Active(d)) = 0
      BY <1>7, FS_EmptySet DEF OpenKeeps
    <3> QED
      BY <2>1, <3>1, NaNAssumption DEF Plus
  <2>3. /\ Len(native') = Len(native) + 1 /\ native'[Len(native) + 1] = FreshNative(d)
        /\ \A n \in 1 .. Len(native) : native'[n] = native[n]
        /\ DOMAIN native' = 1 .. (Len(native) + 1)
    BY <1>1, <2>1, FreshType, AppendProperties
  <2>4. FreshNative(d).ops = {} /\ FreshNative(d).db = d
    BY DEF FreshNative
  <2>5. SnapsKept /\ transaction'[d] # None
    BY <1>1, <2>1, <2>3 DEF SnapsKept, None
  <2>6. \A n \in DOMAIN native' :
               \/ n \in DOMAIN native /\ native'[n] = native[n]
               \/ n = transaction'[d] /\ native'[n] = FreshNative(d)
    BY <1>1, <2>1, <2>3
  <2>7. \A n \in DOMAIN native' : native'[n].db = d => n = transaction'[d]
    <3>1. \A n \in DOMAIN native : native[n].db # d
      BY <1>1, <1>7 DEF OpenKeeps, None
    <3> QED
      BY <2>6, <3>1
  <2>8. OpsAtSnapshot => OpsAtSnapshot'
    BY <2>4, <2>6 DEF OpsAtSnapshot
  <2> QED
    BY <1>5, <1>7, <2>2, <2>5, <2>6, <2>7, <2>8
<1> QED
  BY <1>6, <1>7

\* The same, for the other objects.
LEMMA ReadKeepsOthers ==
  ASSUME TypeOK, TypeOK', NEW d \in Dbs, NEW more \in {0, 1}, GetReadTxn(d, more),
         OpenState(d) = "OPEN", open[d] = "OPEN", OpenKeeps(d),
         NEW e \in Dbs, e # d, OpenKeeps(e), open'[e] = open[e], Active(e)' = Active(e)
  PROVE  OpenKeeps(e)'
<1>1. /\ transaction'[e] = transaction[e] /\ used'[e] = used[e]
      /\ \A n \in DOMAIN native' :
               \/ n \in DOMAIN native /\ native'[n] = native[n]
               \/ n = transaction'[d] /\ native'[n] = FreshNative(d)
  BY ReadKeeps
<1>2. FreshNative(d).db = d
  BY DEF FreshNative
<1>3. \A n \in DOMAIN native' : native'[n].db = e => n \in DOMAIN native /\ native'[n] = native[n]
  BY <1>1, <1>2
<1> QED
  BY <1>1, <1>3 DEF OpenKeeps

\* Under way, a request has every object open and nothing given away.
LEMMA RunningFacts ==
  ASSUME TypeOK, QuietInv, Running, Alive
  PROVE  /\ request = "running" /\ Idle /\ NothingGiven
         /\ \A d \in Dbs : open[d] = "OPEN" /\ OpenState(d) = "OPEN"
<1>1. request = "running" /\ Idle
  BY DEF Running, QuietInv
<1>2. NothingGiven /\ \A d \in Dbs : open[d] = "OPEN"
  BY <1>1 DEF QuietInv
<1>3. \A d \in Dbs : d > 1 => d - 1 \in Dbs
  BY ChainAssumption DEF Dbs
<1> QED
  BY <1>1, <1>2, <1>3 DEF OpenState

\* A step after which the request still runs: retries and frames.
LEMMA StillRunning ==
  ASSUME TypeOK', QuietInv', request' = "running", \A d \in Dbs : retries'[d] = 0,
         \A f \in FramesOf(stack') : Len(stack') <= 1,
         (~Idle => Top.key \in Unsaved(Top.db))'
  PROVE  /\ \A d \in Dbs : RetriesReload(d)' /\ open'[d] = "OPEN"
         /\ \A f \in Live' : LoopSaves(f)'
         /\ TopSaves'
<1>1. /\ waits' = {} /\ parked' = {} /\ \A d \in Dbs : open'[d] = "OPEN"
      /\ \A f \in FramesOf(stack') : f.at = "save"
  BY DEF QuietInv, NothingGiven
<1>2. \A d \in Dbs : RetriesReload(d)'
  BY <1>1 DEF RetriesReload
<1>3. \A f \in Live' : LoopSaves(f)'
  BY <1>1 DEF Live, LoopSaves
<1>4. TopSaves'
  <2>1. CASE stack' = <<>>
    BY <2>1 DEF TopSaves, Idle
  <2>2. CASE stack' # <<>>
    <3>1. /\ stack' \in Seq(Frames) /\ Head(stack') \in FramesOf(stack') /\ Head(stack') \in Frames
          /\ FramesOf(stack') = {Head(stack')} \cup FramesOf(Tail(stack'))
      BY <2>2, PopFrame DEF TypeOK
    <3>2. Len(stack') <= 1
      BY <3>1
    <3>3. FramesOf(Tail(stack')) = {}
      BY <2>2, <3>1, <3>2 DEF FramesOf
    <3>4. Top' = Head(stack')
      BY DEF Top
    <3>5. Top'.at = "save" /\ Top'.db \in Dbs
      BY <1>1, <3>1, <3>4 DEF Frames, SaveFrames, CommitFrames, AbortFrames
    <3>6. (open[Top.db] = "OPEN")'
      BY <1>1, <3>5
    <3>7. (Top.key \in Unsaved(Top.db))'
      BY <2>2 DEF Idle
    <3>8. (Top.key \in KeysOf(Top.db))'
      BY <3>7 DEF Unsaved
    <3> QED
      BY <3>3, <3>5, <3>6, <3>7, <3>8 DEF TopSaves
  <2> QED
    BY <2>1, <2>2
<1> QED
  BY <1>1, <1>2, <1>3, <1>4

LEMMA NewWriteKeys ==
  ASSUME TypeOK, NEW d \in Dbs, NEW k \in Keys, NEW kind, NewWrite(d, k, kind)
  PROVE  /\ KeysOf(d)' = KeysOf(d) \cup {k}
         /\ \A e \in Dbs : e # d => KeysOf(e)' = KeysOf(e)
<1>1. writes \in [Dbs -> Seq(Keys)] /\ writes[d] \in Seq(Keys) /\ writes' = [writes EXCEPT ![d] = Append(@, k)]
  BY DEF TypeOK, NewWrite
<1>2. writes'[d] = Append(writes[d], k) /\ \A e \in Dbs : e # d => writes'[e] = writes[e]
  BY <1>1
<1>3. /\ Len(writes'[d]) = Len(writes[d]) + 1 /\ writes'[d][Len(writes[d]) + 1] = k
      /\ \A i \in 1 .. Len(writes[d]) : writes'[d][i] = writes[d][i]
      /\ Len(writes[d]) \in Nat
  BY <1>1, <1>2, AppendProperties
<1>4. 1 .. (Len(writes[d]) + 1) = (1 .. Len(writes[d])) \cup {Len(writes[d]) + 1}
  BY <1>3
<1> QED
  BY <1>2, <1>3, <1>4 DEF KeysOf

\* The frame a write leaves is that of a write not saved before.
LEMMA NewWriteTop ==
  ASSUME TypeOK, NEW d \in Dbs, NEW k \in Keys, NEW kind,
         NewWrite(d, k, kind), SaveUnlessDeferred(d, k, kind), IssuedFirst, UNCHANGED saved
  PROVE  /\ \A f \in FramesOf(stack') : Len(stack') <= 1
         /\ (~Idle => Top.key \in Unsaved(Top.db))'
<1>1. k \in KeysOf(d)' /\ k \notin saved'[d]
  BY NewWriteKeys, ZenonT(60) DEF NewWrite, IssuedFirst
<1>2. CASE stack' = <<>>
  BY <1>2 DEF Idle
<1>3. CASE stack' = <<SaveFrame(d, k, None, FALSE)>>
  <2>1. Len(stack') = 1 /\ Top' = SaveFrame(d, k, None, FALSE)
    BY <1>3 DEF Top
  <2>2. (Top.key = k /\ Top.db = d)'
    BY <2>1 DEF SaveFrame
  <2>3. (k \in Unsaved(d))'
    BY <1>1 DEF Unsaved
  <2>4. (Top.key \in Unsaved(Top.db))'
    BY <2>2, <2>3 DEF Unsaved, KeysOf
  <2>5. Len(stack') <= 1
    BY <2>1
  <2> QED
    BY <2>4, <2>5
<1> QED
  BY <1>2, <1>3 DEF SaveUnlessDeferred

LEMMA WriteUpdates ==
  ASSUME TypeOK, HandleInv, QuietInv, UpdateInv, Alive, TypeOK', HandleInv', QuietInv',
         NEW d \in Dbs, NEW k \in Keys, NEW kind, Write(d, k, kind)
  PROVE  AliveInv'
<1>1. /\ NewWrite(d, k, kind) /\ TxnForContext(d) /\ GetReadTxn(d, 0)
      /\ SaveUnlessDeferred(d, k, kind) /\ Running /\ <<d, k>> \notin issued
      /\ issued' = issued \cup {<<d, k>>}
      /\ UNCHANGED <<saved, retries, request, scan>>
  BY DEF Write, NewWrite
<1>2. request = "running" /\ \A e \in Dbs : open[e] = "OPEN" /\ OpenState(e) = "OPEN"
  BY <1>1, RunningFacts
<1>3. AliveInv
  BY DEF UpdateInv
<1>4. OpenKeeps(d) /\ OpsAtSnapshot /\ IssuedFirst
  BY <1>3 DEF AliveInv
<1>5. /\ SnapsKept
      /\ transaction'[d] # None
      /\ \A e \in Dbs : e # d => transaction'[e] = transaction[e] /\ used'[e] = used[e]
      /\ transaction[d] # None => transaction'[d] = transaction[d]
      /\ \A n \in DOMAIN native' : native'[n].db = d => n = transaction'[d]
      /\ used'[d] = NaN \/ used'[d] > Cardinality(Active(d)) + 0
      /\ OpsAtSnapshot'
  BY <1>1, <1>2, <1>4, ReadKeeps
<1>6. /\ \A e \in Dbs : RetriesReload(e)' /\ open'[e] = "OPEN"
      /\ \A f \in Live' : LoopSaves(f)'
      /\ TopSaves'
  <2>1. request' = "running" /\ \A e \in Dbs : retries'[e] = 0
    BY <1>1, <1>2 DEF UpdateInv
  <2>2. /\ \A f \in FramesOf(stack') : Len(stack') <= 1
        /\ (~Idle => Top.key \in Unsaved(Top.db))'
    BY <1>1, <1>4, NewWriteTop
  <2> QED
    BY <2>1, <2>2, StillRunning
<1>7. \A e \in Dbs : Active(e)' = Active(e)
  BY <1>1 DEF Active
<1>8. ASSUME NEW e \in Dbs PROVE OpenKeeps(e)'
  <2>1. CASE e = d
    <3>1. IsFiniteSet(Active(d)) /\ Cardinality(Active(d)) \in Nat
      BY <1>2, <1>4, FS_CardinalityType DEF OpenKeeps
    <3>2. used'[d] = NaN \/ used'[d] > Cardinality(Active(d))
      BY <1>5, <3>1
    <3> QED
      BY <1>5, <1>7, <2>1, <3>1, <3>2 DEF OpenKeeps
  <2>2. CASE e # d
    <3>1. OpenKeeps(e) /\ open'[e] = open[e] /\ Active(e)' = Active(e)
      BY <1>2, <1>3, <1>6, <1>7 DEF AliveInv
    <3> QED
      BY <1>1, <1>2, <1>4, <2>2, <3>1, ReadKeepsOthers
  <2> QED
    BY <2>1, <2>2
<1>9. entry \in [Dbs -> [Keys -> Nat]] /\ writes \in [Dbs -> Seq(Keys)]
      /\ entry' = [entry EXCEPT ![d][k] = ReadVersion(NativesOf(d), ReadTxn(d), d, k)]
  BY DEF TypeOK, Write
<1>10. \A e \in Dbs, j \in Keys : (e # d \/ j # k) => entry'[e][j] = entry[e][j]
  BY <1>9
<1>11. entry'[d][k] = native'[transaction'[d]].snap[k]
  <2>1. OwnHandle(d)'
    BY DEF HandleInv
  <2>2. native'[transaction'[d]].db = d /\ native'[transaction'[d]].state = "open"
    BY <1>5, <2>1 DEF OwnHandle
  <2>3. NativesOf(d) = native' /\ ReadTxn(d) = transaction'[d]
    BY <1>1 DEF GetReadTxn, TypeOK
  <2>4. ReadVersion(NativesOf(d), ReadTxn(d), d, k) = native'[transaction'[d]].snap[k]
    BY <1>5, <2>2, <2>3 DEF ReadVersion, Usable
  <2> QED
    BY <1>9, <2>4
<1>12. ASSUME NEW e \in Dbs PROVE UnsavedKeeps(e)'
  <2>1. UnsavedKeeps(e) /\ open'[e] = "OPEN" /\ transaction[e] \in 0 .. Len(native) /\ Len(native) \in Nat
    BY <1>3, <1>6 DEF AliveInv, TypeOK, Handles
  <2>2. transaction[e] # None =>
           transaction'[e] = transaction[e]
           /\ native'[transaction[e]].snap = native[transaction[e]].snap
    BY <1>5, <2>1 DEF SnapsKept, None
  <2>3. KeysOf(e)' \subseteq Keys
    <3>1. writes'[e] \in Seq(Keys)
      BY DEF TypeOK
    <3> QED
      BY <3>1 DEF KeysOf
  <2>4. ASSUME NEW j \in Unsaved(e)', entry'[e][j] # 0
        PROVE  transaction'[e] # None /\ entry'[e][j] = native'[transaction'[e]].snap[j]
    <3>1. j \in Keys
      BY <2>3 DEF Unsaved
    <3>2. CASE e = d /\ j = k
      BY <1>5, <1>11, <3>2
    <3>3. CASE e # d \/ j # k
      <4>1. j \in Unsaved(e) /\ entry'[e][j] = entry[e][j]
        BY <1>1, <1>10, <3>1, <3>3, NewWriteKeys DEF Unsaved
      <4> QED
        BY <2>1, <2>2, <2>4, <4>1 DEF UnsavedKeeps
    <3> QED
      BY <3>2, <3>3
  <2> QED
    BY <2>1, <2>4 DEF UnsavedKeeps
<1>13. IssuedFirst'
  <2> SUFFICES ASSUME NEW e \in Dbs, NEW j \in Keys, <<e, j>> \notin issued'
               PROVE  j \notin saved'[e] /\ j \notin KeysOf(e)' /\ entry'[e][j] = 0
    BY DEF IssuedFirst
  <2>1. <<e, j>> \notin issued /\ (e # d \/ j # k)
    BY <1>1
  <2>2. j \notin saved[e] /\ j \notin KeysOf(e) /\ entry[e][j] = 0
    BY <1>4, <2>1 DEF IssuedFirst
  <2> QED
    BY <1>1, <1>10, <2>1, <2>2, NewWriteKeys
<1> QED
  BY <1>5, <1>6, <1>8, <1>12, <1>13 DEF AliveInv

LEMMA EventUpdates ==
  ASSUME TypeOK, HandleInv, QuietInv, UpdateInv, Alive, TypeOK', HandleInv', QuietInv',
         NEW d \in Dbs, NEW k \in Keys, Event(d, k)
  PROVE  AliveInv'
<1>1. /\ NewWrite(d, k, "event") /\ TxnForContext(d)
      /\ SaveUnlessDeferred(d, k, "event") /\ Running /\ <<d, k>> \notin issued
      /\ issued' = issued \cup {<<d, k>>}
      /\ UNCHANGED <<saved, retries, request, scan, native, transaction, used, entry>>
  BY DEF Event, NewWrite, storeVars
<1>2. request = "running" /\ \A e \in Dbs : open[e] = "OPEN"
  BY <1>1, RunningFacts
<1>3. AliveInv /\ OpsAtSnapshot /\ IssuedFirst
  BY DEF UpdateInv, AliveInv
<1>4. /\ \A e \in Dbs : RetriesReload(e)' /\ open'[e] = "OPEN"
      /\ \A f \in Live' : LoopSaves(f)'
      /\ TopSaves'
  <2>1. request' = "running" /\ \A e \in Dbs : retries'[e] = 0
    BY <1>1, <1>2 DEF UpdateInv
  <2>2. /\ \A f \in FramesOf(stack') : Len(stack') <= 1
        /\ (~Idle => Top.key \in Unsaved(Top.db))'
    BY <1>1, <1>3, NewWriteTop
  <2> QED
    BY <2>1, <2>2, StillRunning
<1>5. \A e \in Dbs : Active(e)' = Active(e)
  BY <1>1 DEF Active
<1>6. ASSUME NEW e \in Dbs PROVE OpenKeeps(e)'
  <2>1. OpenKeeps(e) /\ open[e] = "OPEN"
    BY <1>2, <1>3 DEF AliveInv
  <2> QED
    BY <1>1, <1>5, <2>1 DEF OpenKeeps
<1>7. ASSUME NEW e \in Dbs PROVE UnsavedKeeps(e)'
  <2>1. UnsavedKeeps(e) /\ open'[e] = "OPEN"
    BY <1>3, <1>4 DEF AliveInv
  <2>2. \A j \in Unsaved(e)' : j \in Unsaved(e) \/ entry[e][j] = 0
    BY <1>1, <1>3, NewWriteKeys DEF Unsaved, IssuedFirst
  <2> QED
    BY <1>1, <2>1, <2>2 DEF UnsavedKeeps
<1>8. IssuedFirst'
  <2> SUFFICES ASSUME NEW e \in Dbs, NEW j \in Keys, <<e, j>> \notin issued'
               PROVE  j \notin saved'[e] /\ j \notin KeysOf(e)' /\ entry'[e][j] = 0
    BY DEF IssuedFirst
  <2>1. <<e, j>> \notin issued /\ (e # d \/ j # k)
    BY <1>1
  <2>2. j \notin saved[e] /\ j \notin KeysOf(e) /\ entry[e][j] = 0
    BY <1>3, <2>1 DEF IssuedFirst
  <2> QED
    BY <1>1, <2>1, <2>2, NewWriteKeys
<1>9. OpsAtSnapshot'
  BY <1>1, <1>3 DEF OpsAtSnapshot
<1> QED
  BY <1>4, <1>6, <1>7, <1>8, <1>9 DEF AliveInv
(***************************************************************************)
(* What steps that take no read transaction and save nothing keep.         *)
(***************************************************************************)
\* The objects: each keeps what it had, or is no longer open and has no write
\* left to save.  A native transaction that starts over is no object's own.
LEMMA ObjectsKept ==
  ASSUME TypeOK, TypeOK', AliveInv, UNCHANGED <<entry, saved, issued>>,
         Len(native') = Len(native),
         \A n \in 1 .. Len(native) :
            /\ native'[n].db = native[n].db
            /\ native'[n].snap = native[n].snap \/ (GivenAway(n) /\ native'[n].ops = {})
            /\ native'[n].ops \in {native[n].ops, {}},
         \A e \in Dbs : writes'[e] \in {writes[e], <<>>},
         \A e \in Dbs :
            \/ /\ open'[e] = open[e] /\ used'[e] = used[e] /\ transaction'[e] = transaction[e]
               /\ Active(e)' = Active(e)
            \/ open'[e] # "OPEN" /\ Unsaved(e)' = {}
  PROVE  /\ \A e \in Dbs : OpenKeeps(e)' /\ UnsavedKeeps(e)'
         /\ OpsAtSnapshot' /\ IssuedFirst'
<1>1. \A e \in Dbs : OpenKeeps(e) /\ UnsavedKeeps(e)
  BY DEF AliveInv
<1>2. \A e \in Dbs : KeysOf(e)' \subseteq KeysOf(e) /\ Unsaved(e)' \subseteq Unsaved(e)
  BY DEF KeysOf, Unsaved
<1>3. ASSUME NEW e \in Dbs PROVE OpenKeeps(e)' /\ UnsavedKeeps(e)'
  <2>1. CASE open'[e] # "OPEN" /\ Unsaved(e)' = {}
    BY <2>1 DEF OpenKeeps, UnsavedKeeps
  <2>2. CASE /\ open'[e] = open[e] /\ used'[e] = used[e] /\ transaction'[e] = transaction[e]
             /\ Active(e)' = Active(e)
    <3>1. OpenKeeps(e)'
      BY <1>1, <2>2, OpenKept
    <3>2. transaction[e] # None => native'[transaction[e]].snap = native[transaction[e]].snap
      <4>1. transaction[e] \in 0 .. Len(native) /\ Len(native) \in Nat
        BY DEF TypeOK, Handles
      <4> QED
        BY <4>1 DEF GivenAway, None
    <3>3. UnsavedKeeps(e)'
      BY <1>1, <1>2, <2>2, <3>2, UnsavedKept
    <3> QED
      BY <3>1, <3>3
  <2> QED
    BY <2>1, <2>2
<1>4. OpsAtSnapshot'
  <2>1. DOMAIN native' = 1 .. Len(native) /\ DOMAIN native = 1 .. Len(native)
    BY DEF TypeOK
  <2> QED
    BY <2>1 DEF OpsAtSnapshot, AliveInv
<1>5. IssuedFirst'
  BY <1>2 DEF IssuedFirst, AliveInv
<1> QED
  BY <1>3, <1>4, <1>5

\* The frames: those of commit wait below the top.
LEMMA LoopsWait ==
  ASSUME TypeOK', \A f \in FramesOf(stack') : f.at = "loop"
  PROVE  TopSaves'
<1>1. stack' # <<>> => FramesOf(stack') = {Head(stack')} \cup FramesOf(Tail(stack'))
  BY PopFrame DEF TypeOK
<1> QED
  BY <1>1 DEF TopSaves, Top, Idle

LEMMA CloseOnTop ==
  ASSUME TypeOK', NEW f, NEW rest \in Seq(Frames), f \in CommitFrames, stack' = <<f>> \o rest,
         \A g \in FramesOf(rest) : g.at = "loop"
  PROVE  TopSaves'
<1>1. Top' = f /\ Tail(stack') = rest
  BY PushFrame DEF Top, Frames
<1>2. f.at # "save" /\ f.at # "aborted"
  BY DEF CommitFrames
<1> QED
  BY <1>1, <1>2 DEF TopSaves

\* Away from a save, every frame in place keeps what it has to.
LEMMA FramesKept ==
  ASSUME TypeOK, TypeOK', AliveInv, UNCHANGED saved, Idle \/ Top.at # "save",
         \A e \in Dbs : writes'[e] \in {writes[e], <<>>}
  PROVE  \A f \in Live : LoopSaves(f)'
<1> SUFFICES ASSUME NEW f \in Live PROVE LoopSaves(f)'
  OBVIOUS
<1>1. LoopSaves(f) /\ f \in Frames
  BY LiveType DEF AliveInv
<1> QED
  BY <1>1, LoopKept

\* Below the top of the stack there are loops of commit, in place before.
LEMMA BelowTop ==
  ASSUME TypeOK, AliveInv, ~Idle
  PROVE  /\ Top \in Live /\ Top \in Frames /\ Top.db \in Dbs
         /\ Tail(stack) \in Seq(Frames) /\ FramesOf(Tail(stack)) \subseteq Live
         /\ \A f \in FramesOf(Tail(stack)) : f.at = "loop"
         /\ Top.at # "aborted"
  BY TopType, LiveType DEF AliveInv, TopSaves

(***************************************************************************)
(* The steps of commit.                                                    *)
(***************************************************************************)
LEMMA CommitUpdates ==
  ASSUME TypeOK, UpdateInv, Alive, TypeOK', Commit
  PROVE  AliveInv'
<1>1. /\ Idle /\ stack' = <<CommitFrame(1, None, TRUE)>>
      /\ UNCHANGED <<objVars, parked, waits, scan, storeVars, issued>>
  BY DEF Commit, Running
<1>2. AliveInv
  BY DEF UpdateInv
<1>3. CommitFrame(1, None, TRUE) \in Frames
  BY DbsType, FrameTypes DEF Frames, None
<1>4. FramesOf(stack') = {CommitFrame(1, None, TRUE)}
  BY <1>1, <1>3, NoFrame
<1>5. \A f : f = CommitFrame(1, None, TRUE) => LoopSaves(f)' /\ f.at = "loop"
  BY DbsType, NewLoop
<1>6. TopSaves'
  BY <1>4, <1>5, LoopsWait
<1>7. \A f \in Live' : LoopSaves(f)'
  <2>1. \A f \in Live : LoopSaves(f)'
    BY <1>1, <1>2, FramesKept DEF objVars
  <2> QED
    BY <1>1, <1>4, <1>5, <2>1 DEF Live
<1>8. \A e \in Dbs : RetriesReload(e)'
  BY <1>1, <1>2, WritesKept DEF objVars, AliveInv
<1>9. /\ \A e \in Dbs : OpenKeeps(e)' /\ UnsavedKeeps(e)'
      /\ OpsAtSnapshot' /\ IssuedFirst'
  <2>1. \A e \in Dbs : Active(e)' = Active(e)
    BY <1>1 DEF Active
  <2>2. UNCHANGED <<entry, saved, issued, native, writes, open, used, transaction>>
    BY <1>1 DEF objVars, storeVars
  <2> QED
    BY <1>2, <2>1, <2>2, ObjectsKept
<1> QED
  BY <1>6, <1>7, <1>8, <1>9 DEF AliveInv

\* Steps that move frames only.
LEMMA SameObjects ==
  ASSUME TypeOK, TypeOK', AliveInv,
         UNCHANGED <<native, open, transaction, used, scan, writes, saved, entry, issued>>
  PROVE  /\ \A e \in Dbs : OpenKeeps(e)' /\ UnsavedKeeps(e)'
         /\ OpsAtSnapshot' /\ IssuedFirst'
<1>1. \A e \in Dbs : Active(e)' = Active(e)
  BY DEF Active
<1> QED
  BY <1>1, ObjectsKept

\* A commit begins on top of the stack.
LEMMA NewCommit ==
  ASSUME TypeOK, TypeOK', NEW d \in Dbs, NEW opt \in Nat, NEW main \in BOOLEAN,
         NEW rest \in Seq(Frames), stack' = <<CommitFrame(d, opt, main)>> \o rest,
         \A f \in FramesOf(rest) : f.at = "loop" /\ LoopSaves(f)'
  PROVE  /\ \A f \in FramesOf(stack') : LoopSaves(f)'
         /\ TopSaves'
<1>1. CommitFrame(d, opt, main) \in Frames
  BY FrameTypes DEF Frames
<1>2. FramesOf(stack') = {CommitFrame(d, opt, main)} \cup FramesOf(rest)
  BY <1>1, PushFrame
<1>3. \A f : f = CommitFrame(d, opt, main) => LoopSaves(f)' /\ f.at = "loop"
  BY NewLoop
<1>4. \A f \in FramesOf(stack') : LoopSaves(f)' /\ f.at = "loop"
  BY <1>2, <1>3
<1> QED
  BY <1>4, LoopsWait

LEMMA CommitAgainUpdates ==
  ASSUME TypeOK, UpdateInv, Alive, TypeOK', CommitAgain
  PROVE  AliveInv'
<1>1. /\ ~Idle /\ Top.at = "close"
      /\ stack' = <<CommitFrame(Top.db, Top.opt, Top.main)>> \o Tail(stack)
      /\ UNCHANGED <<open, transaction, used, writes, saved, entry, validated, retries>>
      /\ UNCHANGED <<parked, waits, scan, issued, native>>
  BY DEF CommitAgain, objVars, reqVars, storeVars
<1>2. AliveInv
  BY DEF UpdateInv
<1>3. /\ Top.db \in Dbs /\ Top.opt \in Nat /\ Top.main \in BOOLEAN
      /\ Tail(stack) \in Seq(Frames) /\ FramesOf(Tail(stack)) \subseteq Live
      /\ \A f \in FramesOf(Tail(stack)) : f.at = "loop"
  BY <1>1, <1>2, BelowTop, CloseType
<1>4. \A f \in Live : LoopSaves(f)'
  BY <1>1, <1>2, FramesKept
<1>5. /\ \A f \in FramesOf(stack') : LoopSaves(f)'
      /\ TopSaves'
  BY <1>1, <1>3, <1>4, NewCommit
<1>6. \A f \in Live' : LoopSaves(f)'
  BY <1>1, <1>4, <1>5 DEF Live
<1>7. \A e \in Dbs : RetriesReload(e)'
  BY <1>1, <1>2, WritesKept DEF AliveInv
<1>8. /\ \A e \in Dbs : OpenKeeps(e)' /\ UnsavedKeeps(e)'
      /\ OpsAtSnapshot' /\ IssuedFirst'
  BY <1>1, <1>2, SameObjects
<1> QED
  BY <1>5, <1>6, <1>7, <1>8 DEF AliveInv

\* The loop of commit goes on to the next write, or saves the one it is at.
LEMMA CommitWriteUpdates ==
  ASSUME TypeOK, UpdateInv, Alive, TypeOK', CommitWrite
  PROVE  AliveInv'
<1>1. /\ ~Idle /\ Top.at = "loop" /\ Top.i <= Len(writes[Top.db])
      /\ stack' = IF retries[Top.db] = 0 /\ TurnKey \in saved[Top.db]
                  THEN <<Turn>> \o Tail(stack)
                  ELSE <<TurnSave>> \o (<<Turn>> \o Tail(stack))
      /\ UNCHANGED <<open, transaction, used, writes, saved, entry, validated, retries>>
      /\ UNCHANGED <<parked, waits, scan, issued, native>>
  BY CommitWriteEffect DEF objVars, reqVars, storeVars
<1>2. AliveInv
  BY DEF UpdateInv
<1>3. /\ Top \in Live /\ Top.db \in Dbs
      /\ Tail(stack) \in Seq(Frames) /\ FramesOf(Tail(stack)) \subseteq Live
      /\ \A f \in FramesOf(Tail(stack)) : f.at = "loop"
  BY <1>1, <1>2, BelowTop
<1>4. \A f \in Live : LoopSaves(f)'
  BY <1>1, <1>2, FramesKept
<1>5. PICK d \in Dbs, i \in Nat, k \in Keys, turn \in CommitFrames, save \in SaveFrames :
         /\ d = Top.db /\ i = Top.i /\ k = TurnKey /\ turn = Turn /\ save = TurnSave
  BY <1>1, TurnType
<1>6. /\ i \in 1 .. Len(writes[d]) /\ k = writes[d][i]
      /\ turn.at = "loop" /\ turn.db = d /\ turn.i = i + 1
      /\ save.at = "save" /\ save.db = d /\ save.key = k /\ save.reload = (i <= validated[d])
  BY <1>1, <1>5, TurnType DEF TurnKey
<1>7. \A j \in 1 .. Len(writes[d]) : j < i => writes[d][j] \in saved[d]
  BY <1>1, <1>2, <1>3, <1>5 DEF LoopSaves, AliveInv
<1>8. \/ stack' = <<turn>> \o Tail(stack) /\ k \in saved[d]
      \/ /\ stack' = <<save>> \o (<<turn>> \o Tail(stack))
         /\ retries[d] = 0 => k \notin saved[d]
  BY <1>1, <1>5
<1>9. turn \in Frames /\ save \in Frames
  BY DEF Frames
<1>10. ASSUME stack' = <<turn>> \o Tail(stack), k \in saved[d]
       PROVE  (\A f \in Live' : LoopSaves(f)') /\ TopSaves'
  <2>1. FramesOf(stack') = {turn} \cup FramesOf(Tail(stack))
    BY <1>3, <1>9, <1>10, PushFrame
  <2>2. LoopSaves(turn)'
    <3>1. \A j \in 1 .. Len(writes[d]) : j < i + 1 => writes[d][j] \in saved[d]
      BY <1>6, <1>7, <1>10
    <3> QED
      BY <1>1, <1>6, <3>1 DEF LoopSaves
  <2>3. \A f \in FramesOf(stack') : f.at = "loop"
    BY <1>3, <1>6, <2>1
  <2>4. TopSaves'
    BY <2>3, LoopsWait
  <2> QED
    BY <1>1, <1>3, <1>4, <2>1, <2>2, <2>4 DEF Live
<1>11. ASSUME stack' = <<save>> \o (<<turn>> \o Tail(stack)),
              retries[d] = 0 => k \notin saved[d]
       PROVE  (\A f \in Live' : LoopSaves(f)') /\ TopSaves'
  <2> DEFINE below == <<turn>> \o Tail(stack)
  <2>1. below \in Seq(Frames) /\ FramesOf(below) = {turn} \cup FramesOf(Tail(stack))
    BY <1>3, <1>9, PushFrame
  <2> HIDE DEF below
  <2>2. stack' = <<save>> \o below
    BY <1>11 DEF below
  <2>3. /\ FramesOf(stack') = {save} \cup FramesOf(below)
        /\ stack' # <<>> /\ Head(stack') = save /\ Tail(stack') = below
    BY <1>9, <2>1, <2>2, PushFrame
  <2>4. Top' = save /\ ~Idle' /\ \A f \in FramesOf(Tail(stack')) : f.at = "loop"
    BY <1>3, <1>6, <2>1, <2>3 DEF Top, Idle
  <2>5. LoopSaves(turn)'
    <3>1. \A j \in 1 .. Len(writes[d]) : j < i + 1 => j = i \/ writes[d][j] \in saved[d]
      BY <1>6, <1>7
    <3>2. (Top.at = "save" /\ Top.db = d /\ Top.key = k)'
      BY <1>6, <2>4
    <3> QED
      BY <1>1, <1>6, <2>4, <3>1, <3>2 DEF LoopSaves
  <2>6. k \in KeysOf(d)
    BY <1>6 DEF KeysOf
  <2>7. ~save.reload => k \in Unsaved(d)
    <3>1. retries[d] \in Nat /\ validated[d] \in Nat /\ writes[d] \in Seq(Keys)
      BY DEF TypeOK
    <3>2. RetriesReload(d)
      BY <1>2 DEF AliveInv
    <3>3. i > validated[d] => retries[d] = 0
      BY <1>6, <3>1, <3>2 DEF RetriesReload
    <3>4. i > validated[d] => k \in Unsaved(d)
      BY <1>11, <2>6, <3>3 DEF Unsaved
    <3>5. i > validated[d] \/ i <= validated[d]
      BY <3>1
    <3>6. i <= validated[d] => save.reload
      BY <1>6, Zenon
    <3> QED
      BY <3>4, <3>5, <3>6
  <2>8. open[d] # "OPEN" => save.reload
    BY <1>2, <2>7 DEF UnsavedKeeps, AliveInv
  <2>9. TopSaves'
    <3>1. (k \in KeysOf(d))' /\ (~save.reload => (k \in Unsaved(d))')
          /\ (open'[d] # "OPEN" => save.reload)
      BY <1>1, <2>6, <2>7, <2>8 DEF KeysOf, Unsaved
    <3>2. (Top.at = "save" /\ Top.db = d /\ Top.key = k /\ Top.reload = save.reload)'
      BY <1>6, <2>4
    <3>3. (Top.key \in KeysOf(Top.db))' /\ (~Top.reload => Top.key \in Unsaved(Top.db))'
          /\ (open[Top.db] # "OPEN" => Top.reload)'
      BY <3>1, <3>2 DEF KeysOf, Unsaved
    <3> QED
      BY <2>4, <3>2, <3>3 DEF TopSaves
  <2>10. LoopSaves(save)'
    BY <1>6 DEF LoopSaves
  <2> QED
    BY <1>1, <1>3, <1>4, <2>1, <2>3, <2>5, <2>9, <2>10 DEF Live
<1>12. \A e \in Dbs : RetriesReload(e)'
  BY <1>1, <1>2, WritesKept DEF AliveInv
<1>13. /\ \A e \in Dbs : OpenKeeps(e)' /\ UnsavedKeeps(e)'
       /\ OpsAtSnapshot' /\ IssuedFirst'
  BY <1>1, <1>2, SameObjects
<1> QED
  BY <1>8, <1>10, <1>11, <1>12, <1>13 DEF AliveInv

\* The end of the loop: every write has been saved.
LEMMA CommitValidatedUpdates ==
  ASSUME TypeOK, UpdateInv, Alive, TypeOK', CommitValidated
  PROVE  AliveInv'
<1>1. /\ ~Idle /\ Top.at = "loop" /\ Top.i > Len(writes[Top.db])
      /\ UNCHANGED <<open, transaction, used, writes, saved, entry, retries>>
      /\ UNCHANGED <<waits, scan, issued, native>>
      /\ validated' = [validated EXCEPT ![Top.db] = Len(writes[Top.db])]
  BY DEF CommitValidated, Validated, reqVars, storeVars
<1>2. AliveInv
  BY DEF UpdateInv
<1>3. /\ Top \in CommitFrames /\ Top \in Live /\ Top.db \in Dbs
      /\ Tail(stack) \in Seq(Frames) /\ FramesOf(Tail(stack)) \subseteq Live
      /\ \A f \in FramesOf(Tail(stack)) : f.at = "loop"
  BY <1>1, <1>2, BelowTop, TopType
<1>4. \A f \in Live : LoopSaves(f)'
  BY <1>1, <1>2, FramesKept
<1>5. PICK d \in Dbs, close \in CommitFrames :
         /\ d = Top.db /\ close.at = "close" /\ close.db = d
         /\ \/ parked' = parked \cup {close} /\ stack' = Tail(stack)
            \/ parked' = parked /\ stack' = <<close>> \o Tail(stack)
  <2> DEFINE f == [Top EXCEPT !.at = "close", !.awaits = Outstanding(Top.db)]
  <2>1. Outstanding(Top.db) \in SUBSET (Dbs \X Keys)
    BY DEF Outstanding, TypeOK
  <2>2. f \in CommitFrames /\ f.at = "close" /\ f.db = Top.db
    BY <1>3, <2>1 DEF CommitFrames
  <2>3. \/ parked' = parked \cup {f} /\ stack' = Tail(stack)
        \/ parked' = parked /\ stack' = <<f>> \o Tail(stack)
    BY DEF CommitValidated
  <2> QED
    BY <1>3, <2>2, <2>3
<1>6. LoopSaves(close)'
  <2>1. Top.i \in Nat /\ writes[d] \in Seq(Keys) /\ Len(writes[d]) \in Nat
    BY <1>3 DEF CommitFrames, TypeOK
  <2>2. \A j \in 1 .. Len(writes[d]) : writes[d][j] \in saved[d]
    <3>1. LoopSaves(Top)
      BY <1>2, <1>3 DEF AliveInv
    <3>2. \A j \in 1 .. Len(writes[d]) : j < Top.i
      BY <1>1, <1>5, <2>1
    <3> QED
      BY <1>1, <1>5, <3>1, <3>2 DEF LoopSaves
  <2>3. KeysOf(d) \subseteq saved[d]
    BY <2>2 DEF KeysOf
  <2> QED
    BY <1>1, <1>5, <2>3 DEF LoopSaves, KeysOf
<1>7. ASSUME parked' = parked \cup {close}, stack' = Tail(stack)
      PROVE  (\A f \in Live' : LoopSaves(f)') /\ TopSaves'
  <2>1. TopSaves'
    BY <1>3, <1>7, LoopsWait
  <2> QED
    BY <1>3, <1>4, <1>6, <1>7, <2>1 DEF Live
<1>8. ASSUME parked' = parked, stack' = <<close>> \o Tail(stack)
      PROVE  (\A f \in Live' : LoopSaves(f)') /\ TopSaves'
  <2>1. close \in Frames
    BY DEF Frames
  <2>2. FramesOf(stack') = {close} \cup FramesOf(Tail(stack))
    BY <1>3, <1>8, <2>1, PushFrame
  <2>3. TopSaves'
    BY <1>3, <1>8, CloseOnTop
  <2> QED
    BY <1>3, <1>4, <1>6, <1>8, <2>2, <2>3 DEF Live
<1>9. ASSUME NEW e \in Dbs PROVE RetriesReload(e)'
  <2>1. CASE e = d
    BY <1>1, <1>3, <1>5, <2>1 DEF RetriesReload, TypeOK
  <2>2. CASE e # d
    BY <1>1, <1>2, <1>3, <1>5, <2>2 DEF RetriesReload, TypeOK, AliveInv
  <2> QED
    BY <2>1, <2>2
<1>10. /\ \A e \in Dbs : OpenKeeps(e)' /\ UnsavedKeeps(e)'
       /\ OpsAtSnapshot' /\ IssuedFirst'
  BY <1>1, <1>2, SameObjects
<1> QED
  BY <1>5, <1>7, <1>8, <1>9, <1>10 DEF AliveInv

\* The hooks resolve, or one of them rejects.
LEMMA HooksUpdates ==
  ASSUME TypeOK, UpdateInv, Alive, TypeOK', NEW f \in parked, HooksDone(f) \/ HookFailed(f)
  PROVE  AliveInv'
<1>1. /\ Idle /\ stack' \in {stack, <<f>>} /\ parked' \subseteq parked
      /\ UNCHANGED <<open, transaction, used, writes, saved, entry, validated, retries>>
      /\ UNCHANGED <<waits, scan, issued, native>>
  BY DEF HooksDone, HookFailed, objVars, reqVars, storeVars
<1>2. AliveInv
  BY DEF UpdateInv
<1>3. \A g \in Live : LoopSaves(g)'
  BY <1>1, <1>2, FramesKept
<1>4. f \in CommitFrames /\ f \in Frames
  BY DEF TypeOK, Frames
<1>5. (\A g \in Live' : LoopSaves(g)') /\ TopSaves'
  <2>1. CASE stack' = <<>>
    <3>1. TopSaves'
      BY <2>1 DEF TopSaves, Idle
    <3>2. Live' \subseteq Live
      BY <1>1, <2>1 DEF Live, FramesOf
    <3> QED
      BY <1>3, <3>1, <3>2
  <2>2. CASE stack' = <<f>>
    <3>1. FramesOf(stack') = {f} /\ stack' # <<>> /\ Head(stack') = f /\ Tail(stack') = <<>>
      BY <1>4, <2>2, NoFrame
    <3>2. FramesOf(Tail(stack')) = {} /\ Top' = f
      BY <3>1, NoFrame DEF Top
    <3>3. f.at # "save" /\ f.at # "aborted"
      BY <1>4 DEF CommitFrames
    <3>4. TopSaves'
      BY <3>2, <3>3 DEF TopSaves
    <3>5. Live' \subseteq Live
      BY <1>1, <3>1 DEF Live
    <3> QED
      BY <1>3, <3>4, <3>5
  <2> QED
    BY <1>1, <2>1, <2>2 DEF Idle
<1>6. \A e \in Dbs : RetriesReload(e)'
  BY <1>1, <1>2, WritesKept DEF AliveInv
<1>7. /\ \A e \in Dbs : OpenKeeps(e)' /\ UnsavedKeeps(e)'
      /\ OpsAtSnapshot' /\ IssuedFirst'
  BY <1>1, <1>2, SameObjects
<1> QED
  BY <1>5, <1>6, <1>7 DEF AliveInv

\* A commit that waited for its hooks has saved all its writes.
LEMMA ClosingSaved ==
  ASSUME TypeOK, AliveInv, ~Idle, Top.at = "close"
  PROVE  Unsaved(Top.db) = {}
<1>1. LoopSaves(Top)
  BY BelowTop DEF AliveInv
<1> QED
  BY <1>1 DEF LoopSaves, Unsaved

LEMMA CommitLingersUpdates ==
  ASSUME TypeOK, UpdateInv, Alive, TypeOK', CommitLingers
  PROVE  AliveInv'
<1>1. /\ ~Idle /\ Top.at = "close"
      /\ open' = [open EXCEPT ![Top.db] = LeftOpen(Top.db)]
      /\ used' = [used EXCEPT ![Top.db] = Plus(@, -1)]
      /\ AfterCommit(Top.db, Top.opt, Top.main, Tail(stack))
      /\ UNCHANGED <<transaction, writes, saved, entry, validated, retries>>
      /\ UNCHANGED <<parked, waits, scan, issued, native>>
  BY DEF CommitLingers, storeVars
<1>2. AliveInv
  BY DEF UpdateInv
<1>3. /\ Top.db \in Dbs /\ Top.opt \in Nat /\ Top.main \in BOOLEAN
      /\ Tail(stack) \in Seq(Frames) /\ FramesOf(Tail(stack)) \subseteq Live
      /\ \A f \in FramesOf(Tail(stack)) : f.at = "loop"
  BY <1>1, <1>2, BelowTop, CloseType
<1>4. \A f \in Live : LoopSaves(f)'
  BY <1>1, <1>2, FramesKept
<1>5. /\ \A f \in FramesOf(stack') : LoopSaves(f)'
      /\ TopSaves'
  BY <1>1, <1>3, <1>4, AfterCommitUpdates
<1>6. \A f \in Live' : LoopSaves(f)'
  BY <1>1, <1>4, <1>5 DEF Live
<1>7. \A e \in Dbs : RetriesReload(e)'
  BY <1>1, <1>2, WritesKept DEF AliveInv
<1>8. \A e \in Dbs : \/ /\ open'[e] = open[e] /\ used'[e] = used[e] /\ transaction'[e] = transaction[e]
                        /\ Active(e)' = Active(e)
                     \/ open'[e] # "OPEN" /\ Unsaved(e)' = {}
  <2>1. \A e \in Dbs : Active(e)' = Active(e) /\ Unsaved(e)' = Unsaved(e)
    BY <1>1 DEF Active, Unsaved, KeysOf
  <2>2. open'[Top.db] # "OPEN"
    BY <1>1, <1>3 DEF TypeOK, LeftOpen
  <2> QED
    BY <1>1, <1>2, <2>1, <2>2, ClosingSaved DEF TypeOK
<1>9. /\ \A e \in Dbs : OpenKeeps(e)' /\ UnsavedKeeps(e)'
      /\ OpsAtSnapshot' /\ IssuedFirst'
  BY <1>1, <1>2, <1>8, ObjectsKept
<1> QED
  BY <1>5, <1>6, <1>7, <1>9 DEF AliveInv

LEMMA CommitClosesUpdates ==
  ASSUME TypeOK, UpdateInv, Alive, TypeOK', CommitCloses
  PROVE  AliveInv'
<1>1. /\ ~Idle /\ Top.at = "close" /\ Len(writes[Top.db]) <= validated[Top.db]
      /\ open' = [open EXCEPT ![Top.db] = "CLOSED"]
      /\ used' = [used EXCEPT ![Top.db] = Plus(@, -1)]
      /\ transaction' = Cleared(Top.db)
      /\ UNCHANGED <<writes, saved, entry, validated, retries, parked, scan, issued>>
  BY DEF CommitCloses
<1>2. AliveInv
  BY DEF UpdateInv
<1>3. /\ Top.db \in Dbs /\ Top.opt \in Nat /\ Top.main \in BOOLEAN /\ Top.txn \in Nat
      /\ Tail(stack) \in Seq(Frames) /\ FramesOf(Tail(stack)) \subseteq Live
      /\ \A f \in FramesOf(Tail(stack)) : f.at = "loop"
  BY <1>1, <1>2, BelowTop, CloseType
<1>4. \A f \in Live : LoopSaves(f)'
  BY <1>1, <1>2, FramesKept
<1>5. /\ \A f \in FramesOf(stack') : LoopSaves(f)'
      /\ TopSaves'
  <2>1. CASE stack' = Tail(stack)
    BY <1>3, <1>4, <2>1, LoopsWait
  <2>2. CASE AfterCommit(Top.db, Top.opt, Top.main, Tail(stack))
    BY <1>3, <1>4, <2>2, AfterCommitUpdates
  <2> QED
    BY <2>1, <2>2 DEF CommitCloses
<1>6. \A f \in Live' : LoopSaves(f)'
  BY <1>1, <1>4, <1>5 DEF Live
<1>7. \A c \in waits' : c \in waits \/ c.db = Top.db
  BY DEF CommitCloses
<1>8. ASSUME NEW e \in Dbs PROVE RetriesReload(e)'
  <2>1. RetriesReload(e)
    BY <1>2 DEF AliveInv
  <2>2. CASE e = Top.db
    BY <1>1, <2>2 DEF RetriesReload
  <2>3. CASE e # Top.db
    BY <1>1, <1>7, <2>1, <2>3 DEF RetriesReload
  <2> QED
    BY <2>2, <2>3
<1>9. \A e \in Dbs : \/ /\ open'[e] = open[e] /\ used'[e] = used[e] /\ transaction'[e] = transaction[e]
                        /\ Active(e)' = Active(e)
                     \/ open'[e] # "OPEN" /\ Unsaved(e)' = {}
  <2>1. \A e \in Dbs : Active(e)' = Active(e) /\ Unsaved(e)' = Unsaved(e)
    BY <1>1 DEF Active, Unsaved, KeysOf
  <2>2. open'[Top.db] # "OPEN"
    BY <1>1, <1>3 DEF TypeOK
  <2>3. Unsaved(Top.db) = {}
    BY <1>1, <1>2, ClosingSaved
  <2>4. \A e \in Dbs : e # Top.db =>
           open'[e] = open[e] /\ used'[e] = used[e] /\ transaction'[e] = transaction[e]
    BY <1>1 DEF TypeOK, Cleared
  <2> QED
    BY <1>3, <2>1, <2>2, <2>3, <2>4
<1>10. Len(native') = Len(native) /\
       \A n \in 1 .. Len(native) :
          native'[n].db = native[n].db /\ native'[n].snap = native[n].snap /\ native'[n].ops = native[n].ops
  <2>1. CASE native' = native
    BY <2>1
  <2>2. CASE native' = NativeAbort(Top.txn)
    BY <1>3, <2>2, AbortType, AbortChange
  <2>3. CASE native' = [native EXCEPT ![Top.txn].state = IF @ = "open" THEN "committing" ELSE @]
    <3>1. \A n \in 1 .. Len(native) : native[n] \in NativeTxn
      BY DEF TypeOK
    <3> QED
      BY <1>3, <2>3, <3>1, ClosedNatives DEF NativeTxn
  <2> QED
    BY <2>1, <2>2, <2>3 DEF CommitCloses
<1>11. /\ \A e \in Dbs : OpenKeeps(e)' /\ UnsavedKeeps(e)'
       /\ OpsAtSnapshot' /\ IssuedFirst'
  BY <1>1, <1>2, <1>9, <1>10, ObjectsKept
<1> QED
  BY <1>5, <1>6, <1>8, <1>11 DEF AliveInv

\* The store answers a commit: the object forgets its writes.
LEMMA CommitSucceededUpdates ==
  ASSUME TypeOK, UpdateInv, Alive, TypeOK', NEW c \in waits, CommitSucceeded(c)
  PROVE  AliveInv'
<1>1. /\ Idle /\ AfterCommit(c.db, c.opt, c.main, <<>>)
      /\ writes' = [writes EXCEPT ![c.db] = <<>>] /\ waits' \subseteq waits
      /\ UNCHANGED <<open, transaction, used, saved, entry, validated, retries>>
      /\ UNCHANGED <<parked, scan, issued, native>>
  BY DEF CommitSucceeded, storeVars
<1>2. AliveInv
  BY DEF UpdateInv
<1>3. c.db \in Dbs /\ c.opt \in Nat /\ c.main \in BOOLEAN
  BY DEF TypeOK, Awaiting
<1>4. \A e \in Dbs : writes'[e] \in {writes[e], <<>>}
  BY <1>1 DEF TypeOK
<1>5. \A f \in Live : LoopSaves(f)'
  BY <1>1, <1>2, <1>4, FramesKept
<1>6. /\ \A f \in FramesOf(stack') : LoopSaves(f)'
      /\ TopSaves'
  <2>1. <<>> \in Seq(Frames) /\ FramesOf(<<>>) = {}
    BY NoFrame
  <2> QED
    BY <1>1, <1>3, <2>1, AfterCommitUpdates
<1>7. \A f \in Live' : LoopSaves(f)'
  BY <1>1, <1>5, <1>6 DEF Live
<1>8. \A e \in Dbs : RetriesReload(e)'
  BY <1>1, <1>2, <1>4, WritesKept DEF AliveInv
<1>9. /\ \A e \in Dbs : OpenKeeps(e)' /\ UnsavedKeeps(e)'
      /\ OpsAtSnapshot' /\ IssuedFirst'
  <2>1. \A e \in Dbs : Active(e)' = Active(e)
    BY <1>1 DEF Active
  <2> QED
    BY <1>1, <1>2, <1>4, <2>1, ObjectsKept
<1> QED
  BY <1>6, <1>7, <1>8, <1>9 DEF AliveInv

\* ERR_BUSY: the writes were all validated, so the retry reads them again.
LEMMA CommitRetriesUpdates ==
  ASSUME TypeOK, HandleInv, UpdateInv, Alive, TypeOK', NEW c \in waits, CommitRetries(c)
  PROVE  AliveInv'
<1>1. /\ Idle /\ stack' = <<CommitFrame(c.db, c.txn, c.main)>> /\ waits' \subseteq waits
      /\ retries' = [retries EXCEPT ![c.db] = @ + 1]
      /\ UNCHANGED <<open, transaction, used, writes, saved, entry, validated>>
      /\ UNCHANGED <<parked, scan, issued>>
  BY DEF CommitRetries, reqVars
<1>2. AliveInv
  BY DEF UpdateInv
<1>3. c.db \in Dbs /\ c.txn \in Nat /\ c.main \in BOOLEAN /\ c.txn \in DOMAIN native
  BY DEF TypeOK, Awaiting
<1>4. \A f \in Live : LoopSaves(f)'
  BY <1>1, <1>2, FramesKept
<1>5. /\ \A f \in FramesOf(stack') : LoopSaves(f)'
      /\ TopSaves'
  <2>1. <<>> \in Seq(Frames) /\ FramesOf(<<>>) = {} /\ stack' = <<CommitFrame(c.db, c.txn, c.main)>> \o <<>>
    BY <1>1, NoFrame, SMTT(30)
  <2> QED
    BY <1>3, <2>1, NewCommit
<1>6. \A f \in Live' : LoopSaves(f)'
  BY <1>1, <1>4, <1>5 DEF Live
<1>7. ASSUME NEW e \in Dbs PROVE RetriesReload(e)'
  <2>1. RetriesReload(e)
    BY <1>2 DEF AliveInv
  <2>2. CASE e = c.db
    BY <1>1, <2>1, <2>2 DEF RetriesReload
  <2>3. CASE e # c.db
    BY <1>1, <2>1, <2>3 DEF RetriesReload, TypeOK
  <2> QED
    BY <2>2, <2>3
<1>8. /\ Len(native') = Len(native)
      /\ \A n \in 1 .. Len(native) :
            /\ native'[n].db = native[n].db
            /\ native'[n].snap = native[n].snap \/ (GivenAway(n) /\ native'[n].ops = {})
            /\ native'[n].ops \in {native[n].ops, {}}
  <2>1. native' = [native EXCEPT ![c.txn] = Restarted(c.txn)]
    BY <1>3, RestartedType DEF CommitRetries
  <2>2. /\ Restarted(c.txn) \in NativeTxn /\ Restarted(c.txn).db = native[c.txn].db
        /\ Restarted(c.txn).ops = {}
    BY <1>3, RestartedType
  <2>3. GivenAway(c.txn)
    BY DEF HandleInv
  <2>4. Len(native') = Len(native) /\ native \in Seq(NativeTxn)
    BY <1>3, <2>1, <2>2, NativeType DEF TypeOK
  <2>5. \A n \in 1 .. Len(native) : native'[n] = IF n = c.txn THEN Restarted(c.txn) ELSE native[n]
    BY <1>3, <2>1, <2>4
  <2> QED
    BY <2>2, <2>3, <2>4, <2>5
<1>9. /\ \A e \in Dbs : OpenKeeps(e)' /\ UnsavedKeeps(e)'
      /\ OpsAtSnapshot' /\ IssuedFirst'
  <2>1. \A e \in Dbs : Active(e)' = Active(e)
    BY <1>1 DEF Active
  <2> QED
    BY <1>1, <1>2, <1>8, <2>1, ObjectsKept
<1> QED
  BY <1>5, <1>6, <1>7, <1>9 DEF AliveInv

(***************************************************************************)
(* The steps of the store, of other requests and of iterators.             *)
(***************************************************************************)
\* The optimistic check of the store compares the versions of the records
\* written with its snapshot, that is, with the versions they were read at.
LEMMA NativeCommitUpdates ==
  ASSUME TypeOK, UpdateInv, Alive, TypeOK', NEW n \in DOMAIN native, NativeCommit(n)
  PROVE  AliveInv' /\ NoLostUpdate'
<1>1. /\ Idle /\ UNCHANGED <<open, transaction, used, writes, saved, entry, validated, retries>>
      /\ UNCHANGED <<stack, parked, waits, scan, issued>>
      /\ \E st : native' = [native EXCEPT ![n].state = st]
  BY DEF NativeCommit, objVars, callVars, reqVars
<1>2. AliveInv /\ NoLostUpdate
  BY DEF UpdateInv
<1>3. native \in Seq(NativeTxn) /\ DOMAIN native = 1 .. Len(native) /\ Len(native) \in Nat
  BY DEF TypeOK
<1>4. Len(native') = Len(native) /\
      \A m \in 1 .. Len(native) :
         native'[m].db = native[m].db /\ native'[m].snap = native[m].snap /\ native'[m].ops = native[m].ops
  <2>1. PICK st : native' = [native EXCEPT ![n].state = st]
    BY <1>1
  <2>2. Len(native') = Len(native)
    <3>1. native' \in Seq(NativeTxn) /\ DOMAIN native' = DOMAIN native
      BY <1>1 DEF TypeOK
    <3> QED
      BY <1>3, <3>1
  <2> QED
    BY <1>3, <2>1, <2>2, StateChange
<1>5. /\ \A e \in Dbs : OpenKeeps(e)' /\ UnsavedKeeps(e)'
      /\ OpsAtSnapshot' /\ IssuedFirst'
  <2>1. \A e \in Dbs : Active(e)' = Active(e)
    BY <1>1 DEF Active
  <2> QED
    BY <1>1, <1>2, <1>4, <2>1, ObjectsKept
<1>6. \A f \in Live' : LoopSaves(f)'
  BY <1>1, <1>2, FramesKept DEF Live
<1>7. TopSaves'
  BY <1>1, <1>2 DEF TopSaves, Idle, AliveInv
<1>8. \A e \in Dbs : RetriesReload(e)'
  BY <1>1, <1>2, WritesKept DEF AliveInv
<1>9. NoLostUpdate'
  <2>1. CASE UNCHANGED applied
    BY <1>2, <2>1 DEF NoLostUpdate
  <2>2. CASE ~Conflicts(n) /\ applied' = applied \cup
                    {[db |-> native[n].db, key |-> op.key, base |-> op.base,
                      over |-> version[native[n].db][op.key]] : op \in native[n].ops}
    <3>1. \A op \in native[n].ops : op.base = version[native[n].db][op.key]
      BY <1>2, <2>2 DEF Conflicts, OpsAtSnapshot, AliveInv
    <3> QED
      BY <1>2, <2>2, <3>1 DEF NoLostUpdate
  <2> QED
    BY <2>1, <2>2 DEF NativeCommit
<1> QED
  BY <1>5, <1>6, <1>7, <1>8, <1>9 DEF AliveInv

LEMMA OtherWriteUpdates ==
  ASSUME TypeOK, UpdateInv, Alive, TypeOK', NEW d \in Dbs, NEW k \in Keys, OtherWrite(d, k)
  PROVE  AliveInv'
<1>1. /\ Idle /\ UNCHANGED <<open, transaction, used, writes, saved, entry, validated, retries>>
      /\ UNCHANGED <<stack, parked, waits, scan, issued, native>>
  BY DEF OtherWrite, objVars, callVars, reqVars
<1>2. AliveInv
  BY DEF UpdateInv
<1>3. \A f \in Live' : LoopSaves(f)'
  BY <1>1, <1>2, FramesKept DEF Live
<1>4. TopSaves'
  BY <1>1, <1>2 DEF TopSaves, Idle, AliveInv
<1>5. \A e \in Dbs : RetriesReload(e)'
  BY <1>1, <1>2, WritesKept DEF AliveInv
<1>6. /\ \A e \in Dbs : OpenKeeps(e)' /\ UnsavedKeeps(e)'
      /\ OpsAtSnapshot' /\ IssuedFirst'
  BY <1>1, <1>2, SameObjects
<1> QED
  BY <1>3, <1>4, <1>5, <1>6 DEF AliveInv

\* An iterator starts: it joins those that read the object's transaction.
LEMMA ScanStartUpdates ==
  ASSUME TypeOK, QuietInv, UpdateInv, Alive, TypeOK', QuietInv',
         NEW s \in Scans, NEW d \in Dbs, ScanStart(s, d)
  PROVE  AliveInv'
<1>1. /\ TxnForContext(d) /\ GetReadTxn(d, 1) /\ Running /\ scan[s].state = "idle"
      /\ scan' = [scan EXCEPT ![s] = [state |-> "active", db |-> d, txn |-> ReadTxn(d)]]
      /\ UNCHANGED <<writes, saved, entry, validated, retries, issued, request>>
      /\ UNCHANGED <<stack, parked, waits>>
  BY DEF ScanStart, callVars
<1>2. request = "running" /\ Idle /\ \A e \in Dbs : open[e] = "OPEN" /\ OpenState(e) = "OPEN"
  BY <1>1, RunningFacts
<1>3. AliveInv
  BY DEF UpdateInv
<1>4. OpenKeeps(d) /\ OpsAtSnapshot
  BY <1>3 DEF AliveInv
<1>5. /\ SnapsKept
      /\ transaction'[d] # None
      /\ \A e \in Dbs : e # d => transaction'[e] = transaction[e] /\ used'[e] = used[e]
      /\ transaction[d] # None => transaction'[d] = transaction[d]
      /\ \A n \in DOMAIN native' : native'[n].db = d => n = transaction'[d]
      /\ used'[d] = NaN \/ used'[d] > Cardinality(Active(d)) + 1
      /\ OpsAtSnapshot'
  BY <1>1, <1>2, <1>4, ReadKeeps
<1>6. /\ \A e \in Dbs : RetriesReload(e)' /\ open'[e] = "OPEN"
      /\ \A f \in Live' : LoopSaves(f)'
      /\ TopSaves'
  <2>1. request' = "running" /\ (\A e \in Dbs : retries'[e] = 0) /\ stack' = <<>>
    BY <1>1, <1>2 DEF UpdateInv, Idle
  <2>2. FramesOf(stack') = {} /\ Idle'
    BY <2>1 DEF FramesOf, Idle
  <2> QED
    BY <2>1, <2>2, StillRunning
<1>7. /\ Active(d)' = Active(d) \cup {s} /\ s \notin Active(d)
      /\ \A e \in Dbs : e # d => Active(e)' = Active(e)
  <2>1. scan \in [Scans -> [state : {"idle", "active", "done"}, db : Dbs, txn : Nat]]
    BY DEF TypeOK
  <2>2. scan'[s].state = "active" /\ scan'[s].db = d /\ \A t \in Scans : t # s => scan'[t] = scan[t]
    BY <1>1, <2>1
  <2> QED
    BY <1>1, <2>2 DEF Active
<1>8. ASSUME NEW e \in Dbs PROVE OpenKeeps(e)'
  <2>1. CASE e = d
    <3>1. IsFiniteSet(Active(d)) /\ Cardinality(Active(d)) \in Nat
      BY <1>2, <1>4, FS_CardinalityType DEF OpenKeeps
    <3>2. IsFiniteSet(Active(d)') /\ Cardinality(Active(d)') = Cardinality(Active(d)) + 1
      BY <1>7, <3>1, FS_AddElement
    <3>3. used'[d] = NaN \/ used'[d] > Cardinality(Active(d)')
      BY <1>5, <3>2
    <3> QED
      BY <1>5, <2>1, <3>2, <3>3 DEF OpenKeeps
  <2>2. CASE e # d
    <3>1. OpenKeeps(e) /\ open'[e] = open[e] /\ Active(e)' = Active(e)
      BY <1>2, <1>3, <1>6, <1>7, <2>2 DEF AliveInv
    <3> QED
      BY <1>1, <1>2, <1>4, <2>2, <3>1, ReadKeepsOthers
  <2> QED
    BY <2>1, <2>2
<1>9. ASSUME NEW e \in Dbs PROVE UnsavedKeeps(e)'
  <2>1. UnsavedKeeps(e) /\ open'[e] = open[e] /\ transaction[e] \in 0 .. Len(native) /\ Len(native) \in Nat
    BY <1>2, <1>3, <1>6 DEF AliveInv, TypeOK, Handles
  <2>2. transaction[e] # None =>
           transaction'[e] = transaction[e]
           /\ native'[transaction[e]].snap = native[transaction[e]].snap
    BY <1>5, <2>1 DEF SnapsKept, None
  <2>3. Unsaved(e)' = Unsaved(e)
    BY <1>1 DEF Unsaved, KeysOf
  <2> QED
    BY <1>1, <2>1, <2>2, <2>3, UnsavedKept
<1>10. IssuedFirst'
  BY <1>1, <1>3 DEF IssuedFirst, AliveInv, KeysOf
<1> QED
  BY <1>5, <1>6, <1>8, <1>9, <1>10 DEF AliveInv

\* An iterator ends: the last use of a closed object aborts what is left of
\* it, that of a lingering one commits; an open object has uses left.
LEMMA ScanDoneUpdates ==
  ASSUME TypeOK, UpdateInv, Alive, TypeOK', NEW s \in Scans, ScanDone(s)
  PROVE  AliveInv'
<1>1. PICK d \in Dbs : d = scan[s].db
  BY DEF TypeOK
<1>2. /\ Idle /\ scan[s].state = "active" /\ scan' = [scan EXCEPT ![s].state = "done"]
      /\ DoneReadTxn(d)
      /\ UNCHANGED <<open, writes, saved, entry, validated, retries, parked, waits, issued>>
  BY <1>1 DEF ScanDone
<1>3. AliveInv /\ OpenKeeps(d) /\ UnsavedKeeps(d)
  BY DEF UpdateInv, AliveInv
<1>4. /\ s \in Active(d) /\ Active(d)' = Active(d) \ {s}
      /\ \A e \in Dbs : e # d => Active(e)' = Active(e)
  <2>1. scan \in [Scans -> [state : {"idle", "active", "done"}, db : Dbs, txn : Nat]]
    BY DEF TypeOK
  <2>2. scan'[s].state = "done" /\ \A t \in Scans : t # s => scan'[t] = scan[t]
    BY <1>2, <2>1
  <2> QED
    BY <1>1, <1>2, <2>2 DEF Active
<1>5. used \in [Dbs -> Int \cup {NaN}] /\ transaction \in [Dbs -> 0 .. Len(native)]
  BY DEF TypeOK, Handles
<1>6. ASSUME open[d] = "OPEN"
      PROVE  /\ UNCHANGED <<transaction, native, stack>>
             /\ IsFiniteSet(Active(d)') /\ (used'[d] = NaN \/ used'[d] > Cardinality(Active(d)'))
             /\ transaction[d] # None
  <2>1. IsFiniteSet(Active(d)) /\ Cardinality(Active(d)) \in Nat /\ transaction[d] # None
        /\ (used[d] = NaN \/ used[d] > Cardinality(Active(d)))
    BY <1>3, <1>4, <1>6, FS_CardinalityType DEF OpenKeeps
  <2>2. IsFiniteSet(Active(d)') /\ Cardinality(Active(d)') = Cardinality(Active(d)) - 1
        /\ Cardinality(Active(d)') \in Nat
    BY <1>4, <2>1, FS_RemoveElement, FS_CardinalityType
  <2>3. used[d] \in Int \cup {NaN} /\ Plus(used[d], -1) # 0
        /\ (Plus(used[d], -1) = NaN \/ Plus(used[d], -1) > Cardinality(Active(d)'))
    BY <1>5, <2>1, <2>2, NaNAssumption DEF Plus
  <2>4. UNCHANGED <<transaction, native, stack>> /\ used'[d] = Plus(used[d], -1)
    BY <1>2, <1>5, <2>1, <2>3 DEF DoneReadTxn
  <2> QED
    BY <2>1, <2>2, <2>3, <2>4
<1>7. \A e \in Dbs : e # d => transaction'[e] = transaction[e] /\ used'[e] = used[e]
  BY <1>2, <1>5 DEF DoneReadTxn, LastUse, Cleared
<1>8. /\ Len(native') = Len(native)
      /\ \A n \in 1 .. Len(native) :
         native'[n].db = native[n].db /\ native'[n].snap = native[n].snap /\ native'[n].ops = native[n].ops
  <2>1. native' \in {native, NativeAbort(transaction[d])}
    BY <1>2 DEF DoneReadTxn, LastUse
  <2>2. transaction[d] \in Nat
    BY <1>5
  <2> QED
    BY <2>1, <2>2, AbortType, AbortChange
<1>9. \A e \in Dbs : Unsaved(e)' = Unsaved(e)
  BY <1>2 DEF Unsaved, KeysOf
<1>10. /\ \A e \in Dbs : UnsavedKeeps(e)' /\ (e # d => OpenKeeps(e)')
       /\ OpsAtSnapshot' /\ IssuedFirst'
  <2>1. \A e \in Dbs : OpenKeeps(e) /\ UnsavedKeeps(e)
    BY <1>3 DEF AliveInv
  <2>2. \A e \in Dbs : e # d => OpenKeeps(e)'
    BY <1>2, <1>4, <1>7, <1>8, <2>1, OpenKept
  <2>3. ASSUME NEW e \in Dbs PROVE UnsavedKeeps(e)'
    <3>1. Unsaved(e) # {} => transaction'[e] = transaction[e]
      BY <1>6, <1>7, <2>1 DEF UnsavedKeeps
    <3>2. transaction[e] # None => native'[transaction[e]].snap = native[transaction[e]].snap
      <4>1. transaction[e] \in 0 .. Len(native) /\ Len(native) \in Nat
        BY <1>5 DEF TypeOK
      <4> QED
        BY <1>8, <4>1 DEF None
    <3> QED
      BY <1>2, <1>9, <2>1, <3>1, <3>2, UnsavedKept
  <2>4. OpsAtSnapshot'
    <3>1. DOMAIN native' = 1 .. Len(native) /\ DOMAIN native = 1 .. Len(native)
      BY <1>8 DEF TypeOK
    <3> QED
      BY <1>3, <1>8, <3>1 DEF OpsAtSnapshot, AliveInv
  <2>5. IssuedFirst'
    BY <1>2, <1>3 DEF IssuedFirst, AliveInv, KeysOf
  <2> QED
    BY <2>2, <2>3, <2>4, <2>5
<1>11. OpenKeeps(d)'
  <2>1. CASE open'[d] # "OPEN"
    BY <2>1 DEF OpenKeeps
  <2>2. CASE open[d] = "OPEN"
    BY <1>3, <1>6, <2>2 DEF OpenKeeps
  <2> QED
    BY <1>2, <2>1, <2>2
<1>12. (\A f \in FramesOf(stack') : LoopSaves(f)') /\ TopSaves'
  <2>1. CASE stack' = <<>>
    <3>1. FramesOf(stack') = {}
      BY <2>1, NoFrame
    <3> QED
      BY <2>1, <3>1 DEF TopSaves, Idle
  <2>2. CASE stack' = <<CommitFrame(d, None, FALSE)>> \o <<>>
    <3>1. <<>> \in Seq(Frames) /\ FramesOf(<<>>) = {} /\ None \in Nat
      BY NoFrame DEF None
    <3> QED
      BY <2>2, <3>1, NewCommit
  <2> QED
    BY <1>2, <2>1, <2>2 DEF DoneReadTxn, LastUse, Idle
<1>13. \A f \in Live' : LoopSaves(f)'
  <2>1. \A f \in Live : LoopSaves(f)'
    BY <1>2, <1>3, FramesKept
  <2> QED
    BY <1>2, <1>12, <2>1 DEF Live
<1>14. \A e \in Dbs : RetriesReload(e)'
  BY <1>2, <1>3, WritesKept DEF AliveInv
<1> QED
  BY <1>10, <1>11, <1>12, <1>13, <1>14 DEF AliveInv

\* What save does to the native transactions.
LEMMA SaveStores ==
  ASSUME TypeOK, TypeOK', HandleInv, Save
  PROVE  /\ Len(native') = Len(SaveNatives) /\ Len(native) <= Len(native')
         /\ SaveTxn # None => Len(native') = Len(native)
         /\ SaveTxn = None => /\ Len(native') = Len(native) + 1 /\ SaveHandle = Len(native) + 1
                              /\ native'[SaveHandle].db = Top.db
         /\ \A n \in 1 .. Len(native) : native'[n].db = native[n].db /\ native'[n].snap = native[n].snap
         /\ \A n \in 1 .. Len(native') :
               \/ n \in 1 .. Len(native) /\ native'[n].ops = native[n].ops
               \/ native'[n].ops = {}
               \/ /\ n = SaveHandle /\ Usable(SaveNatives, n, Top.db)
                  /\ native'[n].snap = SaveNatives[n].snap
                  /\ native'[n].ops \subseteq SaveNatives[n].ops \cup {[key |-> Top.key, base |-> SaveBase]}
<1>1. /\ ~Idle /\ Top \in SaveFrames /\ Top.db \in Dbs /\ Top.at = "save"
      /\ SaveWrites \/ SaveRejects
  BY SaveEffect
<1>2. /\ SaveNatives \in Seq(NativeTxn) /\ Len(native) <= Len(SaveNatives)
      /\ SaveTxn = None => SaveHandle = Len(native) + 1 /\ Len(SaveNatives) = Len(native) + 1
      /\ SaveTxn # None => SaveHandle = SaveTxn /\ SaveNatives = native
      /\ \A n \in 1 .. Len(native) : SaveNatives[n] = native[n]
  BY <1>1, SaveNativesType
<1>3. /\ SaveHandle \in 1 .. Len(SaveNatives)
      /\ Written.db = SaveNatives[SaveHandle].db
      /\ Written.snap = SaveNatives[SaveHandle].snap
      /\ Written.ops = {o \in SaveNatives[SaveHandle].ops : o.key # Top.key} \cup SaveOps
      /\ Written \in NativeTxn
  <2>1. FrameHolds(Top)
    BY <1>1, LiveType DEF HandleInv
  <2>2. Top.txn <= Len(native)
    BY <1>1, <2>1 DEF FrameHolds
  <2> QED
    BY <1>1, <2>2, SavedValues
<1>4. SaveTxn = None => SaveNatives[SaveHandle].db = Top.db /\ SaveNatives[SaveHandle].ops = {}
  <2>1. native \in Seq(NativeTxn) /\ FreshNative(Top.db) \in NativeTxn
    BY <1>1, FreshType DEF TypeOK
  <2>2. SaveTxn = None => SaveNatives[SaveHandle] = FreshNative(Top.db)
    BY <1>2, <2>1, AppendProperties DEF SaveNatives
  <2> QED
    BY <2>2 DEF FreshNative
<1>5. \A n \in 1 .. Len(SaveNatives) : n \notin 1 .. Len(native) => SaveNatives[n].ops = {}
  <2>1. Len(native) \in Nat
    BY DEF TypeOK
  <2> QED
    BY <1>2, <1>4, <2>1
<1>6. CASE native' = SaveNatives
  BY <1>2, <1>4, <1>5, <1>6
<1>7. CASE Usable(SaveNatives, SaveHandle, Top.db) /\ native' = [SaveNatives EXCEPT ![SaveHandle] = Written]
  <2>1. /\ Len(native') = Len(SaveNatives)
        /\ \A n \in 1 .. Len(SaveNatives) :
              native'[n] = IF n = SaveHandle THEN Written ELSE SaveNatives[n]
    BY <1>2, <1>3, <1>7
  <2>2. Written.ops \subseteq SaveNatives[SaveHandle].ops \cup {[key |-> Top.key, base |-> SaveBase]}
    BY <1>3 DEF SaveOps
  <2>3. \A n \in 1 .. Len(native) : native'[n].db = native[n].db /\ native'[n].snap = native[n].snap
    BY <1>2, <1>3, <2>1
  <2>4. SaveTxn = None => native'[SaveHandle].db = Top.db
    BY <1>3, <1>4, <2>1
  <2>5. ASSUME NEW n \in 1 .. Len(native')
        PROVE  \/ n \in 1 .. Len(native) /\ native'[n].ops = native[n].ops
               \/ native'[n].ops = {}
               \/ /\ n = SaveHandle /\ Usable(SaveNatives, n, Top.db)
                  /\ native'[n].snap = SaveNatives[n].snap
                  /\ native'[n].ops \subseteq SaveNatives[n].ops \cup {[key |-> Top.key, base |-> SaveBase]}
    <3>1. CASE n = SaveHandle
      BY <1>3, <1>7, <2>1, <2>2, <3>1
    <3>2. CASE n # SaveHandle
      BY <1>2, <1>5, <2>1, <3>2
    <3> QED
      BY <3>1, <3>2
  <2> QED
    BY <1>2, <2>1, <2>3, <2>4, <2>5
<1> QED
  BY <1>1, <1>6, <1>7 DEF SaveWrites, SaveRejects

\* The write is saved over the version its native transaction started from:
\* read there now, or read there before the write was issued.
LEMMA SavedOverSnapshot ==
  ASSUME TypeOK, TypeOK', HandleInv, AliveInv, Save, Usable(SaveNatives, SaveHandle, Top.db)
  PROVE  SaveBase = SaveNatives[SaveHandle].snap[Top.key]
<1>1. /\ ~Idle /\ Top \in SaveFrames /\ Top.db \in Dbs /\ Top.at = "save" /\ Top.key \in Keys
      /\ Top.txn \in Nat
  BY SaveEffect
<1>2. CASE Top.reload \/ entry[Top.db][Top.key] = 0
  BY <1>2 DEF SaveBase, ReadVersion
<1>3. CASE ~Top.reload /\ entry[Top.db][Top.key] # 0
  <2>1. Top.key \in Unsaved(Top.db)
    BY <1>1, <1>3 DEF AliveInv, TopSaves
  <2>2. /\ open[Top.db] = "OPEN" /\ transaction[Top.db] # None
        /\ entry[Top.db][Top.key] = native[transaction[Top.db]].snap[Top.key]
    BY <1>1, <1>3, <2>1 DEF AliveInv, UnsavedKeeps
  <2>3. SaveTxn # None /\ SaveHandle = SaveTxn /\ SaveNatives = native
    BY <2>2 DEF SaveTxn, SaveHandle, SaveNatives
  <2>4. SaveHandle = transaction[Top.db]
    <3>1. CASE Top.txn = None
      BY <2>3, <3>1 DEF SaveTxn
    <3>2. CASE Top.txn # None
      <4>1. Top.txn <= Len(native)
        BY <1>1, LiveType DEF HandleInv, FrameHolds
      <4>2. Top.txn \in DOMAIN native /\ SaveHandle = Top.txn
        BY <1>1, <2>3, <3>2, <4>1 DEF SaveTxn, TypeOK, None
      <4>3. native[Top.txn].db = Top.db
        BY <2>3, <4>2 DEF Usable
      <4>4. OpenKeeps(Top.db)
        BY <1>1 DEF AliveInv
      <4> QED
        BY <2>2, <4>2, <4>3, <4>4 DEF OpenKeeps
    <3> QED
      BY <3>1, <3>2
  <2> QED
    BY <1>3, <2>2, <2>3, <2>4 DEF SaveBase
<1> QED
  BY <1>2, <1>3

LEMMA SaveUpdates ==
  ASSUME TypeOK, HandleInv, UpdateInv, Alive, TypeOK', Save
  PROVE  AliveInv'
<1>1. AliveInv
  BY DEF UpdateInv
<1>2. /\ ~Idle /\ Top.at = "save" /\ Top \in SaveFrames
      /\ Tail(stack) \in Seq(Frames)
      /\ transaction' = [transaction EXCEPT ![Top.db] =
                              IF SaveTxn = None /\ ~SaveNow THEN SaveHandle ELSE @]
      /\ entry' = [entry EXCEPT ![Top.db][Top.key] = SaveBase]
      /\ saved' = [saved EXCEPT ![Top.db] = @ \cup {Top.key}]
      /\ SaveWrites \/ SaveRejects
      /\ UNCHANGED <<open, used, writes, validated, retries, parked, waits, scan, issued>>
  BY SaveEffect
<1>3. PICK d \in Dbs, k \in Keys, n \in Nat, base \in {SaveBase} :
         d = Top.db /\ k = Top.key /\ n = SaveHandle /\ base = SaveBase
  BY SaveEffect, SaveNativesType
<1>4. /\ SaveTxn # None => Len(native') = Len(native)
      /\ SaveTxn = None => /\ Len(native') = Len(native) + 1 /\ n = Len(native) + 1
                           /\ native'[n].db = d
      /\ \A m \in 1 .. Len(native) : native'[m].db = native[m].db /\ native'[m].snap = native[m].snap
      /\ Len(native) \in Nat /\ DOMAIN native' = 1 .. Len(native') /\ DOMAIN native = 1 .. Len(native)
      /\ transaction \in [Dbs -> 0 .. Len(native)]
  <2>1. native' \in Seq(NativeTxn) /\ native \in Seq(NativeTxn) /\ transaction \in [Dbs -> 0 .. Len(native)]
    BY DEF TypeOK, Handles
  <2>2. /\ SaveTxn # None => Len(native') = Len(native)
        /\ SaveTxn = None => /\ Len(native') = Len(native) + 1 /\ SaveHandle = Len(native) + 1
                             /\ native'[SaveHandle].db = Top.db
        /\ \A m \in 1 .. Len(native) : native'[m].db = native[m].db /\ native'[m].snap = native[m].snap
    BY SaveStores, SMTT(30)
  <2> QED
    BY <1>3, <2>1, <2>2
<1>5. /\ \A e \in Dbs : e # d => transaction'[e] = transaction[e]
      /\ transaction[d] # None => transaction'[d] = transaction[d]
      /\ open[d] = "OPEN" => transaction'[d] = IF SaveTxn = None THEN n ELSE transaction[d]
      /\ SaveTxn = None => transaction[d] = None
  BY <1>2, <1>3, <1>4 DEF SaveTxn, SaveNow
<1>6. ASSUME NEW e \in Dbs PROVE OpenKeeps(e)'
  <2>1. OpenKeeps(e) /\ Active(e)' = Active(e) /\ open'[e] = open[e] /\ used'[e] = used[e]
    BY <1>1, <1>2, SMTT(30) DEF AliveInv, Active
  <2>2. CASE open[e] = "OPEN"
    <3>1. \A m \in 1 .. Len(native') : native'[m].db = e => m = transaction'[e]
      <4>1. CASE SaveTxn # None
        <5>1. transaction'[e] = transaction[e]
          BY <1>5, <2>2, <4>1
        <5> QED
          BY <1>4, <2>1, <2>2, <4>1, <5>1 DEF OpenKeeps
      <4>2. CASE SaveTxn = None /\ e # d
        <5>1. transaction'[e] = transaction[e]
          BY <1>5, <4>2
        <5>2. \A m \in 1 .. Len(native') : m \in 1 .. Len(native) \/ m = n
          BY <1>4, <4>2
        <5> QED
          BY <1>4, <2>1, <2>2, <4>2, <5>1, <5>2 DEF OpenKeeps
      <4>3. CASE SaveTxn = None /\ e = d
        <5>1. transaction[d] = None /\ transaction'[d] = n
          BY <1>5, <2>2, <4>3
        <5>2. \A m \in 1 .. Len(native) : native[m].db # d
          BY <1>4, <2>1, <2>2, <4>3, <5>1 DEF OpenKeeps, None
        <5>3. \A m \in 1 .. Len(native') : m \in 1 .. Len(native) \/ m = n
          BY <1>4, <4>3
        <5> QED
          BY <1>4, <4>3, <5>1, <5>2, <5>3
      <4> QED
        BY <4>1, <4>2, <4>3, SMTT(30)
    <3>2. transaction'[e] = None => transaction[e] = None
      BY <1>5
    <3> QED
      BY <1>4, <2>1, <2>2, <3>1, <3>2 DEF OpenKeeps
  <2>3. CASE open[e] # "OPEN"
    BY <2>1, <2>3 DEF OpenKeeps
  <2> QED
    BY <2>2, <2>3
<1>7. saved \in [Dbs -> SUBSET Keys] /\ entry \in [Dbs -> [Keys -> Nat]]
  BY DEF TypeOK
<1>8. \A e \in Dbs, j \in Keys : (e # d \/ j # k) => entry'[e][j] = entry[e][j]
  BY <1>2, <1>3, <1>7
<1>9. /\ k \in saved'[d] /\ \A e \in Dbs : saved[e] \subseteq saved'[e]
      /\ \A e \in Dbs : saved'[e] \subseteq saved[e] \cup {k} /\ (e # d => saved'[e] = saved[e])
  BY <1>2, <1>3, <1>7
<1>10. ASSUME NEW e \in Dbs PROVE UnsavedKeeps(e)'
  <2>1. UnsavedKeeps(e) /\ writes[e] \in Seq(Keys)
    BY <1>1 DEF AliveInv, TypeOK
  <2>2. \A j \in Unsaved(e)' : j \in Unsaved(e) /\ entry'[e][j] = entry[e][j]
    <3>1. KeysOf(e)' = KeysOf(e) /\ KeysOf(e) \subseteq Keys
      BY <1>2, <2>1 DEF KeysOf
    <3> QED
      BY <1>8, <1>9, <3>1 DEF Unsaved
  <2>3. transaction[e] \in {None, transaction'[e]}
    BY <1>5, SMTT(30)
  <2>4. transaction[e] # None => native'[transaction[e]].snap = native[transaction[e]].snap
    <3>1. transaction[e] \in 0 .. Len(native) /\ Len(native) \in Nat
      BY <1>4
    <3>2. transaction[e] # None => transaction[e] \in 1 .. Len(native)
      BY <3>1 DEF None
    <3> QED
      BY <1>4, <3>2, ZenonT(60)
  <2> QED
    BY <1>2, <2>1, <2>2, <2>3, <2>4, UnsavedKept
<1>11. OpsAtSnapshot'
  <2> SUFFICES ASSUME NEW m \in 1 .. Len(native'), NEW op \in native'[m].ops
               PROVE  op.base = native'[m].snap[op.key]
    BY <1>4 DEF OpsAtSnapshot
  <2>1. OpsAtSnapshot
    BY <1>1, SMTT(30) DEF AliveInv
  <2>2. CASE m \in 1 .. Len(native) /\ native'[m].ops = native[m].ops
    BY <1>4, <2>1, <2>2, ZenonT(60) DEF OpsAtSnapshot
  <2>3. CASE /\ m = n /\ Usable(SaveNatives, m, d)
             /\ native'[m].snap = SaveNatives[m].snap
             /\ native'[m].ops \subseteq SaveNatives[m].ops \cup {[key |-> k, base |-> base]}
    <3>1. base = SaveNatives[m].snap[k]
      BY <1>1, <1>3, <2>3, SavedOverSnapshot
    <3>2. \A o \in SaveNatives[m].ops : o.base = SaveNatives[m].snap[o.key]
      <4>1. CASE m \in 1 .. Len(native)
        <5>1. SaveNatives[m] = native[m]
          BY <1>2, <4>1, SaveNativesType
        <5> QED
          BY <1>4, <2>1, <4>1, <5>1, ZenonT(60) DEF OpsAtSnapshot
      <4>2. CASE m \notin 1 .. Len(native)
        <5>1. m \in 1 .. (Len(native) + 1) /\ SaveTxn = None
          BY <1>4, <4>2
        <5>2. native \in Seq(NativeTxn) /\ FreshNative(d) \in NativeTxn
          BY FreshType DEF TypeOK
        <5>3. SaveNatives[m] = FreshNative(d)
          BY <1>3, <1>4, <4>2, <5>1, <5>2, AppendProperties DEF SaveNatives
        <5> QED
          BY <5>3, SMTT(30) DEF FreshNative
      <4> QED
        BY <4>1, <4>2
    <3> QED
      BY <2>3, <3>1, <3>2
  <2>4. CASE native'[m].ops = {}
    BY <2>4
  <2> QED
    BY <1>3, <2>2, <2>3, <2>4, SaveStores, SMTT(30)
<1>12. IssuedFirst'
  <2> SUFFICES ASSUME NEW e \in Dbs, NEW j \in Keys, <<e, j>> \notin issued'
               PROVE  j \notin saved'[e] /\ j \notin KeysOf(e)' /\ entry'[e][j] = 0
    BY DEF IssuedFirst
  <2>1. j \notin saved[e] /\ j \notin KeysOf(e) /\ entry[e][j] = 0
    BY <1>1, <1>2 DEF IssuedFirst, AliveInv
  <2>2. k \in KeysOf(d)
    BY <1>1, <1>2, <1>3 DEF AliveInv, TopSaves
  <2>3. e # d \/ j # k
    BY <2>1, <2>2
  <2> QED
    BY <1>2, <1>8, <1>9, <2>1, <2>3 DEF KeysOf
<1>13. \A f \in FramesOf(Tail(stack)) \cup parked : LoopSaves(f)'
  <2> SUFFICES ASSUME NEW f \in FramesOf(Tail(stack)) \cup parked PROVE LoopSaves(f)'
    OBVIOUS
  <2>1. f \in Frames /\ LoopSaves(f)
    BY <1>1, <1>2, LiveType DEF AliveInv, Live
  <2> QED
    BY <1>2, <1>3, <1>9, <2>1, LoopKept
<1>14. \A f \in FramesOf(Tail(stack)) : f.at = "loop"
  BY <1>1, <1>2 DEF AliveInv, TopSaves
<1>15. (\A f \in FramesOf(stack') : LoopSaves(f)') /\ TopSaves'
  <2>1. CASE stack' = <<>>
    <3>1. FramesOf(stack') = {}
      BY <2>1, NoFrame
    <3> QED
      BY <2>1, <3>1 DEF TopSaves, Idle
  <2>2. CASE stack' = Tail(stack)
    BY <1>13, <1>14, <2>2, LoopsWait
  <2>3. CASE stack' = <<CommitFrame(d, n, FALSE)>> \o Tail(stack)
    BY <1>2, <1>13, <1>14, <2>3, NewCommit
  <2> QED
    BY <1>2, <1>3, <2>1, <2>2, <2>3 DEF SaveWrites, SaveRejects
<1>16. \A f \in Live' : LoopSaves(f)'
  BY <1>2, <1>13, <1>15 DEF Live
<1>17. \A e \in Dbs : RetriesReload(e)'
  BY <1>1, <1>2, WritesKept DEF AliveInv
<1> QED
  BY <1>6, <1>10, <1>11, <1>12, <1>15, <1>16, <1>17 DEF AliveInv

\* Only the store applies writes, and only a failed commit is retried.
LEMMA AppliedByStore ==
  ASSUME Next
  PROVE  (\E n \in DOMAIN native : NativeCommit(n)) \/ UNCHANGED <<applied, logged>>
<1>1. CASE CallStep
  BY <1>1 DEF CallStep, Save, CommitWrite, CommitValidated, CommitAgain, CommitLingers,
              CommitCloses, AbortEnd, storeVars
<1>2. CASE Completion
  BY <1>2 DEF Completion, CommitSucceeded, CommitRetries, HooksDone, HookFailed, storeVars
<1>3. CASE RequestStep
  <2>1. ASSUME NEW e \in Dbs, NEW k \in Keys, NEW kind,
               Write(e, k, kind) \/ WriteLoaded(e, k, kind) \/ Event(e, k)
        PROVE  UNCHANGED <<applied, logged>>
    BY <2>1 DEF Write, WriteLoaded, Event, storeVars
  <2>2. ASSUME NEW e \in Dbs, NEW k \in Keys,
               LoadStart(e, k) \/ LoadFromSource(e, k) \/ SourceLoaded(e, k)
        PROVE  UNCHANGED <<applied, logged>>
    BY <2>2 DEF LoadStart, LoadFromSource, SourceLoaded, objVars
  <2>3. ASSUME NEW s \in Scans, ScanDone(s) \/ \E e \in Dbs : ScanStart(s, e)
        PROVE  UNCHANGED <<applied, logged>>
    BY <2>3 DEF ScanDone, ScanStart
  <2>4. Commit \/ CommitMidway \/ Abort => UNCHANGED <<applied, logged>>
    BY DEF Commit, CommitMidway, Abort, storeVars, objVars
  <2> QED
    BY <1>3, <2>1, <2>2, <2>3, <2>4 DEF RequestStep
<1>4. CASE Environment
  BY <1>4 DEF Environment, Timeout, OtherWrite, storeVars
<1> QED
  BY <1>1, <1>2, <1>3, <1>4, SMTT(30) DEF Next

LEMMA RetriesByCommit ==
  ASSUME Next, waits = {}
  PROVE  UNCHANGED retries
<1>1. CASE CallStep
  BY <1>1 DEF CallStep, Save, CommitWrite, CommitValidated, CommitAgain, CommitLingers,
              CommitCloses, AbortEnd, objVars
<1>2. CASE Completion
  BY <1>2 DEF Completion, NativeCommit, HooksDone, HookFailed, objVars
<1>3. CASE RequestStep
  <2>1. ASSUME NEW e \in Dbs, NEW k \in Keys, NEW kind,
               Write(e, k, kind) \/ WriteLoaded(e, k, kind) \/ Event(e, k)
        PROVE  UNCHANGED retries
    BY <2>1 DEF Write, WriteLoaded, Event, storeVars
  <2>2. ASSUME NEW e \in Dbs, NEW k \in Keys,
               LoadStart(e, k) \/ LoadFromSource(e, k) \/ SourceLoaded(e, k)
        PROVE  UNCHANGED retries
    BY <2>2 DEF LoadStart, LoadFromSource, SourceLoaded, objVars
  <2>3. ASSUME NEW s \in Scans, ScanDone(s) \/ \E e \in Dbs : ScanStart(s, e)
        PROVE  UNCHANGED retries
    BY <2>3 DEF ScanDone, ScanStart
  <2>4. Commit \/ CommitMidway \/ Abort => UNCHANGED retries
    BY DEF Commit, CommitMidway, Abort, storeVars, objVars
  <2> QED
    BY <1>3, <2>1, <2>2, <2>3, <2>4 DEF RequestStep
<1>4. CASE Environment
  BY <1>4 DEF Environment, Timeout, OtherWrite, objVars
<1> QED
  BY <1>1, <1>2, <1>3, <1>4, SMTT(30) DEF Next

\* No request runs again, and none comes back from an abort.
LEMMA NeverAgain ==
  ASSUME Next, request' = "running"
  PROVE  request = "running"
<1>1. CASE CallStep
  BY <1>1 DEF CallStep, Save, CommitWrite, CommitValidated, CommitAgain, CommitLingers,
              CommitCloses, AbortEnd, AfterCommit, reqVars
<1>2. CASE Completion
  BY <1>2 DEF Completion, NativeCommit, CommitSucceeded, CommitRetries, HooksDone, HookFailed,
              AfterCommit, reqVars
<1>3. CASE RequestStep
  BY <1>3 DEF RequestStep, Write, WriteLoaded, Event, ScanStart, ScanDone, LoadStart, LoadFromSource,
              SourceLoaded, Commit, CommitMidway, Abort, reqVars
<1>4. CASE Environment
  BY <1>4 DEF Environment, Timeout, OtherWrite, reqVars
<1> QED
  BY <1>1, <1>2, <1>3, <1>4, SMTT(30) DEF Next

LEMMA NoWayBack ==
  ASSUME TypeOK, QuietInv, Next, Alive'
  PROVE  Alive
<1> SUFFICES ASSUME ~Alive PROVE FALSE
  OBVIOUS
<1>1. request \in {"aborted", "spinning"}
  BY DEF Alive, TypeOK, QuietInv
<1>2. parked = {} /\ waits = {} /\ \A f \in FramesOf(stack) : f.at = "aborted"
  BY <1>1 DEF QuietInv, NothingGiven
<1>3. ~Idle => Top.at = "aborted"
  BY <1>2, TopType
<1>4. ~Running
  BY <1>1 DEF Running
<1>5. UNCHANGED request
  <2>1. CASE CallStep
    BY <1>3, <2>1 DEF CallStep, Save, CommitWrite, CommitValidated, CommitAgain, CommitLingers,
                      CommitCloses, AbortEnd, reqVars
  <2>2. CASE Completion
    BY <1>2, <2>2 DEF Completion, NativeCommit, reqVars
  <2>3. CASE RequestStep
    BY <1>4, <2>3, NotRunning DEF LoadFromSource, SourceLoaded, ScanDone
  <2>4. CASE Environment
    BY <2>4 DEF Environment, Timeout, OtherWrite, reqVars
  <2> QED
    BY <2>1, <2>2, <2>3, <2>4, SMTT(30) DEF Next
<1> QED
  BY <1>1, <1>5 DEF Alive

\* The invariant is inductive.
LEMMA UpdateStep ==
  ASSUME ~ClosedUse, ~Timeouts, ~LoadsSource,
         TypeOK, HandleInv, QuietInv, UpdateInv, TypeOK', HandleInv', QuietInv', [Next]_vars
  PROVE  UpdateInv'
<1>1. NoLoads'
  <2>1. NoLoads
    BY DEF UpdateInv
  <2>2. CASE UNCHANGED vars
    BY <2>1, <2>2, SMTT(30) DEF vars, reqVars, NoLoads
  <2>3. CASE CallStep
    BY <2>1, <2>3 DEF CallStep, Save, CommitWrite, CommitValidated, CommitAgain, CommitLingers,
                      CommitCloses, AbortEnd, reqVars, NoLoads
  <2>4. CASE Completion
    BY <2>1, <2>4 DEF Completion, NativeCommit, CommitSucceeded, CommitRetries, HooksDone,
                      HookFailed, reqVars, NoLoads
  <2>5. CASE RequestStep
    <3>1. \A d \in Dbs, k \in Keys : ~LoadStart(d, k) /\ ~LoadFromSource(d, k) /\ ~SourceLoaded(d, k)
      BY <2>1 DEF LoadStart, LoadFromSource, SourceLoaded, NoLoads
    <3>2. UNCHANGED <<load, preset>>
      BY <2>5, <3>1, ZenonT(60) DEF RequestStep, Write, WriteLoaded, Event, ScanStart, ScanDone, Commit, CommitMidway,
                        Abort
    <3> QED
      BY <2>1, <3>2 DEF NoLoads
  <2>6. CASE Environment
    BY <2>1, <2>6 DEF Environment, Timeout, OtherWrite, reqVars, NoLoads
  <2> QED
    BY <2>2, <2>3, <2>4, <2>5, <2>6 DEF Next
<1>2. CASE UNCHANGED vars
  <2>1. AliveInv => AliveInv'
    <3>1. SUFFICES ASSUME AliveInv PROVE AliveInv'
      OBVIOUS
    <3>2. /\ \A e \in Dbs : OpenKeeps(e)' /\ UnsavedKeeps(e)' /\ RetriesReload(e)'
          /\ OpsAtSnapshot' /\ IssuedFirst'
      BY <1>2, <3>1, SameObjects, WritesKept
         DEF vars, objVars, callVars, reqVars, storeVars, AliveInv
    <3>3. \A f \in Live' : LoopSaves(f)'
      <4>1. UNCHANGED <<stack, parked, writes, saved>>
        BY <1>2 DEF vars, objVars, callVars
      <4>2. ASSUME NEW f \in Live, LoopSaves(f) PROVE LoopSaves(f)'
        BY <4>1, <4>2 DEF LoopSaves, KeysOf, Top, Idle
      <4> QED
        BY <3>1, <4>1, <4>2 DEF AliveInv, Live
    <3>4. TopSaves'
      BY <1>2, <3>1 DEF vars, objVars, callVars, AliveInv, TopSaves, Unsaved, KeysOf, Top, Idle
    <3> QED
      BY <3>2, <3>3, <3>4 DEF AliveInv
  <2> QED
    BY <1>1, <1>2, <2>1 DEF UpdateInv, vars, objVars, reqVars, storeVars, NoLostUpdate, Alive
<1>3. ASSUME Next PROVE Alive' => Alive /\ AliveInv'
  <2> SUFFICES ASSUME Alive' PROVE Alive /\ AliveInv'
    OBVIOUS
  <2>1. Alive
    BY <1>3, NoWayBack
  <2>2. CASE CallStep
    <3>1. ~AbortEnd
      BY <2>1 DEF AbortEnd, UpdateInv, AliveInv, TopSaves
    <3> QED
      BY <2>1, <2>2, <3>1, SaveUpdates, CommitWriteUpdates, CommitValidatedUpdates, CommitAgainUpdates,
         CommitLingersUpdates, CommitClosesUpdates DEF CallStep
  <2>3. CASE Completion
    BY <2>1, <2>3, NativeCommitUpdates, CommitSucceededUpdates, CommitRetriesUpdates, HooksUpdates
       DEF Completion
  <2>4. CASE RequestStep
    <3>1. \A d \in Dbs, k \in Keys : ~LoadStart(d, k) /\ ~LoadFromSource(d, k) /\ ~SourceLoaded(d, k)
      BY DEF LoadStart, LoadFromSource, SourceLoaded, NoLoads, UpdateInv
    <3>2. \A d \in Dbs, k \in Keys, kind \in Kinds : ~WriteLoaded(d, k, kind)
      BY DEF WriteLoaded, NoLoads, UpdateInv
    <3>3. ~CommitMidway
      BY DEF CommitMidway
    <3>4. ~Abort
      BY DEF Abort, Alive
    <3> QED
      BY <2>1, <2>4, <3>1, <3>2, <3>3, <3>4, WriteUpdates, EventUpdates, ScanStartUpdates,
         ScanDoneUpdates, CommitUpdates DEF RequestStep
  <2>5. CASE Environment
    BY <2>1, <2>5, OtherWriteUpdates DEF Environment, Timeout
  <2> QED
    BY <1>3, <2>1, <2>2, <2>3, <2>4, <2>5 DEF Next
<1>4. ASSUME Next PROVE NoLostUpdate'
  <2>1. CASE Alive'
    <3>1. CASE \E n \in DOMAIN native : NativeCommit(n)
      BY <1>3, <1>4, <2>1, <3>1, NativeCommitUpdates
    <3>2. CASE UNCHANGED applied
      BY <3>2 DEF NoLostUpdate, UpdateInv
    <3> QED
      BY <1>4, <3>1, <3>2, AppliedByStore
  <2>2. CASE ~Alive'
    <3>1. request' \in {"aborted", "spinning"}
      BY <2>2 DEF Alive, TypeOK, QuietInv
    <3> QED
      BY <3>1 DEF QuietInv, NothingGiven, NoLostUpdate
  <2> QED
    BY <2>1, <2>2
<1>5. ASSUME Next, request' = "running" PROVE \A d \in Dbs : retries'[d] = 0
  <2>1. Alive'
    BY <1>5 DEF Alive
  <2>2. request = "running" /\ waits = {}
    <3>1. request = "running"
      BY <1>5, NeverAgain
    <3> QED
      BY <3>1 DEF QuietInv, NothingGiven
  <2>3. \A d \in Dbs : retries[d] = 0
    BY <2>2 DEF UpdateInv
  <2>4. UNCHANGED retries
    BY <1>5, <2>2, RetriesByCommit
  <2> QED
    BY <2>3, <2>4
<1> QED
  BY <1>1, <1>2, <1>3, <1>4, <1>5 DEF UpdateInv

\* A write of the request is stored only over the version of the record it
\* was computed from: entries are read in the native transaction that commits
\* them, and retries after ERR_BUSY read them again.  So none of the updates
\* other requests stored in between is lost.
THEOREM NoUpdateIsLost ==
  ASSUME ~ClosedUse, ~Timeouts, ~LoadsSource
  PROVE  Spec => []NoLostUpdate
<1>1. Init => TypeOK /\ HandleInv /\ QuietInv /\ UpdateInv
  BY TypeInit, HandleInit, QuietInit, UpdateInit
<1>2. TypeOK /\ HandleInv /\ QuietInv /\ UpdateInv /\ [Next]_vars
         => (TypeOK /\ HandleInv /\ QuietInv /\ UpdateInv)'
  <2> SUFFICES ASSUME TypeOK, HandleInv, QuietInv, UpdateInv, [Next]_vars
               PROVE  (TypeOK /\ HandleInv /\ QuietInv /\ UpdateInv)'
    OBVIOUS
  <2>1. TypeOK' /\ QuietInv'
    BY TypeStep, QuietStep
  <2>2. HandleInv'
    BY <2>1, HandleStep
  <2> QED
    BY <2>1, <2>2, UpdateStep
<1>3. UpdateInv => NoLostUpdate
  BY DEF UpdateInv
<1> QED
  BY <1>1, <1>2, <1>3, PTL DEF Spec
=============================================================================
