--------------------- MODULE DatabaseTransactionProofs ---------------------
(***************************************************************************)
(* Proofs about DatabaseTransaction, for any chain of databases, any keys, *)
(* iterators and number of other writes: types; that an object never keeps *)
(* a native transaction it gave to a commit; and that an aborted request   *)
(* stores nothing.                                                         *)
(***************************************************************************)
EXTENDS DatabaseTransaction, SequenceTheorems, TLAPS

(***************************************************************************)
(* The stack of frames.                                                    *)
(***************************************************************************)
FramesOf(s) == {s[i] : i \in 1 .. Len(s)}

LEMMA PushFrame ==
  ASSUME NEW S, NEW s \in Seq(S), NEW x \in S
  PROVE  /\ <<x>> \o s \in Seq(S)
         /\ FramesOf(<<x>> \o s) = {x} \cup FramesOf(s)
         /\ <<x>> \o s # <<>>
         /\ Head(<<x>> \o s) = x
         /\ Tail(<<x>> \o s) = s
<1> DEFINE r == <<x>> \o s
<1>1. /\ r \in Seq(S) /\ r # <<>> /\ Len(r) = Len(s) + 1 /\ Len(s) \in Nat
      /\ r[1] = x
      /\ \A i \in 1 .. Len(s) : r[i + 1] = s[i]
  OBVIOUS
<1>2. FramesOf(r) \subseteq {x} \cup FramesOf(s)
  <2> SUFFICES ASSUME NEW i \in 1 .. Len(r), i # 1 PROVE r[i] \in FramesOf(s)
    BY <1>1 DEF FramesOf
  <2>1. i - 1 \in 1 .. Len(s) /\ r[i] = s[i - 1]
    BY <1>1
  <2> QED
    BY <2>1 DEF FramesOf
<1>3. x \in FramesOf(r)
  BY <1>1 DEF FramesOf
<1>4. ASSUME NEW i \in 1 .. Len(s) PROVE s[i] \in FramesOf(r)
  <2>1. i + 1 \in 1 .. Len(r) /\ r[i + 1] = s[i]
    BY <1>1
  <2> QED
    BY <2>1 DEF FramesOf
<1>5. {x} \cup FramesOf(s) \subseteq FramesOf(r)
  BY <1>3, <1>4 DEF FramesOf
<1>6. Head(r) = x /\ Tail(r) = s
  OBVIOUS
<1> QED
  BY <1>1, <1>2, <1>5, <1>6

LEMMA PopFrame ==
  ASSUME NEW S, NEW s \in Seq(S), s # <<>>
  PROVE  /\ Head(s) \in S /\ Tail(s) \in Seq(S)
         /\ FramesOf(s) = {Head(s)} \cup FramesOf(Tail(s))
<1>1. Head(s) \in S /\ Tail(s) \in Seq(S) /\ s = <<Head(s)>> \o Tail(s)
  OBVIOUS
<1> QED
  BY <1>1, PushFrame

LEMMA NoFrame ==
  ASSUME NEW S
  PROVE  /\ <<>> \in Seq(S) /\ FramesOf(<<>>) = {}
         /\ \A x \in S : /\ <<x>> \in Seq(S) /\ FramesOf(<<x>>) = {x}
                         /\ <<x>> # <<>> /\ Head(<<x>>) = x /\ Tail(<<x>>) = <<>>
  BY DEF FramesOf

(***************************************************************************)
(* Types.                                                                  *)
(***************************************************************************)
Requests == {"running", "midway", "resumed", "committing",
             "resolved", "rejected", "aborted", "spinning"}

LEMMA DbsType == /\ 1 \in Dbs /\ Dbs \subseteq Nat
                 /\ \A d \in Dbs : d < NDbs => d + 1 \in Dbs
  BY ChainAssumption DEF Dbs

LEMMA TypeInit == Init => TypeOK
<1> SUFFICES ASSUME Init PROVE TypeOK
  OBVIOUS
<1>1. scan \in [Scans -> [state : {"idle", "active", "done"}, db : Dbs, txn : Nat]]
  BY DbsType DEF Init, NoScan, None
<1>2. /\ transaction \in [Dbs -> Handles] /\ writes \in [Dbs -> Seq(Keys)]
      /\ native \in Seq(NativeTxn) /\ stack \in Seq(Frames)
  BY DEF Init, Handles, None
<1>3. [k \in Keys |-> 0] \in [Keys -> Nat]
  OBVIOUS
<1>4. [Keys -> {0, 1}] \subseteq [Keys -> Nat]
  OBVIOUS
<1>5. version \in [Dbs -> [Keys -> Nat]]
  BY <1>4 DEF Init
<1>6. [d \in Dbs |-> [k \in Keys |-> 0]] \in [Dbs -> [Keys -> Nat]]
  BY <1>3
<1>7. load \in [Dbs -> [Keys -> {"no", "local", "source", "done"}]]
  <2>1. [k \in Keys |-> "no"] \in [Keys -> {"no", "local", "source", "done"}]
    OBVIOUS
  <2> QED
    BY <2>1 DEF Init
<1>8. /\ open \in [Dbs -> States] /\ chain \in [Dbs -> {"absent", "linked", "dropped"}]
      /\ used \in [Dbs -> Int \cup {NaN}] /\ refs \in [Dbs -> Int]
      /\ saved \in [Dbs -> SUBSET Keys]
      /\ validated \in [Dbs -> Nat] /\ retries \in [Dbs -> Nat]
  BY DEF Init, States
<1> QED
  BY <1>1, <1>2, <1>5, <1>6, <1>7, <1>8 DEF Init, TypeOK

LEMMA FreshType ==
  ASSUME TypeOK, NEW d \in Dbs
  PROVE  FreshNative(d) \in NativeTxn
<1>1. version[d] \in [Keys -> Nat]
  BY DEF TypeOK
<1>2. [k \in Keys |-> 0] \in [Keys -> Nat]
  OBVIOUS
<1>3. {} \in SUBSET Op
  OBVIOUS
<1> QED
  BY <1>1, <1>2, <1>3 DEF FreshNative, NativeTxn

\* Changing some fields of one native transaction.
LEMMA NativeType ==
  ASSUME TypeOK, NEW n \in Nat, NEW x \in NativeTxn
  PROVE  /\ [native EXCEPT ![n] = x] \in Seq(NativeTxn)
         /\ Len([native EXCEPT ![n] = x]) = Len(native)
         /\ Append(native, x) \in Seq(NativeTxn)
         /\ Len(Append(native, x)) = Len(native) + 1
<1>1. native \in Seq(NativeTxn)
  BY DEF TypeOK
<1>2. CASE n \in 1 .. Len(native)
  BY <1>1, <1>2, ExceptSeq, AppendProperties
<1>3. CASE n \notin 1 .. Len(native)
  <2>1. [native EXCEPT ![n] = x] = native
    BY <1>1, <1>3
  <2> QED
    BY <1>1, <2>1, AppendProperties
<1> QED
  BY <1>2, <1>3

LEMMA AbortType ==
  ASSUME TypeOK, NEW n \in Nat
  PROVE  /\ NativeAbort(n) \in Seq(NativeTxn)
         /\ Len(NativeAbort(n)) = Len(native)
<1>1. native \in Seq(NativeTxn)
  BY DEF TypeOK
<1>2. \A x \in NativeTxn :
        [x EXCEPT !.state = IF @ = "open" THEN "aborted" ELSE @] \in NativeTxn
  BY DEF NativeTxn
<1>3. CASE n \in 1 .. Len(native)
  <2>1. NativeAbort(n) = [native EXCEPT ![n] =
           [native[n] EXCEPT !.state = IF @ = "open" THEN "aborted" ELSE @]]
    BY <1>1, <1>3 DEF NativeAbort
  <2>2. native[n] \in NativeTxn
    BY <1>1, <1>3
  <2> QED
    BY <1>2, <2>1, <2>2, NativeType
<1>4. CASE n \notin 1 .. Len(native)
  <2>1. NativeAbort(n) = native
    BY <1>1, <1>4 DEF NativeAbort
  <2> QED
    BY <1>1, <2>1
<1> QED
  BY <1>3, <1>4

LEMMA ReadType ==
  ASSUME TypeOK, NEW natives \in Seq(NativeTxn), NEW n \in 0 .. Len(natives),
         NEW d \in Dbs, NEW k \in Keys
  PROVE  ReadVersion(natives, n, d, k) \in Nat
<1>1. \A x \in NativeTxn : x.snap[k] \in Nat
  BY DEF NativeTxn
<1>2. n # None => natives[n].snap[k] \in Nat
  BY <1>1 DEF None
<1>3. version[d][k] \in Nat
  BY DEF TypeOK
<1> QED
  BY <1>2, <1>3 DEF ReadVersion, Usable

LEMMA PlusType ==
  ASSUME NEW u \in Int \cup {NaN}, NEW n \in Int
  PROVE  Plus(u, n) \in Int \cup {NaN}
  BY NaNAssumption DEF Plus

LEMMA TxnForContextType ==
  ASSUME TypeOK, NEW d \in Dbs, TxnForContext(d)
  PROVE  /\ open' \in [Dbs -> States]
         /\ chain' \in [Dbs -> {"absent", "linked", "dropped"}]
  BY DEF TypeOK, TxnForContext, OpenState, States

LEMMA NativesOfType ==
  ASSUME TypeOK, NEW d \in Dbs
  PROVE  /\ NativesOf(d) \in Seq(NativeTxn)
         /\ ReadTxn(d) \in 0 .. Len(NativesOf(d))
         /\ Len(native) <= Len(NativesOf(d))
<1>1. native \in Seq(NativeTxn) /\ transaction[d] \in 0 .. Len(native)
  BY DEF TypeOK, Handles
<1> QED
  BY <1>1, FreshType DEF NativesOf, ReadTxn

LEMMA GetReadTxnType ==
  ASSUME TypeOK, NEW d \in Dbs, NEW more \in {0, 1}, GetReadTxn(d, more)
  PROVE  /\ native' \in Seq(NativeTxn) /\ Len(native) <= Len(native')
         /\ transaction' \in [Dbs -> 0 .. Len(native')]
         /\ refs' \in [Dbs -> Int]
         /\ used' \in [Dbs -> Int \cup {NaN}]
         /\ tracked' \subseteq Dbs
<1>1. used' \in [Dbs -> Int \cup {NaN}]
  <2>1. used \in [Dbs -> Int \cup {NaN}]
    BY DEF TypeOK
  <2>2. (IF StartsNative(d) THEN 1 ELSE used[d]) \in Int \cup {NaN} /\ more \in Int
    BY <2>1
  <2>3. Plus(IF StartsNative(d) THEN 1 ELSE used[d], more) \in Int \cup {NaN}
    BY <2>2, PlusType
  <2> QED
    BY <2>1, <2>3 DEF GetReadTxn
<1>2. transaction' \in [Dbs -> 0 .. Len(native')]
  <2>1. transaction \in [Dbs -> 0 .. Len(native)]
    BY DEF TypeOK, Handles
  <2> QED
    BY <2>1, NativesOfType DEF GetReadTxn
<1>3. refs' \in [Dbs -> Int] /\ tracked' \subseteq Dbs
  BY DEF TypeOK, GetReadTxn
<1> QED
  BY <1>1, <1>2, <1>3, NativesOfType DEF GetReadTxn

LEMMA FrameTypes ==
  ASSUME TypeOK, NEW d \in Dbs
  PROVE  /\ \A opt \in Nat, main \in BOOLEAN : CommitFrame(d, opt, main) \in CommitFrames
         /\ \A k \in Keys, txn \in Nat, reload \in BOOLEAN :
               SaveFrame(d, k, txn, reload) \in SaveFrames
         /\ [at |-> "aborted", db |-> d] \in AbortFrames
<1>1. transaction[d] \in Nat
  BY DEF TypeOK, Handles
<1> QED
  BY <1>1 DEF CommitFrame, SaveFrame, CommitFrames, SaveFrames, AbortFrames

LEMMA TopType ==
  ASSUME TypeOK, ~Idle
  PROVE  /\ Top \in Frames /\ Tail(stack) \in Seq(Frames) /\ Top.db \in Dbs
         /\ FramesOf(stack) = {Top} \cup FramesOf(Tail(stack))
         /\ Top.at \in {"loop", "close"} => Top \in CommitFrames
         /\ Top.at = "save" => Top \in SaveFrames
         /\ Top.at = "aborted" => Top \in AbortFrames
<1>1. Top \in Frames
  BY PopFrame DEF TypeOK, Idle, Top
<1>2. /\ \A f \in CommitFrames : f.at \in {"loop", "close"} /\ f.db \in Dbs
      /\ \A f \in SaveFrames : f.at = "save" /\ f.db \in Dbs
      /\ \A f \in AbortFrames : f.at = "aborted" /\ f.db \in Dbs
  BY DEF CommitFrames, SaveFrames, AbortFrames
<1> QED
  BY <1>1, <1>2, PopFrame DEF TypeOK, Idle, Top, Frames

LEMMA AfterCommitType ==
  ASSUME TypeOK, NEW d \in Dbs, NEW opt \in Nat, NEW main \in BOOLEAN,
         NEW rest \in Seq(Frames), AfterCommit(d, opt, main, rest)
  PROVE  stack' \in Seq(Frames) /\ request' \in Requests
<1>1. d < NDbs => CommitFrame(d + 1, opt, main) \in Frames
  BY DbsType, FrameTypes DEF Frames
<1>2. d < NDbs => <<CommitFrame(d + 1, opt, main)>> \o rest \in Seq(Frames)
  BY <1>1, PushFrame
<1>3. request \in Requests
  BY DEF TypeOK, Requests
<1> QED
  BY <1>2, <1>3 DEF AfterCommit, Requests

LEMMA LastUseType ==
  ASSUME TypeOK, NEW d \in Dbs, NEW rest \in Seq(Frames), LastUse(d, rest)
  PROVE  /\ stack' \in Seq(Frames) /\ tracked' \subseteq Dbs
         /\ native' \in Seq(NativeTxn) /\ Len(native') = Len(native)
         /\ transaction' \in [Dbs -> 0 .. Len(native')]
<1>1. CommitFrame(d, None, FALSE) \in Frames
  BY FrameTypes DEF Frames, None
<1>2. <<CommitFrame(d, None, FALSE)>> \o rest \in Seq(Frames)
  BY <1>1, PushFrame
<1>3. transaction[d] \in Nat /\ transaction \in [Dbs -> 0 .. Len(native)]
  BY DEF TypeOK, Handles
<1>4. Cleared(d) \in [Dbs -> 0 .. Len(native)]
  BY <1>3 DEF Cleared, TypeOK, None
<1>5. tracked' \subseteq Dbs
  BY DEF LastUse, TypeOK
<1>6. NativeAbort(transaction[d]) \in Seq(NativeTxn)
      /\ Len(NativeAbort(transaction[d])) = Len(native)
  BY <1>3, AbortType
<1>7. native \in Seq(NativeTxn)
  BY DEF TypeOK
<1> QED
  BY <1>2, <1>3, <1>4, <1>5, <1>6, <1>7 DEF LastUse

LEMMA DoneReadTxnType ==
  ASSUME TypeOK, NEW d \in Dbs, DoneReadTxn(d)
  PROVE  /\ stack' \in Seq(Frames) /\ tracked' \subseteq Dbs
         /\ used' \in [Dbs -> Int \cup {NaN}]
         /\ native' \in Seq(NativeTxn) /\ Len(native') = Len(native)
         /\ transaction' \in [Dbs -> 0 .. Len(native')]
<1>1. used' \in [Dbs -> Int \cup {NaN}]
  <2>1. used \in [Dbs -> Int \cup {NaN}] /\ -1 \in Int
    BY DEF TypeOK
  <2>2. used[d] \in Int \cup {NaN}
    BY <2>1
  <2>3. Plus(used[d], -1) \in Int \cup {NaN}
    BY <2>1, <2>2, PlusType
  <2> QED
    BY <2>1, <2>3 DEF DoneReadTxn
<1>2. CASE LastUse(d, <<>>)
  BY <1>1, <1>2, LastUseType, NoFrame
<1>3. CASE UNCHANGED <<tracked, transaction, native, stack>>
  <2>1. transaction \in [Dbs -> 0 .. Len(native)] /\ native \in Seq(NativeTxn)
        /\ stack \in Seq(Frames) /\ tracked \subseteq Dbs
    BY DEF TypeOK, Handles
  <2> QED
    BY <1>1, <1>3, <2>1
<1> QED
  BY <1>2, <1>3 DEF DoneReadTxn

\* What was a handle of a native transaction still is one.
LEMMA GrowthType ==
  ASSUME TypeOK, native' \in Seq(NativeTxn), Len(native) <= Len(native')
  PROVE  /\ transaction \in [Dbs -> 0 .. Len(native')]
         /\ \A c \in waits : c.txn \in DOMAIN native'
<1>1. native \in Seq(NativeTxn) /\ transaction \in [Dbs -> 0 .. Len(native)]
      /\ \A c \in waits : c.txn \in DOMAIN native
  BY DEF TypeOK, Handles
<1>2. Len(native) \in Nat /\ Len(native') \in Nat
  BY <1>1
<1>3. 0 .. Len(native) \subseteq 0 .. Len(native')
  BY <1>2
<1> QED
  BY <1>1, <1>2, <1>3

\* A call of the request: its objects, its writes and its read transaction.
LEMMA NewWriteType ==
  ASSUME TypeOK, NEW d \in Dbs, NEW k \in Keys, NEW kind, NewWrite(d, k, kind)
  PROVE  /\ writes' \in [Dbs -> Seq(Keys)]
         /\ issued' \subseteq Dbs \X Keys
<1>1. writes \in [Dbs -> Seq(Keys)] /\ issued \subseteq Dbs \X Keys
  BY DEF TypeOK
<1>2. Append(writes[d], k) \in Seq(Keys)
  BY <1>1
<1> QED
  BY <1>1, <1>2 DEF NewWrite

LEMMA SaveUnlessDeferredType ==
  ASSUME TypeOK, NEW d \in Dbs, NEW k \in Keys, NEW kind, SaveUnlessDeferred(d, k, kind)
  PROVE  stack' \in Seq(Frames)
<1>1. SaveFrame(d, k, None, FALSE) \in Frames
  BY FrameTypes DEF Frames, None
<1> QED
  BY <1>1, NoFrame DEF SaveUnlessDeferred

\* A field of a record of some database.
LEMMA CellType ==
  ASSUME NEW S, NEW f \in [Dbs -> [Keys -> S]], NEW d \in Dbs, NEW k \in Keys, NEW x \in S
  PROVE  [f EXCEPT ![d][k] = x] \in [Dbs -> [Keys -> S]]
<1>1. [f[d] EXCEPT ![k] = x] \in [Keys -> S]
  OBVIOUS
<1>2. [f EXCEPT ![d][k] = x] = [f EXCEPT ![d] = [f[d] EXCEPT ![k] = x]]
  OBVIOUS
<1> QED
  BY <1>1, <1>2

LEMMA WriteType == TypeOK /\ (\E d \in Dbs, k \in Keys, kind \in Kinds : Write(d, k, kind)) => TypeOK'
<1> SUFFICES ASSUME TypeOK, NEW d \in Dbs, NEW k \in Keys, NEW kind \in Kinds, Write(d, k, kind)
             PROVE  TypeOK'
  OBVIOUS
<1>1. NewWrite(d, k, kind) /\ TxnForContext(d) /\ GetReadTxn(d, 0)
      /\ SaveUnlessDeferred(d, k, kind)
  BY DEF Write
<1>2. /\ native' \in Seq(NativeTxn) /\ Len(native) <= Len(native')
      /\ transaction' \in [Dbs -> 0 .. Len(native')]
      /\ refs' \in [Dbs -> Int] /\ used' \in [Dbs -> Int \cup {NaN}] /\ tracked' \subseteq Dbs
  BY <1>1, GetReadTxnType
<1>3. entry' \in [Dbs -> [Keys -> Nat]]
  <2>1. ReadVersion(NativesOf(d), ReadTxn(d), d, k) \in Nat
    BY NativesOfType, ReadType
  <2>2. entry \in [Dbs -> [Keys -> Nat]]
    BY DEF TypeOK
  <2> QED
    BY <2>1, <2>2, CellType DEF Write
<1>4. /\ open' \in [Dbs -> States] /\ chain' \in [Dbs -> {"absent", "linked", "dropped"}]
      /\ writes' \in [Dbs -> Seq(Keys)] /\ issued' \subseteq Dbs \X Keys
      /\ stack' \in Seq(Frames)
  BY <1>1, TxnForContextType, NewWriteType, SaveUnlessDeferredType
<1> QED
  BY <1>2, <1>3, <1>4, GrowthType DEF Write, TypeOK, Handles

LEMMA WriteLoadedType ==
  TypeOK /\ (\E d \in Dbs, k \in Keys, kind \in Kinds : WriteLoaded(d, k, kind)) => TypeOK'
<1> SUFFICES ASSUME TypeOK, NEW d \in Dbs, NEW k \in Keys, NEW kind \in Kinds,
                    WriteLoaded(d, k, kind)
             PROVE  TypeOK'
  OBVIOUS
<1>1. NewWrite(d, k, kind) /\ TxnForContext(d) /\ SaveUnlessDeferred(d, k, kind)
  BY DEF WriteLoaded
<1>2. entry' \in [Dbs -> [Keys -> Nat]]
  <2>1. entry \in [Dbs -> [Keys -> Nat]] /\ preset[d][k] \in Nat
    BY DEF TypeOK
  <2> QED
    BY <2>1, CellType DEF WriteLoaded
<1>3. /\ open' \in [Dbs -> States] /\ chain' \in [Dbs -> {"absent", "linked", "dropped"}]
      /\ writes' \in [Dbs -> Seq(Keys)] /\ issued' \subseteq Dbs \X Keys
      /\ stack' \in Seq(Frames)
  BY <1>1, TxnForContextType, NewWriteType, SaveUnlessDeferredType
<1> QED
  BY <1>2, <1>3 DEF WriteLoaded, TypeOK, Handles, storeVars

LEMMA EventType == TypeOK /\ (\E d \in Dbs, k \in Keys : Event(d, k)) => TypeOK'
<1> SUFFICES ASSUME TypeOK, NEW d \in Dbs, NEW k \in Keys, Event(d, k) PROVE TypeOK'
  OBVIOUS
<1>1. /\ open' \in [Dbs -> States] /\ chain' \in [Dbs -> {"absent", "linked", "dropped"}]
      /\ writes' \in [Dbs -> Seq(Keys)] /\ issued' \subseteq Dbs \X Keys
      /\ stack' \in Seq(Frames)
  BY TxnForContextType, NewWriteType, SaveUnlessDeferredType DEF Event
<1> QED
  BY <1>1 DEF Event, TypeOK, Handles, storeVars

LEMMA ScanType ==
  TypeOK /\ (\E s \in Scans : ScanDone(s) \/ \E d \in Dbs : ScanStart(s, d)) => TypeOK'
<1> DEFINE ScanStates == [state : {"idle", "active", "done"}, db : Dbs, txn : Nat]
<1> SUFFICES ASSUME TypeOK, NEW s \in Scans, ScanDone(s) \/ \E d \in Dbs : ScanStart(s, d)
             PROVE  TypeOK'
  OBVIOUS
<1>1. scan \in [Scans -> ScanStates] /\ scan[s] \in ScanStates /\ scan[s].db \in Dbs
  BY DEF TypeOK
<1>2. ASSUME NEW d \in Dbs, ScanStart(s, d) PROVE TypeOK'
  <2>1. GetReadTxn(d, 1) /\ TxnForContext(d)
    BY <1>2 DEF ScanStart
  <2>2. /\ native' \in Seq(NativeTxn) /\ Len(native) <= Len(native')
        /\ transaction' \in [Dbs -> 0 .. Len(native')]
        /\ refs' \in [Dbs -> Int] /\ used' \in [Dbs -> Int \cup {NaN}] /\ tracked' \subseteq Dbs
    BY <2>1, GetReadTxnType
  <2>3. ReadTxn(d) \in Nat
    BY NativesOfType
  <2>4. [state |-> "active", db |-> d, txn |-> ReadTxn(d)] \in ScanStates
    BY <2>3
  <2>5. scan' \in [Scans -> ScanStates]
    BY <1>1, <1>2, <2>4 DEF ScanStart
  <2>6. open' \in [Dbs -> States] /\ chain' \in [Dbs -> {"absent", "linked", "dropped"}]
    BY <2>1, TxnForContextType
  <2> QED
    BY <1>2, <2>2, <2>5, <2>6, GrowthType DEF ScanStart, callVars, TypeOK, Handles
<1>3. ASSUME ScanDone(s) PROVE TypeOK'
  <2>1. [scan[s] EXCEPT !.state = "done"] \in ScanStates
    BY <1>1
  <2>2. scan' \in [Scans -> ScanStates]
    BY <1>1, <1>3, <2>1 DEF ScanDone
  <2>3. /\ stack' \in Seq(Frames) /\ tracked' \subseteq Dbs
        /\ used' \in [Dbs -> Int \cup {NaN}]
        /\ native' \in Seq(NativeTxn) /\ Len(native') = Len(native)
        /\ transaction' \in [Dbs -> 0 .. Len(native')]
    BY <1>1, <1>3, DoneReadTxnType DEF ScanDone
  <2>4. Len(native) <= Len(native')
    BY <2>3 DEF TypeOK
  <2> QED
    BY <1>3, <2>2, <2>3, <2>4, GrowthType DEF ScanDone, TypeOK, Handles
<1> QED
  BY <1>2, <1>3

LEMMA LoadType ==
  TypeOK /\ (\E d \in Dbs, k \in Keys :
                LoadStart(d, k) \/ LoadFromSource(d, k) \/ SourceLoaded(d, k)) => TypeOK'
<1> DEFINE Loads == {"no", "local", "source", "done"}
<1> SUFFICES ASSUME TypeOK, NEW d \in Dbs, NEW k \in Keys,
                    LoadStart(d, k) \/ LoadFromSource(d, k) \/ SourceLoaded(d, k)
             PROVE  TypeOK'
  OBVIOUS
<1>1. load \in [Dbs -> [Keys -> Loads]] /\ refs \in [Dbs -> Int]
  BY DEF TypeOK
<1>2. load' \in [Dbs -> [Keys -> Loads]]
  BY <1>1, CellType DEF LoadStart, LoadFromSource, SourceLoaded
<1>3. CASE LoadStart(d, k)
  <2>1. GetReadTxn(d, 0) /\ TxnForContext(d)
    BY <1>3 DEF LoadStart
  <2>2. /\ native' \in Seq(NativeTxn) /\ Len(native) <= Len(native')
        /\ transaction' \in [Dbs -> 0 .. Len(native')]
        /\ refs' \in [Dbs -> Int] /\ used' \in [Dbs -> Int \cup {NaN}] /\ tracked' \subseteq Dbs
    BY <2>1, GetReadTxnType
  <2>3. open' \in [Dbs -> States] /\ chain' \in [Dbs -> {"absent", "linked", "dropped"}]
    BY <2>1, TxnForContextType
  <2> QED
    BY <1>2, <1>3, <2>2, <2>3, GrowthType DEF LoadStart, callVars, TypeOK, Handles
<1>4. CASE LoadFromSource(d, k)
  <2>1. refs' \in [Dbs -> Int]
    BY <1>1, <1>4 DEF LoadFromSource
  <2>2. CASE DoneReadTxn(d)
    <3>1. /\ stack' \in Seq(Frames) /\ tracked' \subseteq Dbs
          /\ used' \in [Dbs -> Int \cup {NaN}]
          /\ native' \in Seq(NativeTxn) /\ Len(native') = Len(native)
          /\ transaction' \in [Dbs -> 0 .. Len(native')]
      BY <2>2, DoneReadTxnType
    <3>2. Len(native) <= Len(native')
      BY <3>1 DEF TypeOK
    <3> QED
      BY <1>2, <1>4, <2>1, <3>1, <3>2, GrowthType DEF LoadFromSource, TypeOK, Handles
  <2>3. CASE UNCHANGED <<used, tracked, transaction, native, stack>>
    BY <1>2, <1>4, <2>1, <2>3 DEF LoadFromSource, TypeOK, Handles
  <2> QED
    BY <1>4, <2>2, <2>3 DEF LoadFromSource
<1>5. CASE SourceLoaded(d, k)
  <2>1. version \in [Dbs -> [Keys -> Nat]] /\ preset \in [Dbs -> [Keys -> Nat]]
        /\ version[d][k] + 1 \in Nat
    BY DEF TypeOK
  <2>2. version' \in [Dbs -> [Keys -> Nat]] /\ preset' \in [Dbs -> [Keys -> Nat]]
    BY <1>5, <2>1, CellType DEF SourceLoaded
  <2> QED
    BY <1>2, <1>5, <2>2 DEF SourceLoaded, objVars, callVars, TypeOK, Handles
<1> QED
  BY <1>3, <1>4, <1>5

LEMMA RequestType ==
  TypeOK /\ (Commit \/ CommitMidway \/ Abort \/ \E d \in Dbs : Timeout(d)) => TypeOK'
<1> SUFFICES ASSUME TypeOK, Commit \/ CommitMidway \/ Abort \/ \E d \in Dbs : Timeout(d)
             PROVE  TypeOK'
  OBVIOUS
<1>1. \A d \in Dbs : CommitFrame(d, None, TRUE) \in Frames /\ CommitFrame(d, None, FALSE) \in Frames
  BY FrameTypes DEF Frames, None
<1>2. \A d \in Dbs : <<CommitFrame(d, None, TRUE)>> \in Seq(Frames)
                     /\ <<CommitFrame(d, None, FALSE)>> \in Seq(Frames)
  BY <1>1, NoFrame
<1>3. CASE Commit \/ CommitMidway
  <2>1. stack' \in Seq(Frames) /\ request' \in Requests
    BY <1>2, <1>3, DbsType DEF Commit, CommitMidway, Requests
  <2> QED
    BY <1>3, <2>1 DEF Commit, CommitMidway, objVars, storeVars, TypeOK, Handles, Requests
<1>4. CASE \E d \in Dbs : Timeout(d)
  <2>1. stack' \in Seq(Frames)
    BY <1>2, <1>4 DEF Timeout
  <2> QED
    BY <1>4, <2>1 DEF Timeout, objVars, reqVars, storeVars, TypeOK, Handles
<1>5. CASE Abort
  <2> DEFINE final == [at |-> "aborted", db |-> 1]
  <2>1. final \in Frames /\ 1 \in Dbs
    BY FrameTypes, DbsType DEF Frames
  <2>2. <<final>> \in Seq(Frames)
    BY <2>1, NoFrame
  <2>3. request' \in Requests
    BY <1>5 DEF Abort, Requests
  <2>4. CASE LastUse(1, <<final>>) /\ used' = [used EXCEPT ![1] = 0]
    <3>1. /\ stack' \in Seq(Frames) /\ tracked' \subseteq Dbs
          /\ native' \in Seq(NativeTxn) /\ Len(native') = Len(native)
          /\ transaction' \in [Dbs -> 0 .. Len(native')]
      BY <2>1, <2>2, <2>4, LastUseType
    <3>2. Len(native) <= Len(native')
      BY <3>1 DEF TypeOK
    <3>3. used' \in [Dbs -> Int \cup {NaN}]
      <4>1. used \in [Dbs -> Int \cup {NaN}]
        BY DEF TypeOK
      <4>2. used' = [used EXCEPT ![1] = 0] /\ 0 \in Int \cup {NaN}
        BY <2>4
      <4> QED
        BY <4>1, <4>2
    <3> QED
      BY <1>5, <2>3, <3>1, <3>2, <3>3, GrowthType DEF Abort, TypeOK, Handles, Requests
  <2>5. CASE UNCHANGED <<transaction, used, tracked, native>> /\ stack' \in {stack, <<final>>}
    <3>1. stack' \in Seq(Frames)
      BY <2>2, <2>5 DEF TypeOK
    <3> QED
      BY <1>5, <2>3, <2>5, <3>1 DEF Abort, TypeOK, Handles, Requests
  <2> QED
    BY <1>5, <2>4, <2>5 DEF Abort
<1> QED
  BY <1>3, <1>4, <1>5

LEMMA AbortEndType == TypeOK /\ AbortEnd => TypeOK'
<1> SUFFICES ASSUME TypeOK, AbortEnd PROVE TypeOK'
  OBVIOUS
<1>1. Top.db \in Dbs /\ Tail(stack) \in Seq(Frames)
  BY TopType DEF AbortEnd
<1>2. writes' \in [Dbs -> Seq(Keys)] /\ open' \in [Dbs -> States]
  <2>1. writes \in [Dbs -> Seq(Keys)] /\ <<>> \in Seq(Keys) /\ open \in [Dbs -> States]
    BY DEF TypeOK
  <2> QED
    BY <1>1, <2>1 DEF AbortEnd, States
<1> QED
  BY <1>1, <1>2 DEF AbortEnd, reqVars, storeVars, TypeOK, Handles

LEMMA StoreType ==
  TypeOK /\ ((\E n \in DOMAIN native : NativeCommit(n)) \/ \E d \in Dbs, k \in Keys : OtherWrite(d, k))
    => TypeOK'
<1> SUFFICES ASSUME TypeOK,
                    (\E n \in DOMAIN native : NativeCommit(n)) \/ \E d \in Dbs, k \in Keys : OtherWrite(d, k)
             PROVE  TypeOK'
  OBVIOUS
<1>1. CASE \E d \in Dbs, k \in Keys : OtherWrite(d, k)
  <2> PICK d \in Dbs, k \in Keys : OtherWrite(d, k)
    BY <1>1
  <2>1. version \in [Dbs -> [Keys -> Nat]] /\ version[d][k] + 1 \in Nat
    BY DEF TypeOK
  <2>2. version' \in [Dbs -> [Keys -> Nat]]
    BY <2>1, CellType DEF OtherWrite
  <2> QED
    BY <2>2 DEF OtherWrite, objVars, callVars, reqVars, TypeOK, Handles
<1>2. ASSUME NEW n \in DOMAIN native, NativeCommit(n) PROVE TypeOK'
  <2> DEFINE d == native[n].db
             written == {op.key : op \in native[n].ops}
             news == {[db |-> d, key |-> op.key, base |-> op.base, over |-> version[d][op.key]] :
                        op \in native[n].ops}
  <2>1. native \in Seq(NativeTxn) /\ n \in 1 .. Len(native) /\ n \in Nat /\ native[n] \in NativeTxn
    BY DEF TypeOK
  <2>2. d \in Dbs /\ native[n].log \in [Keys -> Nat] /\ native[n].ops \subseteq Op
    BY <2>1 DEF NativeTxn
  <2>3. \A st \in {"busy", "committed"} :
           /\ [native EXCEPT ![n].state = st] = [native EXCEPT ![n] = [native[n] EXCEPT !.state = st]]
           /\ [native[n] EXCEPT !.state = st] \in NativeTxn
    BY <2>1 DEF NativeTxn
  <2>4. native' \in Seq(NativeTxn) /\ Len(native') = Len(native)
    BY <1>2, <2>1, <2>3, NativeType DEF NativeCommit
  <2>5. Len(native) <= Len(native')
    BY <2>1, <2>4
  <2>6. version' \in [Dbs -> [Keys -> Nat]]
    <3>1. version \in [Dbs -> [Keys -> Nat]]
      BY DEF TypeOK
    <3>2. [k \in Keys |-> IF k \in written THEN version[d][k] + 1 ELSE version[d][k]] \in [Keys -> Nat]
      BY <2>2, <3>1
    <3> QED
      BY <1>2, <3>1, <3>2 DEF NativeCommit
  <2>7. logged' \in [Dbs -> [Keys -> Nat]]
    <3>1. logged \in [Dbs -> [Keys -> Nat]]
      BY DEF TypeOK
    <3>2. [k \in Keys |-> logged[d][k] + native[n].log[k]] \in [Keys -> Nat]
      BY <2>2, <3>1
    <3> QED
      BY <1>2, <3>1, <3>2 DEF NativeCommit
  <2>8. applied' \subseteq [db : Dbs, key : Keys, base : Nat, over : Nat]
    <3>1. \A op \in native[n].ops : op.key \in Keys /\ op.base \in Nat
      BY <2>2 DEF Op
    <3>2. \A op \in native[n].ops : version[d][op.key] \in Nat
      BY <2>2, <3>1 DEF TypeOK
    <3>3. news \subseteq [db : Dbs, key : Keys, base : Nat, over : Nat]
      BY <2>2, <3>1, <3>2
    <3>4. applied \subseteq [db : Dbs, key : Keys, base : Nat, over : Nat]
      BY DEF TypeOK
    <3> QED
      BY <1>2, <3>3, <3>4 DEF NativeCommit
  <2> QED
    BY <1>2, <2>4, <2>5, <2>6, <2>7, <2>8, GrowthType
       DEF NativeCommit, objVars, callVars, reqVars, TypeOK, Handles
<1> QED
  BY <1>1, <1>2

(***************************************************************************)
(* save, with the values it works on named.                                *)
(***************************************************************************)
SaveTxn     == IF Top.txn # None THEN Top.txn ELSE transaction[Top.db]
SaveNatives == IF SaveTxn = None THEN Append(native, FreshNative(Top.db)) ELSE native
SaveHandle  == IF SaveTxn = None THEN Len(SaveNatives) ELSE SaveTxn
SaveNow     == SaveTxn = None /\ open[Top.db] # "OPEN"
SaveRetry   == IsRetry(SaveNatives, SaveHandle, Top.db)
SaveBase    == IF Top.reload \/ entry[Top.db][Top.key] = 0
               THEN ReadVersion(SaveNatives, SaveHandle, Top.db, Top.key)
               ELSE entry[Top.db][Top.key]
SaveOps     == IF Stored(Top.db, Top.key, SaveBase) THEN {}
               ELSE {[key |-> Top.key, base |-> SaveBase]}
Written     == [SaveNatives[SaveHandle] EXCEPT
                  !.isRetry = SaveRetry,
                  !.ops = {o \in @ : o.key # Top.key} \cup SaveOps,
                  !.log[Top.key] = IF SaveRetry THEN @ ELSE @ + 1]

\* The write goes into the native transaction, which an object that is not
\* open commits at once.
SaveWrites ==
    /\ native' = IF Usable(SaveNatives, SaveHandle, Top.db)
                 THEN [SaveNatives EXCEPT ![SaveHandle] = Written] ELSE SaveNatives
    /\ \E before \in SUBSET (IF HooksAsync /\ Top.key \notin saved[Top.db]
                             THEN {<<Top.db, Top.key>>} ELSE {}) :
          completions' = completions \cup before /\ hooks' = hooks \cup before
    /\ stack' = IF SaveNow THEN <<CommitFrame(Top.db, SaveHandle, FALSE)>> \o Tail(stack)
                           ELSE Tail(stack)
    /\ UNCHANGED request

\* validate throws in a save that commit called.
SaveRejects ==
    /\ MayReject /\ Tail(stack) # <<>> /\ Top.key \notin saved[Top.db]
    /\ native' = SaveNatives
    /\ stack' = <<>>
    /\ request' = IF stack[2].main THEN "rejected" ELSE request
    /\ UNCHANGED <<completions, hooks>>

LEMMA SaveEffect ==
  ASSUME TypeOK, Save
  PROVE  /\ ~Idle /\ Top.at = "save" /\ Top \in SaveFrames
         /\ Top.db \in Dbs /\ Top.key \in Keys /\ Top.txn \in Nat /\ Top.reload \in BOOLEAN
         /\ Tail(stack) \in Seq(Frames)
         /\ transaction' = [transaction EXCEPT ![Top.db] =
                              IF SaveTxn = None /\ ~SaveNow THEN SaveHandle ELSE @]
         /\ entry' = [entry EXCEPT ![Top.db][Top.key] = SaveBase]
         /\ saved' = [saved EXCEPT ![Top.db] = @ \cup {Top.key}]
         /\ SaveWrites \/ SaveRejects
         /\ UNCHANGED <<open, chain, used, refs, tracked, writes, validated, retries, parked, waits,
                        scan, load, preset, issued, version, applied, logged, others>>
<1>1. ~Idle /\ Top.at = "save"
  BY DEF Save
<1>2. Top \in SaveFrames /\ Tail(stack) \in Seq(Frames)
  BY <1>1, TopType
<1>3. Top.db \in Dbs /\ Top.key \in Keys /\ Top.txn \in Nat /\ Top.reload \in BOOLEAN
  BY <1>2, SMTT(30) DEF SaveFrames
<1>4. SaveWrites \/ SaveRejects
  <2>1. <<>> \o Tail(stack) = Tail(stack)
    BY <1>2
  <2>2. [SaveNatives EXCEPT ![SaveHandle] = Written] =
           [SaveNatives EXCEPT
              ![SaveHandle].isRetry = SaveRetry,
              ![SaveHandle].ops = {o \in @ : o.key # Top.key} \cup SaveOps,
              ![SaveHandle].log[Top.key] = IF SaveRetry THEN @ ELSE @ + 1]
    BY ZenonT(60) DEF Written
  <2> QED
    BY <2>1, <2>2, ZenonT(60) DEF Save, SaveWrites, SaveRejects, SaveTxn, SaveNatives, SaveHandle, SaveNow,
                      SaveRetry, SaveBase, SaveOps
<1>5. /\ transaction' = [transaction EXCEPT ![Top.db] =
                           IF SaveTxn = None /\ ~SaveNow THEN SaveHandle ELSE @]
      /\ entry' = [entry EXCEPT ![Top.db][Top.key] = SaveBase]
      /\ saved' = [saved EXCEPT ![Top.db] = @ \cup {Top.key}]
  BY ZenonT(60) DEF Save, SaveTxn, SaveNatives, SaveHandle, SaveNow, SaveBase
<1>6. UNCHANGED <<open, chain, used, refs, tracked, writes, validated, retries, parked, waits,
                  scan, load, preset, issued, version, applied, logged, others>>
  BY DEF Save
<1> QED
  BY <1>1, <1>2, <1>3, <1>4, <1>5, <1>6

LEMMA SaveNativesType ==
  ASSUME TypeOK, ~Idle, Top \in SaveFrames
  PROVE  /\ SaveNatives \in Seq(NativeTxn) /\ Len(native) <= Len(SaveNatives)
         /\ SaveHandle \in Nat /\ SaveHandle # None
         /\ SaveTxn = None => SaveHandle = Len(native) + 1 /\ Len(SaveNatives) = Len(native) + 1
         /\ SaveTxn # None => SaveHandle = SaveTxn /\ SaveNatives = native
         /\ \A n \in 1 .. Len(native) : SaveNatives[n] = native[n]
<1>1. Top.db \in Dbs /\ Top.txn \in Nat
  BY DEF SaveFrames
<1>2. native \in Seq(NativeTxn) /\ transaction[Top.db] \in 0 .. Len(native)
  BY <1>1 DEF TypeOK, Handles
<1>3. FreshNative(Top.db) \in NativeTxn
  BY <1>1, FreshType
<1>4. CASE SaveTxn = None
  BY <1>2, <1>3, <1>4, AppendProperties DEF SaveNatives, SaveHandle, None
<1>5. CASE SaveTxn # None
  BY <1>1, <1>2, <1>5 DEF SaveNatives, SaveHandle, SaveTxn
<1> QED
  BY <1>4, <1>5

(***************************************************************************)
(* The native transactions that objects, calls and commits refer to.  An   *)
(* object's own transaction is open and of its database; the one a commit  *)
(* was given by its caller, or gave to the store, no object refers to.     *)
(***************************************************************************)
GivenAway(n) == \A d \in Dbs : transaction[d] # n

Holds(d, opt, n) ==
    /\ n <= Len(native)
    /\ opt # None => n = opt /\ GivenAway(opt)
    /\ opt = None /\ n # None => native[n].db = d

FrameHolds(f) ==
    /\ f.at \in {"loop", "close"} => Holds(f.db, f.opt, f.txn)
    /\ f.at = "save" => f.txn <= Len(native)

OwnHandle(d) ==
    transaction[d] # None => /\ native[transaction[d]].db = d
                             /\ native[transaction[d]].state = "open"

Live == FramesOf(stack) \cup parked

HandleInv ==
    /\ \A d \in Dbs : OwnHandle(d)
    /\ \A f \in Live : FrameHolds(f)
    /\ \A c \in waits : GivenAway(c.txn) /\ (c.opt # None => c.opt = c.txn)

LEMMA LiveType ==
  ASSUME TypeOK
  PROVE  /\ \A f \in Live : f \in Frames
         /\ ~Idle => Top \in Live /\ FramesOf(Tail(stack)) \subseteq Live
         /\ FramesOf(stack) \subseteq Live /\ parked \subseteq Live
<1>1. \A f \in FramesOf(stack) : f \in Frames
  BY DEF FramesOf, TypeOK
<1>2. \A f \in parked : f \in Frames
  BY DEF TypeOK, Frames
<1>3. ~Idle => FramesOf(stack) = {Top} \cup FramesOf(Tail(stack))
  BY TopType
<1> QED
  BY <1>1, <1>2, <1>3 DEF Live

\* The values a write is saved with.
LEMMA SavedValues ==
  ASSUME TypeOK, ~Idle, Top \in SaveFrames,
         Top.txn <= Len(native)
  PROVE  /\ SaveHandle \in 1 .. Len(SaveNatives)
         /\ SaveBase \in Nat
         /\ SaveOps \subseteq Op
         /\ Written \in NativeTxn
         /\ Written.db = SaveNatives[SaveHandle].db
         /\ Written.state = SaveNatives[SaveHandle].state
         /\ Written.snap = SaveNatives[SaveHandle].snap
         /\ Written.isRetry = SaveRetry
         /\ Written.ops = {o \in SaveNatives[SaveHandle].ops : o.key # Top.key} \cup SaveOps
         /\ Written.log = [SaveNatives[SaveHandle].log EXCEPT ![Top.key] =
                             IF SaveRetry THEN @ ELSE @ + 1]
<1>1. Top.db \in Dbs /\ Top.key \in Keys /\ Top.txn \in Nat
  BY DEF SaveFrames
<1>2. native \in Seq(NativeTxn) /\ transaction[Top.db] \in 0 .. Len(native)
  BY <1>1 DEF TypeOK, Handles
<1>3. SaveHandle \in 1 .. Len(SaveNatives) /\ SaveNatives \in Seq(NativeTxn)
  <2>1. SaveTxn # None => SaveTxn \in 1 .. Len(native)
    BY <1>1, <1>2 DEF SaveTxn, None
  <2> QED
    BY <1>2, <2>1, SaveNativesType
<1>4. SaveBase \in Nat
  <2>1. entry[Top.db][Top.key] \in Nat
    BY <1>1 DEF TypeOK
  <2>2. SaveHandle \in 0 .. Len(SaveNatives)
    BY <1>3
  <2> QED
    BY <1>1, <1>3, <2>1, <2>2, ReadType DEF SaveBase
<1>5. SaveOps \subseteq Op
  BY <1>1, <1>4 DEF SaveOps, Op
<1>6. SaveNatives[SaveHandle] \in NativeTxn
  BY <1>3
<1>7. SaveRetry \in BOOLEAN
  BY <1>6 DEF SaveRetry, IsRetry, NativeTxn
<1> DEFINE x == SaveNatives[SaveHandle]
           newOps == {o \in x.ops : o.key # Top.key} \cup SaveOps
           newLog == [x.log EXCEPT ![Top.key] = IF SaveRetry THEN @ ELSE @ + 1]
<1>8. newOps \in SUBSET Op /\ newLog \in [Keys -> Nat]
  BY <1>1, <1>5, <1>6 DEF NativeTxn
<1>9. x \in NativeTxn /\ Written = [x EXCEPT !.isRetry = SaveRetry, !.ops = newOps, !.log = newLog]
  BY <1>6 DEF Written, NativeTxn
<1> HIDE DEF newOps, newLog, x
<1>10. /\ Written.db = x.db /\ Written.state = x.state /\ Written.snap = x.snap
       /\ Written.isRetry = SaveRetry /\ Written.ops = newOps /\ Written.log = newLog
  BY <1>9 DEF NativeTxn
<1>11. Written \in NativeTxn
  BY <1>7, <1>8, <1>9 DEF NativeTxn
<1> QED
  BY <1>3, <1>4, <1>5, <1>10, <1>11 DEF newOps, newLog, x

LEMMA SaveType == TypeOK /\ HandleInv /\ Save => TypeOK'
<1> SUFFICES ASSUME TypeOK, HandleInv, Save PROVE TypeOK'
  OBVIOUS
<1>1. /\ ~Idle /\ Top \in SaveFrames /\ Top.at = "save"
      /\ Top.db \in Dbs /\ Top.key \in Keys /\ Tail(stack) \in Seq(Frames)
  BY SaveEffect
<1>2. Top.txn <= Len(native)
  BY <1>1, LiveType DEF HandleInv, FrameHolds
<1>3. SaveHandle \in 1 .. Len(SaveNatives) /\ SaveBase \in Nat /\ Written \in NativeTxn
  BY <1>1, <1>2, SavedValues
<1>4. SaveNatives \in Seq(NativeTxn) /\ Len(native) <= Len(SaveNatives) /\ Len(SaveNatives) \in Nat
  BY <1>1, SaveNativesType
<1>5. native' \in Seq(NativeTxn) /\ Len(native') = Len(SaveNatives)
  <2>1. [SaveNatives EXCEPT ![SaveHandle] = Written] \in Seq(NativeTxn)
        /\ Len([SaveNatives EXCEPT ![SaveHandle] = Written]) = Len(SaveNatives)
    BY <1>3, <1>4, ExceptSeq
  <2> QED
    BY <1>4, <2>1, SaveEffect DEF SaveWrites, SaveRejects
<1>6. transaction' \in [Dbs -> 0 .. Len(native')]
  <2>1. transaction \in [Dbs -> 0 .. Len(native')]
    BY <1>4, <1>5, GrowthType
  <2>2. SaveHandle \in 0 .. Len(native')
    BY <1>3, <1>5
  <2> QED
    BY <2>1, <2>2, SaveEffect
<1>7. entry' \in [Dbs -> [Keys -> Nat]]
  <2>1. entry \in [Dbs -> [Keys -> Nat]]
    BY DEF TypeOK
  <2>2. entry' = [entry EXCEPT ![Top.db][Top.key] = SaveBase]
    BY SaveEffect
  <2>3. Top.db \in Dbs /\ Top.key \in Keys
    BY <1>1
  <2>4. [entry EXCEPT ![Top.db][Top.key] = SaveBase] \in [Dbs -> [Keys -> Nat]]
    BY <1>3, <2>1, <2>3, CellType
  <2> QED
    BY <2>2, <2>4
<1>8. saved' \in [Dbs -> SUBSET Keys]
  <2>1. saved \in [Dbs -> SUBSET Keys]
    BY DEF TypeOK
  <2> QED
    BY <1>1, <2>1, SaveEffect
<1>9. completions' \subseteq Dbs \X Keys /\ hooks' \subseteq Dbs \X Keys
  <2>1. completions \subseteq Dbs \X Keys /\ hooks \subseteq Dbs \X Keys
        /\ <<Top.db, Top.key>> \in Dbs \X Keys
    BY <1>1 DEF TypeOK
  <2> QED
    BY <2>1, SaveEffect DEF SaveWrites, SaveRejects
<1>10. stack' \in Seq(Frames) /\ request' \in Requests
  <2>1. SaveHandle \in Nat
    BY <1>1, SaveNativesType
  <2>2. CommitFrame(Top.db, SaveHandle, FALSE) \in Frames
    BY <1>1, <2>1, FrameTypes DEF Frames
  <2>3. <<CommitFrame(Top.db, SaveHandle, FALSE)>> \o Tail(stack) \in Seq(Frames) /\ <<>> \in Seq(Frames)
    BY <1>1, <2>2, PushFrame, NoFrame
  <2>4. request \in Requests
    BY DEF TypeOK, Requests
  <2> QED
    BY <1>1, <2>3, <2>4, SaveEffect DEF SaveWrites, SaveRejects, Requests
<1>11. Len(native) <= Len(native')
  BY <1>4, <1>5
<1>12. \A c \in waits : c.txn \in DOMAIN native'
  BY <1>5, <1>11, GrowthType
<1>13. UNCHANGED <<open, chain, used, refs, tracked, writes, validated, retries, parked, waits,
                   scan, load, preset, issued, version, applied, logged, others>>
  BY SaveEffect
<1> QED
  BY <1>5, <1>6, <1>7, <1>8, <1>9, <1>10, <1>12, <1>13 DEF TypeOK, Handles, Requests

(***************************************************************************)
(* commit.                                                                 *)
(***************************************************************************)
Turn     == [Top EXCEPT !.i = @ + 1]
TurnKey  == writes[Top.db][Top.i]
TurnSave == SaveFrame(Top.db, TurnKey, Top.txn, Top.i <= validated[Top.db])

\* The frames one turn of the loop of commit leaves.
LEMMA TurnType ==
  ASSUME TypeOK, ~Idle, Top.at = "loop", Top.i <= Len(writes[Top.db])
  PROVE  /\ Top \in CommitFrames /\ Top.db \in Dbs /\ Tail(stack) \in Seq(Frames)
         /\ Top.i \in 1 .. Len(writes[Top.db]) /\ TurnKey \in Keys
         /\ Turn \in CommitFrames /\ Turn.at = Top.at /\ Turn.db = Top.db /\ Turn.opt = Top.opt
         /\ Turn.txn = Top.txn /\ Turn.i = Top.i + 1 /\ Turn.main = Top.main
         /\ Turn.awaits = Top.awaits
         /\ TurnSave \in SaveFrames /\ TurnSave.at = "save" /\ TurnSave.db = Top.db
         /\ TurnSave.key = TurnKey /\ TurnSave.txn = Top.txn
         /\ TurnSave.reload = (Top.i <= validated[Top.db])
         /\ <<Turn>> \o Tail(stack) \in Seq(Frames)
         /\ <<TurnSave>> \o (<<Turn>> \o Tail(stack)) \in Seq(Frames)
         /\ FramesOf(<<Turn>> \o Tail(stack)) = {Turn} \cup FramesOf(Tail(stack))
         /\ FramesOf(<<TurnSave>> \o (<<Turn>> \o Tail(stack)))
              = {TurnSave, Turn} \cup FramesOf(Tail(stack))
<1>1. Top \in CommitFrames /\ Top.db \in Dbs /\ Tail(stack) \in Seq(Frames)
  BY TopType
<1>2. Top.i \in Nat \ {0} /\ Top.txn \in Nat
  BY <1>1 DEF CommitFrames
<1>3. writes[Top.db] \in Seq(Keys) /\ validated[Top.db] \in Nat
  BY <1>1 DEF TypeOK
<1>4. Top.i \in 1 .. Len(writes[Top.db])
  BY <1>2, <1>3
<1>5. TurnKey \in Keys
  BY <1>3, <1>4 DEF TurnKey
<1>6. /\ Turn \in CommitFrames /\ Turn.at = Top.at /\ Turn.db = Top.db /\ Turn.opt = Top.opt
      /\ Turn.txn = Top.txn /\ Turn.i = Top.i + 1 /\ Turn.main = Top.main
      /\ Turn.awaits = Top.awaits
  BY <1>1, <1>2 DEF Turn, CommitFrames
<1>7. (Top.i <= validated[Top.db]) \in BOOLEAN
  OBVIOUS
<1>8. TurnSave \in SaveFrames
  BY <1>1, <1>2, <1>5, <1>7, FrameTypes DEF TurnSave
<1>9. /\ TurnSave.at = "save" /\ TurnSave.db = Top.db
      /\ TurnSave.key = TurnKey /\ TurnSave.txn = Top.txn
      /\ TurnSave.reload = (Top.i <= validated[Top.db])
  BY DEF TurnSave, SaveFrame
<1>10. Turn \in Frames /\ TurnSave \in Frames
  BY <1>6, <1>8 DEF Frames
<1>11. <<Turn>> \o Tail(stack) \in Seq(Frames)
       /\ FramesOf(<<Turn>> \o Tail(stack)) = {Turn} \cup FramesOf(Tail(stack))
  BY <1>1, <1>10, PushFrame
<1>12. <<TurnSave>> \o (<<Turn>> \o Tail(stack)) \in Seq(Frames)
       /\ FramesOf(<<TurnSave>> \o (<<Turn>> \o Tail(stack)))
            = {TurnSave} \cup FramesOf(<<Turn>> \o Tail(stack))
  <2> DEFINE below == <<Turn>> \o Tail(stack)
  <2>1. below \in Seq(Frames)
    BY <1>11
  <2> HIDE DEF below
  <2>2. <<TurnSave>> \o below \in Seq(Frames)
        /\ FramesOf(<<TurnSave>> \o below) = {TurnSave} \cup FramesOf(below)
    BY <1>10, <2>1, PushFrame
  <2> QED
    BY <2>2 DEF below
<1> QED
  BY <1>1, <1>4, <1>5, <1>6, <1>8, <1>9, <1>11, <1>12

LEMMA CommitWriteEffect ==
  ASSUME CommitWrite
  PROVE  /\ ~Idle /\ Top.at = "loop" /\ Top.i <= Len(writes[Top.db])
         /\ stack' = IF retries[Top.db] = 0 /\ TurnKey \in saved[Top.db]
                     THEN <<Turn>> \o Tail(stack)
                     ELSE <<TurnSave>> \o (<<Turn>> \o Tail(stack))
         /\ UNCHANGED <<objVars, parked, waits, reqVars, storeVars>>
  BY DEF CommitWrite, Turn, TurnKey, TurnSave

LEMMA CommitWriteType == TypeOK /\ CommitWrite => TypeOK'
<1> SUFFICES ASSUME TypeOK, CommitWrite PROVE TypeOK'
  OBVIOUS
<1>1. stack' \in Seq(Frames)
  BY CommitWriteEffect, TurnType
<1> QED
  BY <1>1 DEF CommitWrite, objVars, reqVars, storeVars, TypeOK, Handles

LEMMA CommitValidatedType == TypeOK /\ CommitValidated => TypeOK'
<1> SUFFICES ASSUME TypeOK, CommitValidated PROVE TypeOK'
  OBVIOUS
<1> DEFINE d == Top.db
           close == [Top EXCEPT !.at = "close", !.awaits = Outstanding(d)]
<1>1. Top \in CommitFrames /\ d \in Dbs /\ Tail(stack) \in Seq(Frames)
  BY TopType DEF CommitValidated
<1>2. Outstanding(d) \subseteq Dbs \X Keys
  BY DEF Outstanding, TypeOK
<1>3. close \in CommitFrames /\ close \in Frames
  BY <1>1, <1>2 DEF CommitFrames, Frames
<1>4. validated' \in [Dbs -> Nat]
  <2>1. validated \in [Dbs -> Nat] /\ writes[d] \in Seq(Keys)
    BY <1>1 DEF TypeOK
  <2>2. Len(writes[d]) \in Nat
    BY <2>1
  <2> QED
    BY <2>1, <2>2 DEF CommitValidated, Validated
<1>5. <<close>> \o Tail(stack) \in Seq(Frames)
  BY <1>1, <1>3, PushFrame
<1>6. stack' \in Seq(Frames) /\ parked' \subseteq CommitFrames
  BY <1>1, <1>3, <1>5 DEF CommitValidated, TypeOK
<1>7. completions' \subseteq Dbs \X Keys
  BY DEF CommitValidated, TypeOK
<1> QED
  BY <1>4, <1>6, <1>7 DEF CommitValidated, reqVars, storeVars, TypeOK, Handles

LEMMA HooksType == TypeOK /\ (\E f \in parked : HooksDone(f) \/ HookFailed(f)) => TypeOK'
<1> SUFFICES ASSUME TypeOK, NEW f \in parked, HooksDone(f) \/ HookFailed(f) PROVE TypeOK'
  OBVIOUS
<1>1. f \in Frames
  BY DEF Frames, TypeOK
<1>2. <<f>> \in Seq(Frames)
  BY <1>1, NoFrame
<1>3. CASE HooksDone(f)
  BY <1>2, <1>3 DEF HooksDone, objVars, reqVars, TypeOK, Handles
<1>4. CASE HookFailed(f)
  <2>1. request' \in Requests
    BY <1>4 DEF HookFailed, TypeOK, Requests
  <2> QED
    BY <1>4, <2>1 DEF HookFailed, objVars, storeVars, TypeOK, Handles, Requests
<1> QED
  BY <1>3, <1>4

LEMMA CommitAgainType == TypeOK /\ CommitAgain => TypeOK'
<1> SUFFICES ASSUME TypeOK, CommitAgain PROVE TypeOK'
  OBVIOUS
<1>1. Top \in CommitFrames /\ Top.db \in Dbs /\ Tail(stack) \in Seq(Frames)
  BY TopType DEF CommitAgain
<1>2. Top.opt \in Nat /\ Top.main \in BOOLEAN
  BY <1>1 DEF CommitFrames
<1>3. CommitFrame(Top.db, Top.opt, Top.main) \in Frames
  BY <1>1, <1>2, FrameTypes DEF Frames
<1>4. stack' \in Seq(Frames)
  BY <1>1, <1>3, PushFrame DEF CommitAgain
<1> QED
  BY <1>4 DEF CommitAgain, objVars, reqVars, storeVars, TypeOK, Handles

\* What CommitLingers and CommitCloses have in common.
LEMMA CloseType ==
  ASSUME TypeOK, ~Idle, Top.at = "close"
  PROVE  /\ Top \in CommitFrames /\ Top.db \in Dbs /\ Tail(stack) \in Seq(Frames)
         /\ Top.opt \in Nat /\ Top.txn \in Nat /\ Top.main \in BOOLEAN
         /\ [used EXCEPT ![Top.db] = Plus(@, -1)] \in [Dbs -> Int \cup {NaN}]
         /\ \A o \in States : [open EXCEPT ![Top.db] = o] \in [Dbs -> States]
         /\ Cleared(Top.db) \in [Dbs -> 0 .. Len(native)]
<1>1. Top \in CommitFrames /\ Top.db \in Dbs /\ Tail(stack) \in Seq(Frames)
  BY TopType
<1>2. Top.opt \in Nat /\ Top.txn \in Nat /\ Top.main \in BOOLEAN
  BY <1>1 DEF CommitFrames
<1>3. [used EXCEPT ![Top.db] = Plus(@, -1)] \in [Dbs -> Int \cup {NaN}]
  <2>1. used \in [Dbs -> Int \cup {NaN}] /\ -1 \in Int
    BY DEF TypeOK
  <2>2. used[Top.db] \in Int \cup {NaN}
    BY <1>1, <2>1
  <2>3. Plus(used[Top.db], -1) \in Int \cup {NaN}
    BY <2>1, <2>2, PlusType
  <2> QED
    BY <2>1, <2>3
<1>4. \A o \in States : [open EXCEPT ![Top.db] = o] \in [Dbs -> States]
  BY DEF TypeOK
<1>5. Cleared(Top.db) \in [Dbs -> 0 .. Len(native)]
  <2>1. transaction \in [Dbs -> 0 .. Len(native)] /\ native \in Seq(NativeTxn)
    BY DEF TypeOK, Handles
  <2>2. 0 \in 0 .. Len(native)
    BY <2>1
  <2> QED
    BY <2>1, <2>2 DEF Cleared, None
<1> QED
  BY <1>1, <1>2, <1>3, <1>4, <1>5

LEMMA CommitLingersType == TypeOK /\ CommitLingers => TypeOK'
<1> SUFFICES ASSUME TypeOK, CommitLingers PROVE TypeOK'
  OBVIOUS
<1>1. ~Idle /\ Top.at = "close"
  BY DEF CommitLingers
<1>2. stack' \in Seq(Frames) /\ request' \in Requests
  <2>1. AfterCommit(Top.db, Top.opt, Top.main, Tail(stack))
    BY DEF CommitLingers
  <2>2. /\ Top.db \in Dbs /\ Top.opt \in Nat /\ Top.main \in BOOLEAN /\ Tail(stack) \in Seq(Frames)
    BY <1>1, CloseType
  <2> QED
    BY <2>1, <2>2, AfterCommitType
<1>3. used' \in [Dbs -> Int \cup {NaN}] /\ open' \in [Dbs -> States]
  BY <1>1, CloseType DEF CommitLingers, LeftOpen, States
<1> QED
  BY <1>2, <1>3 DEF CommitLingers, storeVars, TypeOK, Handles, Requests

\* The native transactions after CommitCloses.
LEMMA ClosedNatives ==
  ASSUME TypeOK, NEW n \in Nat
  PROVE  LET given == [native EXCEPT ![n].state = IF @ = "open" THEN "committing" ELSE @]
         IN /\ given \in Seq(NativeTxn) /\ Len(given) = Len(native)
            /\ \A m \in 1 .. Len(native) :
                  given[m] = IF m = n THEN [native[m] EXCEPT !.state = IF @ = "open" THEN "committing" ELSE @]
                             ELSE native[m]
<1> DEFINE given == [native EXCEPT ![n].state = IF @ = "open" THEN "committing" ELSE @]
           x == [native[n] EXCEPT !.state = IF @ = "open" THEN "committing" ELSE @]
<1>1. native \in Seq(NativeTxn) /\ DOMAIN native = 1 .. Len(native)
  BY DEF TypeOK
<1>2. given = [native EXCEPT ![n] = x]
  OBVIOUS
<1>3. CASE n \in 1 .. Len(native)
  <2>1. native[n] \in NativeTxn
    BY <1>1, <1>3
  <2>2. x \in NativeTxn
    BY <2>1 DEF NativeTxn
  <2>3. given \in Seq(NativeTxn) /\ Len(given) = Len(native)
    BY <1>2, <2>2, NativeType
  <2>4. \A m \in 1 .. Len(native) : given[m] = IF m = n THEN x ELSE native[m]
    BY <1>1, <1>2
  <2> QED
    BY <2>3, <2>4
<1>4. CASE n \notin 1 .. Len(native)
  <2>1. given = native
    BY <1>1, <1>2, <1>4
  <2> QED
    BY <1>1, <1>4, <2>1
<1> QED
  BY <1>3, <1>4

LEMMA CommitClosesType == TypeOK /\ HandleInv /\ CommitCloses => TypeOK'
<1> SUFFICES ASSUME TypeOK, HandleInv, CommitCloses PROVE TypeOK'
  OBVIOUS
<1> DEFINE d == Top.db
           n == Top.txn
           given == [native EXCEPT ![n].state = IF @ = "open" THEN "committing" ELSE @]
           c == [db |-> d, opt |-> Top.opt, txn |-> n, main |-> Top.main]
<1>1. ~Idle /\ Top.at = "close"
  BY DEF CommitCloses
<1>2. /\ d \in Dbs /\ Tail(stack) \in Seq(Frames)
      /\ Top.opt \in Nat /\ n \in Nat /\ Top.main \in BOOLEAN
      /\ Cleared(d) \in [Dbs -> 0 .. Len(native)]
  BY <1>1, CloseType
<1>3. /\ used' \in [Dbs -> Int \cup {NaN}] /\ open' \in [Dbs -> States]
      /\ transaction' = Cleared(d)
  BY <1>1, CloseType DEF CommitCloses, States
<1>4. native \in Seq(NativeTxn) /\ Len(native) \in Nat
  BY DEF TypeOK
<1>5. given \in Seq(NativeTxn) /\ Len(given) = Len(native)
  BY <1>2, ClosedNatives
<1>6. NativeAbort(n) \in Seq(NativeTxn) /\ Len(NativeAbort(n)) = Len(native)
  BY <1>2, AbortType
<1>7. native' \in Seq(NativeTxn) /\ Len(native') = Len(native)
  BY <1>4, <1>5, <1>6 DEF CommitCloses
<1>8. transaction' \in [Dbs -> 0 .. Len(native')]
  BY <1>2, <1>3, <1>7
<1>9. c \in Awaiting
  BY <1>2 DEF Awaiting
<1>10. n <= Len(native)
  <2>1. FrameHolds(Top)
    BY <1>1, LiveType DEF HandleInv
  <2> QED
    BY <1>1, <2>1 DEF FrameHolds, Holds
<1>11. waits' \subseteq Awaiting /\ \A w \in waits' : w.txn \in DOMAIN native'
  <2>1. \A w \in waits : w \in Awaiting /\ w.txn \in DOMAIN native'
    <3>1. Len(native) <= Len(native') /\ waits \subseteq Awaiting
      BY <1>4, <1>7 DEF TypeOK
    <3> QED
      BY <1>7, <3>1, GrowthType
  <2>2. CASE UNCHANGED waits
    BY <2>1, <2>2
  <2>3. CASE n # None /\ waits' = waits \cup {c}
    <3>1. c.txn = n /\ n \in DOMAIN native'
      BY <1>2, <1>4, <1>7, <1>10, <2>3 DEF None
    <3> QED
      BY <1>9, <2>1, <2>3, <3>1
  <2> QED
    BY <2>2, <2>3 DEF CommitCloses
<1>12. stack' \in Seq(Frames) /\ request' \in Requests
  <2>1. CASE stack' = Tail(stack) /\ UNCHANGED request
    BY <1>2, <2>1 DEF TypeOK, Requests
  <2>2. CASE AfterCommit(d, Top.opt, Top.main, Tail(stack))
    BY <1>2, <2>2, AfterCommitType
  <2> QED
    BY <2>1, <2>2 DEF CommitCloses
<1>13. tracked' \subseteq Dbs
  BY DEF CommitCloses, TypeOK
<1> QED
  BY <1>3, <1>7, <1>8, <1>11, <1>12, <1>13 DEF CommitCloses, TypeOK, Handles, Requests

LEMMA CommitSucceededType == TypeOK /\ (\E c \in waits : CommitSucceeded(c)) => TypeOK'
<1> SUFFICES ASSUME TypeOK, NEW c \in waits, CommitSucceeded(c) PROVE TypeOK'
  OBVIOUS
<1>1. c.db \in Dbs /\ c.opt \in Nat /\ c.main \in BOOLEAN
  BY DEF TypeOK, Awaiting
<1>2. AfterCommit(c.db, c.opt, c.main, <<>>)
  BY DEF CommitSucceeded
<1>3. stack' \in Seq(Frames) /\ request' \in Requests
  <2>1. <<>> \in Seq(Frames)
    OBVIOUS
  <2> QED
    BY <1>1, <1>2, <2>1, AfterCommitType
<1>4. writes' \in [Dbs -> Seq(Keys)]
  <2>1. writes \in [Dbs -> Seq(Keys)] /\ <<>> \in Seq(Keys)
    BY DEF TypeOK
  <2> QED
    BY <2>1 DEF CommitSucceeded
<1>5. chain' \in [Dbs -> {"absent", "linked", "dropped"}]
  BY DEF CommitSucceeded, TypeOK
<1> QED
  BY <1>3, <1>4, <1>5 DEF CommitSucceeded, storeVars, TypeOK, Handles, Requests

\* The native transaction a retry starts over with.
Restarted(n) ==
    [FreshNative(native[n].db) EXCEPT !.log = native[n].log, !.isRetry = native[n].isRetry]

LEMMA RestartedType ==
  ASSUME TypeOK, NEW n \in DOMAIN native
  PROVE  /\ Restarted(n) \in NativeTxn
         /\ Restarted(n).db = native[n].db /\ Restarted(n).state = "open"
         /\ Restarted(n).ops = {} /\ Restarted(n).log = native[n].log
         /\ Restarted(n).snap = version[native[n].db]
         /\ Restarted(n).isRetry = native[n].isRetry
         /\ [native EXCEPT ![n] = [FreshNative(@.db) EXCEPT !.log = native[n].log, !.isRetry = native[n].isRetry]]
              = [native EXCEPT ![n] = Restarted(n)]
<1>1. native[n] \in NativeTxn /\ native[n].db \in Dbs
  <2>1. native \in Seq(NativeTxn)
    BY DEF TypeOK
  <2>2. native[n] \in NativeTxn
    BY <2>1
  <2> QED
    BY <2>2 DEF NativeTxn
<1>2. FreshNative(native[n].db) \in NativeTxn
  BY <1>1, FreshType
<1>3. Restarted(n) \in NativeTxn
  BY <1>1, <1>2 DEF Restarted, NativeTxn
<1>4. /\ Restarted(n).db = native[n].db /\ Restarted(n).state = "open"
      /\ Restarted(n).ops = {} /\ Restarted(n).log = native[n].log
      /\ Restarted(n).snap = version[native[n].db]
      /\ Restarted(n).isRetry = native[n].isRetry
  BY DEF Restarted, FreshNative
<1> QED
  BY <1>3, <1>4 DEF Restarted

LEMMA CommitRetriesType == TypeOK /\ (\E c \in waits : CommitRetries(c)) => TypeOK'
<1> SUFFICES ASSUME TypeOK, NEW c \in waits, CommitRetries(c) PROVE TypeOK'
  OBVIOUS
<1>1. c.db \in Dbs /\ c.txn \in Nat /\ c.main \in BOOLEAN /\ c.txn \in DOMAIN native
  BY DEF TypeOK, Awaiting
<1>2. native' = [native EXCEPT ![c.txn] = Restarted(c.txn)] /\ Restarted(c.txn) \in NativeTxn
  BY <1>1, RestartedType DEF CommitRetries
<1>3. native' \in Seq(NativeTxn) /\ Len(native') = Len(native) /\ Len(native) \in Nat
  <2>1. native \in Seq(NativeTxn)
    BY DEF TypeOK
  <2> QED
    BY <1>1, <1>2, <2>1, NativeType
<1>4. transaction \in [Dbs -> 0 .. Len(native')] /\ \A w \in waits : w.txn \in DOMAIN native'
  BY <1>3, GrowthType
<1>5. CommitFrame(c.db, c.txn, c.main) \in Frames
  BY <1>1, FrameTypes DEF Frames
<1>6. stack' \in Seq(Frames)
  BY <1>5, NoFrame DEF CommitRetries
<1>7. retries' \in [Dbs -> Nat]
  BY <1>1 DEF CommitRetries, TypeOK
<1> QED
  BY <1>3, <1>4, <1>6, <1>7 DEF CommitRetries, reqVars, TypeOK, Handles

LEMMA TypeStep == TypeOK /\ HandleInv /\ [Next]_vars => TypeOK'
<1> SUFFICES ASSUME TypeOK, HandleInv, [Next]_vars PROVE TypeOK'
  OBVIOUS
<1>1. CASE CallStep
  BY <1>1, SaveType, CommitWriteType, CommitValidatedType, CommitAgainType, CommitLingersType,
     CommitClosesType, AbortEndType DEF CallStep
<1>2. CASE Completion
  BY <1>2, StoreType, CommitSucceededType, CommitRetriesType, HooksType DEF Completion
<1>3. CASE RequestStep
  BY <1>3, WriteType, WriteLoadedType, EventType, LoadType, ScanType, RequestType DEF RequestStep
<1>4. CASE Environment
  BY <1>4, StoreType, RequestType DEF Environment
<1>5. CASE UNCHANGED vars
  BY <1>5 DEF vars, objVars, callVars, reqVars, storeVars, TypeOK, Handles
<1> QED
  BY <1>1, <1>2, <1>3, <1>4, <1>5 DEF Next

(***************************************************************************)
(* HandleInv is inductive: what every step keeps of the native             *)
(* transactions, then one lemma per call that changes a reference.         *)
(***************************************************************************)
DbsKept ==
    /\ Len(native) <= Len(native')
    /\ \A n \in 1 .. Len(native) : native'[n].db = native[n].db

\* Objects drop references and take new transactions, never one that exists.
NoneTaken ==
    \A d \in Dbs : transaction'[d] \in {None, transaction[d]} \/ transaction'[d] > Len(native)

\* Changes of the state of a native transaction.
LEMMA StateChange ==
  ASSUME TypeOK, NEW n \in Nat, NEW st
  PROVE  LET changed == [native EXCEPT ![n].state = st]
         IN \A m \in 1 .. Len(native) :
               /\ changed[m].state = IF m = n THEN st ELSE native[m].state
               /\ changed[m].db = native[m].db /\ changed[m].ops = native[m].ops
               /\ changed[m].snap = native[m].snap /\ changed[m].log = native[m].log
               /\ changed[m].isRetry = native[m].isRetry
<1>1. native \in Seq(NativeTxn)
  BY DEF TypeOK
<1>2. \A m \in 1 .. Len(native) : native[m] \in NativeTxn
  BY <1>1
<1>3. [native EXCEPT ![n].state = st] = [native EXCEPT ![n] = [native[n] EXCEPT !.state = st]]
  OBVIOUS
<1> SUFFICES ASSUME NEW m \in 1 .. Len(native)
             PROVE  LET x == [native EXCEPT ![n] = [native[n] EXCEPT !.state = st]][m]
                    IN /\ x.state = IF m = n THEN st ELSE native[m].state
                       /\ x.db = native[m].db /\ x.ops = native[m].ops
                       /\ x.snap = native[m].snap /\ x.log = native[m].log
                       /\ x.isRetry = native[m].isRetry
  BY <1>3
<1>4. [native EXCEPT ![n] = [native[n] EXCEPT !.state = st]][m]
        = IF m = n THEN [native[m] EXCEPT !.state = st] ELSE native[m]
  BY <1>1
<1> QED
  BY <1>2, <1>4 DEF NativeTxn

LEMMA AbortChange ==
  ASSUME TypeOK, NEW n \in Nat
  PROVE  \A m \in 1 .. Len(native) :
            /\ NativeAbort(n)[m].state =
                  IF m = n /\ native[m].state = "open" THEN "aborted" ELSE native[m].state
            /\ NativeAbort(n)[m].db = native[m].db /\ NativeAbort(n)[m].ops = native[m].ops
            /\ NativeAbort(n)[m].snap = native[m].snap /\ NativeAbort(n)[m].log = native[m].log
            /\ NativeAbort(n)[m].isRetry = native[m].isRetry
<1> DEFINE st == IF native[n].state = "open" THEN "aborted" ELSE native[n].state
<1>1. NativeAbort(n) = [native EXCEPT ![n].state = st]
  BY DEF NativeAbort
<1> HIDE DEF st
<1>2. \A m \in 1 .. Len(native) :
         /\ NativeAbort(n)[m].state = IF m = n THEN st ELSE native[m].state
         /\ NativeAbort(n)[m].db = native[m].db /\ NativeAbort(n)[m].ops = native[m].ops
         /\ NativeAbort(n)[m].snap = native[m].snap /\ NativeAbort(n)[m].log = native[m].log
         /\ NativeAbort(n)[m].isRetry = native[m].isRetry
  BY <1>1, StateChange
<1> QED
  BY <1>2 DEF st

LEMMA FrameKept ==
  ASSUME TypeOK, TypeOK', DbsKept, NoneTaken, NEW f \in Frames, FrameHolds(f)
  PROVE  FrameHolds(f)'
<1>1. Len(native) \in Nat /\ Len(native') \in Nat
  BY DEF TypeOK
<1>2. CASE f \in CommitFrames
  <2>1. f.txn \in Nat /\ f.opt \in Nat /\ f.at \in {"loop", "close"}
    BY <1>2 DEF CommitFrames
  <2>2. Holds(f.db, f.opt, f.txn)
    BY <2>1 DEF FrameHolds
  <2>3. f.txn # None => native'[f.txn].db = native[f.txn].db
    BY <1>1, <2>1, <2>2 DEF Holds, DbsKept, None
  <2>4. f.opt # None => GivenAway(f.opt)'
    BY <1>1, <2>1, <2>2 DEF Holds, GivenAway, NoneTaken, None
  <2> QED
    BY <1>1, <2>1, <2>2, <2>3, <2>4 DEF FrameHolds, Holds, DbsKept
<1>3. CASE f \in SaveFrames
  BY <1>1, <1>3 DEF FrameHolds, SaveFrames, DbsKept
<1>4. CASE f \in AbortFrames
  BY <1>4 DEF FrameHolds, AbortFrames
<1> QED
  BY <1>2, <1>3, <1>4 DEF Frames

LEMMA HandlesKept ==
  ASSUME TypeOK, TypeOK', HandleInv, DbsKept, NoneTaken,
         \A d \in Dbs : OwnHandle(d)',
         \A f \in Live' : f \in Live \/ FrameHolds(f)',
         \A c \in waits' : c \in waits \/ (GivenAway(c.txn)' /\ (c.opt # None => c.opt = c.txn))
  PROVE  HandleInv'
<1>1. \A f \in Live' : FrameHolds(f)'
  BY LiveType, FrameKept DEF HandleInv
<1>2. ASSUME NEW c \in waits PROVE GivenAway(c.txn)'
  <2>1. c.txn \in 1 .. Len(native) /\ Len(native) \in Nat
    BY DEF TypeOK
  <2> QED
    BY <2>1 DEF HandleInv, GivenAway, NoneTaken, None
<1> QED
  BY <1>1, <1>2 DEF HandleInv

\* A step that leaves the native transactions and the references to them alone.
LEMMA SameHandles ==
  ASSUME TypeOK, HandleInv, UNCHANGED <<native, transaction>>
  PROVE  DbsKept /\ NoneTaken /\ \A d \in Dbs : OwnHandle(d)'
  BY DEF DbsKept, NoneTaken, HandleInv, OwnHandle, TypeOK

LEMMA NewCommitHolds ==
  ASSUME TypeOK, TypeOK', HandleInv, DbsKept,
         NEW d \in Dbs, NEW opt \in Nat, NEW main, NEW f, f = CommitFrame(d, opt, main),
         opt # None => opt <= Len(native') /\ GivenAway(opt)'
  PROVE  FrameHolds(f)'
<1>1. f.at = "loop" /\ f.db = d /\ f.opt = opt /\ f.txn = IF opt # None THEN opt ELSE transaction[d]
  BY DEF CommitFrame
<1>2. transaction[d] \in 0 .. Len(native) /\ Len(native) \in Nat /\ Len(native') \in Nat
  BY DEF TypeOK, Handles
<1>3. transaction[d] # None => native'[transaction[d]].db = d
  BY <1>2 DEF HandleInv, OwnHandle, DbsKept, None
<1> QED
  BY <1>1, <1>2, <1>3 DEF FrameHolds, Holds, DbsKept

LEMMA AfterCommitHolds ==
  ASSUME TypeOK, TypeOK', HandleInv, DbsKept,
         NEW d \in Dbs, NEW opt \in Nat, NEW main \in BOOLEAN, NEW rest \in Seq(Frames),
         AfterCommit(d, opt, main, rest), FramesOf(rest) \subseteq Live,
         opt # None => opt <= Len(native') /\ GivenAway(opt)'
  PROVE  \A f \in FramesOf(stack') : f \in Live \/ FrameHolds(f)'
<1>1. CASE stack' = rest
  BY <1>1
<1>2. CASE d < NDbs /\ stack' = <<CommitFrame(d + 1, opt, main)>> \o rest
  <2>1. d + 1 \in Dbs
    BY <1>2, DbsType
  <2>2. CommitFrame(d + 1, opt, main) \in Frames
    BY <2>1, FrameTypes DEF Frames
  <2>3. FramesOf(stack') = {CommitFrame(d + 1, opt, main)} \cup FramesOf(rest)
    BY <1>2, <2>2, PushFrame
  <2>4. \A f : f = CommitFrame(d + 1, opt, main) => FrameHolds(f)'
    BY <2>1, NewCommitHolds
  <2> QED
    BY <2>3, <2>4
<1> QED
  BY <1>1, <1>2 DEF AfterCommit

LEMMA GetReadTxnHandles ==
  ASSUME TypeOK, HandleInv, NEW d \in Dbs, NEW more \in {0, 1}, GetReadTxn(d, more)
  PROVE  DbsKept /\ NoneTaken /\ \A e \in Dbs : OwnHandle(e)'
<1>1. native \in Seq(NativeTxn) /\ Len(native) \in Nat /\ transaction \in [Dbs -> 0 .. Len(native)]
  BY DEF TypeOK, Handles
<1>2. CASE ~StartsNative(d)
  <2>1. native' = native /\ transaction' = transaction
    BY <1>1, <1>2 DEF GetReadTxn, NativesOf, ReadTxn
  <2> QED
    BY <2>1, SameHandles
<1>3. CASE StartsNative(d)
  <2>1. /\ native' = Append(native, FreshNative(d))
        /\ transaction' = [transaction EXCEPT ![d] = Len(native) + 1]
    BY <1>3 DEF GetReadTxn, NativesOf, ReadTxn
  <2>2. Len(native') = Len(native) + 1 /\ native'[Len(native) + 1] = FreshNative(d)
        /\ \A n \in 1 .. Len(native) : native'[n] = native[n]
    BY <1>1, <2>1, FreshType, AppendProperties
  <2>3. FreshNative(d).db = d /\ FreshNative(d).state = "open"
    BY DEF FreshNative
  <2>4. DbsKept /\ NoneTaken
    BY <1>1, <2>1, <2>2 DEF DbsKept, NoneTaken
  <2>5. ASSUME NEW e \in Dbs PROVE OwnHandle(e)'
    <3>1. CASE e = d
      BY <1>1, <2>1, <2>2, <2>3, <3>1 DEF OwnHandle
    <3>2. CASE e # d
      <4>1. transaction'[e] = transaction[e] /\ transaction[e] \in 0 .. Len(native)
        BY <1>1, <2>1, <3>2
      <4> QED
        BY <2>2, <4>1 DEF OwnHandle, HandleInv, None
    <3> QED
      BY <3>1, <3>2
  <2> QED
    BY <2>4, <2>5
<1> QED
  BY <1>2, <1>3

LEMMA LastUseHandles ==
  ASSUME TypeOK, HandleInv, NEW d \in Dbs, NEW rest \in Seq(Frames), LastUse(d, rest)
  PROVE  /\ DbsKept /\ NoneTaken /\ \A e \in Dbs : OwnHandle(e)'
         /\ \A f \in FramesOf(stack') : f = CommitFrame(d, None, FALSE) \/ f \in FramesOf(rest)
<1>1. native \in Seq(NativeTxn) /\ Len(native) \in Nat /\ transaction \in [Dbs -> 0 .. Len(native)]
      /\ transaction[d] \in Nat
  BY DEF TypeOK, Handles
<1>2. CASE open[d] = "LINGERING"
  <2>1. UNCHANGED <<native, transaction>> /\ stack' = <<CommitFrame(d, None, FALSE)>> \o rest
    BY <1>2 DEF LastUse
  <2>2. CommitFrame(d, None, FALSE) \in Frames
    BY FrameTypes DEF Frames, None
  <2>3. FramesOf(stack') = {CommitFrame(d, None, FALSE)} \cup FramesOf(rest)
    BY <2>1, <2>2, PushFrame
  <2> QED
    BY <2>1, <2>3, SameHandles
<1>3. CASE open[d] # "LINGERING"
  <2>1. native' = NativeAbort(transaction[d]) /\ transaction' = Cleared(d) /\ stack' = rest
    BY <1>3 DEF LastUse
  <2>2. Len(native') = Len(native)
        /\ \A m \in 1 .. Len(native) :
              /\ native'[m].db = native[m].db
              /\ m # transaction[d] => native'[m].state = native[m].state
    BY <1>1, <2>1, AbortType, AbortChange
  <2>3. DbsKept /\ NoneTaken
    BY <1>1, <2>1, <2>2 DEF DbsKept, NoneTaken, Cleared
  <2>4. ASSUME NEW e \in Dbs, transaction'[e] # None
        PROVE  native'[transaction'[e]].db = e /\ native'[transaction'[e]].state = "open"
    <3>1. e # d /\ transaction'[e] = transaction[e] /\ transaction[e] \in 1 .. Len(native)
      BY <1>1, <2>1, <2>4 DEF Cleared, None
    <3>2. native[transaction[e]].db = e /\ native[transaction[e]].state = "open"
      BY <3>1 DEF HandleInv, OwnHandle, None
    <3>3. transaction[d] # transaction[e]
      BY <1>1, <3>1, <3>2 DEF HandleInv, OwnHandle, None
    <3> QED
      BY <2>2, <3>1, <3>2, <3>3
  <2> QED
    BY <2>1, <2>3, <2>4 DEF OwnHandle
<1> QED
  BY <1>2, <1>3

LEMMA DoneReadTxnHandles ==
  ASSUME TypeOK, TypeOK', HandleInv, Idle, NEW d \in Dbs, DoneReadTxn(d)
  PROVE  /\ DbsKept /\ NoneTaken /\ \A e \in Dbs : OwnHandle(e)'
         /\ \A f \in FramesOf(stack') : f \in Live \/ FrameHolds(f)'
<1>1. CASE LastUse(d, <<>>)
  <2>1. <<>> \in Seq(Frames) /\ FramesOf(<<>>) = {}
    BY NoFrame
  <2>2. /\ DbsKept /\ NoneTaken /\ \A e \in Dbs : OwnHandle(e)'
        /\ \A f \in FramesOf(stack') : f = CommitFrame(d, None, FALSE)
    BY <1>1, <2>1, LastUseHandles
  <2>3. \A f : f = CommitFrame(d, None, FALSE) => FrameHolds(f)'
    BY <2>2, NewCommitHolds DEF None
  <2> QED
    BY <2>2, <2>3
<1>2. CASE UNCHANGED <<tracked, transaction, native, stack>>
  BY <1>2, SameHandles DEF Live
<1> QED
  BY <1>1, <1>2 DEF DoneReadTxn

LEMMA NewWriteHandles ==
  ASSUME TypeOK, TypeOK', HandleInv, NEW d \in Dbs, NEW k \in Keys, NEW kind,
         SaveUnlessDeferred(d, k, kind)
  PROVE  \A f \in FramesOf(stack') : FrameHolds(f)'
<1>1. SaveFrame(d, k, None, FALSE) \in Frames
  BY FrameTypes DEF Frames, None
<1>2. ASSUME NEW f, f = SaveFrame(d, k, None, FALSE) PROVE FrameHolds(f)'
  <2>1. f.at = "save" /\ f.txn = 0
    BY <1>2 DEF SaveFrame, None
  <2>2. Len(native') \in Nat
    BY DEF TypeOK
  <2> QED
    BY <2>1, <2>2 DEF FrameHolds
<1>3. CASE stack' = <<>>
  BY <1>3, NoFrame
<1>4. CASE stack' = <<SaveFrame(d, k, None, FALSE)>>
  <2>1. FramesOf(stack') = {SaveFrame(d, k, None, FALSE)}
    BY <1>1, <1>4, NoFrame
  <2> QED
    BY <1>2, <2>1
<1> QED
  BY <1>3, <1>4 DEF SaveUnlessDeferred

LEMMA RequestHandles ==
  TypeOK /\ TypeOK' /\ HandleInv /\ RequestStep => HandleInv'
<1> SUFFICES ASSUME TypeOK, TypeOK', HandleInv, RequestStep PROVE HandleInv'
  OBVIOUS
<1>1. ASSUME NEW d \in Dbs, NEW k \in Keys, NEW kind \in Kinds,
             Write(d, k, kind) \/ WriteLoaded(d, k, kind)
      PROVE  HandleInv'
  <2>1. SaveUnlessDeferred(d, k, kind) /\ UNCHANGED <<parked, waits>>
    BY <1>1 DEF Write, WriteLoaded
  <2>2. \A f \in FramesOf(stack') : FrameHolds(f)'
    BY <2>1, NewWriteHandles
  <2>3. DbsKept /\ NoneTaken /\ \A e \in Dbs : OwnHandle(e)'
    BY <1>1, GetReadTxnHandles, SameHandles DEF Write, WriteLoaded, storeVars
  <2> QED
    BY <2>1, <2>2, <2>3, HandlesKept DEF Live
<1>2. ASSUME NEW d \in Dbs, NEW k \in Keys, Event(d, k) PROVE HandleInv'
  <2>1. SaveUnlessDeferred(d, k, "event") /\ UNCHANGED <<parked, waits, native, transaction>>
    BY <1>2 DEF Event, storeVars
  <2>2. \A f \in FramesOf(stack') : FrameHolds(f)'
    BY <2>1, NewWriteHandles
  <2> QED
    BY <2>1, <2>2, SameHandles, HandlesKept DEF Live
<1>3. ASSUME NEW d \in Dbs, NEW k \in Keys, LoadStart(d, k) PROVE HandleInv'
  <2>1. GetReadTxn(d, 0) /\ UNCHANGED <<stack, parked, waits>>
    BY <1>3 DEF LoadStart, callVars
  <2> QED
    BY <2>1, GetReadTxnHandles, HandlesKept DEF Live
<1>4. ASSUME NEW d \in Dbs, NEW k \in Keys, LoadFromSource(d, k) PROVE HandleInv'
  <2>1. Idle /\ UNCHANGED <<parked, waits>>
    BY <1>4 DEF LoadFromSource
  <2>2. CASE DoneReadTxn(d)
    BY <2>1, <2>2, DoneReadTxnHandles, HandlesKept DEF Live
  <2>3. CASE UNCHANGED <<used, tracked, transaction, native, stack>>
    BY <2>1, <2>3, SameHandles, HandlesKept DEF Live
  <2> QED
    BY <1>4, <2>2, <2>3 DEF LoadFromSource
<1>5. ASSUME NEW d \in Dbs, NEW k \in Keys, SourceLoaded(d, k) PROVE HandleInv'
  BY <1>5, SameHandles, HandlesKept DEF SourceLoaded, objVars, callVars, Live
<1>6. ASSUME NEW s \in Scans, ScanDone(s) PROVE HandleInv'
  <2>1. Idle /\ UNCHANGED <<parked, waits>> /\ DoneReadTxn(scan[s].db)
    BY <1>6 DEF ScanDone
  <2>2. scan[s].db \in Dbs
    BY DEF TypeOK
  <2> QED
    BY <2>1, <2>2, DoneReadTxnHandles, HandlesKept DEF Live
<1>7. ASSUME NEW s \in Scans, NEW d \in Dbs, ScanStart(s, d) PROVE HandleInv'
  <2>1. GetReadTxn(d, 1) /\ UNCHANGED <<stack, parked, waits>>
    BY <1>7 DEF ScanStart, callVars
  <2> QED
    BY <2>1, GetReadTxnHandles, HandlesKept DEF Live
<1>8. CASE Commit \/ CommitMidway
  <2>1. /\ stack' = <<CommitFrame(1, None, TRUE)>>
        /\ UNCHANGED <<native, transaction, parked, waits>>
    BY <1>8 DEF Commit, CommitMidway, objVars, storeVars
  <2>2. CommitFrame(1, None, TRUE) \in Frames
    BY FrameTypes, DbsType DEF Frames, None
  <2>3. \A f \in FramesOf(stack') : f = CommitFrame(1, None, TRUE)
    BY <2>1, <2>2, NoFrame, ZenonT(60)
  <2>4. DbsKept /\ NoneTaken /\ \A e \in Dbs : OwnHandle(e)'
    BY <2>1, SameHandles
  <2>5. \A f : f = CommitFrame(1, None, TRUE) => FrameHolds(f)'
    BY <2>4, DbsType, NewCommitHolds DEF None
  <2> QED
    BY <2>1, <2>3, <2>4, <2>5, HandlesKept DEF Live
<1>9. CASE Abort
  <2> DEFINE final == [at |-> "aborted", db |-> 1]
  <2>1. UNCHANGED <<parked, waits>>
    BY <1>9 DEF Abort
  <2>2. final \in Frames /\ <<final>> \in Seq(Frames) /\ FramesOf(<<final>>) = {final}
    BY DbsType, FrameTypes, NoFrame DEF Frames
  <2>3. FrameHolds(final)'
    BY DEF FrameHolds
  <2>4. CASE UNCHANGED <<native, transaction>> /\ stack' \in {stack, <<final>>}
    BY <2>1, <2>2, <2>3, <2>4, SameHandles, HandlesKept DEF Live
  <2>5. CASE LastUse(1, <<final>>)
    <3>1. /\ DbsKept /\ NoneTaken /\ \A e \in Dbs : OwnHandle(e)'
          /\ \A f \in FramesOf(stack') : f = CommitFrame(1, None, FALSE) \/ f = final
      BY <2>2, <2>5, DbsType, LastUseHandles
    <3>2. \A f : f = CommitFrame(1, None, FALSE) => FrameHolds(f)'
      BY <3>1, DbsType, NewCommitHolds DEF None
    <3> QED
      BY <2>1, <2>3, <3>1, <3>2, HandlesKept DEF Live
  <2> QED
    BY <1>9, <2>4, <2>5 DEF Abort
<1> QED
  BY <1>1, <1>2, <1>3, <1>4, <1>5, <1>6, <1>7, <1>8, <1>9 DEF RequestStep

LEMMA EnvironmentHandles ==
  TypeOK /\ TypeOK' /\ HandleInv /\ Environment => HandleInv'
<1> SUFFICES ASSUME TypeOK, TypeOK', HandleInv, Environment PROVE HandleInv'
  OBVIOUS
<1>1. ASSUME NEW d \in Dbs, NEW k \in Keys, OtherWrite(d, k) PROVE HandleInv'
  BY <1>1, SameHandles, HandlesKept DEF OtherWrite, objVars, callVars, Live
<1>2. ASSUME NEW d \in Dbs, Timeout(d) PROVE HandleInv'
  <2>1. /\ stack' = <<CommitFrame(d, None, FALSE)>>
        /\ UNCHANGED <<native, transaction, parked, waits>>
    BY <1>2 DEF Timeout, objVars, storeVars
  <2>2. CommitFrame(d, None, FALSE) \in Frames
    BY FrameTypes DEF Frames, None
  <2>3. \A f \in FramesOf(stack') : f = CommitFrame(d, None, FALSE)
    BY <2>1, <2>2, NoFrame, ZenonT(60)
  <2>4. DbsKept /\ NoneTaken /\ \A e \in Dbs : OwnHandle(e)'
    BY <2>1, SameHandles
  <2>5. \A f : f = CommitFrame(d, None, FALSE) => FrameHolds(f)'
    BY <2>4, NewCommitHolds DEF None
  <2> QED
    BY <2>1, <2>3, <2>4, <2>5, HandlesKept DEF Live
<1> QED
  BY <1>1, <1>2 DEF Environment

LEMMA CompletionHandles ==
  TypeOK /\ TypeOK' /\ HandleInv /\ Completion => HandleInv'
<1> SUFFICES ASSUME TypeOK, TypeOK', HandleInv, Completion PROVE HandleInv'
  OBVIOUS
<1>0. native \in Seq(NativeTxn) /\ Len(native) \in Nat /\ transaction \in [Dbs -> 0 .. Len(native)]
  BY DEF TypeOK, Handles
<1>1. ASSUME NEW n \in DOMAIN native, NativeCommit(n) PROVE HandleInv'
  <2>1. UNCHANGED <<transaction, stack, parked, waits>>
    BY <1>1 DEF NativeCommit, objVars, callVars
  <2>2. n \in Nat /\ native[n].state = "committing"
        /\ \E st : native' = [native EXCEPT ![n].state = st]
    BY <1>0, <1>1, SMTT(30) DEF NativeCommit
  <2>3. \A m \in 1 .. Len(native) :
           native'[m].db = native[m].db /\ (m # n => native'[m].state = native[m].state)
    BY <2>2, StateChange
  <2>4. Len(native') = Len(native)
    BY <1>0, <2>2
  <2>5. DbsKept /\ NoneTaken
    BY <1>0, <2>1, <2>3, <2>4 DEF DbsKept, NoneTaken
  <2>6. ASSUME NEW d \in Dbs PROVE OwnHandle(d)'
    BY <1>0, <2>1, <2>2, <2>3 DEF OwnHandle, HandleInv, None
  <2> QED
    BY <2>1, <2>5, <2>6, HandlesKept DEF Live
<1>2. ASSUME NEW c \in waits, CommitSucceeded(c) PROVE HandleInv'
  <2>1. /\ AfterCommit(c.db, c.opt, c.main, <<>>) /\ waits' = waits \ {c}
        /\ UNCHANGED <<native, transaction, parked>>
    BY <1>2 DEF CommitSucceeded, storeVars
  <2>2. c.db \in Dbs /\ c.opt \in Nat /\ c.main \in BOOLEAN /\ c.txn \in 1 .. Len(native)
    BY <1>0 DEF TypeOK, Awaiting
  <2>3. DbsKept /\ NoneTaken /\ \A e \in Dbs : OwnHandle(e)'
    BY <2>1, SameHandles
  <2>4. c.opt # None => c.opt <= Len(native') /\ GivenAway(c.opt)'
    BY <1>0, <2>1, <2>2 DEF HandleInv, GivenAway
  <2>5. <<>> \in Seq(Frames) /\ FramesOf(<<>>) = {}
    BY NoFrame
  <2>6. \A f \in FramesOf(stack') : f \in Live \/ FrameHolds(f)'
    BY <2>1, <2>2, <2>3, <2>4, <2>5, AfterCommitHolds
  <2> QED
    BY <2>1, <2>3, <2>6, HandlesKept DEF Live
<1>3. ASSUME NEW c \in waits, CommitRetries(c) PROVE HandleInv'
  <2>1. /\ stack' = <<CommitFrame(c.db, c.txn, c.main)>> /\ waits' = waits \ {c}
        /\ UNCHANGED <<transaction, parked>>
    BY <1>3 DEF CommitRetries
  <2>2. c.db \in Dbs /\ c.txn \in 1 .. Len(native) /\ c.txn \in DOMAIN native /\ c.main \in BOOLEAN
    BY <1>0 DEF TypeOK, Awaiting
  <2>3. native' = [native EXCEPT ![c.txn] = Restarted(c.txn)]
        /\ Restarted(c.txn).db = native[c.txn].db
    BY <1>3, <2>2, RestartedType DEF CommitRetries
  <2>4. Len(native') = Len(native)
        /\ \A m \in 1 .. Len(native) :
              native'[m].db = native[m].db /\ (m # c.txn => native'[m] = native[m])
    BY <1>0, <2>2, <2>3
  <2>5. GivenAway(c.txn) /\ GivenAway(c.txn)'
    BY <2>1 DEF HandleInv, GivenAway
  <2>6. DbsKept /\ NoneTaken
    BY <1>0, <2>1, <2>4 DEF DbsKept, NoneTaken
  <2>7. ASSUME NEW d \in Dbs PROVE OwnHandle(d)'
    BY <1>0, <2>1, <2>4, <2>5 DEF OwnHandle, HandleInv, GivenAway, None
  <2>8. CommitFrame(c.db, c.txn, c.main) \in Frames
    <3>1. c.txn \in Nat
      BY <2>2
    <3> QED
      BY <2>2, <3>1, FrameTypes DEF Frames
  <2>9. \A f \in FramesOf(stack') : f = CommitFrame(c.db, c.txn, c.main)
    BY <2>1, <2>8, NoFrame
  <2>10. c.txn \in Nat /\ c.txn <= Len(native')
    BY <1>0, <2>2, <2>4
  <2>11. \A f : f = CommitFrame(c.db, c.txn, c.main) => FrameHolds(f)'
    BY <2>2, <2>5, <2>6, <2>10, NewCommitHolds
  <2> QED
    BY <2>1, <2>6, <2>7, <2>9, <2>11, HandlesKept DEF Live
<1>4. ASSUME NEW f \in parked, HooksDone(f) \/ HookFailed(f) PROVE HandleInv'
  <2>1. /\ UNCHANGED <<native, transaction, waits>> /\ parked' \subseteq parked
        /\ stack' \in {stack, <<f>>}
    BY <1>4 DEF HooksDone, HookFailed, objVars, storeVars
  <2>2. f \in Frames /\ f \in Live
    BY LiveType DEF Live
  <2>3. FramesOf(stack') \subseteq Live
    BY <2>1, <2>2, NoFrame, LiveType
  <2> QED
    BY <2>1, <2>3, SameHandles, HandlesKept DEF Live
<1> QED
  BY <1>1, <1>2, <1>3, <1>4 DEF Completion

LEMMA SaveHandles ==
  TypeOK /\ TypeOK' /\ HandleInv /\ Save => HandleInv'
<1> SUFFICES ASSUME TypeOK, TypeOK', HandleInv, Save PROVE HandleInv'
  OBVIOUS
<1>1. /\ ~Idle /\ Top \in SaveFrames /\ Top.at = "save" /\ Top.db \in Dbs
      /\ Tail(stack) \in Seq(Frames) /\ UNCHANGED <<parked, waits>>
  BY SaveEffect
<1>2. Top.txn <= Len(native)
  BY <1>1, LiveType DEF HandleInv, FrameHolds
<1>3. /\ SaveHandle \in 1 .. Len(SaveNatives) /\ Written \in NativeTxn
      /\ Written.db = SaveNatives[SaveHandle].db /\ Written.state = SaveNatives[SaveHandle].state
  BY <1>1, <1>2, SavedValues
<1>4. /\ SaveNatives \in Seq(NativeTxn) /\ Len(native) <= Len(SaveNatives)
      /\ SaveTxn = None => SaveHandle = Len(native) + 1 /\ Len(SaveNatives) = Len(native) + 1
      /\ SaveTxn # None => SaveHandle = SaveTxn /\ SaveNatives = native
      /\ \A n \in 1 .. Len(native) : SaveNatives[n] = native[n]
  BY <1>1, SaveNativesType
<1>5. native \in Seq(NativeTxn) /\ Len(native) \in Nat /\ transaction \in [Dbs -> 0 .. Len(native)]
  BY DEF TypeOK, Handles
<1>6. Len(native') = Len(SaveNatives)
      /\ \A n \in 1 .. Len(SaveNatives) :
            native'[n].db = SaveNatives[n].db /\ native'[n].state = SaveNatives[n].state
  <2>1. native' \in {SaveNatives, [SaveNatives EXCEPT ![SaveHandle] = Written]}
    BY SaveEffect DEF SaveWrites, SaveRejects
  <2> QED
    BY <1>3, <1>4, <2>1
<1>7. \A d \in Dbs : \/ transaction'[d] = transaction[d]
                     \/ d = Top.db /\ SaveTxn = None /\ transaction'[d] = SaveHandle
  BY <1>1, <1>5, SaveEffect
<1>8. DbsKept /\ NoneTaken
  BY <1>4, <1>5, <1>6, <1>7 DEF DbsKept, NoneTaken
<1>9. ASSUME NEW d \in Dbs PROVE OwnHandle(d)'
  <2>1. CASE transaction'[d] = transaction[d]
    BY <1>4, <1>5, <1>6, <2>1 DEF OwnHandle, HandleInv, None
  <2>2. CASE d = Top.db /\ SaveTxn = None /\ transaction'[d] = SaveHandle
    <3>1. SaveNatives[SaveHandle] = FreshNative(d)
      BY <1>4, <1>5, <2>2, FreshType, AppendProperties DEF SaveNatives
    <3>2. FreshNative(d).db = d /\ FreshNative(d).state = "open"
      BY DEF FreshNative
    <3> QED
      BY <1>3, <1>6, <2>2, <3>1, <3>2 DEF OwnHandle
  <2> QED
    BY <1>7, <2>1, <2>2
<1>10. ASSUME NEW f \in FramesOf(stack') PROVE f \in Live \/ FrameHolds(f)'
  <2>1. FramesOf(Tail(stack)) \subseteq Live
    BY <1>1, LiveType
  <2>2. CASE stack' = Tail(stack)
    BY <2>1, <2>2
  <2>3. CASE stack' = <<>>
    BY <2>3, NoFrame
  <2>4. CASE SaveNow /\ SaveWrites
    <3>1. stack' = <<CommitFrame(Top.db, SaveHandle, FALSE)>> \o Tail(stack)
      BY <2>4 DEF SaveWrites
    <3>2. PICK n \in Nat, d \in Dbs : n = SaveHandle /\ d = Top.db
      BY <1>1, <1>3, <1>4
    <3>3. n <= Len(native') /\ n = Len(native) + 1
      BY <1>3, <1>4, <1>6, <2>4, <3>2 DEF SaveNow
    <3>4. CommitFrame(d, n, FALSE) \in Frames
      BY FrameTypes DEF Frames
    <3>5. FramesOf(stack') = {CommitFrame(d, n, FALSE)} \cup FramesOf(Tail(stack))
      BY <1>1, <3>1, <3>2, <3>4, PushFrame
    <3>6. transaction' = transaction
      <4>1. transaction' = [transaction EXCEPT ![Top.db] = transaction[Top.db]]
        BY <2>4, SaveEffect
      <4> QED
        BY <1>5, <4>1
    <3>7. GivenAway(n)'
      BY <1>5, <3>3, <3>6 DEF GivenAway
    <3>8. \A g : g = CommitFrame(d, n, FALSE) => FrameHolds(g)'
      BY <1>8, <3>3, <3>7, NewCommitHolds
    <3> QED
      BY <2>1, <3>5, <3>8
  <2> QED
    BY <2>2, <2>3, <2>4, SaveEffect DEF SaveWrites, SaveRejects
<1> QED
  BY <1>1, <1>8, <1>9, <1>10, HandlesKept DEF Live

LEMMA CallHandles ==
  TypeOK /\ TypeOK' /\ HandleInv /\ CallStep => HandleInv'
<1> SUFFICES ASSUME TypeOK, TypeOK', HandleInv, CallStep PROVE HandleInv'
  OBVIOUS
<1>0. native \in Seq(NativeTxn) /\ Len(native) \in Nat /\ transaction \in [Dbs -> 0 .. Len(native)]
  BY DEF TypeOK, Handles
<1>1. CASE Save
  BY <1>1, SaveHandles
<1>2. CASE AbortEnd
  <2>1. UNCHANGED <<native, transaction, parked, waits>> /\ stack' = Tail(stack) /\ ~Idle
    BY <1>2 DEF AbortEnd, storeVars
  <2> QED
    BY <2>1, LiveType, SameHandles, HandlesKept DEF Live
<1>3. ASSUME ~Idle, Top.at \in {"loop", "close"}
      PROVE  /\ Top \in CommitFrames /\ Top.db \in Dbs /\ Tail(stack) \in Seq(Frames)
             /\ Top.opt \in Nat /\ Top.txn \in Nat /\ Top.main \in BOOLEAN
             /\ FrameHolds(Top) /\ Holds(Top.db, Top.opt, Top.txn)
             /\ FramesOf(Tail(stack)) \subseteq Live
  <2>1. Top \in CommitFrames /\ Top.db \in Dbs /\ Tail(stack) \in Seq(Frames)
    BY <1>3, TopType
  <2>2. Top.opt \in Nat /\ Top.txn \in Nat /\ Top.main \in BOOLEAN
    BY <2>1 DEF CommitFrames
  <2>3. FrameHolds(Top) /\ FramesOf(Tail(stack)) \subseteq Live
    BY <1>3, LiveType DEF HandleInv
  <2> QED
    BY <1>3, <2>1, <2>2, <2>3 DEF FrameHolds
<1>4. CASE CommitWrite
  <2>1. UNCHANGED <<native, transaction, parked, waits>>
    BY <1>4 DEF CommitWrite, objVars, storeVars
  <2>2. DbsKept /\ NoneTaken /\ \A e \in Dbs : OwnHandle(e)'
    BY <2>1, SameHandles
  <2>3. /\ ~Idle /\ Top.at = "loop" /\ Top.i <= Len(writes[Top.db])
        /\ stack' \in {<<Turn>> \o Tail(stack), <<TurnSave>> \o (<<Turn>> \o Tail(stack))}
    BY <1>4, CommitWriteEffect
  <2>4. /\ FramesOf(Tail(stack)) \subseteq Live
        /\ FrameHolds(Top) /\ Top.txn \in Nat /\ Top.txn <= Len(native)
    BY <1>3, <2>3 DEF Holds
  <2>5. FramesOf(stack') \subseteq {TurnSave, Turn} \cup FramesOf(Tail(stack))
    BY <2>3, TurnType
  <2>6. ASSUME NEW f, f = Turn PROVE FrameHolds(f)'
    <3>1. f \in Frames /\ FrameHolds(f)
      BY <2>3, <2>4, <2>6, TurnType DEF FrameHolds, Frames
    <3> QED
      BY <2>2, <3>1, FrameKept
  <2>7. ASSUME NEW f, f = TurnSave PROVE FrameHolds(f)'
    <3>1. f.at = "save" /\ f.txn = Top.txn
      BY <2>3, <2>7, TurnType
    <3> QED
      BY <2>1, <2>4, <3>1 DEF FrameHolds
  <2> QED
    BY <2>1, <2>2, <2>4, <2>5, <2>6, <2>7, HandlesKept DEF Live
<1>5. CASE CommitValidated
  <2> DEFINE d == Top.db
             close == [Top EXCEPT !.at = "close", !.awaits = Outstanding(d)]
  <2>1. /\ UNCHANGED <<native, transaction, waits>> /\ ~Idle /\ Top.at = "loop"
        /\ parked' \subseteq parked \cup {close}
        /\ stack' \in {Tail(stack), <<close>> \o Tail(stack)}
    BY <1>5 DEF CommitValidated, storeVars
  <2>2. DbsKept /\ NoneTaken /\ \A e \in Dbs : OwnHandle(e)'
    BY <2>1, SameHandles
  <2>3. /\ Top \in CommitFrames /\ Tail(stack) \in Seq(Frames) /\ FramesOf(Tail(stack)) \subseteq Live
        /\ FrameHolds(Top) /\ d \in Dbs
    BY <1>3, <2>1
  <2>4. Outstanding(d) \subseteq Dbs \X Keys
    BY DEF Outstanding, TypeOK
  <2>5. close \in Frames /\ close.at = "close" /\ close.db = d
        /\ close.opt = Top.opt /\ close.txn = Top.txn
    BY <2>3, <2>4 DEF CommitFrames, Frames
  <2>6. FrameHolds(close)
    BY <2>1, <2>3, <2>5 DEF FrameHolds
  <2>7. ASSUME NEW f, f = close PROVE FrameHolds(f)'
    BY <2>2, <2>5, <2>6, <2>7, FrameKept
  <2>8. FramesOf(stack') \subseteq {close} \cup FramesOf(Tail(stack))
    BY <2>1, <2>3, <2>5, PushFrame
  <2> QED
    BY <2>1, <2>2, <2>3, <2>7, <2>8, HandlesKept DEF Live
<1>6. CASE CommitAgain
  <2>1. /\ UNCHANGED <<native, transaction, parked, waits>> /\ ~Idle /\ Top.at = "close"
        /\ stack' = <<CommitFrame(Top.db, Top.opt, Top.main)>> \o Tail(stack)
    BY <1>6 DEF CommitAgain, objVars, storeVars
  <2>2. DbsKept /\ NoneTaken /\ \A e \in Dbs : OwnHandle(e)'
    BY <2>1, SameHandles
  <2>3. /\ Tail(stack) \in Seq(Frames) /\ FramesOf(Tail(stack)) \subseteq Live
        /\ Top.db \in Dbs /\ Top.opt \in Nat /\ Top.main \in BOOLEAN /\ Holds(Top.db, Top.opt, Top.txn)
    BY <1>3, <2>1
  <2>4. PICK d \in Dbs, opt \in Nat, main \in BOOLEAN : d = Top.db /\ opt = Top.opt /\ main = Top.main
    BY <2>3
  <2>5. opt # None => opt <= Len(native') /\ GivenAway(opt)'
    BY <2>1, <2>3, <2>4 DEF Holds, GivenAway
  <2>6. CommitFrame(d, opt, main) \in Frames
    BY FrameTypes DEF Frames
  <2>7. \A f : f = CommitFrame(d, opt, main) => FrameHolds(f)'
    BY <2>2, <2>5, NewCommitHolds
  <2>8. FramesOf(stack') = {CommitFrame(d, opt, main)} \cup FramesOf(Tail(stack))
    <3>1. stack' = <<CommitFrame(d, opt, main)>> \o Tail(stack)
      BY <2>1, <2>4
    <3> QED
      BY <2>3, <2>6, <3>1, PushFrame
  <2> QED
    BY <2>1, <2>2, <2>3, <2>7, <2>8, HandlesKept DEF Live
<1>7. CASE CommitLingers
  <2>1. /\ UNCHANGED <<native, transaction, parked, waits>> /\ ~Idle /\ Top.at = "close"
        /\ AfterCommit(Top.db, Top.opt, Top.main, Tail(stack))
    BY <1>7 DEF CommitLingers, storeVars
  <2>2. DbsKept /\ NoneTaken /\ \A e \in Dbs : OwnHandle(e)'
    BY <2>1, SameHandles
  <2>3. /\ Tail(stack) \in Seq(Frames) /\ FramesOf(Tail(stack)) \subseteq Live
        /\ Top.db \in Dbs /\ Top.opt \in Nat /\ Top.main \in BOOLEAN /\ Holds(Top.db, Top.opt, Top.txn)
    BY <1>3, <2>1
  <2>4. PICK d \in Dbs, opt \in Nat, main \in BOOLEAN, rest \in Seq(Frames) :
           d = Top.db /\ opt = Top.opt /\ main = Top.main /\ rest = Tail(stack)
    BY <2>3
  <2>5. opt # None => opt <= Len(native') /\ GivenAway(opt)'
    BY <2>1, <2>3, <2>4 DEF Holds, GivenAway
  <2>6. AfterCommit(d, opt, main, rest) /\ FramesOf(rest) \subseteq Live
    BY <2>1, <2>3, <2>4
  <2>7. \A f \in FramesOf(stack') : f \in Live \/ FrameHolds(f)'
    BY <2>2, <2>5, <2>6, AfterCommitHolds
  <2> QED
    BY <2>1, <2>2, <2>7, HandlesKept DEF Live
<1>8. CASE CommitCloses
  <2>1. ~Idle /\ Top.at = "close"
    BY <1>8 DEF CommitCloses
  <2>2. /\ Tail(stack) \in Seq(Frames) /\ FramesOf(Tail(stack)) \subseteq Live
        /\ Top.db \in Dbs /\ Top.opt \in Nat /\ Top.txn \in Nat /\ Top.main \in BOOLEAN
        /\ Holds(Top.db, Top.opt, Top.txn)
    BY <1>3, <2>1
  <2>3. PICK d \in Dbs, opt \in Nat, n \in Nat, main \in BOOLEAN, rest \in Seq(Frames) :
           d = Top.db /\ opt = Top.opt /\ n = Top.txn /\ main = Top.main /\ rest = Tail(stack)
    BY <2>2
  <2> DEFINE c == [db |-> d, opt |-> opt, txn |-> n, main |-> main]
             st == IF native[n].state = "open" THEN "committing" ELSE native[n].state
  <2>4. Holds(d, opt, n) /\ FramesOf(rest) \subseteq Live
    BY <2>2, <2>3
  <2>5. \/ /\ n # None /\ native' = [native EXCEPT ![n].state = st]
           /\ waits' = waits \cup {c} /\ stack' = rest
        \/ /\ native' \in {native, NativeAbort(n)} /\ UNCHANGED waits
           /\ AfterCommit(d, opt, main, rest)
    BY <1>8, <2>3 DEF CommitCloses
  <2>6. UNCHANGED parked /\ transaction' = Cleared(d)
    BY <1>8, <2>3 DEF CommitCloses
  <2> HIDE DEF st
  <2>7. Len(native') = Len(native)
        /\ \A m \in 1 .. Len(native) :
              native'[m].db = native[m].db /\ (m # n => native'[m].state = native[m].state)
    <3>1. CASE native' = [native EXCEPT ![n].state = st]
      BY <1>0, <3>1, StateChange
    <3>2. CASE native' = NativeAbort(n)
      BY <3>2, AbortChange, AbortType
    <3>3. CASE native' = native
      BY <3>3
    <3> QED
      BY <2>5, <3>1, <3>2, <3>3
  <2>8. \A e \in Dbs : transaction'[e] = IF e = d THEN None ELSE transaction[e]
    BY <1>0, <2>6 DEF Cleared
  <2>9. DbsKept /\ NoneTaken
    BY <1>0, <2>7, <2>8 DEF DbsKept, NoneTaken
  <2>10. \A e \in Dbs : transaction'[e] # None => transaction'[e] # n
    BY <1>0, <2>4, <2>8 DEF Holds, GivenAway, HandleInv, OwnHandle, None
  <2>11. ASSUME NEW e \in Dbs PROVE OwnHandle(e)'
    BY <1>0, <2>7, <2>8, <2>10 DEF OwnHandle, HandleInv, None
  <2>12. opt # None => opt <= Len(native') /\ GivenAway(opt)' /\ opt = n
    BY <1>0, <2>4, <2>7, <2>8 DEF Holds, GivenAway
  <2>13. \A f \in FramesOf(stack') : f \in Live \/ FrameHolds(f)'
    <3>1. CASE stack' = rest
      BY <2>4, <3>1
    <3>2. CASE AfterCommit(d, opt, main, rest)
      BY <2>4, <2>9, <2>12, <3>2, AfterCommitHolds
    <3> QED
      BY <2>5, <3>1, <3>2
  <2>14. ASSUME NEW w \in waits', w \notin waits
         PROVE  GivenAway(w.txn)' /\ (w.opt # None => w.opt = w.txn)
    <3>1. w.txn = n /\ w.opt = opt /\ n # None
      BY <2>5, <2>14
    <3> QED
      BY <2>10, <2>12, <3>1 DEF GivenAway
  <2> QED
    BY <2>6, <2>9, <2>11, <2>13, <2>14, HandlesKept DEF Live
<1> QED
  BY <1>1, <1>2, <1>4, <1>5, <1>6, <1>7, <1>8 DEF CallStep

LEMMA HandleInit == Init => HandleInv
  BY NoFrame DEF Init, HandleInv, OwnHandle, Live, None

LEMMA HandleStep == TypeOK /\ TypeOK' /\ HandleInv /\ [Next]_vars => HandleInv'
<1> SUFFICES ASSUME TypeOK, TypeOK', HandleInv, [Next]_vars PROVE HandleInv'
  OBVIOUS
<1>1. CASE UNCHANGED vars
  BY <1>1, SameHandles, HandlesKept DEF vars, objVars, callVars, storeVars, Live
<1> QED
  BY <1>1, CallHandles, CompletionHandles, RequestHandles, EnvironmentHandles DEF Next

LEMMA HandlesInvariant == Spec => [](TypeOK /\ HandleInv)
<1>1. Init => TypeOK /\ HandleInv
  BY TypeInit, HandleInit
<1>2. TypeOK /\ HandleInv /\ [Next]_vars => (TypeOK /\ HandleInv)'
  BY TypeStep, HandleStep
<1> QED
  BY <1>1, <1>2, PTL DEF Spec

\* Every variable keeps its type, whatever the request, the other requests,
\* the iterators, the hooks and the monitor do.
THEOREM TypeCorrect == Spec => []TypeOK
  BY HandlesInvariant, PTL

\* An object that refers to a native transaction refers to an open one: none
\* joins, by a later read or write, the transaction of a commit under way.
THEOREM OpenHandles == Spec => []TransactionIsOpen
<1>1. HandleInv => TransactionIsOpen
  BY DEF HandleInv, OwnHandle, TransactionIsOpen
<1> QED
  BY <1>1, HandlesInvariant, PTL

(***************************************************************************)
(* A request that throws, without having committed and before the monitor  *)
(* found it, stores nothing.  Until then nothing is given to the store: no *)
(* commit runs, no object is closed, no writes linger.  Afterwards the     *)
(* first object is closed and the others stay open, and neither they nor   *)
(* the iterators and loads that end later commit anything.                 *)
(***************************************************************************)
NothingGiven ==
    /\ parked = {} /\ waits = {} /\ applied = {}
    /\ \A n \in DOMAIN native : native[n].state \in {"open", "aborted"}
    /\ \A d \in Dbs : open[d] # "LINGERING"

QuietInv ==
    /\ request \notin {"midway", "resumed"}
    /\ request \in {"running", "aborted", "spinning"} => NothingGiven
    /\ request = "running" => /\ \A d \in Dbs : open[d] = "OPEN"
                              /\ \A f \in FramesOf(stack) : f.at = "save"
    /\ request \in {"aborted", "spinning"} => \A f \in FramesOf(stack) : f.at = "aborted"

LEMMA QuietInit == Init => QuietInv
<1> SUFFICES ASSUME Init PROVE QuietInv
  OBVIOUS
<1>1. FramesOf(stack) = {} /\ DOMAIN native = {}
  BY DEF FramesOf, Init
<1>2. parked = {} /\ waits = {} /\ applied = {} /\ request = "running"
      /\ \A d \in Dbs : open[d] = "OPEN"
  BY DEF Init
<1> QED
  BY <1>1, <1>2 DEF QuietInv, NothingGiven

\* Whoever starts a native transaction or aborts one leaves none committing.
LEMMA QuietNatives ==
  ASSUME TypeOK, NothingGiven
  PROVE  /\ \A d \in Dbs : \A n \in DOMAIN Append(native, FreshNative(d)) :
                Append(native, FreshNative(d))[n].state \in {"open", "aborted"}
         /\ \A d \in Dbs : \A n \in DOMAIN NativesOf(d) : NativesOf(d)[n].state \in {"open", "aborted"}
         /\ \A m \in Nat : \A n \in DOMAIN NativeAbort(m) : NativeAbort(m)[n].state \in {"open", "aborted"}
<1>1. native \in Seq(NativeTxn) /\ DOMAIN native = 1 .. Len(native)
  BY DEF TypeOK
<1>2. ASSUME NEW d \in Dbs, NEW n \in DOMAIN Append(native, FreshNative(d))
      PROVE  Append(native, FreshNative(d))[n].state \in {"open", "aborted"}
  <2>1. FreshNative(d).state = "open"
    BY DEF FreshNative
  <2>2. n \in 1 .. Len(native) \/ n = Len(native) + 1
    BY <1>1, <1>2
  <2> QED
    BY <1>1, <2>1, <2>2, FreshType, AppendProperties DEF NothingGiven
<1>3. ASSUME NEW d \in Dbs, NEW n \in DOMAIN NativesOf(d)
      PROVE  NativesOf(d)[n].state \in {"open", "aborted"}
  BY <1>2, <1>3 DEF NativesOf, NothingGiven
<1>4. ASSUME NEW m \in Nat, NEW n \in DOMAIN NativeAbort(m)
      PROVE  NativeAbort(m)[n].state \in {"open", "aborted"}
  <2>1. NativeAbort(m) \in Seq(NativeTxn) /\ Len(NativeAbort(m)) = Len(native)
    BY AbortType
  <2>2. n \in 1 .. Len(native)
    BY <1>4, <2>1
  <2> QED
    BY <1>1, <2>2, AbortChange DEF NothingGiven
<1> QED
  BY <1>2, <1>3, <1>4

\* The last use of an object that does not linger aborts its transaction.
LEMMA QuietLastUse ==
  ASSUME TypeOK, NothingGiven, NEW d \in Dbs, NEW rest, LastUse(d, rest),
         UNCHANGED <<open, parked, waits, applied>>
  PROVE  NothingGiven' /\ stack' = rest
<1>1. open[d] # "LINGERING" /\ transaction[d] \in Nat
  BY DEF NothingGiven, TypeOK, Handles
<1>2. native' = NativeAbort(transaction[d]) /\ stack' = rest
  BY <1>1 DEF LastUse
<1>3. \A n \in DOMAIN native' : native'[n].state \in {"open", "aborted"}
  BY <1>1, <1>2, QuietNatives
<1> QED
  BY <1>2, <1>3 DEF NothingGiven

LEMMA QuietDone ==
  ASSUME TypeOK, NothingGiven, NEW d \in Dbs, DoneReadTxn(d), Idle,
         UNCHANGED <<open, parked, waits, applied>>
  PROVE  NothingGiven' /\ stack' = stack
<1>1. CASE LastUse(d, <<>>)
  BY <1>1, QuietLastUse DEF Idle
<1>2. CASE UNCHANGED <<native, stack>>
  BY <1>2 DEF NothingGiven
<1> QED
  BY <1>1, <1>2 DEF DoneReadTxn

\* While every object is open, txnForContext finds or adds an open one.
LEMMA QuietObjects ==
  ASSUME TypeOK, NEW d \in Dbs, TxnForContext(d), \A e \in Dbs : open[e] = "OPEN"
  PROVE  \A e \in Dbs : open'[e] = "OPEN"
<1>1. d > 1 => d - 1 \in Dbs
  BY ChainAssumption DEF Dbs
<1>2. OpenState(d) = "OPEN"
  BY <1>1 DEF OpenState
<1> QED
  BY <1>2 DEF TxnForContext, TypeOK

LEMMA QuietRead ==
  ASSUME TypeOK, NothingGiven, NEW d \in Dbs, NEW more, GetReadTxn(d, more), TxnForContext(d),
         \A e \in Dbs : open[e] = "OPEN", UNCHANGED <<parked, waits, applied>>
  PROVE  NothingGiven' /\ \A e \in Dbs : open'[e] = "OPEN"
<1>1. native' = NativesOf(d)
  BY DEF GetReadTxn
<1>2. \A n \in DOMAIN native' : native'[n].state \in {"open", "aborted"}
  BY <1>1, QuietNatives
<1> QED
  BY <1>2, QuietObjects DEF NothingGiven

LEMMA QuietWrite ==
  ASSUME NEW d \in Dbs, NEW k \in Keys, NEW kind, SaveUnlessDeferred(d, k, kind)
  PROVE  \A f \in FramesOf(stack') : f.at = "save"
<1>1. CASE stack' = <<>>
  BY <1>1, NoFrame
<1>2. CASE stack' = <<SaveFrame(d, k, None, FALSE)>>
  <2>1. FramesOf(stack') = {SaveFrame(d, k, None, FALSE)}
    BY <1>2, NoFrame
  <2> QED
    BY <2>1 DEF SaveFrame
<1> QED
  BY <1>1, <1>2 DEF SaveUnlessDeferred

\* Of the steps of a request that is not running, iterators and loads are left.
LEMMA NotRunning ==
  ASSUME RequestStep, ~Running
  PROVE  \/ \E s \in Scans : ScanDone(s)
         \/ \E d \in Dbs, k \in Keys : LoadFromSource(d, k) \/ SourceLoaded(d, k)
<1>1. ASSUME NEW d \in Dbs, NEW k \in Keys, NEW kind
      PROVE  ~Write(d, k, kind) /\ ~WriteLoaded(d, k, kind) /\ ~Event(d, k)
  BY DEF Write, WriteLoaded, Event, NewWrite
<1>2. ASSUME NEW d \in Dbs, NEW s \in Scans
      PROVE  ~ScanStart(s, d)
  BY DEF ScanStart
<1>3. ASSUME NEW d \in Dbs, NEW k \in Keys
      PROVE  ~LoadStart(d, k)
  BY DEF LoadStart
<1>4. ~Commit /\ ~CommitMidway /\ ~Abort
  BY DEF Commit, CommitMidway, Abort
<1> QED
  BY <1>1, <1>2, <1>3, <1>4 DEF RequestStep

LEMMA QuietStep ==
  ASSUME ~ClosedUse, ~Timeouts, TypeOK, QuietInv, [Next]_vars
  PROVE  QuietInv'
<1>1. request \notin {"midway", "resumed"}
  BY DEF QuietInv
<1>2. CASE UNCHANGED vars
  BY <1>2 DEF vars, objVars, callVars, reqVars, storeVars, QuietInv, NothingGiven
<1>3. CASE request = "running" /\ Next
  <2>1. /\ NothingGiven /\ \A d \in Dbs : open[d] = "OPEN"
        /\ \A f \in FramesOf(stack) : f.at = "save"
    BY <1>3 DEF QuietInv
  <2>2. ~Idle => Top.at = "save" /\ (\A f \in FramesOf(Tail(stack)) : f.at = "save")
    BY <2>1, TopType
  <2>3. CASE CallStep
    <3>1. Save
      BY <2>2, <2>3 DEF CallStep, CommitWrite, CommitValidated, CommitAgain, CommitLingers,
                        CommitCloses, AbortEnd
    <3>2. CASE SaveRejects
      <4>1. request' \in {"running", "rejected"} /\ stack' = <<>>
        BY <1>3, <3>2 DEF SaveRejects
      <4>2. UNCHANGED <<open, parked, waits, applied>> /\ native' = SaveNatives /\ Top.db \in Dbs
        BY <3>1, <3>2, SaveEffect DEF SaveRejects
      <4>3. \A n \in DOMAIN native' : native'[n].state \in {"open", "aborted"}
        <5>1. CASE SaveNatives = native
          BY <2>1, <4>2, <5>1 DEF NothingGiven
        <5>2. CASE SaveNatives = Append(native, FreshNative(Top.db))
          BY <2>1, <4>2, <5>2, QuietNatives
        <5> QED
          BY <5>1, <5>2 DEF SaveNatives
      <4>4. FramesOf(stack') = {}
        BY <4>1 DEF FramesOf
      <4> QED
        BY <2>1, <4>1, <4>2, <4>3, <4>4 DEF QuietInv, NothingGiven
    <3>3. CASE SaveWrites
      <4>1. UNCHANGED <<open, parked, waits, applied, request>> /\ Top.db \in Dbs
        BY <3>1, <3>3, SaveEffect DEF SaveWrites
      <4>2. ~SaveNow
        BY <2>1, <4>1 DEF SaveNow
      <4>3. stack' = Tail(stack) /\ ~Idle
        BY <3>1, <3>3, <4>2, SaveEffect DEF SaveWrites
      <4>4. \A n \in DOMAIN native' : native'[n].state \in {"open", "aborted"}
        <5>1. SaveNatives \in Seq(NativeTxn) /\ ~Idle /\ Top \in SaveFrames
          BY <3>1, SaveEffect, SaveNativesType
        <5>2. \A n \in DOMAIN SaveNatives : SaveNatives[n].state \in {"open", "aborted"}
          <6>1. CASE SaveNatives = native
            BY <2>1, <6>1 DEF NothingGiven
          <6>2. CASE SaveNatives = Append(native, FreshNative(Top.db))
            BY <2>1, <4>1, <6>2, QuietNatives
          <6> QED
            BY <6>1, <6>2 DEF SaveNatives
        <5>3. SaveHandle \in DOMAIN SaveNatives => Written.state = SaveNatives[SaveHandle].state
          <6>1. SaveHandle \in DOMAIN SaveNatives => SaveNatives[SaveHandle] \in NativeTxn
            BY <5>1
          <6> QED
            BY <6>1 DEF Written, NativeTxn
        <5>4. native' \in {SaveNatives, [SaveNatives EXCEPT ![SaveHandle] = Written]}
          BY <3>3 DEF SaveWrites
        <5> QED
          BY <5>2, <5>3, <5>4
      <4> QED
        BY <1>3, <2>1, <2>2, <4>1, <4>3, <4>4 DEF QuietInv, NothingGiven
    <3> QED
      BY <3>1, <3>2, <3>3, SaveEffect
  <2>4. CASE Completion
    BY <1>1, <2>1, <2>4 DEF Completion, NothingGiven, NativeCommit
  <2>5. ASSUME NEW d \in Dbs, NEW k \in Keys, NEW kind \in Kinds,
               Write(d, k, kind) \/ WriteLoaded(d, k, kind) \/ Event(d, k)
        PROVE  QuietInv'
    <3>1. /\ TxnForContext(d) /\ UNCHANGED <<parked, waits, applied, request>>
          /\ \E kd : SaveUnlessDeferred(d, k, kd)
          /\ GetReadTxn(d, 0) \/ UNCHANGED native
      BY <2>5 DEF Write, WriteLoaded, Event, storeVars
    <3>2. NothingGiven' /\ \A e \in Dbs : open'[e] = "OPEN"
      <4>1. CASE GetReadTxn(d, 0)
        BY <2>1, <3>1, <4>1, QuietRead
      <4>2. CASE UNCHANGED native
        BY <2>1, <3>1, <4>2, QuietObjects DEF NothingGiven
      <4> QED
        BY <3>1, <4>1, <4>2
    <3>3. \A f \in FramesOf(stack') : f.at = "save"
      BY <3>1, QuietWrite
    <3> QED
      BY <1>3, <3>1, <3>2, <3>3 DEF QuietInv
  <2>7. CASE Abort
    <3> DEFINE final == [at |-> "aborted", db |-> 1]
    <3>1. UNCHANGED <<open, parked, waits, applied>> /\ request' \in {"aborted", "spinning"}
      BY <2>7 DEF Abort
    <3>2. CASE request' = "spinning"
      <4>1. UNCHANGED <<native, stack>> /\ Idle
        BY <2>7, <3>2 DEF Abort, Running
      <4> QED
        BY <2>1, <3>1, <3>2, <4>1 DEF QuietInv, NothingGiven, Idle, FramesOf
    <3>3. CASE request' = "aborted"
      <4>1. NothingGiven' /\ stack' = <<final>>
        <5>1. CASE stack' = <<final>> /\ UNCHANGED native
          BY <2>1, <3>1, <5>1 DEF NothingGiven
        <5>2. CASE LastUse(1, <<final>>)
          BY <2>1, <3>1, <5>2, DbsType, QuietLastUse
        <5> QED
          BY <2>7, <3>3, <5>1, <5>2 DEF Abort
      <4>2. final \in Frames
        BY DbsType, FrameTypes DEF Frames
      <4>3. FramesOf(stack') = {final}
        BY <4>1, <4>2, NoFrame
      <4> QED
        BY <3>3, <4>1, <4>3 DEF QuietInv
    <3> QED
      BY <3>1, <3>2, <3>3
  <2>8. CASE Commit
    BY <2>8 DEF Commit, QuietInv
  <2>9. CASE Environment
    BY <1>3, <2>1, <2>9 DEF Environment, Timeout, OtherWrite, objVars, callVars, reqVars, QuietInv, NothingGiven
  <2>10. ASSUME NEW d \in Dbs, NEW k \in Keys, LoadFromSource(d, k) \/ SourceLoaded(d, k)
         PROVE  QuietInv'
    <3>1. /\ UNCHANGED <<open, parked, waits, applied, request>> /\ Idle
          /\ DoneReadTxn(d) \/ UNCHANGED <<native, stack>>
      BY <2>10 DEF LoadFromSource, SourceLoaded, objVars, callVars
    <3>2. NothingGiven' /\ stack' = stack
      <4>1. CASE DoneReadTxn(d)
        BY <2>1, <3>1, <4>1, QuietDone
      <4>2. CASE UNCHANGED <<native, stack>>
        BY <2>1, <3>1, <4>2 DEF NothingGiven
      <4> QED
        BY <3>1, <4>1, <4>2
    <3> QED
      BY <1>3, <2>1, <3>1, <3>2 DEF QuietInv
  <2>11. ASSUME NEW s \in Scans, ScanDone(s) PROVE QuietInv'
    <3>1. UNCHANGED <<open, parked, waits, applied, request>> /\ Idle /\ DoneReadTxn(scan[s].db)
      BY <2>11 DEF ScanDone
    <3>2. scan[s].db \in Dbs
      BY DEF TypeOK
    <3>3. NothingGiven' /\ stack' = stack
      BY <2>1, <3>1, <3>2, QuietDone
    <3> QED
      BY <1>3, <2>1, <3>1, <3>3 DEF QuietInv
  <2>12. ~CommitMidway
    BY DEF CommitMidway
  <2>13. CASE RequestStep
    <3>1. CASE \E d \in Dbs, k \in Keys, kind \in Kinds : Write(d, k, kind) \/ WriteLoaded(d, k, kind)
      BY <2>5, <3>1
    <3>2. CASE \E d \in Dbs, k \in Keys : Event(d, k)
      <4>1. \E kind : kind \in Kinds
        BY <3>2 DEF Event, NewWrite
      <4> QED
        BY <2>5, <3>2, <4>1
    <3>3. ASSUME NEW d \in Dbs, NEW k \in Keys, LoadStart(d, k) PROVE QuietInv'
      <4>1. /\ TxnForContext(d) /\ UNCHANGED <<stack, parked, waits, applied, request>>
            /\ GetReadTxn(d, 0)
        BY <3>3 DEF LoadStart, callVars
      <4>2. NothingGiven' /\ \A e \in Dbs : open'[e] = "OPEN"
        BY <2>1, <4>1, QuietRead
      <4> QED
        BY <1>3, <2>1, <4>1, <4>2 DEF QuietInv
    <3>4. ASSUME NEW s \in Scans, NEW d \in Dbs, ScanStart(s, d) PROVE QuietInv'
      <4>1. /\ TxnForContext(d) /\ UNCHANGED <<stack, parked, waits, applied, request>>
            /\ GetReadTxn(d, 1)
        BY <3>4 DEF ScanStart, callVars
      <4>2. NothingGiven' /\ \A e \in Dbs : open'[e] = "OPEN"
        BY <2>1, <4>1, QuietRead
      <4> QED
        BY <1>3, <2>1, <4>1, <4>2 DEF QuietInv
    <3> QED
      BY <2>7, <2>8, <2>10, <2>11, <2>12, <2>13, <3>1, <3>2, <3>3, <3>4 DEF RequestStep
  <2> QED
    BY <1>3, <2>3, <2>4, <2>9, <2>13 DEF Next
<1>4. CASE request \in {"aborted", "spinning"} /\ Next
  <2>1. NothingGiven /\ \A f \in FramesOf(stack) : f.at = "aborted"
    BY <1>4 DEF QuietInv
  <2>2. ~Idle => Top.at = "aborted" /\ (\A f \in FramesOf(Tail(stack)) : f.at = "aborted")
    BY <2>1, TopType
  <2>3. ~Running
    BY <1>4 DEF Running
  <2>4. CASE CallStep
    <3>1. AbortEnd
      BY <2>2, <2>4 DEF CallStep, CommitWrite, CommitValidated, CommitAgain, CommitLingers,
                        CommitCloses, Save
    <3>2. /\ UNCHANGED <<parked, waits, applied, request, native>> /\ stack' = Tail(stack) /\ ~Idle
          /\ \A d \in Dbs : open'[d] \in {"CLOSED", open[d]}
      BY <3>1 DEF AbortEnd, reqVars, storeVars, TypeOK
    <3> QED
      BY <1>4, <2>1, <2>2, <3>2, SMTT(30) DEF QuietInv, NothingGiven
  <2>5. CASE Completion
    BY <2>1, <2>5 DEF Completion, NothingGiven, NativeCommit
  <2>6. CASE Environment
    BY <1>4, <2>1, <2>6 DEF Environment, Timeout, OtherWrite, objVars, callVars, reqVars, QuietInv, NothingGiven
  <2>7. ASSUME NEW d \in Dbs, NEW k \in Keys, LoadFromSource(d, k) \/ SourceLoaded(d, k)
         PROVE  QuietInv'
    <3>1. /\ UNCHANGED <<open, parked, waits, applied, request>> /\ Idle
          /\ DoneReadTxn(d) \/ UNCHANGED <<native, stack>>
      BY <2>7 DEF LoadFromSource, SourceLoaded, objVars, callVars
    <3>2. NothingGiven' /\ stack' = stack
      <4>1. CASE DoneReadTxn(d)
        BY <2>1, <3>1, <4>1, QuietDone
      <4>2. CASE UNCHANGED <<native, stack>>
        BY <2>1, <3>1, <4>2 DEF NothingGiven
      <4> QED
        BY <3>1, <4>1, <4>2
    <3> QED
      BY <1>4, <2>1, <3>1, <3>2 DEF QuietInv
  <2>8. ASSUME NEW s \in Scans, ScanDone(s) PROVE QuietInv'
    <3>1. UNCHANGED <<open, parked, waits, applied, request>> /\ Idle /\ DoneReadTxn(scan[s].db)
      BY <2>8 DEF ScanDone
    <3>2. scan[s].db \in Dbs
      BY DEF TypeOK
    <3>3. NothingGiven' /\ stack' = stack
      BY <2>1, <3>1, <3>2, QuietDone
    <3> QED
      BY <1>4, <2>1, <3>1, <3>3 DEF QuietInv
  <2>9. CASE RequestStep
    BY <2>3, <2>7, <2>8, <2>9, NotRunning
  <2> QED
    BY <1>4, <2>4, <2>5, <2>6, <2>9 DEF Next
<1>5. CASE request \notin {"running", "aborted", "spinning"} /\ Next
  <2>1. request' \notin {"running", "aborted", "spinning", "midway", "resumed"}
    <3>1. ~Running
      BY <1>1, <1>5, SMTT(30) DEF Running
    <3>2. CASE CallStep
      BY <1>1, <1>5, <3>2 DEF CallStep, Save, CommitWrite, CommitValidated, CommitAgain, CommitLingers,
                              CommitCloses, AbortEnd, AfterCommit, reqVars
    <3>3. CASE Completion
      BY <1>1, <1>5, <3>3 DEF Completion, NativeCommit, CommitSucceeded, CommitRetries, HooksDone,
                              HookFailed, AfterCommit, reqVars
    <3>4. CASE RequestStep
      BY <1>1, <1>5, <3>1, <3>4, NotRunning DEF LoadFromSource, SourceLoaded, ScanDone
    <3>5. CASE Environment
      BY <1>1, <1>5, <3>5 DEF Environment, Timeout, OtherWrite, reqVars
    <3> QED
      BY <1>5, <3>2, <3>3, <3>4, <3>5 DEF Next
  <2> QED
    BY <2>1 DEF QuietInv
<1> QED
  BY <1>2, <1>3, <1>4, <1>5

\* When the function given to transaction() throws, none of the request's
\* writes is ever stored: not by the iterators and loads that end later, not
\* in the other databases of the chain.  A request that committed before, or
\* whose transaction the monitor committed, has stored some.
THEOREM AbortStoresNothing ==
  ASSUME ~ClosedUse, ~Timeouts
  PROVE  Spec => []AbortedNeverCommits
<1>1. Init => TypeOK /\ HandleInv /\ QuietInv
  BY TypeInit, HandleInit, QuietInit
<1>2. TypeOK /\ HandleInv /\ QuietInv /\ [Next]_vars => (TypeOK /\ HandleInv /\ QuietInv)'
  BY TypeStep, HandleStep, QuietStep
<1>3. QuietInv => AbortedNeverCommits
  BY DEF QuietInv, NothingGiven, AbortedNeverCommits
<1> QED
  BY <1>1, <1>2, <1>3, PTL DEF Spec
=============================================================================
