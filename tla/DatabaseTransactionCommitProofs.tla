------------------ MODULE DatabaseTransactionCommitProofs ------------------
(***************************************************************************)
(* What a request stores, it stores once, with one entry in the log for    *)
(* each write, after the hooks of the write.  For requests as in           *)
(* DatabaseTransactionUpdateProofs, and either one database or no          *)
(* iterators: an iterator that ends while the commit of the request waits  *)
(* in a later database of the chain begins a second commit there.          *)
(***************************************************************************)
EXTENDS DatabaseTransactionUpdateProofs

OneCommit == ~ClosedUse /\ ~Timeouts /\ ~LoadsSource /\ (NDbs = 1 \/ Scans = {})

(***************************************************************************)
(* A commit is under way in at most one place: in a frame on the stack,    *)
(* waiting for the hooks of its writes, or waiting for the store.          *)
(***************************************************************************)
Turns == {f \in Live : f.at # "save"}
Over(n) == native[n].state \in {"committed", "aborted"}

Shape ==
    \/ stack = <<>>
    \/ \E f \in CommitFrames : stack = <<f>>
    \/ \E s \in SaveFrames : stack = <<s>> /\ request = "running"
    \/ \E s \in SaveFrames, f \in CommitFrames :
          stack = <<s>> \o <<f>> /\ f.at = "loop" /\ f.db = s.db /\ f.txn = s.txn

OneTurn ==
    /\ stack # <<>> => parked = {} /\ waits = {}
    /\ parked # {} => waits = {}
    /\ \A f, g \in parked : f = g
    /\ \A b, c \in waits : b = c
    /\ Shape

\* The commit the request awaits goes from one database to the next; another
\* one is that of lingering writes.  Both have a native transaction of their
\* database, or one that is over.
Place(x) ==
    /\ x.main => request = "committing" /\ \A d \in Dbs : d > x.db => open[d] = "OPEN"
    /\ ~x.main => request = "resolved" /\ Scans # {} /\ open[x.db] # "OPEN"
    /\ x.txn # None => Over(x.txn) \/ native[x.txn].db = x.db

FramePlace(f) ==
    /\ (f.at = "loop" /\ open[f.db] # "OPEN") => f.txn # None
    /\ f.txn # None => native[f.txn].state = "open" \/ Over(f.txn)
    /\ f.at = "close" => Len(writes[f.db]) <= validated[f.db]

WaitPlace(c) == open[c.db] = "CLOSED" /\ native[c.txn].state # "open"

\* A before hook that is not awaited yet is known to the commit of its
\* database, which is open as long as there is one.
HookInv ==
    /\ completions \subseteq hooks
    /\ \A h \in hooks : open[h[1]] = "OPEN"
    /\ \A h \in hooks : \/ h \in completions \/ request = "rejected"
                         \/ \E f \in parked : h \in f.awaits
    /\ (~Idle /\ Top.at = "close") => \A h \in hooks : h[1] # Top.db
    /\ \A f \in parked : /\ \A h \in completions : h[1] # f.db
                         /\ \A h \in f.awaits : h[1] = f.db

TurnInv ==
    /\ OneTurn
    /\ \A f \in Turns : Place(f) /\ FramePlace(f)
    /\ \A c \in waits : Place(c) /\ WaitPlace(c)
    /\ \A f \in parked : f.at = "close" /\ f.main /\ open[f.db] = "OPEN"
    /\ (parked # {} \/ waits # {}) => \A d \in Dbs : open[d] # "LINGERING"

\* Writes linger only after the commit of the request resolved.
LingerInv == \A d \in Dbs : open[d] = "LINGERING" => request = "resolved"

\* Without iterators an object has one use, and its writes do not linger.
UsedInv ==
    Scans = {} => \A d \in Dbs : (used[d] = NaN \/ used[d] <= 1) /\ open[d] # "LINGERING"

(***************************************************************************)
(* The places of a commit after a step.                                    *)
(***************************************************************************)
LEMMA NoTurn ==
  ASSUME stack' = <<>>, parked' = {}
  PROVE  Turns' = {}
<1>1. FramesOf(stack') = {}
  BY DEF FramesOf
<1> QED
  BY <1>1 DEF Turns, Live

LEMMA NothingUnderWay ==
  ASSUME stack' = <<>>, parked' = {}, waits' = {}
  PROVE  TurnInv'
<1>1. Turns' = {}
  BY NoTurn
<1> QED
  BY <1>1 DEF TurnInv, OneTurn, Shape

LEMMA OneFrame ==
  ASSUME NEW f \in CommitFrames, stack' = <<f>>, parked' = {}
  PROVE  Turns' = {f} /\ Top' = f /\ ~Idle'
<1>1. f \in Frames /\ f.at # "save"
  BY DEF Frames, CommitFrames
<1>2. FramesOf(stack') = {f} /\ stack' # <<>> /\ Head(stack') = f
  BY <1>1, NoFrame
<1> QED
  BY <1>1, <1>2 DEF Turns, Live, Top, Idle

LEMMA FrameUnderWay ==
  ASSUME NEW f \in CommitFrames, stack' = <<f>>, parked' = {}, waits' = {},
         Place(f)', FramePlace(f)'
  PROVE  TurnInv'
<1>1. Turns' = {f}
  BY OneFrame
<1>2. Shape'
  BY DEF Shape
<1> QED
  BY <1>1, <1>2 DEF TurnInv, OneTurn

LEMMA SaveAbove ==
  ASSUME NEW s \in SaveFrames, NEW f \in CommitFrames, stack' = <<s>> \o <<f>>, parked' = {}
  PROVE  Turns' = {f} /\ Top' = s /\ ~Idle'
<1>1. f \in Frames /\ f.at # "save" /\ s \in Frames /\ s.at = "save"
  BY DEF Frames, CommitFrames, SaveFrames
<1>2. <<f>> \in Seq(Frames) /\ FramesOf(<<f>>) = {f}
  BY <1>1, NoFrame
<1>3. FramesOf(stack') = {s} \cup {f} /\ stack' # <<>> /\ Head(stack') = s
  BY <1>1, <1>2, PushFrame
<1> QED
  BY <1>1, <1>3 DEF Turns, Live, Top, Idle

LEMMA SaveUnderWay ==
  ASSUME NEW s \in SaveFrames, NEW f \in CommitFrames, stack' = <<s>> \o <<f>>,
         parked' = {}, waits' = {}, f.at = "loop", f.db = s.db, f.txn = s.txn,
         Place(f)', FramePlace(f)'
  PROVE  TurnInv'
<1>1. Turns' = {f}
  BY SaveAbove
<1>2. Shape'
  BY DEF Shape
<1> QED
  BY <1>1, <1>2 DEF TurnInv, OneTurn

LEMMA WaitUnderWay ==
  ASSUME NEW c, stack' = <<>>, parked' = {}, waits' = {c}, Place(c)', WaitPlace(c)',
         \A d \in Dbs : open'[d] # "LINGERING"
  PROVE  TurnInv'
<1>1. Turns' = {}
  BY NoTurn
<1> QED
  BY <1>1 DEF TurnInv, OneTurn, Shape

LEMMA HooksUnderWay ==
  ASSUME NEW f \in CommitFrames, stack' = <<>>, parked' = {f}, waits' = {},
         Place(f)', FramePlace(f)', f.at = "close", f.main, open'[f.db] = "OPEN",
         \A d \in Dbs : open'[d] # "LINGERING"
  PROVE  TurnInv'
<1>1. FramesOf(stack') = {}
  BY DEF FramesOf
<1>2. Turns' = {f}
  BY <1>1 DEF Turns, Live
<1> QED
  BY <1>2 DEF TurnInv, OneTurn, Shape

\* While the request runs, only its own saves are on the stack.
LEMMA RunningTurn ==
  ASSUME TypeOK', QuietInv', request' = "running", Len(stack') <= 1
  PROVE  TurnInv'
<1>1. parked' = {} /\ waits' = {} /\ \A f \in FramesOf(stack') : f.at = "save"
  BY DEF QuietInv, NothingGiven
<1>2. CASE stack' = <<>>
  BY <1>1, <1>2, NothingUnderWay
<1>3. CASE stack' # <<>>
  <2>1. PICK r \in Seq(Frames) : r = stack'
    BY DEF TypeOK
  <2>2. PICK s \in Frames : stack' = <<s>>
    <3>1. Len(r) = 1
      <4>1. Len(r) <= 1
        BY <2>1
      <4>2. Len(r) \in Nat \ {0}
        BY <1>3, <2>1, EmptySeq
      <4>3. \A n \in Nat \ {0} : n <= 1 => n = 1
        OBVIOUS
      <4> QED
        BY <4>1, <4>2, <4>3, Zenon
    <3>2. r[1] \in Frames /\ r = <<r[1]>>
      BY <3>1
    <3> QED
      BY <2>1, <3>2
  <2>3. FramesOf(stack') = {s} /\ s.at = "save"
    BY <1>1, <2>2, NoFrame
  <2>4. s \in SaveFrames
    BY <2>2, <2>3 DEF Frames, CommitFrames, AbortFrames
  <2>5. Turns' = {}
    BY <1>1, <2>3 DEF Turns, Live
  <2>6. Shape'
    BY <2>2, <2>4 DEF Shape
  <2> QED
    BY <1>1, <2>5, <2>6 DEF TurnInv, OneTurn
<1> QED
  BY <1>2, <1>3

(***************************************************************************)
(* The places of a commit before a step.                                   *)
(***************************************************************************)
\* What is under way is a commit on top, with nothing else.
LEMMA TopAlone ==
  ASSUME TypeOK, TurnInv, ~Idle, Top.at \in {"loop", "close"}
  PROVE  /\ stack = <<Top>> /\ Tail(stack) = <<>> /\ Top \in CommitFrames /\ Top.db \in Dbs
         /\ Top.opt \in Nat /\ Top.txn \in Nat /\ Top.main \in BOOLEAN
         /\ Turns = {Top} /\ parked = {} /\ waits = {} /\ Place(Top) /\ FramePlace(Top)
<1>1. Top \in CommitFrames /\ Top.db \in Dbs /\ FramesOf(stack) = {Top} \cup FramesOf(Tail(stack))
  BY TopType
<1>2. Top.opt \in Nat /\ Top.txn \in Nat /\ Top.main \in BOOLEAN
  BY <1>1 DEF CommitFrames
<1>3. parked = {} /\ waits = {} /\ Shape
  BY DEF TurnInv, OneTurn, Idle
<1>4. stack = <<Top>> /\ Tail(stack) = <<>>
  <2>1. ASSUME NEW s \in SaveFrames, NEW r \in Seq(Frames), stack = <<s>> \o r
        PROVE  FALSE
    <3>1. Top = s
      BY <2>1, PushFrame DEF Top, Frames
    <3> QED
      BY <3>1 DEF SaveFrames
  <2>2. \A s \in SaveFrames : stack # <<s>>
    <3>1. ASSUME NEW s \in SaveFrames, stack = <<s>> PROVE FALSE
      <4>1. Top = s
        BY <3>1 DEF Top
      <4> QED
        BY <4>1 DEF SaveFrames
    <3> QED
      BY <3>1
  <2>3. \A f \in CommitFrames : <<f>> \in Seq(Frames)
    BY DEF Frames
  <2>4. \E f \in CommitFrames : stack = <<f>>
    BY <1>3, <2>1, <2>2, <2>3 DEF Shape, Idle
  <2> QED
    BY <2>4 DEF Top
<1>5. Turns = {Top}
  <2>1. FramesOf(Tail(stack)) = {}
    BY <1>4 DEF FramesOf
  <2> QED
    BY <1>1, <1>3, <2>1 DEF Turns, Live
<1> QED
  BY <1>1, <1>2, <1>3, <1>4, <1>5 DEF TurnInv

\* A save is the request's own, or has a commit below.
LEMMA SaveAlone ==
  ASSUME TypeOK, QuietInv, TurnInv, ~Idle, Top.at = "save"
  PROVE  /\ parked = {} /\ waits = {}
         /\ \/ request = "running" /\ Tail(stack) = <<>> /\ Turns = {}
            \/ \E f \in CommitFrames :
                  /\ stack = <<Top>> \o <<f>> /\ Tail(stack) = <<f>> /\ stack[2] = f
                  /\ f.at = "loop" /\ f.db = Top.db /\ f.txn = Top.txn
                  /\ f.db \in Dbs /\ f.opt \in Nat /\ f.txn \in Nat /\ f.main \in BOOLEAN
                  /\ Turns = {f} /\ Place(f) /\ FramePlace(f)
<1>1. parked = {} /\ waits = {} /\ Shape
  BY DEF TurnInv, OneTurn, Idle
<1>2. ~\E f \in CommitFrames : stack = <<f>>
  BY DEF CommitFrames, Top
<1>3. CASE \E s \in SaveFrames : stack = <<s>> /\ request = "running"
  <2>1. Tail(stack) = <<>> /\ \A f \in FramesOf(stack) : f.at = "save"
    BY <1>3 DEF QuietInv
  <2> QED
    BY <1>1, <1>3, <2>1 DEF Turns, Live
<1>4. ASSUME NEW s \in SaveFrames, NEW f \in CommitFrames,
             stack = <<s>> \o <<f>>, f.at = "loop", f.db = s.db, f.txn = s.txn
      PROVE  /\ stack = <<Top>> \o <<f>> /\ Tail(stack) = <<f>> /\ stack[2] = f
             /\ f.at = "loop" /\ f.db = Top.db /\ f.txn = Top.txn
             /\ f.db \in Dbs /\ f.opt \in Nat /\ f.txn \in Nat /\ f.main \in BOOLEAN
             /\ Turns = {f} /\ Place(f) /\ FramePlace(f)
  <2>1. s \in Frames /\ f \in Frames /\ s.at = "save"
    BY DEF Frames, SaveFrames
  <2>2. <<f>> \in Seq(Frames) /\ FramesOf(<<f>>) = {f}
    BY <2>1, NoFrame
  <2>3. FramesOf(stack) = {s} \cup {f} /\ Head(stack) = s /\ Tail(stack) = <<f>>
    <3>1. PICK r \in Seq(Frames) : r = <<f>>
      BY <2>2
    <3>2. FramesOf(<<s>> \o r) = {s} \cup FramesOf(r) /\ Head(<<s>> \o r) = s /\ Tail(<<s>> \o r) = r
      BY <2>1, PushFrame
    <3> QED
      BY <1>4, <2>2, <3>1, <3>2
  <2>4. stack[2] = f
    BY <1>4
  <2>5. Turns = {f}
    BY <1>1, <1>4, <2>1, <2>3 DEF Turns, Live
  <2>6. f.db \in Dbs /\ f.opt \in Nat /\ f.txn \in Nat /\ f.main \in BOOLEAN
    BY DEF CommitFrames
  <2> QED
    BY <1>4, <2>3, <2>4, <2>5, <2>6 DEF Top, TurnInv
<1> QED
  BY <1>1, <1>2, <1>3, <1>4 DEF Shape, Idle

\* A commit under way is one of a database, with a transaction that exists.
LEMMA TurnType2 ==
  ASSUME TypeOK, HandleInv, AliveInv, NEW f \in Turns
  PROVE  /\ f \in CommitFrames /\ f.db \in Dbs /\ f.opt \in Nat /\ f.txn \in Nat /\ f.main \in BOOLEAN
         /\ f.txn # None => f.txn \in DOMAIN native
         /\ f.opt # None => f.txn = f.opt
<1>1. f \in Live /\ f.at # "save"
  BY DEF Turns
<1>2. f \in Frames /\ FrameHolds(f)
  BY <1>1, LiveType DEF HandleInv
<1>3. f \in CommitFrames
  <2>1. CASE f \in parked
    BY <2>1 DEF TypeOK
  <2>2. CASE f \in FramesOf(stack)
    <3>1. ~Idle
      BY <2>2 DEF FramesOf, Idle
    <3>2. f = Top \/ f \in FramesOf(Tail(stack))
      BY <2>2, <3>1, TopType
    <3>3. f.at # "aborted"
      BY <3>1, <3>2 DEF AliveInv, TopSaves
    <3> QED
      BY <1>1, <1>2, <3>3 DEF Frames, SaveFrames, AbortFrames
  <2> QED
    BY <1>1, <2>1, <2>2 DEF Live
<1>4. f.at \in {"loop", "close"} /\ f.db \in Dbs /\ f.opt \in Nat /\ f.txn \in Nat /\ f.main \in BOOLEAN
  BY <1>3 DEF CommitFrames
<1>5. Holds(f.db, f.opt, f.txn) /\ DOMAIN native = 1 .. Len(native) /\ Len(native) \in Nat
  BY <1>2, <1>4 DEF FrameHolds, TypeOK
<1> QED
  BY <1>3, <1>4, <1>5 DEF Holds, None

(***************************************************************************)
(* The steps of a request that has not thrown.                             *)
(***************************************************************************)
\* The request's function goes on.
Proceeds ==
    \/ \E d \in Dbs, k \in Keys, kind \in Kinds : Write(d, k, kind)
    \/ \E d \in Dbs, k \in Keys : Event(d, k)
    \/ \E s \in Scans, d \in Dbs : ScanStart(s, d)

LEMMA CommitSteps ==
  ASSUME ~ClosedUse, ~Timeouts, ~LoadsSource, TypeOK, QuietInv, UpdateInv, Next, Alive'
  PROVE  /\ Alive
         /\ \/ Save \/ CommitWrite \/ CommitValidated \/ CommitAgain \/ CommitLingers \/ CommitCloses
            \/ \E n \in DOMAIN native : NativeCommit(n)
            \/ \E c \in waits : CommitSucceeded(c) \/ CommitRetries(c)
            \/ \E f \in parked : HooksDone(f) \/ HookFailed(f)
            \/ Proceeds \/ Commit
            \/ \E s \in Scans : ScanDone(s)
            \/ \E d \in Dbs, k \in Keys : OtherWrite(d, k)
<1>1. Alive
  BY NoWayBack
<1>2. CASE CallStep
  <2>1. ~AbortEnd
    BY <1>1 DEF AbortEnd, UpdateInv, AliveInv, TopSaves
  <2> QED
    BY <1>1, <1>2, <2>1 DEF CallStep
<1>3. CASE Completion
  BY <1>1, <1>3 DEF Completion
<1>4. CASE RequestStep
  <2>1. \A d \in Dbs, k \in Keys : ~LoadStart(d, k) /\ ~LoadFromSource(d, k) /\ ~SourceLoaded(d, k)
    BY DEF LoadStart, LoadFromSource, SourceLoaded, NoLoads, UpdateInv
  <2>2. \A d \in Dbs, k \in Keys, kind \in Kinds : ~WriteLoaded(d, k, kind)
    BY DEF WriteLoaded, NoLoads, UpdateInv
  <2>3. ~CommitMidway
    BY DEF CommitMidway
  <2>4. ~Abort
    BY DEF Abort, Alive
  <2> QED
    BY <1>1, <1>4, <2>1, <2>2, <2>3, <2>4 DEF RequestStep, Proceeds
<1>5. CASE Environment
  BY <1>1, <1>5 DEF Environment, Timeout
<1> QED
  BY <1>2, <1>3, <1>4, <1>5 DEF Next

\* No step but that of an iterator does more than add a frame of its own.
LEMMA ProceedsEffect ==
  ASSUME TypeOK, QuietInv, Alive, Proceeds
  PROVE  /\ Idle /\ request = "running" /\ request' = "running" /\ Len(stack') <= 1
         /\ \A d \in Dbs : open[d] = "OPEN"
         /\ UNCHANGED <<saved, validated, retries, completions, parked, waits, version, applied, logged, hooks>>
<1>1. ASSUME NEW d \in Dbs, NEW k \in Keys, NEW kind, Write(d, k, kind) \/ Event(d, k)
      PROVE  /\ Running /\ UNCHANGED <<request, parked, waits>> /\ Len(stack') <= 1
             /\ UNCHANGED <<saved, validated, retries, completions, version, applied, logged, hooks>>
  <2>1. /\ Running /\ UNCHANGED <<request, parked, waits>> /\ \E kd : SaveUnlessDeferred(d, k, kd)
        /\ UNCHANGED <<saved, validated, retries, completions, version, applied, logged, hooks>>
    BY <1>1 DEF Write, Event, NewWrite, storeVars
  <2>2. Len(stack') <= 1
    <3>1. CASE stack' = <<>>
      BY <3>1
    <3>2. CASE stack' = <<SaveFrame(d, k, None, FALSE)>>
      BY <3>2
    <3> QED
      BY <2>1, <3>1, <3>2 DEF SaveUnlessDeferred
  <2> QED
    BY <2>1, <2>2
<1>2. ASSUME NEW s \in Scans, NEW d \in Dbs, ScanStart(s, d)
      PROVE  /\ Running /\ UNCHANGED <<request, parked, waits>> /\ Len(stack') <= 1
             /\ UNCHANGED <<saved, validated, retries, completions, version, applied, logged, hooks>>
  BY <1>2 DEF ScanStart, callVars, Running, Idle
<1>3. /\ Running /\ UNCHANGED <<request, parked, waits>> /\ Len(stack') <= 1
      /\ UNCHANGED <<saved, validated, retries, completions, version, applied, logged, hooks>>
  BY <1>1, <1>2 DEF Proceeds
<1> QED
  BY <1>3, RunningFacts

(***************************************************************************)
(* TurnInv is inductive.                                                   *)
(***************************************************************************)
\* Native transactions end, but none starts again.
NativesMove ==
    \A n \in DOMAIN native :
        /\ native'[n].db = native[n].db
        /\ Over(n) => native'[n].state = native[n].state
        /\ native[n].state = "open" => native'[n].state \in {"open", "aborted"}
        /\ native[n].state # "open" => native'[n].state # "open"

LEMMA SameNatives ==
  ASSUME TypeOK, UNCHANGED native
  PROVE  NativesMove
  BY DEF NativesMove

LEMMA AbortMoves ==
  ASSUME TypeOK, NEW n \in Nat, native' = NativeAbort(n)
  PROVE  NativesMove
<1>1. DOMAIN native = 1 .. Len(native)
  BY DEF TypeOK
<1> QED
  BY <1>1, AbortChange DEF NativesMove, Over

LEMMA PlaceKept ==
  ASSUME NativesMove, UNCHANGED <<request, open>>, NEW x, Place(x), x.txn # None => x.txn \in DOMAIN native
  PROVE  Place(x)'
  BY DEF Place, NativesMove, Over

LEMMA FramePlaceKept ==
  ASSUME NativesMove, UNCHANGED <<open, writes, validated>>, NEW f, FramePlace(f),
         f.txn # None => f.txn \in DOMAIN native
  PROVE  FramePlace(f)'
  BY DEF FramePlace, NativesMove, Over

LEMMA TurnKept ==
  ASSUME TypeOK, HandleInv, AliveInv, TurnInv, NativesMove,
         UNCHANGED <<stack, parked, waits, open, request, writes, validated>>
  PROVE  TurnInv'
<1>1. OneTurn'
  BY DEF TurnInv, OneTurn, Shape
<1>2. Turns' = Turns
  BY DEF Turns, Live
<1>3. ASSUME NEW f \in Turns PROVE Place(f)' /\ FramePlace(f)'
  BY TurnType2, PlaceKept, FramePlaceKept DEF TurnInv
<1>4. ASSUME NEW c \in waits PROVE Place(c)' /\ WaitPlace(c)'
  <2>1. c.txn \in DOMAIN native /\ Place(c) /\ WaitPlace(c)
    BY DEF TypeOK, TurnInv
  <2> QED
    BY <2>1, PlaceKept DEF WaitPlace, NativesMove
<1> QED
  BY <1>1, <1>2, <1>3, <1>4 DEF TurnInv

\* The next database of the chain.
LEMMA NextTurn ==
  ASSUME OneCommit, TypeOK, TypeOK', HandleInv,
         NEW d \in Dbs, NEW opt \in Nat, NEW main \in BOOLEAN,
         AfterCommit(d, opt, main, <<>>), parked' = {}, waits' = {},
         main => request = "committing" /\ \A e \in Dbs : e > d => open'[e] = "OPEN",
         ~main => Scans # {},
         opt # None => Over(opt)', NativesMove
  PROVE  TurnInv'
<1>1. CASE stack' = <<>>
  BY <1>1, NothingUnderWay
<1>2. CASE d < NDbs /\ stack' = <<CommitFrame(d + 1, opt, main)>> \o <<>> /\ UNCHANGED request
  <2>1. d + 1 \in Dbs /\ NDbs # 1
    BY <1>2, ChainAssumption DEF Dbs
  <2>2. Scans = {} /\ main
    BY <2>1 DEF OneCommit
  <2>3. PICK f \in CommitFrames : f = CommitFrame(d + 1, opt, main)
    BY <2>1, FrameTypes
  <2>4. f.at = "loop" /\ f.db = d + 1 /\ f.main /\ f.txn = IF opt # None THEN opt ELSE transaction[d + 1]
    BY <2>2, <2>3 DEF CommitFrame
  <2>5. stack' = <<f>>
    BY <1>2, <2>3
  <2>6. transaction[d + 1] # None =>
           /\ native'[transaction[d + 1]].db = d + 1
           /\ native'[transaction[d + 1]].state = "open" \/ Over(f.txn)' \/ opt # None
    <3>1. OwnHandle(d + 1) /\ transaction[d + 1] \in 0 .. Len(native) /\ DOMAIN native = 1 .. Len(native)
          /\ Len(native) \in Nat
      BY <2>1 DEF HandleInv, TypeOK, Handles
    <3> QED
      BY <2>4, <3>1 DEF OwnHandle, NativesMove, Over, None
  <2>7. Place(f)'
    <3>1. \A e \in Dbs : e > d + 1 => open'[e] = "OPEN"
      BY <2>1, <2>2 DEF Dbs
    <3>2. request' = "committing"
      BY <1>2, <2>2
    <3>3. f.txn # None => Over(f.txn)' \/ native'[f.txn].db = f.db
      BY <2>4, <2>6
    <3> QED
      BY <2>4, <3>1, <3>2, <3>3 DEF Place, Over
  <2>8. FramePlace(f)'
    <3>1. open'[d + 1] = "OPEN"
      BY <2>1, <2>2 DEF Dbs
    <3>2. f.txn # None => native'[f.txn].state = "open" \/ Over(f.txn)'
      BY <2>4, <2>6
    <3> QED
      BY <2>4, <3>1, <3>2 DEF FramePlace, Over
  <2> QED
    BY <2>5, <2>7, <2>8, FrameUnderWay
<1> QED
  BY <1>1, <1>2 DEF AfterCommit

LEMMA CommitTurn ==
  ASSUME TypeOK, HandleInv, QuietInv, Alive, Commit
  PROVE  TurnInv'
<1>1. /\ Idle /\ stack' = <<CommitFrame(1, None, TRUE)>> /\ request' = "committing"
      /\ UNCHANGED <<open, transaction, parked, waits, native>>
  BY DEF Commit, Running, objVars, storeVars
<1>2. NothingGiven /\ \A d \in Dbs : open[d] = "OPEN"
  BY RunningFacts DEF Commit
<1>3. PICK f \in CommitFrames : f = CommitFrame(1, None, TRUE)
  BY DbsType, FrameTypes DEF None
<1>4. f.at = "loop" /\ f.db = 1 /\ f.main /\ f.txn = transaction[1]
  BY <1>3 DEF CommitFrame
<1>5. f.txn # None => native'[f.txn].db = 1 /\ native'[f.txn].state = "open"
  BY <1>1, <1>4, DbsType DEF HandleInv, OwnHandle
<1>6. parked' = {} /\ waits' = {}
  BY <1>1, <1>2 DEF NothingGiven
<1>7. Place(f)' /\ FramePlace(f)'
  BY <1>1, <1>2, <1>4, <1>5, DbsType DEF Place, FramePlace
<1> QED
  BY <1>1, <1>3, <1>6, <1>7, FrameUnderWay

LEMMA ScanDoneTurn ==
  ASSUME TypeOK, TypeOK', HandleInv, QuietInv', AliveInv, LingerInv, TurnInv,
         NEW s \in Scans, ScanDone(s)
  PROVE  TurnInv'
<1>1. /\ Idle /\ DoneReadTxn(scan[s].db)
      /\ UNCHANGED <<open, writes, validated, parked, waits, request>>
  BY DEF ScanDone
<1>2. PICK d \in Dbs : d = scan[s].db
  BY DEF TypeOK
<1>3. transaction[d] \in Nat /\ transaction[d] \in 0 .. Len(native)
  BY DEF TypeOK, Handles
<1>4. CASE UNCHANGED <<native, stack>>
  BY <1>1, <1>4, SameNatives, TurnKept
<1>5. CASE native' = NativeAbort(transaction[d]) /\ stack' = <<>>
  BY <1>1, <1>3, <1>5, AbortMoves, TurnKept DEF Idle
<1>6. CASE /\ open[d] = "LINGERING" /\ stack' = <<CommitFrame(d, None, FALSE)>> \o <<>>
           /\ UNCHANGED native /\ transaction[d] # None
  <2>1. PICK f \in CommitFrames : f = CommitFrame(d, None, FALSE)
    BY FrameTypes DEF None
  <2>2. f.at = "loop" /\ f.db = d /\ ~f.main /\ f.txn = transaction[d]
    BY <2>1 DEF CommitFrame
  <2>3. native'[f.txn].db = d /\ native'[f.txn].state = "open"
    BY <1>6, <2>2 DEF HandleInv, OwnHandle
  <2>4. parked' = {} /\ waits' = {} /\ stack' = <<f>> /\ open'[d] = "LINGERING"
    BY <1>1, <1>6, <2>1 DEF TurnInv
  <2>5. Place(f)' /\ FramePlace(f)'
    BY <1>1, <1>6, <2>2, <2>3, <2>4 DEF Place, FramePlace, LingerInv
  <2> QED
    BY <2>4, <2>5, FrameUnderWay
<1> QED
  BY <1>1, <1>2, <1>4, <1>5, <1>6 DEF DoneReadTxn, LastUse

\* The one native transaction save writes to, or starts.
LEMMA SaveResult ==
  ASSUME TypeOK, TypeOK', HandleInv, Save
  PROVE  /\ SaveHandle \in DOMAIN native' /\ DOMAIN native \subseteq DOMAIN native'
         /\ \A n \in DOMAIN native' : n # SaveHandle => n \in DOMAIN native /\ native'[n] = native[n]
         /\ SaveTxn # None => /\ SaveHandle = SaveTxn /\ SaveHandle \in DOMAIN native
                              /\ SaveNatives[SaveHandle] = native[SaveHandle]
         /\ SaveTxn = None => /\ SaveHandle \notin DOMAIN native
                              /\ SaveNatives[SaveHandle] = FreshNative(Top.db)
         /\ \/ native'[SaveHandle] = SaveNatives[SaveHandle] /\ SaveRejects
            \/ native'[SaveHandle] = SaveNatives[SaveHandle] /\ ~Usable(SaveNatives, SaveHandle, Top.db)
            \/ native'[SaveHandle] = Written /\ Usable(SaveNatives, SaveHandle, Top.db)
<1>1. /\ ~Idle /\ Top.at = "save" /\ Top \in SaveFrames /\ Top.db \in Dbs
      /\ SaveWrites \/ SaveRejects
  BY SaveEffect
<1>2. SaveHandle \in 1 .. Len(SaveNatives) /\ Written \in NativeTxn
  <2>1. FrameHolds(Top)
    BY <1>1, LiveType DEF HandleInv
  <2>2. Top.txn <= Len(native)
    BY <1>1, <2>1 DEF FrameHolds
  <2> QED
    BY <1>1, <2>2, SavedValues
<1>3. /\ SaveNatives \in Seq(NativeTxn) /\ native \in Seq(NativeTxn)
      /\ SaveTxn = None => SaveHandle = Len(native) + 1 /\ Len(SaveNatives) = Len(native) + 1
      /\ SaveTxn # None => SaveHandle = SaveTxn /\ SaveNatives = native
      /\ \A n \in 1 .. Len(native) : SaveNatives[n] = native[n]
      /\ DOMAIN native = 1 .. Len(native) /\ Len(native) \in Nat
  <2>1. native \in Seq(NativeTxn)
    BY DEF TypeOK
  <2>2. DOMAIN native = 1 .. Len(native) /\ Len(native) \in Nat
    BY <2>1
  <2> QED
    BY <1>1, <2>1, <2>2, SaveNativesType
<1>4. SaveTxn = None => SaveNatives[SaveHandle] = FreshNative(Top.db)
  BY <1>1, <1>3, FreshType, AppendProperties DEF SaveNatives
<1>5. /\ DOMAIN native' = 1 .. Len(SaveNatives)
      /\ \A n \in 1 .. Len(SaveNatives) : n # SaveHandle => native'[n] = SaveNatives[n]
      /\ \/ native'[SaveHandle] = SaveNatives[SaveHandle] /\ SaveRejects
         \/ native'[SaveHandle] = SaveNatives[SaveHandle] /\ ~Usable(SaveNatives, SaveHandle, Top.db)
         \/ native'[SaveHandle] = Written /\ Usable(SaveNatives, SaveHandle, Top.db)
  <2>1. CASE SaveRejects
    BY <1>2, <1>3, <2>1 DEF SaveRejects
  <2>2. CASE SaveWrites /\ ~Usable(SaveNatives, SaveHandle, Top.db)
    BY <1>2, <1>3, <2>2 DEF SaveWrites
  <2>3. CASE SaveWrites /\ Usable(SaveNatives, SaveHandle, Top.db)
    <3>1. native' = [SaveNatives EXCEPT ![SaveHandle] = Written]
      BY <2>3 DEF SaveWrites
    <3> QED
      BY <1>2, <1>3, <2>3, <3>1
  <2> QED
    BY <1>1, <2>1, <2>2, <2>3
<1> QED
  BY <1>2, <1>3, <1>4, <1>5

\* save leaves the states of the native transactions as they are.
LEMMA SaveMoves ==
  ASSUME TypeOK, TypeOK', HandleInv, Save, NEW n \in DOMAIN native
  PROVE  n \in DOMAIN native' /\ native'[n].db = native[n].db /\ native'[n].state = native[n].state
<1>1. /\ ~Idle /\ Top \in SaveFrames /\ Top.at = "save"
  BY SaveEffect
<1>2. /\ Written.db = SaveNatives[SaveHandle].db
      /\ Written.state = SaveNatives[SaveHandle].state
  <2>1. FrameHolds(Top)
    BY <1>1, LiveType DEF HandleInv
  <2>2. Top.txn <= Len(native)
    BY <1>1, <2>1 DEF FrameHolds
  <2> QED
    BY <1>1, <2>2, SavedValues
<1>3. CASE n # SaveHandle
  BY <1>3, SaveResult
<1>4. CASE n = SaveHandle
  <2>1. SaveTxn # None /\ SaveNatives[n] = native[n]
    BY <1>4, SaveResult
  <2> QED
    BY <1>2, <1>4, <2>1, SaveResult
<1> QED
  BY <1>3, <1>4

LEMMA SaveTurn ==
  ASSUME TypeOK, TypeOK', HandleInv, QuietInv, QuietInv', AliveInv, TurnInv, Save
  PROVE  TurnInv'
<1>1. /\ ~Idle /\ Top.at = "save" /\ Tail(stack) \in Seq(Frames)
      /\ SaveWrites \/ SaveRejects
      /\ UNCHANGED <<open, writes, validated, parked, waits>>
  BY SaveEffect
<1>2. parked' = {} /\ waits' = {}
  BY <1>1, SaveAlone
<1>3. CASE SaveRejects
  BY <1>2, <1>3, NothingUnderWay DEF SaveRejects
<1>4. CASE SaveWrites /\ request = "running" /\ Tail(stack) = <<>>
  <2>1. Top.db \in Dbs /\ open[Top.db] = "OPEN"
    BY <1>4, SaveEffect DEF QuietInv
  <2>2. stack' = <<>>
    BY <1>4, <2>1 DEF SaveWrites, SaveNow
  <2> QED
    BY <1>2, <2>2, NothingUnderWay
<1>5. ASSUME SaveWrites, NEW f \in CommitFrames, Tail(stack) = <<f>>, f.at = "loop", f.db = Top.db,
             f.txn = Top.txn, f.db \in Dbs, Place(f), FramePlace(f), f \in Turns
      PROVE  TurnInv'
  <2>1. ~SaveNow
    BY <1>5 DEF SaveNow, SaveTxn, FramePlace
  <2>2. stack' = <<f>> /\ UNCHANGED request
    BY <1>5, <2>1 DEF SaveWrites
  <2>3. f.txn # None => native'[f.txn].db = native[f.txn].db /\ native'[f.txn].state = native[f.txn].state
    BY <1>5, SaveMoves, TurnType2
  <2>4. Place(f)' /\ FramePlace(f)'
    BY <1>1, <1>5, <2>2, <2>3 DEF Place, FramePlace, Over
  <2> QED
    BY <1>2, <2>2, <2>4, FrameUnderWay
<1> QED
  BY <1>1, <1>3, <1>4, <1>5, SaveAlone

LEMMA CommitWriteTurn ==
  ASSUME TypeOK, TypeOK', HandleInv, AliveInv, TurnInv, CommitWrite
  PROVE  TurnInv'
<1>1. /\ ~Idle /\ Top.at = "loop" /\ Top.i <= Len(writes[Top.db])
      /\ stack' = IF retries[Top.db] = 0 /\ TurnKey \in saved[Top.db]
                  THEN <<Turn>> \o Tail(stack)
                  ELSE <<TurnSave>> \o (<<Turn>> \o Tail(stack))
      /\ UNCHANGED <<open, writes, validated, parked, waits, request, native>>
  BY CommitWriteEffect DEF objVars, reqVars, storeVars
<1>2. Tail(stack) = <<>> /\ parked = {} /\ waits = {} /\ Place(Top) /\ FramePlace(Top) /\ Top \in Turns
  BY <1>1, TopAlone
<1>3. PICK turn \in CommitFrames, save \in SaveFrames : turn = Turn /\ save = TurnSave
  BY <1>1, TurnType
<1>4. /\ turn.at = "loop" /\ turn.db = Top.db /\ turn.txn = Top.txn /\ turn.main = Top.main
      /\ save.db = Top.db /\ save.txn = Top.txn
  BY <1>1, <1>3, TurnType
<1>5. stack' = <<turn>> \/ stack' = <<save>> \o <<turn>>
  <2>1. <<turn>> \o <<>> = <<turn>>
    OBVIOUS
  <2> QED
    BY <1>1, <1>2, <1>3, <2>1
<1>6. Place(turn)'
  BY <1>1, <1>2, <1>4 DEF Place, Over
<1>7. FramePlace(turn)'
  BY <1>1, <1>2, <1>4 DEF FramePlace, Over
<1> QED
  BY <1>1, <1>2, <1>4, <1>5, <1>6, <1>7, FrameUnderWay, SaveUnderWay

\* The frame that awaits the hooks, or goes on behind the loop.
LEMMA CloseFrame ==
  ASSUME TypeOK, ~Idle, Top.at = "loop", CommitValidated
  PROVE  \E f \in CommitFrames :
            /\ f.at = "close" /\ f.db = Top.db /\ f.main = Top.main /\ f.txn = Top.txn
            /\ f.opt = Top.opt /\ f.awaits = Outstanding(Top.db)
            /\ \/ /\ Outstanding(Top.db) # {}
                  /\ parked' = parked \cup {f} /\ stack' = Tail(stack)
               \/ /\ Outstanding(Top.db) = {}
                  /\ parked' = parked /\ stack' = <<f>> \o Tail(stack)
<1> DEFINE f == [Top EXCEPT !.at = "close", !.awaits = Outstanding(Top.db)]
<1>1. Outstanding(Top.db) \in SUBSET (Dbs \X Keys) /\ Top \in CommitFrames
  BY TopType DEF Outstanding, TypeOK
<1>2. /\ f \in CommitFrames /\ f.at = "close" /\ f.db = Top.db /\ f.main = Top.main
      /\ f.txn = Top.txn /\ f.opt = Top.opt /\ f.awaits = Outstanding(Top.db)
  BY <1>1 DEF CommitFrames
<1>3. \/ Outstanding(Top.db) # {} /\ parked' = parked \cup {f} /\ stack' = Tail(stack)
      \/ Outstanding(Top.db) = {} /\ parked' = parked /\ stack' = <<f>> \o Tail(stack)
  BY DEF CommitValidated
<1> QED
  BY <1>2, <1>3

LEMMA CommitValidatedTurn ==
  ASSUME OneCommit, TypeOK, TypeOK', HandleInv, AliveInv, UsedInv, HookInv, TurnInv, CommitValidated
  PROVE  TurnInv'
<1>1. /\ ~Idle /\ Top.at = "loop" /\ UNCHANGED <<open, writes, waits, request, native>>
      /\ validated' = [validated EXCEPT ![Top.db] = Len(writes[Top.db])]
  BY DEF CommitValidated, Validated, reqVars, storeVars
<1>2. /\ Tail(stack) = <<>> /\ parked = {} /\ waits = {} /\ Place(Top) /\ FramePlace(Top)
      /\ Top \in Turns /\ Top.db \in Dbs
  BY <1>1, TopAlone
<1>3. PICK f \in CommitFrames :
            /\ f.at = "close" /\ f.db = Top.db /\ f.main = Top.main /\ f.txn = Top.txn
            /\ \/ Outstanding(Top.db) # {} /\ parked' = parked \cup {f} /\ stack' = Tail(stack)
               \/ /\ Outstanding(Top.db) = {}
                  /\ parked' = parked /\ stack' = <<f>> \o Tail(stack)
  BY <1>1, CloseFrame
<1>4. Place(f)'
  BY <1>1, <1>2, <1>3 DEF Place, Over
<1>5. FramePlace(f)'
  <2>1. Len(writes'[f.db]) <= validated'[f.db]
    <3>1. validated'[Top.db] = Len(writes[Top.db]) /\ Len(writes[Top.db]) \in Nat
      BY <1>1, <1>2 DEF TypeOK
    <3> QED
      BY <1>1, <1>3, <3>1
  <2> QED
    BY <1>1, <1>2, <1>3, <2>1 DEF FramePlace, Over
<1>6. CASE parked' = parked /\ stack' = <<f>> \o Tail(stack)
  <2>1. <<f>> \o <<>> = <<f>>
    OBVIOUS
  <2> QED
    BY <1>1, <1>2, <1>4, <1>5, <1>6, <2>1, FrameUnderWay
<1>7. CASE Outstanding(Top.db) # {} /\ parked' = parked \cup {f} /\ stack' = Tail(stack)
  <2>1. open[Top.db] = "OPEN"
    BY <1>7 DEF HookInv, Outstanding
  <2>2. f.main
    BY <1>2, <1>3, <2>1 DEF Place
  <2>3. \A d \in Dbs : open[d] # "LINGERING"
    BY <1>2, <2>1, ChainAssumption DEF OneCommit, UsedInv, Dbs
  <2>4. parked' = {f} /\ stack' = <<>> /\ waits' = {}
    BY <1>1, <1>2, <1>7
  <2> QED
    BY <1>1, <1>3, <1>4, <1>5, <2>1, <2>2, <2>3, <2>4, HooksUnderWay
<1> QED
  BY <1>3, <1>6, <1>7

LEMMA NoCommitAgain ==
  ASSUME TypeOK, TurnInv
  PROVE  ~CommitAgain
<1> SUFFICES ASSUME CommitAgain PROVE FALSE
  OBVIOUS
<1>1. ~Idle /\ Top.at = "close" /\ Len(writes[Top.db]) > validated[Top.db]
  BY DEF CommitAgain
<1>2. Top.db \in Dbs /\ FramePlace(Top)
  BY <1>1, TopAlone
<1>3. validated[Top.db] \in Nat /\ Len(writes[Top.db]) \in Nat
  BY <1>2 DEF TypeOK
<1> QED
  BY <1>1, <1>2, <1>3 DEF FramePlace

\* Without iterators, no use is left after that of the commit.
LEMMA LastReader ==
  ASSUME TypeOK, UsedInv, Scans = {}, NEW d \in Dbs
  PROVE  ~StillRead(d)
<1>1. used[d] \in Int \cup {NaN} /\ (used[d] = NaN \/ used[d] <= 1)
  BY DEF TypeOK, UsedInv
<1> QED
  BY <1>1, NaNAssumption DEF StillRead, Positive, Plus

LEMMA CommitLingersTurn ==
  ASSUME OneCommit, TypeOK, TypeOK', HandleInv, UsedInv, TurnInv, CommitLingers
  PROVE  TurnInv'
<1>1. /\ ~Idle /\ Top.at = "close" /\ StillRead(Top.db)
      /\ AfterCommit(Top.db, Top.opt, Top.main, Tail(stack))
      /\ UNCHANGED <<parked, waits>>
  BY DEF CommitLingers
<1>2. Tail(stack) = <<>> /\ parked = {} /\ waits = {} /\ Top.db \in Dbs
  BY <1>1, TopAlone
<1>3. NDbs = 1
  BY <1>1, <1>2, LastReader DEF OneCommit
<1>4. ~(Top.db < NDbs)
  BY <1>2, <1>3 DEF Dbs
<1>5. stack' = <<>>
  BY <1>1, <1>2, <1>4 DEF AfterCommit
<1> QED
  BY <1>1, <1>2, <1>5, NothingUnderWay

LEMMA CommitClosesTurn ==
  ASSUME OneCommit, TypeOK, TypeOK', HandleInv, AliveInv, UsedInv, TurnInv, CommitCloses
  PROVE  TurnInv'
<1>1. /\ ~Idle /\ Top.at = "close"
      /\ open' = [open EXCEPT ![Top.db] = "CLOSED"]
      /\ parked' = parked
  BY DEF CommitCloses
<1>2. /\ Tail(stack) = <<>> /\ parked = {} /\ waits = {} /\ Place(Top) /\ FramePlace(Top)
      /\ Top \in Turns /\ Top.db \in Dbs
      /\ Top.opt \in Nat /\ Top.txn \in Nat /\ Top.main \in BOOLEAN
  BY <1>1, TopAlone
<1>3. /\ Top.txn # None => Top.txn \in DOMAIN native
      /\ Top.opt # None => Top.txn = Top.opt
  BY <1>2, TurnType2
<1>4. /\ open'[Top.db] = "CLOSED" /\ \A d \in Dbs : d # Top.db => open'[d] = open[d]
  BY <1>1, <1>2 DEF TypeOK
<1>5. native \in Seq(NativeTxn) /\ DOMAIN native = 1 .. Len(native)
  BY DEF TypeOK
<1>6. ASSUME Top.txn # None,
             native' = [native EXCEPT ![Top.txn].state = IF @ = "open" THEN "committing" ELSE @],
             waits' = waits \cup {[db |-> Top.db, opt |-> Top.opt, txn |-> Top.txn, main |-> Top.main]},
             stack' = Tail(stack), UNCHANGED request
      PROVE  TurnInv'
  <2>1. PICK c : c = [db |-> Top.db, opt |-> Top.opt, txn |-> Top.txn, main |-> Top.main]
    OBVIOUS
  <2>2. c.db = Top.db /\ c.txn = Top.txn /\ c.main = Top.main
    BY <2>1
  <2>3. waits' = {c} /\ stack' = <<>> /\ parked' = {}
    BY <1>1, <1>2, <1>6, <2>1
  <2>4. /\ native'[c.txn].db = native[c.txn].db /\ native'[c.txn].state # "open"
        /\ Over(c.txn) => native'[c.txn].state = native[c.txn].state
    <3>1. native[c.txn] \in NativeTxn
      BY <1>3, <1>5, <1>6, <2>2
    <3>2. native'[c.txn] = [native[c.txn] EXCEPT !.state = IF @ = "open" THEN "committing" ELSE @]
      BY <1>3, <1>5, <1>6, <2>2
    <3> QED
      BY <3>1, <3>2 DEF NativeTxn, Over
  <2>5. \A d \in Dbs : open'[d] # "LINGERING"
    BY <1>2, <1>4, ChainAssumption DEF OneCommit, UsedInv, Dbs
  <2>6. Place(c)'
    <3>1. c.main => request' = "committing" /\ \A d \in Dbs : d > c.db => open'[d] = "OPEN"
      BY <1>2, <1>4, <1>6, <2>2 DEF Place, Dbs
    <3>2. ~c.main => request' = "resolved" /\ Scans # {} /\ open'[c.db] # "OPEN"
      BY <1>2, <1>4, <1>6, <2>2 DEF Place
    <3>3. Over(c.txn)' \/ native'[c.txn].db = c.db
      BY <1>2, <1>6, <2>2, <2>4 DEF Place, Over
    <3> QED
      BY <3>1, <3>2, <3>3 DEF Place, Over
  <2>7. WaitPlace(c)'
    BY <1>4, <2>2, <2>4 DEF WaitPlace
  <2> QED
    BY <2>3, <2>5, <2>6, <2>7, WaitUnderWay
<1>7. ASSUME native' = IF Top.txn = None THEN native ELSE NativeAbort(Top.txn),
             AfterCommit(Top.db, Top.opt, Top.main, Tail(stack)), UNCHANGED waits
      PROVE  TurnInv'
  <2>1. NativesMove
    BY <1>2, <1>7, SameNatives, AbortMoves
  <2>2. PICK d \in Dbs, opt \in Nat, n \in Nat, main \in BOOLEAN :
               d = Top.db /\ opt = Top.opt /\ n = Top.txn /\ main = Top.main
    BY <1>2
  <2>3. n # None => native'[n].state \in {"committed", "aborted"}
    <3>1. ASSUME n # None PROVE native'[n].state \in {"committed", "aborted"}
      <4>1. native[n].state \in {"open", "committed", "aborted"}
        BY <1>2, <2>2, <3>1 DEF FramePlace, Over
      <4>2. native' = NativeAbort(n) /\ n \in 1 .. Len(native)
        BY <1>3, <1>5, <1>7, <2>2, <3>1
      <4> QED
        BY <4>1, <4>2, AbortChange
    <3> QED
      BY <3>1
  <2>4. opt # None => Over(opt)'
    BY <1>3, <2>2, <2>3 DEF Over
  <2>5. main => request = "committing" /\ \A e \in Dbs : e > d => open'[e] = "OPEN"
    BY <1>2, <1>4, <2>2 DEF Place, Dbs
  <2>6. ~main => Scans # {}
    BY <1>2, <2>2 DEF Place
  <2>7. parked' = {} /\ waits' = {} /\ AfterCommit(d, opt, main, <<>>)
    BY <1>1, <1>2, <1>7, <2>2
  <2> QED
    BY <2>1, <2>4, <2>5, <2>6, <2>7, NextTurn
<1> QED
  BY <1>6, <1>7 DEF CommitCloses

LEMMA HooksTurn ==
  ASSUME TypeOK, TypeOK', HandleInv, AliveInv, TurnInv, NEW f \in parked, HooksDone(f) \/ HookFailed(f)
  PROVE  TurnInv'
<1>1. /\ Idle /\ parked' = parked \ {f}
      /\ UNCHANGED <<open, writes, validated, waits, native>>
      /\ \/ stack' = <<f>> /\ UNCHANGED request
         \/ stack' = stack
  <2>1. CASE HooksDone(f)
    BY <2>1 DEF HooksDone, objVars, reqVars
  <2>2. CASE HookFailed(f)
    BY <2>2 DEF HookFailed, objVars, storeVars
  <2> QED
    BY <2>1, <2>2
<1>2. f \in Turns /\ f \in CommitFrames
  BY DEF TypeOK, TurnInv, Turns, Live
<1>3. waits' = {} /\ parked' = {}
  BY <1>1 DEF TurnInv, OneTurn
<1>4. CASE stack' = stack
  BY <1>1, <1>3, <1>4, NothingUnderWay DEF Idle
<1>5. CASE stack' = <<f>> /\ UNCHANGED request
  <2>1. Place(f) /\ FramePlace(f)
    BY <1>2 DEF TurnInv
  <2>2. Place(f)' /\ FramePlace(f)'
    BY <1>1, <1>5, <2>1 DEF Place, FramePlace, Over
  <2> QED
    BY <1>2, <1>3, <1>5, <2>2, FrameUnderWay
<1> QED
  BY <1>1, <1>4, <1>5

LEMMA CommitSucceededTurn ==
  ASSUME OneCommit, TypeOK, TypeOK', HandleInv, TurnInv, NEW c \in waits, CommitSucceeded(c)
  PROVE  TurnInv'
<1>1. /\ Idle /\ waits' = waits \ {c} /\ AfterCommit(c.db, c.opt, c.main, <<>>)
      /\ native[c.txn].state \in {"committed", "aborted"}
      /\ UNCHANGED <<open, parked, native>>
  BY DEF CommitSucceeded, storeVars
<1>2. /\ c.db \in Dbs /\ c.opt \in Nat /\ c.main \in BOOLEAN
      /\ c.opt # None => c.opt = c.txn
  BY DEF TypeOK, Awaiting, HandleInv
<1>3. waits' = {} /\ parked' = {} /\ Place(c)
  BY <1>1 DEF TurnInv, OneTurn
<1>4. /\ c.main => request = "committing" /\ \A e \in Dbs : e > c.db => open'[e] = "OPEN"
      /\ ~c.main => Scans # {}
  BY <1>1, <1>3 DEF Place
<1>5. c.opt # None => Over(c.opt)'
  BY <1>1, <1>2 DEF Over
<1>6. NativesMove
  BY <1>1, SameNatives
<1> QED
  BY <1>1, <1>2, <1>3, <1>4, <1>5, <1>6, NextTurn

LEMMA CommitRetriesTurn ==
  ASSUME TypeOK, TypeOK', HandleInv, TurnInv, NEW c \in waits, CommitRetries(c)
  PROVE  TurnInv'
<1>1. /\ Idle /\ waits' = waits \ {c} /\ stack' = <<CommitFrame(c.db, c.txn, c.main)>>
      /\ native[c.txn].state = "busy"
      /\ UNCHANGED <<open, parked, request>>
  BY DEF CommitRetries, reqVars
<1>2. /\ c.db \in Dbs /\ c.txn \in Nat /\ c.main \in BOOLEAN /\ c.txn \in DOMAIN native
      /\ c.txn # None
  BY DEF TypeOK, Awaiting, None
<1>3. waits' = {} /\ parked' = {} /\ Place(c) /\ WaitPlace(c)
  BY <1>1 DEF TurnInv, OneTurn
<1>4. native'[c.txn].db = native[c.txn].db /\ native'[c.txn].state = "open"
  <2>1. PICK n \in DOMAIN native : n = c.txn
    BY <1>2
  <2>2. native' = [native EXCEPT ![n] = Restarted(n)]
    BY <2>1, RestartedType DEF CommitRetries
  <2>3. Restarted(n) \in NativeTxn /\ Restarted(n).db = native[n].db /\ Restarted(n).state = "open"
    BY <2>1, RestartedType
  <2>4. native'[n] = Restarted(n)
    BY <2>2 DEF TypeOK
  <2> QED
    BY <2>1, <2>3, <2>4
<1>5. PICK f \in CommitFrames : f = CommitFrame(c.db, c.txn, c.main)
  BY <1>2, FrameTypes
<1>6. f.at = "loop" /\ f.db = c.db /\ f.main = c.main /\ f.txn = c.txn
  BY <1>2, <1>5 DEF CommitFrame
<1>7. ~Over(c.txn)
  BY <1>1 DEF Over
<1>8. Place(f)'
  BY <1>1, <1>2, <1>3, <1>4, <1>6, <1>7 DEF Place
<1>9. FramePlace(f)'
  BY <1>2, <1>4, <1>6 DEF FramePlace
<1> QED
  BY <1>1, <1>3, <1>5, <1>8, <1>9, FrameUnderWay

LEMMA StoreTurn ==
  ASSUME TypeOK, TypeOK', HandleInv, AliveInv, TurnInv,
         (\E n \in DOMAIN native : NativeCommit(n)) \/ (\E d \in Dbs, k \in Keys : OtherWrite(d, k))
  PROVE  TurnInv'
<1>1. UNCHANGED <<stack, parked, waits, open, request, writes, validated>>
  BY DEF NativeCommit, OtherWrite, objVars, callVars, reqVars
<1>2. NativesMove
  <2>1. CASE UNCHANGED native
    BY <2>1, SameNatives
  <2>2. ASSUME NEW n \in DOMAIN native, NativeCommit(n) PROVE NativesMove
    <3>1. PICK st \in {"busy", "committed"} :
             native[n].state = "committing" /\ native' = [native EXCEPT ![n].state = st]
      BY <2>2 DEF NativeCommit
    <3>2. DOMAIN native = 1 .. Len(native) /\ n \in Nat
      BY DEF TypeOK
    <3>3. \A m \in 1 .. Len(native) :
             /\ native'[m].state = IF m = n THEN st ELSE native[m].state
             /\ native'[m].db = native[m].db
      BY <3>1, <3>2, StateChange
    <3> QED
      BY <3>1, <3>2, <3>3 DEF NativesMove, Over
  <2> QED
    BY <2>1, <2>2 DEF OtherWrite
<1> QED
  BY <1>1, <1>2, TurnKept

LEMMA TurnStep ==
  ASSUME OneCommit, TypeOK, TypeOK', HandleInv, QuietInv, QuietInv', UpdateInv,
         UsedInv, HookInv, LingerInv, TurnInv, Next, Alive'
  PROVE  TurnInv'
<1>1. Alive /\ ~ClosedUse /\ ~Timeouts /\ ~LoadsSource
  BY NoWayBack DEF OneCommit
<1>2. AliveInv
  BY <1>1 DEF UpdateInv
<1>3. CASE Proceeds
  BY <1>1, <1>3, ProceedsEffect, RunningTurn
<1> QED
  BY <1>1, <1>2, <1>3, CommitSteps, SaveTurn, CommitWriteTurn, CommitValidatedTurn, NoCommitAgain,
     CommitLingersTurn, CommitClosesTurn, StoreTurn, CommitSucceededTurn, CommitRetriesTurn,
     HooksTurn, CommitTurn, ScanDoneTurn

LEMMA ResolvedLasts ==
  ASSUME OneCommit, TypeOK, HandleInv, QuietInv, UpdateInv, TurnInv, Next, Alive', request = "resolved"
  PROVE  request' = "resolved"
<1>1. Alive /\ ~ClosedUse /\ ~Timeouts /\ ~LoadsSource
  BY NoWayBack DEF OneCommit
<1>2. ASSUME NEW d, NEW opt, NEW main, NEW rest, AfterCommit(d, opt, main, rest)
      PROVE  request' = "resolved"
  BY <1>2 DEF AfterCommit
<1>3. CASE Save
  <2>1. ~Idle /\ Top.at = "save" /\ (SaveWrites \/ SaveRejects)
    BY <1>3, SaveEffect
  <2>2. SaveRejects => ~stack[2].main
    BY <2>1, SaveAlone DEF SaveRejects, Place
  <2> QED
    BY <2>1, <2>2 DEF SaveWrites, SaveRejects
<1>4. ASSUME NEW f \in parked, HookFailed(f) PROVE FALSE
  BY DEF TurnInv, Turns, Live, Place
<1>5. CASE CommitLingers \/ CommitCloses \/ \E c \in waits : CommitSucceeded(c)
  BY <1>2, <1>5 DEF CommitLingers, CommitCloses, CommitSucceeded
<1>6. ~Proceeds /\ ~Commit
  BY <1>1, ProceedsEffect, SMTT(30) DEF Commit, Running
<1>7. ASSUME \/ CommitWrite \/ CommitValidated \/ CommitAgain
             \/ \E n \in DOMAIN native : NativeCommit(n)
             \/ \E c \in waits : CommitRetries(c)
             \/ \E f \in parked : HooksDone(f)
             \/ \E s \in Scans : ScanDone(s)
             \/ \E d \in Dbs, k \in Keys : OtherWrite(d, k)
      PROVE  UNCHANGED request
  BY <1>7 DEF CommitWrite, CommitValidated, CommitAgain, NativeCommit, CommitRetries, HooksDone,
              ScanDone, OtherWrite, reqVars
<1> QED
  BY <1>1, <1>3, <1>4, <1>5, <1>6, <1>7, CommitSteps

LEMMA LingerStep ==
  ASSUME OneCommit, TypeOK, TypeOK', HandleInv, QuietInv, QuietInv', UpdateInv,
         UsedInv, LingerInv, TurnInv, Next, Alive'
  PROVE  LingerInv'
<1>1. Alive /\ ~ClosedUse /\ ~Timeouts /\ ~LoadsSource
  BY NoWayBack DEF OneCommit
<1>2. request = "resolved" => request' = "resolved"
  BY ResolvedLasts
<1>3. ASSUME \A d \in Dbs : open'[d] \in {open[d], "OPEN", "CLOSED"} PROVE LingerInv'
  BY <1>2, <1>3 DEF LingerInv
<1>4. CASE CommitLingers
  <2>1. /\ ~Idle /\ Top.at = "close" /\ StillRead(Top.db)
        /\ AfterCommit(Top.db, Top.opt, Top.main, Tail(stack))
    BY <1>4 DEF CommitLingers
  <2>2. Top.db \in Dbs /\ Place(Top) /\ Top.main \in BOOLEAN
    BY <2>1, TopAlone
  <2>3. NDbs = 1
    BY <2>1, <2>2, LastReader DEF OneCommit
  <2>4. ~(Top.db < NDbs)
    BY <2>2, <2>3 DEF Dbs
  <2>5. request' = "resolved"
    BY <2>1, <2>2, <2>4 DEF AfterCommit, Place
  <2> QED
    BY <2>5 DEF LingerInv
<1>5. CASE CommitCloses
  <2>1. open' = [open EXCEPT ![Top.db] = "CLOSED"]
    BY <1>5 DEF CommitCloses
  <2> QED
    BY <1>3, <2>1 DEF TypeOK
<1>6. CASE Proceeds
  BY <1>1, <1>3, <1>6, ProceedsEffect, SMTT(30) DEF QuietInv
<1>7. ASSUME \/ Save \/ CommitWrite \/ CommitValidated \/ CommitAgain \/ Commit
             \/ \E n \in DOMAIN native : NativeCommit(n)
             \/ \E c \in waits : CommitSucceeded(c) \/ CommitRetries(c)
             \/ \E f \in parked : HooksDone(f) \/ HookFailed(f)
             \/ \E s \in Scans : ScanDone(s)
             \/ \E d \in Dbs, k \in Keys : OtherWrite(d, k)
      PROVE  UNCHANGED open
  BY <1>7 DEF Save, CommitWrite, CommitValidated, CommitAgain, Commit, NativeCommit, CommitSucceeded,
              CommitRetries, HooksDone, HookFailed, ScanDone, OtherWrite, objVars
<1> QED
  BY <1>1, <1>3, <1>4, <1>5, <1>6, <1>7, CommitSteps

(***************************************************************************)
(* UsedInv is inductive.                                                   *)
(***************************************************************************)
Alone(d) == (used[d] = NaN \/ used[d] <= 1) /\ open[d] # "LINGERING"

LEMMA AloneObject ==
  ASSUME TypeOK, NEW d \in Dbs, TxnForContext(d), \A e \in Dbs : Alone(e)
  PROVE  \A e \in Dbs : open'[e] # "LINGERING"
<1>1. OpenState(d) # "LINGERING"
  BY DEF OpenState, Alone
<1> QED
  BY <1>1 DEF TxnForContext, TypeOK, Alone

LEMMA AloneRead ==
  ASSUME TypeOK, NEW d \in Dbs, GetReadTxn(d, 0), \A e \in Dbs : Alone(e)
  PROVE  \A e \in Dbs : used'[e] = NaN \/ used'[e] <= 1
<1>1. used \in [Dbs -> Int \cup {NaN}]
  BY DEF TypeOK
<1>2. used' = [used EXCEPT ![d] = Plus(IF StartsNative(d) THEN 1 ELSE used[d], 0)]
  BY DEF GetReadTxn
<1>3. used'[d] = NaN \/ used'[d] <= 1
  BY <1>1, <1>2, NaNAssumption DEF Plus, Alone
<1>4. \A e \in Dbs : e # d => used'[e] = used[e]
  BY <1>1, <1>2
<1> QED
  BY <1>3, <1>4 DEF Alone

LEMMA AloneDone ==
  ASSUME TypeOK, NEW d \in Dbs, \A e \in Dbs : Alone(e),
         UNCHANGED used \/ used' = [used EXCEPT ![d] = Plus(@, -1)] \/ used' = [used EXCEPT ![d] = 0]
  PROVE  \A e \in Dbs : used'[e] = NaN \/ used'[e] <= 1
<1>1. used \in [Dbs -> Int \cup {NaN}]
  BY DEF TypeOK
<1>2. CASE UNCHANGED used
  BY <1>2 DEF Alone
<1>3. CASE used' = [used EXCEPT ![d] = Plus(@, -1)]
  BY <1>1, <1>3, NaNAssumption DEF Plus, Alone
<1>4. CASE used' = [used EXCEPT ![d] = 0]
  BY <1>1, <1>4 DEF Alone
<1> QED
  BY <1>2, <1>3, <1>4

LEMMA UsedStep ==
  ASSUME TypeOK, UsedInv, [Next]_vars
  PROVE  UsedInv'
<1> SUFFICES ASSUME Scans = {} PROVE \A d \in Dbs : Alone(d)'
  BY DEF UsedInv, Alone
<1>1. \A d \in Dbs : Alone(d)
  BY DEF UsedInv, Alone
<1>2. CASE UNCHANGED <<used, open>>
  BY <1>1, <1>2, SMTT(30) DEF Alone
<1>3. CASE CallStep
  <2>1. ~CommitLingers
    BY TopType, LastReader DEF CommitLingers
  <2>2. CASE CommitCloses
    <3>1. /\ Top.db \in Dbs /\ used' = [used EXCEPT ![Top.db] = Plus(@, -1)]
          /\ open' = [open EXCEPT ![Top.db] = "CLOSED"]
      BY <2>2, TopType DEF CommitCloses
    <3>2. \A d \in Dbs : used'[d] = NaN \/ used'[d] <= 1
      BY <1>1, <3>1, AloneDone
    <3>3. \A d \in Dbs : open'[d] # "LINGERING"
      BY <1>1, <3>1 DEF TypeOK, Alone
    <3> QED
      BY <3>2, <3>3 DEF Alone
  <2>3. CASE AbortEnd
    BY <1>1, <2>3 DEF AbortEnd, TypeOK, Alone
  <2> QED
    BY <1>2, <1>3, <2>1, <2>2, <2>3
       DEF CallStep, Save, CommitWrite, CommitValidated, CommitAgain, objVars
<1>4. CASE Completion
  BY <1>2, <1>4 DEF Completion, NativeCommit, CommitSucceeded, CommitRetries, HooksDone, HookFailed, objVars
<1>5. CASE RequestStep
  <2>1. ASSUME NEW d \in Dbs, NEW k \in Keys, NEW kind, Write(d, k, kind) \/ LoadStart(d, k)
        PROVE  \A e \in Dbs : Alone(e)'
    <3>1. TxnForContext(d) /\ GetReadTxn(d, 0)
      BY <2>1 DEF Write, LoadStart
    <3> QED
      BY <1>1, <3>1, AloneObject, AloneRead DEF Alone
  <2>2. ASSUME NEW d \in Dbs, NEW k \in Keys, NEW kind, WriteLoaded(d, k, kind) \/ Event(d, k)
        PROVE  \A e \in Dbs : Alone(e)'
    <3>1. TxnForContext(d) /\ UNCHANGED used
      BY <2>2 DEF WriteLoaded, Event
    <3> QED
      BY <1>1, <3>1, AloneObject DEF Alone
  <2>3. ASSUME NEW d \in Dbs, NEW k \in Keys, LoadFromSource(d, k)
        PROVE  \A e \in Dbs : Alone(e)'
    <3>1. UNCHANGED open /\ (UNCHANGED used \/ used' = [used EXCEPT ![d] = Plus(@, -1)])
      BY <2>3 DEF LoadFromSource, DoneReadTxn
    <3> QED
      BY <1>1, <3>1, AloneDone DEF Alone
  <2>4. CASE Abort
    <3>1. UNCHANGED open /\ (UNCHANGED used \/ used' = [used EXCEPT ![1] = 0])
      BY <2>4 DEF Abort
    <3> QED
      BY <1>1, <3>1, DbsType, AloneDone DEF Alone
  <2>5. ASSUME NEW d \in Dbs, NEW k \in Keys, SourceLoaded(d, k)
        PROVE  \A e \in Dbs : Alone(e)'
    BY <1>2, <2>5 DEF SourceLoaded, objVars
  <2>6. CASE Commit \/ CommitMidway
    BY <1>2, <2>6 DEF Commit, CommitMidway, objVars
  <2> QED
    BY <1>5, <2>1, <2>2, <2>3, <2>4, <2>5, <2>6 DEF RequestStep
<1>6. CASE Environment
  BY <1>2, <1>6 DEF Environment, Timeout, OtherWrite, objVars
<1>7. CASE UNCHANGED vars
  BY <1>2, <1>7 DEF vars, objVars
<1> QED
  BY <1>3, <1>4, <1>5, <1>6, <1>7 DEF Next

(***************************************************************************)
(* HookInv is inductive.                                                   *)
(***************************************************************************)
Closing == ~Idle /\ Top.at = "close"

LEMMA NotClosing ==
  ASSUME NEW x \in Frames, NEW r \in Seq(Frames), stack' = <<x>> \o r, x.at # "close"
  PROVE  ~Closing'
<1>1. stack' # <<>> /\ Head(stack') = x
  BY PushFrame
<1> QED
  BY <1>1 DEF Closing, Top, Idle

LEMMA NextNotClosing ==
  ASSUME TypeOK, NEW d \in Dbs, NEW opt \in Nat, NEW main \in BOOLEAN, AfterCommit(d, opt, main, <<>>)
  PROVE  ~Closing' /\ (request = "rejected" => request' = "rejected")
<1>1. CASE stack' = <<>>
  BY <1>1 DEF Closing, Idle, AfterCommit
<1>2. CASE d < NDbs /\ stack' = <<CommitFrame(d + 1, opt, main)>> \o <<>> /\ UNCHANGED request
  <2>1. d + 1 \in Dbs
    BY <1>2, DbsType
  <2>2. CommitFrame(d + 1, opt, main) \in Frames
    BY <2>1, FrameTypes DEF Frames
  <2>3. CommitFrame(d + 1, opt, main).at = "loop"
    BY DEF CommitFrame
  <2>4. PICK x \in Frames : x = CommitFrame(d + 1, opt, main)
    BY <2>2
  <2>5. stack' = <<x>> \o <<>> /\ x.at # "close" /\ <<>> \in Seq(Frames)
    BY <1>2, <2>3, <2>4
  <2>6. ~Closing'
    BY <2>5, NotClosing
  <2> QED
    BY <1>2, <2>6
<1> QED
  BY <1>1, <1>2 DEF AfterCommit

\* A step that neither adds a hook nor closes an object that has one.
LEMMA HooksKept ==
  ASSUME TypeOK, HookInv, UNCHANGED <<completions, hooks, parked>>,
         request = "rejected" => request' = "rejected",
         \A h \in hooks : open'[h[1]] = open[h[1]],
         ~Closing' \/ UNCHANGED stack
  PROVE  HookInv'
<1>1. Closing' => Closing /\ Top' = Top
  BY DEF Closing, Top, Idle
<1>2. Closing' => \A h \in hooks' : h[1] # Top'.db
  BY <1>1 DEF HookInv, Closing
<1>3. \A h \in hooks' : \/ h \in completions' \/ request' = "rejected"
                        \/ \E f \in parked' : h \in f.awaits
  BY DEF HookInv
<1>4. \A h \in hooks' : open'[h[1]] = "OPEN"
  BY DEF HookInv
<1>5. /\ completions' \subseteq hooks'
      /\ \A f \in parked' : /\ \A h \in completions' : h[1] # f.db
                            /\ \A h \in f.awaits : h[1] = f.db
  BY DEF HookInv
<1> QED
  BY <1>2, <1>3, <1>4, <1>5 DEF HookInv, Closing

LEMMA SaveHooks ==
  ASSUME TypeOK, TypeOK', HandleInv, QuietInv, AliveInv, TurnInv, HookInv, Save
  PROVE  HookInv'
<1>1. /\ ~Idle /\ Top.at = "save" /\ Top.db \in Dbs /\ Top.key \in Keys
      /\ SaveWrites \/ SaveRejects
      /\ UNCHANGED <<open, parked>>
  BY SaveEffect
<1>2. parked = {}
  BY <1>1, SaveAlone
<1>3. ~Closing'
  <2>1. Tail(stack) = <<>> \/ \E f \in CommitFrames : Tail(stack) = <<f>> /\ f.at = "loop"
    BY <1>1, SaveAlone
  <2>2. CASE stack' = <<>>
    BY <2>2 DEF Closing, Idle
  <2>3. ASSUME NEW f \in CommitFrames, stack' = <<f>>, f.at = "loop" PROVE ~Closing'
    BY <2>3, OneFrame DEF Closing, Top
  <2>4. CASE stack' = <<CommitFrame(Top.db, SaveHandle, FALSE)>> \o Tail(stack)
    <3>1. SaveHandle \in Nat /\ Tail(stack) \in Seq(Frames)
      BY <1>1, SaveEffect, SaveNativesType
    <3>2. PICK x \in Frames : x = CommitFrame(Top.db, SaveHandle, FALSE)
      BY <1>1, <3>1, FrameTypes DEF Frames
    <3>3. x.at = "loop"
      BY <3>2 DEF CommitFrame
    <3> QED
      BY <2>4, <3>1, <3>2, <3>3, NotClosing
  <2> QED
    BY <1>1, <2>1, <2>2, <2>3, <2>4 DEF SaveWrites, SaveRejects
<1>4. /\ completions \subseteq completions'
      /\ completions' \subseteq hooks'
      /\ \A h \in hooks' : h \in hooks \/ (h \in completions' /\ open[h[1]] = "OPEN")
  <2>1. CASE SaveRejects
    BY <2>1 DEF SaveRejects, HookInv
  <2>2. CASE SaveWrites
    <3>1. PICK before \in SUBSET (IF HooksAsync /\ Top.key \notin saved[Top.db]
                             THEN {<<Top.db, Top.key>>} ELSE {}) :
             completions' = completions \cup before /\ hooks' = hooks \cup before
      BY <2>2 DEF SaveWrites
    <3>2. Top.key \notin saved[Top.db] => open[Top.db] = "OPEN"
      BY <1>1 DEF AliveInv, TopSaves, UnsavedKeeps, Unsaved
    <3>3. \A h \in before : open[h[1]] = "OPEN"
      BY <3>1, <3>2
    <3> QED
      BY <3>1, <3>3 DEF HookInv
  <2> QED
    BY <1>1, <2>1, <2>2
<1>5. request = "rejected" => request' = "rejected"
  BY <1>1 DEF SaveWrites, SaveRejects
<1>6. \A h \in hooks' : open'[h[1]] = "OPEN"
  BY <1>1, <1>4 DEF HookInv
<1>7. \A h \in hooks' : h \in completions' \/ request' = "rejected"
  BY <1>2, <1>4, <1>5 DEF HookInv
<1> QED
  BY <1>1, <1>2, <1>3, <1>4, <1>6, <1>7 DEF HookInv, Closing

LEMMA CommitValidatedHooks ==
  ASSUME TypeOK, TypeOK', TurnInv, HookInv, CommitValidated
  PROVE  HookInv'
<1>1. /\ ~Idle /\ Top.at = "loop" /\ UNCHANGED <<open, request, hooks>>
      /\ completions' = completions \ Outstanding(Top.db)
  BY DEF CommitValidated, reqVars, storeVars
<1>2. Tail(stack) = <<>> /\ parked = {} /\ Place(Top) /\ Top.db \in Dbs
  BY <1>1, TopAlone
<1>3. PICK f \in CommitFrames :
            /\ f.at = "close" /\ f.db = Top.db /\ f.awaits = Outstanding(Top.db)
            /\ \/ Outstanding(Top.db) # {} /\ parked' = parked \cup {f} /\ stack' = Tail(stack)
               \/ /\ Outstanding(Top.db) = {}
                  /\ parked' = parked /\ stack' = <<f>> \o Tail(stack)
  BY <1>1, CloseFrame
<1>4. /\ completions' \subseteq hooks'
      /\ \A h \in hooks' : open'[h[1]] = "OPEN"
      /\ \A h \in hooks : h \in completions \/ request = "rejected"
  BY <1>1, <1>2 DEF HookInv
<1>5. CASE Outstanding(Top.db) # {} /\ parked' = parked \cup {f} /\ stack' = Tail(stack)
  <2>1. parked' = {f} /\ ~Closing'
    BY <1>2, <1>5 DEF Closing, Idle
  <2>2. \A h \in hooks' : h \in completions' \/ request' = "rejected" \/ h \in f.awaits
    BY <1>1, <1>3, <1>4
  <2>3. /\ \A h \in completions' : h[1] # f.db
        /\ \A h \in f.awaits : h[1] = f.db
    BY <1>1, <1>3 DEF Outstanding
  <2> QED
    BY <1>4, <2>1, <2>2, <2>3 DEF HookInv, Closing
<1>6. CASE Outstanding(Top.db) = {} /\ parked' = parked /\ stack' = <<f>> \o Tail(stack)
  <2>1. \A h \in hooks : h[1] # Top.db
    <3>1. ASSUME NEW h \in hooks, h[1] = Top.db PROVE FALSE
      <4>1. h \notin completions
        BY <1>6, <3>1 DEF Outstanding
      <4>2. request = "rejected" /\ open[Top.db] = "OPEN"
        BY <1>4, <3>1, <4>1 DEF HookInv
      <4> QED
        BY <1>2, <4>2 DEF Place
    <3> QED
      BY <3>1
  <2>2. stack' = <<f>>
    <3>1. <<f>> \o <<>> = <<f>>
      OBVIOUS
    <3> QED
      BY <1>2, <1>6, <3>1
  <2>3. Top' = f
    BY <1>2, <1>6, <2>2, OneFrame
  <2>4. \A h \in hooks' : h[1] # Top'.db
    BY <1>1, <1>3, <2>1, <2>3
  <2>5. completions' = completions
    BY <1>1, <1>6
  <2> QED
    BY <1>1, <1>2, <1>4, <1>6, <2>4, <2>5 DEF HookInv
<1> QED
  BY <1>3, <1>5, <1>6

LEMMA ClosingHooks ==
  ASSUME TypeOK, TypeOK', TurnInv, HookInv, CommitLingers \/ CommitCloses
  PROVE  HookInv'
<1>1. /\ ~Idle /\ Top.at = "close" /\ UNCHANGED <<parked, completions, hooks>>
      /\ \E o : open' = [open EXCEPT ![Top.db] = o]
  BY DEF CommitLingers, CommitCloses, storeVars
<1>2. /\ Tail(stack) = <<>> /\ Top.db \in Dbs /\ Top.opt \in Nat /\ Top.main \in BOOLEAN
  BY <1>1, TopAlone
<1>3. \/ AfterCommit(Top.db, Top.opt, Top.main, <<>>)
      \/ stack' = <<>> /\ UNCHANGED request
  BY <1>2 DEF CommitLingers, CommitCloses
<1>4. ~Closing' /\ (request = "rejected" => request' = "rejected")
  BY <1>2, <1>3, NextNotClosing DEF Closing, Idle
<1>5. \A h \in hooks : open'[h[1]] = open[h[1]]
  <2>1. \A h \in hooks : h[1] # Top.db /\ h[1] \in Dbs
    BY <1>1 DEF HookInv, TypeOK
  <2> QED
    BY <1>1, <2>1 DEF TypeOK
<1> QED
  BY <1>1, <1>4, <1>5, HooksKept

LEMMA HooksEndHooks ==
  ASSUME TypeOK, TypeOK', TurnInv, HookInv, NEW f \in parked, HooksDone(f) \/ HookFailed(f)
  PROVE  HookInv'
<1>1. f \in CommitFrames /\ f.main /\ parked = {f} /\ Place(f)
  <2>1. f \in Turns /\ parked = {f} /\ f.main
    BY DEF TurnInv, OneTurn, Turns, Live
  <2> QED
    BY <2>1 DEF TurnInv, TypeOK
<1>2. CASE HookFailed(f)
  <2>1. /\ Idle /\ UNCHANGED <<open, completions, hooks, stack>>
        /\ parked' = {} /\ request' = "rejected"
    BY <1>1, <1>2 DEF HookFailed, objVars, storeVars
  <2>2. ~Closing'
    BY <2>1 DEF Closing, Idle
  <2> QED
    BY <2>1, <2>2 DEF HookInv, Closing
<1>3. CASE HooksDone(f)
  <2>1. /\ UNCHANGED <<open, completions, request>>
        /\ parked' = {} /\ stack' = <<f>> /\ hooks' = hooks \ f.awaits
    BY <1>1, <1>3 DEF HooksDone, objVars, reqVars
  <2>2. Top' = f
    BY <1>1, <2>1, OneFrame
  <2>3. completions \subseteq hooks'
    BY <2>1 DEF HookInv
  <2>4. \A h \in hooks' : h \in completions \/ request = "rejected"
    BY <1>1, <2>1 DEF HookInv
  <2>5. \A h \in hooks' : h[1] # f.db
    BY <1>1, <2>4 DEF HookInv, Place
  <2> QED
    BY <2>1, <2>2, <2>3, <2>4, <2>5 DEF HookInv
<1> QED
  BY <1>2, <1>3

LEMMA CommitHooks ==
  ASSUME TypeOK, HandleInv, AliveInv, TurnInv, HookInv,
         CommitWrite \/ Commit \/ \E c \in waits : CommitSucceeded(c) \/ CommitRetries(c)
  PROVE  HookInv'
<1>1. CASE CommitWrite
  <2>1. /\ ~Idle /\ Top.at = "loop"
        /\ UNCHANGED <<completions, hooks, parked, request, open>>
        /\ stack' = IF retries[Top.db] = 0 /\ TurnKey \in saved[Top.db]
                    THEN <<Turn>> \o Tail(stack)
                    ELSE <<TurnSave>> \o (<<Turn>> \o Tail(stack))
    BY <1>1, CommitWriteEffect DEF objVars, reqVars, storeVars
  <2>2. Top.i <= Len(writes[Top.db])
    BY <1>1 DEF CommitWrite
  <2>3. PICK turn \in CommitFrames, save \in SaveFrames : turn = Turn /\ save = TurnSave
    BY <2>1, <2>2, TurnType
  <2>4. turn.at = "loop" /\ save.at = "save" /\ turn \in Frames /\ save \in Frames
    BY <2>1, <2>2, <2>3, TurnType DEF Frames, SaveFrames
  <2>5. <<>> \in Seq(Frames) /\ <<turn>> \o <<>> \in Seq(Frames) /\ Tail(stack) = <<>>
    BY <2>1, <2>4, TopAlone
  <2>6. ~Closing'
    BY <2>1, <2>3, <2>4, <2>5, NotClosing
  <2> QED
    BY <2>1, <2>6, HooksKept
<1>2. CASE Commit
  <2>1. /\ request' # "rejected" /\ request # "rejected"
        /\ UNCHANGED <<completions, hooks, parked, open>> /\ stack' = <<CommitFrame(1, None, TRUE)>>
    BY <1>2 DEF Commit, Running, objVars, storeVars
  <2>2. PICK f \in CommitFrames : f = CommitFrame(1, None, TRUE)
    BY DbsType, FrameTypes DEF None
  <2>3. f.at = "loop" /\ f \in Frames
    BY <2>2 DEF CommitFrame, Frames
  <2>4. stack' = <<f>> \o <<>> /\ <<>> \in Seq(Frames)
    BY <2>1, <2>2
  <2> QED
    BY <2>1, <2>3, <2>4, NotClosing, HooksKept
<1>3. ASSUME NEW c \in waits, CommitSucceeded(c) PROVE HookInv'
  <2>1. /\ UNCHANGED <<completions, hooks, parked, open>> /\ AfterCommit(c.db, c.opt, c.main, <<>>)
    BY <1>3 DEF CommitSucceeded, storeVars
  <2>2. c.db \in Dbs /\ c.opt \in Nat /\ c.main \in BOOLEAN
    BY DEF TypeOK, Awaiting
  <2> QED
    BY <2>1, <2>2, NextNotClosing, HooksKept
<1>4. ASSUME NEW c \in waits, CommitRetries(c) PROVE HookInv'
  <2>1. /\ UNCHANGED <<completions, hooks, parked, open, request>>
        /\ stack' = <<CommitFrame(c.db, c.txn, c.main)>>
    BY <1>4 DEF CommitRetries, reqVars
  <2>2. c.db \in Dbs /\ c.txn \in Nat /\ c.main \in BOOLEAN
    BY DEF TypeOK, Awaiting
  <2>3. PICK f \in CommitFrames : f = CommitFrame(c.db, c.txn, c.main)
    BY <2>2, FrameTypes
  <2>4. f.at = "loop" /\ f \in Frames
    BY <2>3 DEF CommitFrame, Frames
  <2>5. stack' = <<f>> \o <<>> /\ <<>> \in Seq(Frames)
    BY <2>1, <2>3
  <2> QED
    BY <2>1, <2>4, <2>5, NotClosing, HooksKept
<1> QED
  BY <1>1, <1>2, <1>3, <1>4

LEMMA ScanDoneHooks ==
  ASSUME TypeOK, HookInv, NEW s \in Scans, ScanDone(s)
  PROVE  HookInv'
<1>1. /\ Idle /\ DoneReadTxn(scan[s].db) /\ UNCHANGED <<open, parked, request, completions, hooks>>
  BY DEF ScanDone
<1>2. PICK d \in Dbs : d = scan[s].db
  BY DEF TypeOK
<1>3. CASE stack' = stack \/ stack' = <<>>
  BY <1>1, <1>3, HooksKept DEF Closing, Idle
<1>4. CASE stack' = <<CommitFrame(d, None, FALSE)>> \o <<>>
  <2>1. PICK f \in CommitFrames : f = CommitFrame(d, None, FALSE)
    BY FrameTypes DEF None
  <2>2. f.at = "loop" /\ f \in Frames
    BY <2>1 DEF CommitFrame, Frames
  <2>3. stack' = <<f>> \o <<>> /\ <<>> \in Seq(Frames)
    BY <1>4, <2>1
  <2> QED
    BY <1>1, <2>2, <2>3, NotClosing, HooksKept
<1> QED
  BY <1>1, <1>2, <1>3, <1>4 DEF DoneReadTxn, LastUse

LEMMA HookStep ==
  ASSUME OneCommit, TypeOK, TypeOK', HandleInv, QuietInv, QuietInv', UpdateInv,
         TurnInv, HookInv, Next, Alive'
  PROVE  HookInv'
<1>1. Alive /\ ~ClosedUse /\ ~Timeouts /\ ~LoadsSource
  BY NoWayBack DEF OneCommit
<1>2. AliveInv
  BY <1>1 DEF UpdateInv
<1>3. CASE Proceeds
  <2>1. /\ UNCHANGED <<completions, hooks, parked, request>> /\ request' = "running"
        /\ \A d \in Dbs : open[d] = "OPEN"
    BY <1>1, <1>3, ProceedsEffect
  <2>2. /\ \A d \in Dbs : open'[d] = "OPEN"
        /\ \A f \in FramesOf(stack') : f.at = "save"
    BY <2>1 DEF QuietInv
  <2>3. stack' # <<>> => Head(stack') \in FramesOf(stack')
    BY PopFrame DEF TypeOK
  <2>4. ~Closing'
    BY <2>2, <2>3 DEF Closing, Idle, Top
  <2>5. \A h \in hooks : h[1] \in Dbs
    BY DEF TypeOK
  <2> QED
    BY <2>1, <2>2, <2>4, <2>5, HooksKept
<1>4. CASE (\E n \in DOMAIN native : NativeCommit(n)) \/ (\E d \in Dbs, k \in Keys : OtherWrite(d, k))
  <2>1. UNCHANGED <<completions, hooks, parked, request, open, stack>>
    BY <1>4 DEF NativeCommit, OtherWrite, objVars, callVars, reqVars
  <2> QED
    BY <2>1, HooksKept
<1> QED
  BY <1>1, <1>2, <1>3, <1>4, CommitSteps, NoCommitAgain, SaveHooks, CommitHooks, CommitValidatedHooks,
     ClosingHooks, HooksEndHooks, ScanDoneHooks

(***************************************************************************)
(* The places of commits, and the hooks they await, all the way.           *)
(***************************************************************************)
CommitInv ==
    /\ TypeOK /\ HandleInv /\ QuietInv /\ UpdateInv /\ UsedInv
    /\ Alive => LingerInv /\ TurnInv /\ HookInv

LEMMA CommitInit == Init => CommitInv
<1> SUFFICES ASSUME Init PROVE CommitInv
  OBVIOUS
<1>1. TypeOK /\ HandleInv /\ QuietInv /\ UpdateInv
  BY TypeInit, HandleInit, QuietInit, UpdateInit
<1>2. UsedInv
  BY DEF UsedInv, Init
<1>3. stack = <<>> /\ parked = {} /\ waits = {} /\ FramesOf(stack) = {}
  BY DEF Init, FramesOf
<1>4. TurnInv
  <2>1. Turns = {}
    BY <1>3 DEF Turns, Live
  <2> QED
    BY <1>3, <2>1 DEF TurnInv, OneTurn, Shape
<1>5. HookInv /\ LingerInv
  BY <1>3 DEF HookInv, LingerInv, Init, Idle
<1> QED
  BY <1>1, <1>2, <1>4, <1>5 DEF CommitInv

LEMMA CommitStep ==
  ASSUME OneCommit, CommitInv, [Next]_vars
  PROVE  CommitInv'
<1>1. TypeOK' /\ QuietInv'
  BY TypeStep, QuietStep DEF CommitInv, OneCommit
<1>2. HandleInv'
  BY <1>1, HandleStep DEF CommitInv
<1>3. UpdateInv'
  BY <1>1, <1>2, UpdateStep DEF CommitInv, OneCommit
<1>4. UsedInv'
  BY UsedStep DEF CommitInv
<1>5. CASE Next
  <2>1. ASSUME Alive' PROVE LingerInv' /\ TurnInv' /\ HookInv'
    <3>1. Alive
      BY <1>5, <2>1, NoWayBack DEF CommitInv
    <3>2. /\ TypeOK /\ HandleInv /\ QuietInv /\ UpdateInv /\ UsedInv
          /\ LingerInv /\ TurnInv /\ HookInv
      BY <3>1 DEF CommitInv
    <3> QED
      BY <1>1, <1>5, <2>1, <3>2, LingerStep, TurnStep, HookStep
  <2> QED
    BY <1>1, <1>2, <1>3, <1>4, <2>1 DEF CommitInv
<1>6. CASE UNCHANGED vars
  <2>1. UNCHANGED <<stack, parked, waits, open, request, writes, validated, native, completions, hooks>>
    BY <1>6 DEF vars, objVars, callVars, reqVars, storeVars
  <2>2. ASSUME Alive' PROVE LingerInv' /\ TurnInv' /\ HookInv'
    <3>1. Alive
      BY <2>1, <2>2 DEF Alive
    <3>2. TypeOK /\ HandleInv /\ AliveInv /\ LingerInv /\ TurnInv /\ HookInv
      BY <3>1 DEF CommitInv, UpdateInv
    <3>3. NativesMove
      BY <2>1, <3>2, SameNatives
    <3>4. TurnInv'
      BY <2>1, <3>2, <3>3, TurnKept
    <3>5. HookInv'
      BY <2>1, <3>2, HooksKept
    <3> QED
      BY <2>1, <3>2, <3>4, <3>5 DEF LingerInv
  <2> QED
    BY <1>1, <1>2, <1>3, <1>4, <2>2 DEF CommitInv
<1> QED
  BY <1>5, <1>6

LEMMA CommitsInvariant ==
  ASSUME OneCommit
  PROVE  Spec => []CommitInv
<1>1. CommitInv /\ [Next]_vars => CommitInv'
  BY CommitStep
<1> QED
  BY CommitInit, <1>1, PTL DEF Spec

\* No native transaction is forgotten.
LEMMA NativesGrow ==
  ASSUME TypeOK, TypeOK', HandleInv, Next
  PROVE  DOMAIN native \subseteq DOMAIN native'
<1>1. /\ DOMAIN native = 1 .. Len(native) /\ Len(native) \in Nat /\ native \in Seq(NativeTxn)
      /\ DOMAIN native' = 1 .. Len(native') /\ Len(native') \in Nat
  BY DEF TypeOK
<1> DEFINE len == Len(native)
           lenNow == Len(native')
<1>a. ASSUME len <= lenNow PROVE DOMAIN native \subseteq DOMAIN native'
  <2> HIDE DEF len, lenNow
  <2>1. len \in Nat /\ lenNow \in Nat
    BY <1>1 DEF len, lenNow
  <2>2. 1 .. len \subseteq 1 .. lenNow
    BY <1>a, <2>1
  <2> QED
    BY <1>1, <2>2 DEF len, lenNow
<1> HIDE DEF len, lenNow
<1>2. ASSUME NEW d \in Dbs, native' = NativesOf(d) PROVE DOMAIN native \subseteq DOMAIN native'
  <2>1. native' = native \/ Len(native') = Len(native) + 1
    BY <1>1, <1>2, FreshType, AppendProperties DEF NativesOf
  <2>2. len <= lenNow
    <3>1. lenNow = len \/ lenNow = len + 1
      BY <2>1 DEF len, lenNow
    <3>2. len \in Nat
      BY <1>1 DEF len
    <3> QED
      BY <3>1, <3>2
  <2> QED
    BY <1>a, <2>2, SMTT(30)
<1>3. ASSUME NEW n, native' = NativeAbort(n) PROVE DOMAIN native \subseteq DOMAIN native'
  BY <1>3 DEF NativeAbort
<1>4. CASE CallStep
  <2>1. CASE Save
    BY <1>a, <2>1, SaveStores DEF len, lenNow
  <2>2. CASE CommitCloses
    BY <1>3, <2>2 DEF CommitCloses
  <2> QED
    BY <1>4, <2>1, <2>2
       DEF CallStep, CommitWrite, CommitValidated, CommitAgain, CommitLingers, AbortEnd, storeVars
<1>5. CASE Completion
  BY <1>5 DEF Completion, NativeCommit, CommitSucceeded, CommitRetries, HooksDone, HookFailed, storeVars
<1>6. CASE RequestStep
  <2>1. ASSUME NEW d \in Dbs, NEW k \in Keys, NEW kind, Write(d, k, kind) \/ LoadStart(d, k)
        PROVE  DOMAIN native \subseteq DOMAIN native'
    BY <1>2, <2>1 DEF Write, LoadStart, GetReadTxn
  <2>2. ASSUME NEW d \in Dbs, NEW s \in Scans, ScanStart(s, d)
        PROVE  DOMAIN native \subseteq DOMAIN native'
    BY <1>2, <2>2 DEF ScanStart, GetReadTxn
  <2>3. ASSUME NEW d, DoneReadTxn(d) PROVE DOMAIN native \subseteq DOMAIN native'
    BY <1>3, <2>3 DEF DoneReadTxn, LastUse
  <2>4. ASSUME NEW d \in Dbs, NEW k \in Keys, LoadFromSource(d, k)
        PROVE  DOMAIN native \subseteq DOMAIN native'
    BY <2>3, <2>4 DEF LoadFromSource
  <2>5. ASSUME NEW s \in Scans, ScanDone(s) PROVE DOMAIN native \subseteq DOMAIN native'
    BY <2>3, <2>5 DEF ScanDone
  <2>6. CASE Abort
    BY <1>3, <2>6 DEF Abort, LastUse
  <2>7. ASSUME NEW d \in Dbs, NEW k \in Keys, NEW kind,
               WriteLoaded(d, k, kind) \/ Event(d, k) \/ SourceLoaded(d, k)
        PROVE  DOMAIN native \subseteq DOMAIN native'
    BY <2>7 DEF WriteLoaded, Event, SourceLoaded, storeVars
  <2>8. CASE Commit \/ CommitMidway
    BY <2>8 DEF Commit, CommitMidway, storeVars
  <2> QED
    BY <1>6, <2>1, <2>2, <2>4, <2>5, <2>6, <2>7, <2>8 DEF RequestStep
<1>7. CASE Environment
  BY <1>7 DEF Environment, Timeout, OtherWrite, storeVars
<1> QED
  BY <1>4, <1>5, <1>6, <1>7 DEF Next

\* Only the end of a commit gives a native transaction to the store.
LEMMA GivenByClose ==
  ASSUME OneCommit, CommitInv, CommitInv', Next, Alive', NEW n \in DOMAIN native,
         native[n].state = "open", native'[n].state = "committing"
  PROVE  CommitCloses /\ n = Top.txn
<1>1. TypeOK /\ TypeOK' /\ HandleInv /\ QuietInv /\ UpdateInv /\ TurnInv
  BY NoWayBack DEF CommitInv
<1>2. Alive /\ ~ClosedUse /\ ~Timeouts /\ ~LoadsSource
  BY <1>1, NoWayBack DEF OneCommit
<1>3. ~NativesMove
  BY DEF NativesMove
<1>4. DOMAIN native = 1 .. Len(native) /\ Len(native) \in Nat /\ native \in Seq(NativeTxn)
  BY <1>1 DEF TypeOK
<1>5. native' # native
  BY <1>1, <1>3, SameNatives
<1>6. ~Save
  BY <1>1, SaveMoves
<1>7. ~(\E m \in DOMAIN native : NativeCommit(m))
  <2>1. ASSUME NEW m \in DOMAIN native, NativeCommit(m) PROVE FALSE
    <3>1. PICK st \in {"busy", "committed"} : native' = [native EXCEPT ![m].state = st]
      BY <2>1 DEF NativeCommit
    <3>2. native'[n].state = IF n = m THEN st ELSE native[n].state
      BY <1>1, <1>4, <3>1, StateChange
    <3> QED
      BY <3>2
  <2> QED
    BY <2>1
<1>8. ASSUME NEW c \in waits, CommitRetries(c) PROVE FALSE
  <2>1. PICK m \in DOMAIN native : m = c.txn
    BY <1>1 DEF TypeOK
  <2>2. native' = [native EXCEPT ![m] = Restarted(m)]
    BY <1>1, <1>8, <2>1, RestartedType DEF CommitRetries
  <2>3. Restarted(m).state = "open"
    BY <1>1, <2>1, RestartedType
  <2>4. native'[n] = IF n = m THEN Restarted(m) ELSE native[n]
    BY <1>4, <2>1, <2>2
  <2> QED
    BY <2>3, <2>4
<1>9. ~Proceeds
  <2>1. ASSUME NEW d \in Dbs, native' = NativesOf(d) PROVE FALSE
    <3>1. native'[n] = native[n]
      BY <1>1, <1>4, <2>1, FreshType, AppendProperties DEF NativesOf
    <3> QED
      BY <3>1
  <2>2. ASSUME NEW d \in Dbs, NEW k \in Keys, NEW kind, Write(d, k, kind) \/ Event(d, k)
        PROVE  FALSE
    BY <1>5, <2>1, <2>2 DEF Write, Event, GetReadTxn, storeVars
  <2>3. ASSUME NEW d \in Dbs, NEW s \in Scans, ScanStart(s, d) PROVE FALSE
    BY <2>1, <2>3 DEF ScanStart, GetReadTxn
  <2> QED
    BY <2>2, <2>3 DEF Proceeds
<1>10. ~(\E s \in Scans : ScanDone(s))
  <2>1. ASSUME NEW d \in Dbs, native' = NativeAbort(transaction[d]) PROVE FALSE
    <3>1. transaction[d] \in Nat
      BY <1>1 DEF TypeOK, Handles
    <3> QED
      BY <1>1, <1>3, <2>1, <3>1, AbortMoves
  <2>2. ASSUME NEW s \in Scans, ScanDone(s) PROVE FALSE
    <3>1. scan[s].db \in Dbs
      BY <1>1 DEF TypeOK
    <3> QED
      BY <1>5, <2>1, <2>2, <3>1 DEF ScanDone, DoneReadTxn, LastUse
  <2> QED
    BY <2>2
<1>11. CommitCloses
  <2>1. /\ ~CommitWrite /\ ~CommitValidated /\ ~CommitAgain /\ ~CommitLingers /\ ~Commit
        /\ \A c \in waits : ~CommitSucceeded(c)
        /\ \A f \in parked : ~HooksDone(f) /\ ~HookFailed(f)
        /\ \A d \in Dbs, k \in Keys : ~OtherWrite(d, k)
    BY <1>5 DEF CommitWrite, CommitValidated, CommitAgain, CommitLingers, Commit, CommitSucceeded,
                HooksDone, HookFailed, OtherWrite, storeVars
  <2> QED
    BY <1>1, <1>2, <1>6, <1>7, <1>8, <1>9, <1>10, <2>1, CommitSteps
<1>12. n = Top.txn
  <2>1. Top.txn \in Nat
    BY <1>1, <1>11, TopAlone DEF CommitCloses
  <2>2. native' # NativeAbort(Top.txn)
    BY <1>1, <1>3, <2>1, AbortMoves
  <2>3. native' = [native EXCEPT ![Top.txn].state = IF @ = "open" THEN "committing" ELSE @]
    BY <1>5, <1>11, <2>2 DEF CommitCloses
  <2> QED
    BY <1>4, <2>3
<1> QED
  BY <1>11, <1>12

\* That step is one of a request that has not thrown.
LEMMA GivenAlive ==
  ASSUME TypeOK, TypeOK', HandleInv, QuietInv, QuietInv', Next, NEW n \in DOMAIN native,
         native'[n].state = "committing"
  PROVE  Alive' /\ Alive
<1>1. n \in DOMAIN native'
  BY NativesGrow
<1>2. ~NothingGiven'
  BY <1>1 DEF NothingGiven
<1>3. Alive'
  BY <1>2 DEF TypeOK, QuietInv, Alive
<1> QED
  BY <1>3, NoWayBack

\* Once the request's function has thrown, no native transaction is handed
\* to the store any more, neither by abort nor by the iterators and loads
\* that end later.
THEOREM AbortedGivesNothing ==
  ASSUME ~ClosedUse, ~Timeouts
  PROVE  Spec => AbortedCommitsNothing
<1> DEFINE Inv == TypeOK /\ HandleInv /\ QuietInv
<1>1. Init => Inv
  BY TypeInit, HandleInit, QuietInit
<1>2. Inv /\ [Next]_vars => Inv'
  BY TypeStep, HandleStep, QuietStep
<1>3. Inv /\ Inv' /\ [Next]_vars
         => [ request = "aborted" =>
                 \A n \in DOMAIN native :
                     native[n].state = "open" => native'[n].state # "committing" ]_vars
  BY GivenAlive DEF Alive
<1> QED
  BY <1>1, <1>2, <1>3, PTL DEF Spec, AbortedCommitsNothing

\* Once the promise of commit was rejected, by a failed before hook or a write
\* that is not valid, none of what was not yet committed is handed to the
\* store, in whatever database of the chain the commit failed.
THEOREM RejectedGivesNothing ==
  ASSUME OneCommit
  PROVE  Spec => RejectedCommitsNothing
<1>1. CommitInv /\ CommitInv' /\ [Next]_vars
         => [ request = "rejected" =>
                 \A n \in DOMAIN native :
                     (native[n].state = "open" /\ native[n].ops # {})
                         => native'[n].state # "committing" ]_vars
  <2> SUFFICES ASSUME CommitInv, CommitInv', Next, NEW n \in DOMAIN native, request = "rejected",
                      native[n].state = "open", native'[n].state = "committing"
               PROVE  FALSE
    OBVIOUS
  <2>1. Alive' /\ Alive
    BY GivenAlive DEF CommitInv
  <2>2. CommitCloses
    BY <2>1, GivenByClose
  <2>3. Place(Top)
    BY <2>1, <2>2, TopAlone DEF CommitCloses, CommitInv
  <2>4. Top.main \in BOOLEAN
    BY <2>1, <2>2, TopAlone DEF CommitCloses, CommitInv
  <2> QED
    BY <2>3, <2>4 DEF Place
<1> QED
  BY <1>1, CommitsInvariant, PTL DEF Spec, RejectedCommitsNothing

\* A write is handed to the store only after its before hook, the write to
\* the source of the table, has resolved: the commit awaits the hooks saved
\* with its writes, goes on only when all of them resolved, and saves no write
\* of an object after it closed it that has a hook to await.
THEOREM HooksComeFirst ==
  ASSUME OneCommit
  PROVE  Spec => CommitsAfterHooks
<1>1. CommitInv /\ CommitInv' /\ [Next]_vars
         => [ \A n \in DOMAIN native :
                 (native[n].state = "open" /\ native'[n].state = "committing") =>
                     \A op \in native[n].ops : <<native[n].db, op.key>> \notin hooks ]_vars
  <2> SUFFICES ASSUME CommitInv, CommitInv', Next, NEW n \in DOMAIN native,
                      native[n].state = "open", native'[n].state = "committing",
                      NEW op \in native[n].ops
               PROVE  <<native[n].db, op.key>> \notin hooks
    OBVIOUS
  <2>2. Alive' /\ Alive
    BY GivenAlive DEF CommitInv
  <2>3. CommitCloses /\ n = Top.txn
    BY <2>2, GivenByClose
  <2>4. ~Idle /\ Top.at = "close" /\ Place(Top) /\ Top.txn # None
    BY <2>2, <2>3, TopAlone DEF CommitCloses, CommitInv, TypeOK, None
  <2>5. native[n].db = Top.db
    BY <2>3, <2>4 DEF Place, Over
  <2>6. \A h \in hooks : h[1] # Top.db
    BY <2>2, <2>4 DEF CommitInv, HookInv
  <2> QED
    BY <2>5, <2>6
<1> QED
  BY <1>1, CommitsInvariant, PTL DEF Spec, CommitsAfterHooks

(***************************************************************************)
(* What a request stores, it stores once, with one entry in the log for    *)
(* each write.                                                             *)
(***************************************************************************)

LoggedKeys(n) == {k \in Keys : native[n].log[k] = 1}
OpKeys(n)     == {op.key : op \in native[n].ops}

\* The writes of a native transaction are logged once, and the log of one
\* given to the store has only its writes.
Consistent(n) ==
    /\ \A k \in Keys : native[n].log[k] \in {0, 1}
    /\ OpKeys(n) \subseteq LoggedKeys(n)
    /\ \A o, p \in native[n].ops : o.key = p.key => o = p
    /\ native[n].state = "committing" => LoggedKeys(n) \subseteq OpKeys(n)
    /\ native[n].isRetry => retries[native[n].db] > 0

\* A database has one native transaction, and writes stored come from it.
NativesInv ==
    /\ \A m, n \in DOMAIN native : native[m].db = native[n].db => m = n
    /\ \A n \in DOMAIN native : Consistent(n)
    /\ \A a \in applied :
          \E n \in DOMAIN native : native[n].db = a.db /\ native[n].state = "committed"

\* Every saved write of an object is logged in a native transaction, and is
\* among its writes, unless these are being saved again by a retry.
AllIn(d, n) ==
    /\ LoggedKeys(n) = saved[d] \cap KeysOf(d)
    /\ retries[d] = 0 => OpKeys(n) = LoggedKeys(n)

Own(x) == x.txn # None /\ ~Over(x.txn)

\* The loop of a commit leaves no write behind that its transaction has not.
LoopStores(f) ==
    /\ f.at = "loop" =>
          \A j \in 1 .. Len(writes[f.db]) :
              j < f.i => \/ writes[f.db][j] \in OpKeys(f.txn)
                         \/ ~Idle /\ Top.at = "save" /\ Top.key = writes[f.db][j]
    /\ f.at = "close" => KeysOf(f.db) \subseteq OpKeys(f.txn)

TurnStores(f) ==
    /\ (NDbs = 1 /\ transaction[f.db] # None) => f.txn \in {None, transaction[f.db]}
    /\ Own(f) => AllIn(f.db, f.txn) /\ LoopStores(f)

\* No commit of the object works on another transaction than the object's.
Free(d) ==
    /\ request # "rejected"
    /\ \A f \in Turns : f.db = d => f.txn \in {None, transaction[d]}

ObjectStores(d) ==
    /\ Free(d) => IF transaction[d] # None THEN AllIn(d, transaction[d])
                  ELSE open[d] = "OPEN" => saved[d] = {}
    /\ retries[d] > 0 => open[d] # "OPEN"

WaitStores(c) ==
    /\ transaction[c.db] = None
    /\ Own(c) => LoggedKeys(c.txn) = KeysOf(c.db)

\* A write is saved a second time only by a retry.
FirstSave ==
    (~Idle /\ Top.at = "save" /\ retries[Top.db] = 0) => Top.key \notin saved[Top.db]

ObjectsInv ==
    /\ \A f \in Turns : TurnStores(f)
    /\ \A c \in waits : WaitStores(c)
    /\ \A d \in Dbs : ObjectStores(d)
    /\ FirstSave

StoreInv == NativesInv /\ ObjectsInv

(***************************************************************************)
(* Native transactions whose writes and log a step leaves as they are.     *)
(***************************************************************************)
SameContents ==
    /\ DOMAIN native' = DOMAIN native
    /\ \A n \in DOMAIN native :
          /\ native'[n].db = native[n].db /\ native'[n].log = native[n].log
          /\ native'[n].ops = native[n].ops /\ native'[n].isRetry = native[n].isRetry
          /\ Over(n) => native'[n].state = native[n].state

LEMMA UnchangedContents ==
  ASSUME UNCHANGED native
  PROVE  SameContents
  BY DEF SameContents

LEMMA AbortContents ==
  ASSUME TypeOK, NEW m \in Nat, native' = NativeAbort(m)
  PROVE  SameContents /\ \A n \in DOMAIN native : native'[n].state = "committing" => native[n].state = "committing"
<1>1. DOMAIN native = 1 .. Len(native) /\ DOMAIN native' = DOMAIN native
  BY DEF TypeOK, NativeAbort
<1> QED
  BY <1>1, AbortChange DEF SameContents, Over

LEMMA StateContents ==
  ASSUME TypeOK, NEW m \in DOMAIN native, NEW st, native' = [native EXCEPT ![m].state = st], ~Over(m)
  PROVE  SameContents
<1>1. DOMAIN native = 1 .. Len(native) /\ m \in Nat
  BY DEF TypeOK
<1>2. \A n \in 1 .. Len(native) :
         /\ native'[n].state = IF n = m THEN st ELSE native[n].state
         /\ native'[n].db = native[n].db /\ native'[n].ops = native[n].ops
         /\ native'[n].log = native[n].log /\ native'[n].isRetry = native[n].isRetry
  BY <1>1, StateChange
<1>3. DOMAIN native' = DOMAIN native
  OBVIOUS
<1> QED
  BY <1>1, <1>2, <1>3 DEF SameContents, Over

LEMMA SameKeys ==
  ASSUME SameContents, NEW n \in DOMAIN native
  PROVE  LoggedKeys(n)' = LoggedKeys(n) /\ OpKeys(n)' = OpKeys(n)
  BY DEF SameContents, LoggedKeys, OpKeys

LEMMA NativesGiven ==
  ASSUME TypeOK, NativesInv, SameContents, UNCHANGED <<applied, retries>>,
         \A n \in DOMAIN native :
            native'[n].state = "committing" =>
                native[n].state = "committing" \/ LoggedKeys(n) \subseteq OpKeys(n)
  PROVE  NativesInv'
<1>1. \A m, n \in DOMAIN native' : native'[m].db = native'[n].db => m = n
  BY DEF NativesInv, SameContents
<1>2. ASSUME NEW n \in DOMAIN native' PROVE Consistent(n)'
  <2>1. n \in DOMAIN native /\ Consistent(n)
    BY DEF NativesInv, SameContents
  <2>2. LoggedKeys(n)' = LoggedKeys(n) /\ OpKeys(n)' = OpKeys(n)
    BY <2>1, SameKeys
  <2> QED
    BY <2>1, <2>2 DEF Consistent, SameContents
<1>3. ASSUME NEW a \in applied'
      PROVE  \E n \in DOMAIN native' : native'[n].db = a.db /\ native'[n].state = "committed"
  <2>1. PICK n \in DOMAIN native : native[n].db = a.db /\ native[n].state = "committed"
    BY DEF NativesInv
  <2> QED
    BY <2>1 DEF SameContents, Over
<1> QED
  BY <1>1, <1>2, <1>3 DEF NativesInv

LEMMA NativesKept ==
  ASSUME TypeOK, NativesInv, SameContents, UNCHANGED <<applied, retries>>,
         \A n \in DOMAIN native : native'[n].state = "committing" => native[n].state = "committing"
  PROVE  NativesInv'
  BY NativesGiven

LEMMA AllInKept ==
  ASSUME SameContents, NEW d, NEW n \in DOMAIN native, AllIn(d, n),
         saved'[d] = saved[d], writes'[d] = writes[d], retries'[d] = retries[d]
  PROVE  AllIn(d, n)'
<1>1. LoggedKeys(n)' = LoggedKeys(n) /\ OpKeys(n)' = OpKeys(n)
  BY SameKeys
<1>2. KeysOf(d)' = KeysOf(d)
  BY DEF KeysOf
<1> QED
  BY <1>1, <1>2 DEF AllIn

LEMMA ObjectKept ==
  ASSUME TypeOK, SameContents, NEW d \in Dbs, ObjectStores(d), Free(d)' => Free(d),
         saved'[d] = saved[d], writes'[d] = writes[d], retries'[d] = retries[d],
         open'[d] = open[d], transaction'[d] = transaction[d]
  PROVE  ObjectStores(d)'
<1>1. transaction[d] # None => transaction[d] \in DOMAIN native
  BY DEF TypeOK, Handles, None
<1>2. ASSUME transaction[d] # None, Free(d)' PROVE AllIn(d, transaction[d])'
  <2>1. PICK n \in DOMAIN native : n = transaction[d]
    BY <1>1, <1>2
  <2>2. AllIn(d, n)
    BY <1>2, <2>1 DEF ObjectStores
  <2>3. AllIn(d, n)'
    BY <2>2, AllInKept
  <2> QED
    BY <2>1, <2>3 DEF AllIn, LoggedKeys, OpKeys
<1> QED
  BY <1>2 DEF ObjectStores


\* A commit under way whose frame g comes from f.
LEMMA TurnNext ==
  ASSUME SameContents, NEW f, NEW g, TurnStores(f), g.db = f.db, g.txn = f.txn,
         f.txn # None => f.txn \in DOMAIN native,
         saved'[f.db] = saved[f.db], writes'[f.db] = writes[f.db], retries'[f.db] = retries[f.db],
         transaction'[f.db] \in {None, transaction[f.db]},
         Own(f) /\ LoopStores(f) => LoopStores(g)'
  PROVE  TurnStores(g)'
<1>1. ASSUME Own(g)' PROVE AllIn(g.db, g.txn)' /\ LoopStores(g)'
  <2>1. PICK n \in DOMAIN native : n = f.txn
    BY <1>1 DEF Own
  <2>2. Own(f)
    BY <1>1, <2>1 DEF Own, Over, SameContents
  <2>3. AllIn(f.db, n) /\ LoopStores(f)
    BY <2>1, <2>2 DEF TurnStores
  <2>4. AllIn(f.db, n)'
    BY <2>3, AllInKept
  <2> QED
    BY <2>1, <2>2, <2>3, <2>4 DEF AllIn, LoggedKeys, OpKeys
<1>2. (NDbs = 1 /\ transaction'[g.db] # None) => g.txn \in {None, transaction'[g.db]}
  BY DEF TurnStores
<1> QED
  BY <1>1, <1>2 DEF TurnStores

\* A loop that is no further than before.
LEMMA LoopNext ==
  ASSUME SameContents, NEW f, LoopStores(f), f.txn \in DOMAIN native,
         writes'[f.db] = writes[f.db],
         (~Idle /\ Top.at = "save") => (~Idle' /\ Top'.at = "save" /\ Top'.key = Top.key)
  PROVE  LoopStores(f)'
<1>1. OpKeys(f.txn)' = OpKeys(f.txn) /\ KeysOf(f.db)' = KeysOf(f.db)
  BY SameKeys DEF KeysOf
<1> QED
  BY <1>1 DEF LoopStores

LEMMA WaitKept ==
  ASSUME SameContents, NEW c, WaitStores(c), c.txn \in DOMAIN native,
         writes'[c.db] = writes[c.db], transaction'[c.db] = transaction[c.db]
  PROVE  WaitStores(c)'
<1>1. LoggedKeys(c.txn)' = LoggedKeys(c.txn) /\ KeysOf(c.db)' = KeysOf(c.db)
  BY SameKeys DEF KeysOf
<1>2. Own(c)' => Own(c)
  BY DEF Own, Over, SameContents
<1> QED
  BY <1>1, <1>2 DEF WaitStores

\* A step that leaves objects and commits alone.
LEMMA ObjectsStay ==
  ASSUME TypeOK, HandleInv, AliveInv, ObjectsInv, SameContents,
         UNCHANGED <<stack, parked, waits, writes, saved, retries, open, transaction, request>>
  PROVE  ObjectsInv'
<1>1. Turns' = Turns
  BY DEF Turns, Live
<1>2. ASSUME NEW f \in Turns PROVE TurnStores(f)'
  <2>1. TurnStores(f) /\ (f.txn # None => f.txn \in DOMAIN native)
    BY TurnType2 DEF ObjectsInv
  <2>2. Own(f) /\ LoopStores(f) => LoopStores(f)'
    BY <2>1, LoopNext DEF Own, Idle, Top
  <2> QED
    BY <2>1, <2>2, TurnNext
<1>3. ASSUME NEW c \in waits PROVE WaitStores(c)'
  BY WaitKept DEF ObjectsInv, TypeOK
<1>4. ASSUME NEW d \in Dbs PROVE ObjectStores(d)'
  <2>1. Free(d)' => Free(d)
    BY <1>1 DEF Free
  <2> QED
    BY <2>1, ObjectKept DEF ObjectsInv
<1>5. FirstSave'
  BY DEF ObjectsInv, FirstSave, Idle, Top
<1> QED
  BY <1>1, <1>2, <1>3, <1>4, <1>5 DEF ObjectsInv

LEMMA NativeCommitStores ==
  ASSUME TypeOK, HandleInv, AliveInv, StoreInv, NEW n \in DOMAIN native, NativeCommit(n)
  PROVE  StoreInv'
<1>1. /\ native[n].state = "committing"
      /\ UNCHANGED <<stack, parked, waits, writes, saved, retries, open, transaction, request>>
  BY DEF NativeCommit, objVars, callVars, reqVars
<1>2. ~Over(n)
  BY <1>1 DEF Over
<1>3. ASSUME NEW st \in {"busy", "committed"}, native' = [native EXCEPT ![n].state = st],
             \A a \in applied' : a \in applied \/ (st = "committed" /\ a.db = native[n].db)
      PROVE  StoreInv'
  <2>1. SameContents
    BY <1>2, <1>3, StateContents
  <2>2. ObjectsInv'
    BY <1>1, <2>1, ObjectsStay DEF StoreInv
  <2>3. \A m \in DOMAIN native : native'[m].state = IF m = n THEN st ELSE native[m].state
    BY <1>3, StateChange DEF TypeOK
  <2>4. \A m, k \in DOMAIN native' : native'[m].db = native'[k].db => m = k
    BY <2>1 DEF StoreInv, NativesInv, SameContents
  <2>5. ASSUME NEW m \in DOMAIN native' PROVE Consistent(m)'
    <3>1. m \in DOMAIN native /\ Consistent(m)
      BY <2>1 DEF StoreInv, NativesInv, SameContents
    <3>2. LoggedKeys(m)' = LoggedKeys(m) /\ OpKeys(m)' = OpKeys(m)
      BY <2>1, <3>1, SameKeys
    <3> QED
      BY <1>1, <2>1, <2>3, <3>1, <3>2 DEF Consistent, SameContents
  <2>6. ASSUME NEW a \in applied'
        PROVE  \E m \in DOMAIN native' : native'[m].db = a.db /\ native'[m].state = "committed"
    <3>1. CASE a \in applied
      <4>1. PICK m \in DOMAIN native : native[m].db = a.db /\ native[m].state = "committed"
        BY <3>1 DEF StoreInv, NativesInv
      <4> QED
        BY <2>1, <4>1 DEF SameContents, Over
    <3>2. CASE st = "committed" /\ a.db = native[n].db
      BY <2>1, <2>3, <3>2 DEF SameContents
    <3> QED
      BY <1>3, <3>1, <3>2
  <2> QED
    BY <2>2, <2>4, <2>5, <2>6 DEF StoreInv, NativesInv
<1>4. CASE native' = [native EXCEPT ![n].state = "busy"] /\ UNCHANGED applied
  BY <1>3, <1>4
<1>5. CASE /\ native' = [native EXCEPT ![n].state = "committed"]
           /\ applied' = applied \cup
                 {[db |-> native[n].db, key |-> op.key, base |-> op.base,
                   over |-> version[native[n].db][op.key]] : op \in native[n].ops}
  BY <1>3, <1>5
<1> QED
  BY <1>4, <1>5 DEF NativeCommit

\* A step that leaves the objects, the commits under way and the natives alone.
LEMMA NothingStores ==
  ASSUME TypeOK, HandleInv, AliveInv, StoreInv,
         UNCHANGED <<native, applied, stack, parked, waits, writes, saved, retries, open, transaction, request>>
  PROVE  StoreInv'
<1>1. SameContents
  BY UnchangedContents
<1> QED
  BY <1>1, ObjectsStay, NativesKept DEF StoreInv

LEMMA HooksStores ==
  ASSUME TypeOK, TypeOK', HandleInv, AliveInv, TurnInv, TurnInv', StoreInv,
         NEW f \in parked, HooksDone(f) \/ HookFailed(f)
  PROVE  StoreInv'
<1>1. /\ Idle /\ parked' = parked \ {f}
      /\ UNCHANGED <<native, applied, waits, writes, saved, retries, open, transaction>>
      /\ \/ stack' = <<f>> /\ UNCHANGED request
         \/ stack' = stack /\ (f.main => request' = "rejected")
  <2>1. CASE HooksDone(f)
    BY <2>1 DEF HooksDone, objVars, reqVars
  <2>2. CASE HookFailed(f)
    BY <2>2 DEF HookFailed, objVars, storeVars
  <2> QED
    BY <2>1, <2>2
<1>2. f \in Turns /\ f \in CommitFrames /\ f.at = "close" /\ f.main /\ parked = {f} /\ waits = {}
  BY DEF TypeOK, TurnInv, OneTurn, Turns, Live
<1>3. SameContents /\ NativesInv'
  BY <1>1, UnchangedContents, NativesKept DEF StoreInv
<1>4. f.db \in Dbs /\ TurnStores(f) /\ (f.txn # None => f.txn \in DOMAIN native)
  BY <1>2, TurnType2 DEF StoreInv, ObjectsInv
<1>5. Turns = {f} /\ parked' = {}
  BY <1>1, <1>2 DEF Turns, Live, FramesOf, Idle
<1>6. CASE stack' = stack /\ request' = "rejected"
  <2>1. Turns' = {} /\ Idle'
    BY <1>1, <1>5, <1>6, NoTurn DEF Idle
  <2>2. \A d \in Dbs : ObjectStores(d)'
    BY <1>1, <1>6 DEF ObjectStores, Free, StoreInv, ObjectsInv
  <2> QED
    BY <1>1, <1>2, <1>3, <2>1, <2>2 DEF StoreInv, ObjectsInv, FirstSave
<1>7. CASE stack' = <<f>> /\ UNCHANGED request
  <2>1. Turns' = {f} /\ Top' = f /\ ~Idle'
    BY <1>2, <1>5, <1>7, OneFrame
  <2>2. Own(f) /\ LoopStores(f) => LoopStores(f)'
    <3>1. Own(f) => f.txn \in DOMAIN native
      BY <1>4 DEF Own
    <3> QED
      BY <1>1, <1>3, <3>1, LoopNext
  <2>3. TurnStores(f)'
    BY <1>1, <1>3, <1>4, <2>2, TurnNext
  <2>4. ASSUME NEW d \in Dbs PROVE ObjectStores(d)'
    <3>1. Free(d)' => Free(d)
      BY <1>1, <1>5, <1>7, <2>1 DEF Free
    <3> QED
      BY <1>1, <1>3, <3>1, ObjectKept DEF StoreInv, ObjectsInv
  <2> QED
    BY <1>1, <1>2, <1>3, <2>1, <2>3, <2>4 DEF StoreInv, ObjectsInv, FirstSave
<1> QED
  BY <1>1, <1>2, <1>6, <1>7


(***************************************************************************)
(* The request and its iterators.                                          *)
(***************************************************************************)
\* Nothing is under way after a step, but perhaps a save.
LEMMA NoTurnStores ==
  ASSUME Turns' = {}, waits' = {}, \A d \in Dbs : ObjectStores(d)', FirstSave'
  PROVE  ObjectsInv'
  BY DEF ObjectsInv

\* A commit that begins.
LEMMA FrameStores ==
  ASSUME NEW f \in CommitFrames, stack' = <<f>>, parked' = {}, waits' = {}, f.at = "loop", f.i = 1,
         Own(f)' => AllIn(f.db, f.txn)',
         (NDbs = 1 /\ transaction'[f.db] # None) => f.txn \in {None, transaction'[f.db]},
         \A d \in Dbs : ObjectStores(d)'
  PROVE  ObjectsInv'
<1>1. Turns' = {f} /\ Top' = f
  BY OneFrame
<1>2. LoopStores(f)'
  <2>1. \A j \in 1 .. Len(writes'[f.db]) : ~(j < 1)
    OBVIOUS
  <2> QED
    BY <2>1 DEF LoopStores
<1>3. TurnStores(f)'
  BY <1>2 DEF TurnStores
<1>4. FirstSave'
  BY <1>1 DEF FirstSave
<1> QED
  BY <1>1, <1>3, <1>4 DEF ObjectsInv

LEMMA NoneUnderWay ==
  ASSUME stack = <<>>, parked = {}
  PROVE  Turns = {}
<1>1. FramesOf(stack) = {}
  BY DEF FramesOf
<1> QED
  BY <1>1 DEF Turns, Live

\* A commit of an object with the transaction it has.
LEMMA ObjectCommits ==
  ASSUME TypeOK, StoreInv, Turns = {}, request # "rejected", NEW d \in Dbs, NEW main \in BOOLEAN,
         stack' = <<CommitFrame(d, None, main)>>, parked' = {}, waits' = {},
         UNCHANGED <<native, applied, writes, saved, retries, open, transaction>>
  PROVE  StoreInv'
<1>1. PICK f \in CommitFrames : f = CommitFrame(d, None, main)
  BY FrameTypes DEF None
<1>2. f.at = "loop" /\ f.db = d /\ f.i = 1 /\ f.txn = transaction[d]
  BY <1>1 DEF CommitFrame
<1>3. SameContents /\ NativesInv'
  BY UnchangedContents, NativesKept DEF StoreInv
<1>4. \A e \in Dbs : Free(e)
  BY DEF Free
<1>5. \A e \in Dbs : ObjectStores(e)'
  BY <1>3, <1>4, ObjectKept DEF StoreInv, ObjectsInv
<1>6. ASSUME Own(f)' PROVE AllIn(f.db, f.txn)'
  <2>1. PICK n \in DOMAIN native : n = transaction[d]
    BY <1>2, <1>6 DEF Own, TypeOK, Handles, None
  <2>2. AllIn(d, n)
    BY <1>2, <1>4, <1>6, <2>1 DEF Own, StoreInv, ObjectsInv, ObjectStores
  <2>3. AllIn(d, n)'
    BY <1>3, <2>2, AllInKept
  <2> QED
    BY <1>2, <2>1, <2>3
<1>7. ObjectsInv'
  BY <1>1, <1>2, <1>5, <1>6, FrameStores
<1> QED
  BY <1>3, <1>7 DEF StoreInv

LEMMA CommitStores ==
  ASSUME TypeOK, QuietInv, StoreInv, Alive, Commit
  PROVE  StoreInv'
<1>1. /\ stack = <<>> /\ stack' = <<CommitFrame(1, None, TRUE)>>
      /\ UNCHANGED <<native, applied, writes, saved, retries, open, transaction, parked, waits>>
  BY DEF Commit, Running, Idle, objVars, storeVars
<1>2. NothingGiven /\ request = "running"
  BY RunningFacts DEF Commit
<1>3. Turns = {} /\ parked' = {} /\ waits' = {}
  BY <1>1, <1>2, NoneUnderWay DEF NothingGiven
<1> QED
  BY <1>1, <1>2, <1>3, DbsType, ObjectCommits

LEMMA ScanDoneStores ==
  ASSUME TypeOK, TypeOK', HandleInv, AliveInv, AliveInv', LingerInv, TurnInv, StoreInv,
         NEW s \in Scans, ScanDone(s)
  PROVE  StoreInv'
<1>1. /\ Idle /\ DoneReadTxn(scan[s].db)
      /\ UNCHANGED <<applied, open, writes, saved, retries, parked, waits, request>>
  BY DEF ScanDone
<1>2. PICK d \in Dbs : d = scan[s].db
  BY DEF TypeOK
<1>3. transaction[d] \in Nat /\ transaction[d] \in 0 .. Len(native) /\ DOMAIN native = 1 .. Len(native)
  BY DEF TypeOK, Handles
<1>4. CASE UNCHANGED <<native, stack, transaction>>
  BY <1>1, <1>4, NothingStores
<1>5. CASE /\ native' = NativeAbort(transaction[d]) /\ stack' = <<>>
           /\ transaction' = Cleared(d) /\ transaction[d] # None
  <2>1. SameContents /\ NativesInv'
    BY <1>1, <1>3, <1>5, AbortContents, NativesKept DEF StoreInv
  <2>2. Turns' = Turns /\ Idle'
    BY <1>1, <1>5 DEF Turns, Live, Idle
  <2>3. transaction'[d] = None /\ \A e \in Dbs : e # d => transaction'[e] = transaction[e]
    BY <1>5 DEF Cleared, TypeOK
  <2>4. ASSUME NEW f \in Turns PROVE TurnStores(f)'
    <3>1. TurnStores(f) /\ f.db \in Dbs /\ (f.txn # None => f.txn \in DOMAIN native)
      BY TurnType2 DEF StoreInv, ObjectsInv
    <3>2. Own(f) /\ LoopStores(f) => LoopStores(f)'
      <4>1. Own(f) => f.txn \in DOMAIN native
        BY <3>1 DEF Own
      <4> QED
        BY <1>1, <2>1, <3>1, <4>1, LoopNext
    <3> QED
      BY <1>1, <2>1, <2>3, <3>1, <3>2, TurnNext
  <2>5. ASSUME NEW c \in waits PROVE WaitStores(c)'
    <3>1. WaitStores(c) /\ c.txn \in DOMAIN native /\ c.db \in Dbs
      BY DEF StoreInv, ObjectsInv, TypeOK, Awaiting
    <3>2. transaction'[c.db] = transaction[c.db]
      BY <2>3, <3>1 DEF WaitStores
    <3> QED
      BY <1>1, <2>1, <3>1, <3>2, WaitKept
  <2>6. open'[d] # "OPEN"
    <3>1. PICK n \in DOMAIN native : n = transaction[d]
      BY <1>3, <1>5 DEF None
    <3>2. native[n].db = d
      BY <1>5, <3>1 DEF HandleInv, OwnHandle
    <3>3. n \in DOMAIN native' /\ native'[n].db = d
      BY <2>1, <3>1, <3>2 DEF SameContents
    <3>4. n # transaction'[d]
      BY <1>3, <1>5, <2>3, <3>1
    <3> QED
      BY <3>3, <3>4 DEF AliveInv, OpenKeeps
  <2>7. ASSUME NEW e \in Dbs PROVE ObjectStores(e)'
    <3>1. CASE e = d
      BY <2>3, <2>6, <3>1 DEF ObjectStores
    <3>2. CASE e # d
      <4>1. transaction'[e] = transaction[e]
        BY <2>3, <3>2
      <4>2. Free(e)' => Free(e)
        BY <1>1, <2>2, <4>1 DEF Free
      <4> QED
        BY <1>1, <2>1, <4>1, <4>2, ObjectKept DEF StoreInv, ObjectsInv
    <3> QED
      BY <3>1, <3>2
  <2>8. FirstSave'
    BY <2>2 DEF FirstSave
  <2> QED
    BY <1>1, <2>1, <2>2, <2>4, <2>5, <2>7, <2>8 DEF StoreInv, ObjectsInv
<1>6. CASE /\ open[d] = "LINGERING" /\ stack' = <<CommitFrame(d, None, FALSE)>> \o <<>>
           /\ UNCHANGED <<native, transaction>>
  <2>1. request = "resolved" /\ parked = {} /\ waits = {}
    BY <1>6 DEF LingerInv, TurnInv
  <2>2. Turns = {} /\ stack' = <<CommitFrame(d, None, FALSE)>>
    BY <1>1, <1>6, <2>1, NoneUnderWay DEF Idle
  <2> QED
    BY <1>1, <1>6, <2>1, <2>2, ObjectCommits
<1> QED
  BY <1>1, <1>2, <1>4, <1>5, <1>6 DEF DoneReadTxn, LastUse

\* A read transaction that is started, or the one there is.
LEMMA ReadContents ==
  ASSUME TypeOK, NEW d \in Dbs, NEW more, GetReadTxn(d, more)
  PROVE  /\ DOMAIN native \subseteq DOMAIN native'
         /\ \A n \in DOMAIN native : native'[n] = native[n]
         /\ \A n \in DOMAIN native' :
               n \in DOMAIN native \/ (n = transaction'[d] /\ native'[n] = FreshNative(d))
         /\ \A e \in Dbs :
               \/ transaction'[e] = transaction[e]
               \/ e = d /\ transaction[e] = None /\ native'[transaction'[e]] = FreshNative(e)
<1>1. native \in Seq(NativeTxn) /\ DOMAIN native = 1 .. Len(native) /\ Len(native) \in Nat
      /\ transaction \in [Dbs -> 0 .. Len(native)]
  BY DEF TypeOK, Handles
<1>2. native' = NativesOf(d) /\ transaction' = [transaction EXCEPT ![d] = ReadTxn(d)]
  BY DEF GetReadTxn
<1>3. CASE ~StartsNative(d)
  BY <1>1, <1>2, <1>3 DEF NativesOf, ReadTxn
<1>4. CASE StartsNative(d)
  <2>1. native' = Append(native, FreshNative(d)) /\ transaction' = [transaction EXCEPT ![d] = Len(native) + 1]
        /\ transaction[d] = None
    BY <1>2, <1>4 DEF StartsNative, NativesOf, ReadTxn
  <2>2. /\ native'[Len(native) + 1] = FreshNative(d)
        /\ \A n \in 1 .. Len(native) : native'[n] = native[n]
        /\ DOMAIN native' = 1 .. (Len(native) + 1)
    BY <1>1, <2>1, FreshType, AppendProperties
  <2>3. transaction'[d] = Len(native) + 1 /\ \A e \in Dbs : e # d => transaction'[e] = transaction[e]
    BY <1>1, <2>1
  <2> QED
    BY <1>1, <2>1, <2>2, <2>3
<1> QED
  BY <1>3, <1>4

LEMMA FreshContents ==
  ASSUME NEW d, NEW n, native'[n] = FreshNative(d)
  PROVE  /\ LoggedKeys(n)' = {} /\ OpKeys(n)' = {} /\ native'[n].db = d /\ native'[n].ops = {}
         /\ \A k \in Keys : native'[n].log[k] = 0
         /\ native'[n].state = "open" /\ native'[n].isRetry = FALSE
<1>1. /\ native'[n].db = d /\ native'[n].ops = {} /\ \A k \in Keys : native'[n].log[k] = 0
      /\ native'[n].state = "open" /\ native'[n].isRetry = FALSE
  BY DEF FreshNative
<1> QED
  BY <1>1 DEF LoggedKeys, OpKeys

\* A native transaction that is started is the first of its database.
LEMMA FreshNatives ==
  ASSUME NativesInv, UNCHANGED <<applied, retries>>, NEW d \in Dbs, NEW h,
         DOMAIN native \subseteq DOMAIN native',
         \A n \in DOMAIN native : native'[n] = native[n],
         \A n \in DOMAIN native' : n \in DOMAIN native \/ (n = h /\ native'[n] = FreshNative(d)),
         h \notin DOMAIN native => \A n \in DOMAIN native : native[n].db # d
  PROVE  NativesInv'
<1>1. ASSUME NEW m \in DOMAIN native', NEW n \in DOMAIN native', native'[m].db = native'[n].db
      PROVE  m = n
  <2>1. FreshNative(d).db = d
    BY DEF FreshNative
  <2> QED
    BY <1>1, <2>1 DEF NativesInv
<1>2. ASSUME NEW n \in DOMAIN native' PROVE Consistent(n)'
  <2>1. CASE n \in DOMAIN native
    <3>1. Consistent(n)
      BY <2>1 DEF NativesInv
    <3>2. native'[n] = native[n]
      BY <2>1
    <3>3. LoggedKeys(n)' = LoggedKeys(n) /\ OpKeys(n)' = OpKeys(n)
      BY <3>2 DEF LoggedKeys, OpKeys
    <3> QED
      BY <3>1, <3>2, <3>3 DEF Consistent
  <2>2. CASE native'[n] = FreshNative(d)
    <3>1. /\ LoggedKeys(n)' = {} /\ OpKeys(n)' = {} /\ native'[n].ops = {}
          /\ \A k \in Keys : native'[n].log[k] = 0
          /\ native'[n].state = "open" /\ native'[n].isRetry = FALSE
      <4>1. native'[n].ops = {} /\ native'[n].state = "open" /\ native'[n].isRetry = FALSE
            /\ \A k \in Keys : native'[n].log[k] = 0
        BY <2>2 DEF FreshNative
      <4> QED
        BY <4>1 DEF LoggedKeys, OpKeys
    <3> QED
      BY <3>1 DEF Consistent
  <2> QED
    BY <2>1, <2>2
<1>3. ASSUME NEW a \in applied'
      PROVE  \E n \in DOMAIN native' : native'[n].db = a.db /\ native'[n].state = "committed"
  <2>1. PICK n \in DOMAIN native : native[n].db = a.db /\ native[n].state = "committed"
    BY DEF NativesInv
  <2> QED
    BY <2>1
<1> QED
  BY <1>1, <1>2, <1>3 DEF NativesInv


\* What a step of the request's function does for one object: the transaction
\* it has stays, or it gets its first, and what it saved is as it was.
LEMMA RunningObject ==
  ASSUME TypeOK, NEW d \in Dbs, ObjectStores(d), Free(d), open[d] = "OPEN",
         saved'[d] = saved[d], retries'[d] = retries[d],
         KeysOf(d)' \cap saved[d] = KeysOf(d) \cap saved[d],
         \A n \in DOMAIN native : native'[n] = native[n],
         \/ transaction'[d] = transaction[d]
         \/ transaction[d] = None /\ native'[transaction'[d]] = FreshNative(d),
         open'[d] = "OPEN"
  PROVE  ObjectStores(d)'
<1>1. ~(retries'[d] > 0)
  BY DEF ObjectStores
<1>2. CASE transaction'[d] = transaction[d] /\ transaction[d] # None
  <2>1. PICK n \in DOMAIN native : n = transaction[d]
    BY <1>2 DEF TypeOK, Handles, None
  <2>2. LoggedKeys(n)' = LoggedKeys(n) /\ OpKeys(n)' = OpKeys(n)
    BY <2>1 DEF LoggedKeys, OpKeys
  <2>3. AllIn(d, n)
    BY <1>2, <2>1 DEF ObjectStores
  <2>4. AllIn(d, n)'
    BY <2>2, <2>3 DEF AllIn
  <2> QED
    BY <1>1, <1>2, <2>1, <2>4 DEF ObjectStores
<1>3. CASE transaction'[d] = transaction[d] /\ transaction[d] = None
  BY <1>1, <1>3 DEF ObjectStores
<1>4. CASE transaction[d] = None /\ native'[transaction'[d]] = FreshNative(d)
  <2>1. saved[d] = {}
    BY <1>4 DEF ObjectStores
  <2>2. PICK n : n = transaction'[d]
    OBVIOUS
  <2>3. LoggedKeys(n)' = {} /\ OpKeys(n)' = {}
    BY <1>4, <2>2, FreshContents
  <2>4. AllIn(d, n)'
    BY <2>1, <2>3 DEF AllIn
  <2> QED
    BY <1>1, <2>1, <2>2, <2>4 DEF ObjectStores
<1> QED
  BY <1>2, <1>3, <1>4

\* A step of the request's function, as it concerns natives and objects.
LEMMA RunningStores ==
  ASSUME TypeOK, TypeOK', HandleInv, QuietInv, QuietInv', AliveInv, StoreInv, Alive, Proceeds,
         NEW d \in Dbs,
         \/ \E more \in {0, 1} : GetReadTxn(d, more)
         \/ UNCHANGED <<native, transaction>>,
         \A e \in Dbs : KeysOf(e)' \cap saved[e] = KeysOf(e) \cap saved[e],
         FirstSave'
  PROVE  StoreInv'
<1>1. /\ Idle /\ request = "running" /\ request' = "running"
      /\ \A e \in Dbs : open[e] = "OPEN"
      /\ UNCHANGED <<saved, retries, parked, waits, applied>>
  BY ProceedsEffect
<1>2. /\ parked = {} /\ waits = {} /\ parked' = {} /\ waits' = {}
      /\ \A e \in Dbs : open'[e] = "OPEN"
      /\ \A f \in FramesOf(stack') : f.at = "save"
  BY <1>1 DEF QuietInv, NothingGiven
<1>3. Turns = {}
  BY <1>1, <1>2, NoneUnderWay DEF Idle
<1>4. Turns' = {}
  BY <1>2 DEF Turns, Live
<1>5. \A e \in Dbs : Free(e)
  BY <1>1, <1>3 DEF Free
<1>6. CASE UNCHANGED <<native, transaction>>
  <2>1. \A e \in Dbs : ObjectStores(e)'
    BY <1>1, <1>2, <1>5, <1>6, RunningObject DEF StoreInv, ObjectsInv
  <2>2. ObjectsInv'
    BY <1>2, <1>4, <2>1, NoTurnStores
  <2>3. SameContents
    BY <1>6, UnchangedContents
  <2>4. NativesInv'
    BY <1>1, <1>6, <2>3, NativesKept DEF StoreInv
  <2> QED
    BY <2>2, <2>4 DEF StoreInv
<1>7. ASSUME NEW more \in {0, 1}, GetReadTxn(d, more) PROVE StoreInv'
  <2>1. /\ DOMAIN native \subseteq DOMAIN native'
        /\ \A n \in DOMAIN native : native'[n] = native[n]
        /\ \A n \in DOMAIN native' :
              n \in DOMAIN native \/ (n = transaction'[d] /\ native'[n] = FreshNative(d))
        /\ \A e \in Dbs :
              \/ transaction'[e] = transaction[e]
              \/ e = d /\ transaction[e] = None /\ native'[transaction'[e]] = FreshNative(e)
    BY <1>7, ReadContents
  <2>2. \A e \in Dbs : ObjectStores(e)'
    BY <1>1, <1>2, <1>5, <2>1, RunningObject DEF StoreInv, ObjectsInv
  <2>3. ObjectsInv'
    BY <1>2, <1>4, <2>2, NoTurnStores
  <2>4. PICK h : h = transaction'[d]
    OBVIOUS
  <2>5. h \notin DOMAIN native => \A n \in DOMAIN native : native[n].db # d
    <3>1. ASSUME h \notin DOMAIN native, NEW n \in DOMAIN native, native[n].db = d
          PROVE  FALSE
      <4>1. n = transaction[d] /\ n # None
        BY <1>1, <3>1 DEF AliveInv, OpenKeeps, TypeOK, None
      <4> QED
        BY <2>1, <2>4, <3>1, <4>1
    <3> QED
      BY <3>1
  <2>6. NativesInv'
    BY <1>1, <2>1, <2>4, <2>5, FreshNatives DEF StoreInv
  <2> QED
    BY <2>3, <2>6 DEF StoreInv
<1> QED
  BY <1>6, <1>7

LEMMA ProceedsStores ==
  ASSUME TypeOK, TypeOK', HandleInv, QuietInv, QuietInv', AliveInv, StoreInv, Alive, Proceeds
  PROVE  StoreInv'
<1>1. ASSUME NEW d \in Dbs, NEW k \in Keys, NEW kind,
             NewWrite(d, k, kind), SaveUnlessDeferred(d, k, kind),
             GetReadTxn(d, 0) \/ UNCHANGED <<native, transaction>>
      PROVE  StoreInv'
  <2>1. k \notin saved[d] /\ UNCHANGED saved /\ IssuedFirst
    BY <1>1, ProceedsEffect DEF AliveInv, IssuedFirst, NewWrite
  <2>2. \A e \in Dbs : KeysOf(e)' \cap saved[e] = KeysOf(e) \cap saved[e]
    BY <1>1, <2>1, NewWriteKeys
  <2>3. FirstSave'
    <3>1. ~Idle' => Top'.key \notin saved'[Top'.db]
      BY <1>1, <2>1, NewWriteTop DEF Unsaved
    <3> QED
      BY <3>1 DEF FirstSave
  <2> QED
    BY <1>1, <2>2, <2>3, RunningStores
<1>2. ASSUME NEW s \in Scans, NEW d \in Dbs, ScanStart(s, d) PROVE StoreInv'
  <2>1. /\ GetReadTxn(d, 1) /\ UNCHANGED <<writes, stack>> /\ Idle
    BY <1>2 DEF ScanStart, callVars, Running
  <2>2. FirstSave' /\ \A e \in Dbs : KeysOf(e)' \cap saved[e] = KeysOf(e) \cap saved[e]
    BY <2>1 DEF FirstSave, Idle, KeysOf
  <2> QED
    BY <2>1, <2>2, RunningStores
<1>3. ASSUME NEW d \in Dbs, NEW k \in Keys, NEW kind \in Kinds, Write(d, k, kind) PROVE StoreInv'
  BY <1>1, <1>3 DEF Write
<1>4. ASSUME NEW d \in Dbs, NEW k \in Keys, Event(d, k) PROVE StoreInv'
  BY <1>1, <1>4 DEF Event, storeVars
<1> QED
  BY <1>2, <1>3, <1>4 DEF Proceeds


(***************************************************************************)
(* The loop of commit.                                                     *)
(***************************************************************************)
\* The commit on top of the stack goes on as frame g.
LEMMA NextFrameStores ==
  ASSUME TypeOK, HandleInv, AliveInv, TurnInv, StoreInv, ~Idle, Top.at \in {"loop", "close"},
         NEW g, g.db = Top.db, g.txn = Top.txn, Turns' = {g}, waits' = {},
         UNCHANGED <<native, applied, writes, saved, retries, open, transaction, request>>,
         Own(Top) /\ AllIn(Top.db, Top.txn) /\ LoopStores(Top) => LoopStores(g)',
         FirstSave'
  PROVE  StoreInv'
<1>1. Turns = {Top}
  BY TopAlone
<1>2. SameContents /\ NativesInv'
  BY UnchangedContents, NativesKept DEF StoreInv
<1>3. PICK f : f = Top
  OBVIOUS
<1>4. f \in Turns /\ TurnStores(f) /\ (f.txn # None => f.txn \in DOMAIN native)
  BY <1>1, <1>3, TurnType2 DEF StoreInv, ObjectsInv
<1>5. Own(f) /\ LoopStores(f) => LoopStores(g)'
  BY <1>3, <1>4 DEF TurnStores
<1>6. TurnStores(g)'
  BY <1>2, <1>3, <1>4, <1>5, TurnNext
<1>7. ASSUME NEW e \in Dbs PROVE ObjectStores(e)'
  <2>1. Free(e)' => Free(e)
    BY <1>1 DEF Free
  <2> QED
    BY <1>2, <2>1, ObjectKept DEF StoreInv, ObjectsInv
<1> QED
  BY <1>2, <1>6, <1>7 DEF StoreInv, ObjectsInv

LEMMA CommitWriteStores ==
  ASSUME TypeOK, TypeOK', HandleInv, AliveInv, TurnInv, StoreInv, CommitWrite
  PROVE  StoreInv'
<1>1. /\ ~Idle /\ Top.at = "loop" /\ Top.i <= Len(writes[Top.db])
      /\ stack' = IF retries[Top.db] = 0 /\ TurnKey \in saved[Top.db]
                  THEN <<Turn>> \o Tail(stack)
                  ELSE <<TurnSave>> \o (<<Turn>> \o Tail(stack))
      /\ UNCHANGED <<native, applied, writes, saved, retries, open, transaction, request, parked, waits>>
  BY CommitWriteEffect DEF objVars, reqVars, storeVars
<1>2. Tail(stack) = <<>> /\ parked = {} /\ waits = {} /\ Top.db \in Dbs
  BY <1>1, TopAlone
<1>3. PICK g \in CommitFrames, save \in SaveFrames : g = Turn /\ save = TurnSave
  BY <1>1, TurnType
<1>4. /\ g.at = "loop" /\ g.db = Top.db /\ g.txn = Top.txn /\ g.i = Top.i + 1
      /\ save.db = Top.db /\ save.key = TurnKey /\ save.at = "save"
      /\ Top.i \in 1 .. Len(writes[Top.db])
  BY <1>1, <1>3, TurnType
<1>5. Len(writes[Top.db]) \in Nat /\ Top.i \in Nat
  <2>1. writes[Top.db] \in Seq(Keys)
    BY <1>2 DEF TypeOK
  <2>2. Top \in CommitFrames
    BY <1>1, TopAlone
  <2> QED
    BY <2>1, <2>2 DEF CommitFrames
<1>6. TurnKey \in KeysOf(Top.db)
  BY <1>4 DEF KeysOf, TurnKey
<1>7. OpKeys(g.txn)' = OpKeys(g.txn)
  BY <1>1 DEF OpKeys
<1>8. ASSUME LoopStores(Top), TurnKey \in OpKeys(g.txn) \/ (~Idle' /\ Top'.at = "save" /\ Top'.key = TurnKey)
      PROVE  LoopStores(g)'
  <2> SUFFICES ASSUME NEW j \in 1 .. Len(writes[Top.db]), j < Top.i + 1
               PROVE  \/ writes[Top.db][j] \in OpKeys(g.txn)
                      \/ ~Idle' /\ Top'.at = "save" /\ Top'.key = writes[Top.db][j]
    BY <1>1, <1>4, <1>7 DEF LoopStores
  <2>1. CASE j = Top.i
    BY <1>8, <2>1 DEF TurnKey
  <2>2. CASE j # Top.i
    <3>1. j < Top.i
      BY <1>5, <2>2
    <3> QED
      BY <1>1, <1>4, <1>8, <3>1 DEF LoopStores
  <2> QED
    BY <2>1, <2>2
<1>9. CASE retries[Top.db] = 0 /\ TurnKey \in saved[Top.db]
  <2>1. stack' = <<g>>
    <3>1. <<g>> \o <<>> = <<g>>
      OBVIOUS
    <3> QED
      BY <1>1, <1>2, <1>3, <1>9, <3>1
  <2>2. Turns' = {g} /\ Top' = g
    BY <1>1, <1>2, <2>1, OneFrame
  <2>3. FirstSave'
    BY <1>4, <2>2 DEF FirstSave
  <2>4. AllIn(Top.db, Top.txn) => TurnKey \in OpKeys(g.txn)
    BY <1>4, <1>6, <1>9 DEF AllIn
  <2>5. Own(Top) /\ AllIn(Top.db, Top.txn) /\ LoopStores(Top) => LoopStores(g)'
    BY <1>8, <2>4
  <2> QED
    BY <1>1, <1>2, <1>4, <2>2, <2>3, <2>5, NextFrameStores
<1>10. CASE ~(retries[Top.db] = 0 /\ TurnKey \in saved[Top.db])
  <2>1. stack' = <<save>> \o <<g>>
    <3>1. <<g>> \o <<>> = <<g>>
      OBVIOUS
    <3> QED
      BY <1>1, <1>2, <1>3, <1>10, <3>1
  <2>2. Turns' = {g} /\ Top' = save /\ ~Idle'
    BY <1>1, <1>2, <2>1, SaveAbove
  <2>3. FirstSave'
    <3>1. Top'.db = Top.db /\ Top'.key = TurnKey
      BY <1>4, <2>2
    <3>2. retries'[Top.db] # 0 \/ TurnKey \notin saved'[Top.db]
      BY <1>1, <1>10
    <3> QED
      BY <3>1, <3>2 DEF FirstSave
  <2>4. Own(Top) /\ AllIn(Top.db, Top.txn) /\ LoopStores(Top) => LoopStores(g)'
    BY <1>4, <1>8, <2>2
  <2> QED
    BY <1>1, <1>2, <1>4, <2>2, <2>3, <2>4, NextFrameStores
<1> QED
  BY <1>9, <1>10

LEMMA CommitValidatedStores ==
  ASSUME TypeOK, HandleInv, AliveInv, TurnInv, StoreInv, CommitValidated
  PROVE  StoreInv'
<1>1. /\ ~Idle /\ Top.at = "loop" /\ Top.i > Len(writes[Top.db])
      /\ UNCHANGED <<native, applied, writes, saved, retries, open, transaction, request, waits>>
  BY DEF CommitValidated, reqVars, storeVars
<1>2. /\ stack = <<Top>> /\ Tail(stack) = <<>> /\ parked = {} /\ waits = {} /\ Top.db \in Dbs
      /\ Top \in CommitFrames
  BY <1>1, TopAlone
<1>3. PICK g \in CommitFrames :
            /\ g.at = "close" /\ g.db = Top.db /\ g.txn = Top.txn
            /\ \/ parked' = parked \cup {g} /\ stack' = Tail(stack)
               \/ parked' = parked /\ stack' = <<g>> \o Tail(stack)
  BY <1>1, CloseFrame
<1>4. Len(writes[Top.db]) \in Nat /\ Top.i \in Nat
  <2>1. writes[Top.db] \in Seq(Keys)
    BY <1>2 DEF TypeOK
  <2> QED
    BY <1>2, <2>1 DEF CommitFrames
<1>5. Own(Top) /\ AllIn(Top.db, Top.txn) /\ LoopStores(Top) => LoopStores(g)'
  <2> SUFFICES ASSUME LoopStores(Top) PROVE LoopStores(g)'
    OBVIOUS
  <2>1. \A j \in 1 .. Len(writes[Top.db]) : j < Top.i
    BY <1>1, <1>4
  <2>2. KeysOf(Top.db) \subseteq OpKeys(Top.txn)
    BY <1>1, <2>1 DEF LoopStores, KeysOf
  <2>3. KeysOf(g.db)' = KeysOf(Top.db) /\ OpKeys(g.txn)' = OpKeys(Top.txn)
    BY <1>1, <1>3 DEF KeysOf, OpKeys
  <2> QED
    BY <1>3, <2>2, <2>3 DEF LoopStores
<1>6. CASE parked' = parked \cup {g} /\ stack' = Tail(stack)
  <2>1. parked' = {g} /\ stack' = <<>>
    BY <1>2, <1>6
  <2>2. Turns' = {g} /\ Idle'
    BY <1>3, <2>1 DEF Turns, Live, FramesOf, Idle
  <2> QED
    BY <1>1, <1>2, <1>3, <1>5, <2>2, NextFrameStores DEF FirstSave
<1>7. CASE parked' = parked /\ stack' = <<g>> \o Tail(stack)
  <2>1. <<g>> \o <<>> = <<g>>
    OBVIOUS
  <2>2. stack' = <<g>> /\ parked' = {}
    BY <1>2, <1>7, <2>1
  <2>3. Turns' = {g} /\ Top' = g
    BY <2>2, OneFrame
  <2>4. FirstSave'
    BY <1>3, <2>3 DEF FirstSave
  <2> QED
    BY <1>1, <1>2, <1>3, <1>5, <2>3, <2>4, NextFrameStores
<1> QED
  BY <1>3, <1>6, <1>7


(***************************************************************************)
(* The end of a commit.                                                    *)
(***************************************************************************)
\* A commit of d that settled: the next database of the chain, or nothing.
LEMMA NextStores ==
  ASSUME TypeOK, TypeOK', TurnInv', StoreInv, SameContents, NativesInv',
         NEW d \in Dbs, NEW opt \in Nat, NEW main \in BOOLEAN,
         AfterCommit(d, opt, main, <<>>), parked' = {}, waits' = {},
         opt # None => Over(opt)', \A f \in Turns : f.db = d,
         \A e \in Dbs : e # d =>
            /\ saved'[e] = saved[e] /\ writes'[e] = writes[e] /\ retries'[e] = retries[e]
            /\ open'[e] = open[e] /\ transaction'[e] = transaction[e],
         ObjectStores(d)'
  PROVE  StoreInv'
<1>1. request = "rejected" => request' = "rejected"
  BY NextNotClosing
<1>2. ASSUME NEW e \in Dbs PROVE ObjectStores(e)'
  <2>1. CASE e = d
    BY <2>1
  <2>2. CASE e # d
    <3>1. Free(e)' => Free(e)
      BY <1>1, <2>2 DEF Free
    <3> QED
      BY <2>2, <3>1, ObjectKept DEF StoreInv, ObjectsInv
  <2> QED
    BY <2>1, <2>2
<1>3. CASE stack' = <<>>
  <2>1. Turns' = {} /\ Idle'
    BY <1>3, NoTurn DEF Idle
  <2>2. FirstSave'
    BY <2>1 DEF FirstSave
  <2> QED
    BY <1>2, <2>1, <2>2, NoTurnStores DEF StoreInv
<1>4. CASE d < NDbs /\ stack' = <<CommitFrame(d + 1, opt, main)>> \o <<>>
  <2>1. d + 1 \in Dbs /\ d + 1 # d /\ NDbs # 1
    BY <1>4, ChainAssumption DEF Dbs
  <2>2. PICK f \in CommitFrames : f = CommitFrame(d + 1, opt, main)
    BY <2>1, FrameTypes
  <2>3. /\ f.at = "loop" /\ f.i = 1 /\ f.db = d + 1 /\ f.main = main
        /\ f.txn = IF opt # None THEN opt ELSE transaction[d + 1]
    BY <2>2 DEF CommitFrame
  <2>4. stack' = <<f>>
    BY <1>4, <2>2
  <2>5. Turns' = {f}
    BY <2>4, OneFrame
  <2>6. request' # "rejected"
    BY <2>3, <2>5 DEF TurnInv, Place
  <2>7. ASSUME Own(f)' PROVE AllIn(f.db, f.txn)'
    <3>1. native'[f.txn].state \notin {"committed", "aborted"} /\ f.txn # None
      BY <2>7 DEF Own, Over
    <3>2. opt = None /\ f.txn = transaction'[d + 1] /\ transaction'[d + 1] # None
      BY <2>1, <2>3, <3>1 DEF Over
    <3>3. Free(d + 1)'
      BY <2>3, <2>5, <2>6, <3>2 DEF Free
    <3> QED
      BY <1>2, <2>1, <2>3, <3>2, <3>3 DEF ObjectStores
  <2>8. ObjectsInv'
    BY <1>2, <2>1, <2>3, <2>4, <2>7, FrameStores
  <2> QED
    BY <2>8 DEF StoreInv
<1> QED
  BY <1>3, <1>4 DEF AfterCommit

LEMMA CommitLingersStores ==
  ASSUME OneCommit, TypeOK, TypeOK', UsedInv, TurnInv, TurnInv', StoreInv, CommitLingers
  PROVE  StoreInv'
<1>1. /\ ~Idle /\ Top.at = "close" /\ StillRead(Top.db)
      /\ open' = [open EXCEPT ![Top.db] = LeftOpen(Top.db)]
      /\ AfterCommit(Top.db, Top.opt, Top.main, Tail(stack))
      /\ UNCHANGED <<parked, waits, native, applied, writes, saved, retries, transaction>>
  BY DEF CommitLingers, storeVars
<1>2. /\ Tail(stack) = <<>> /\ parked = {} /\ waits = {} /\ Top.db \in Dbs
      /\ Top.opt \in Nat /\ Top.main \in BOOLEAN /\ Turns = {Top}
  BY <1>1, TopAlone
<1>3. NDbs = 1
  BY <1>1, <1>2, LastReader DEF OneCommit
<1>4. PICK d \in Dbs, opt \in Nat, main \in BOOLEAN : d = Top.db /\ opt = Top.opt /\ main = Top.main
  BY <1>2
<1>5. Dbs = {d} /\ ~(d < NDbs)
  BY <1>3 DEF Dbs
<1>6. stack' = <<>> /\ (request = "rejected" => request' = "rejected")
  BY <1>1, <1>2, <1>4, <1>5 DEF AfterCommit
<1>7. SameContents /\ NativesInv'
  BY <1>1, UnchangedContents, NativesKept DEF StoreInv
<1>8. open'[d] # "OPEN"
  BY <1>1, <1>4 DEF TypeOK, LeftOpen
<1>9. ObjectStores(d)'
  <2>1. TurnStores(Top) /\ ObjectStores(d)
    BY <1>2 DEF StoreInv, ObjectsInv
  <2>2. ASSUME Free(d)', transaction[d] # None PROVE AllIn(d, transaction[d])'
    <3>1. request # "rejected"
      BY <1>6, <2>2 DEF Free
    <3>2. Free(d)
      BY <1>2, <1>3, <1>4, <2>1, <2>2, <3>1 DEF Free, TurnStores
    <3>3. AllIn(d, transaction[d])
      BY <2>1, <2>2, <3>2 DEF ObjectStores
    <3> QED
      BY <1>1, <3>3 DEF AllIn, LoggedKeys, OpKeys, KeysOf
  <2> QED
    BY <1>1, <1>8, <2>2 DEF ObjectStores
<1>10. Turns' = {} /\ Idle'
  BY <1>1, <1>2, <1>6, NoTurn DEF Idle
<1>11. FirstSave'
  BY <1>10 DEF FirstSave
<1>12. \A e \in Dbs : ObjectStores(e)'
  BY <1>5, <1>9
<1> QED
  BY <1>1, <1>2, <1>7, <1>10, <1>11, <1>12, NoTurnStores DEF StoreInv

LEMMA CommitClosesStores ==
  ASSUME TypeOK, TypeOK', HandleInv, AliveInv, TurnInv, TurnInv', StoreInv, CommitCloses
  PROVE  StoreInv'
<1>1. /\ ~Idle /\ Top.at = "close"
      /\ open' = [open EXCEPT ![Top.db] = "CLOSED"]
      /\ transaction' = Cleared(Top.db)
      /\ UNCHANGED <<parked, applied, writes, saved, retries>>
  BY DEF CommitCloses
<1>2. /\ Tail(stack) = <<>> /\ parked = {} /\ waits = {} /\ FramePlace(Top)
      /\ Turns = {Top} /\ Top.db \in Dbs
      /\ Top.opt \in Nat /\ Top.txn \in Nat /\ Top.main \in BOOLEAN
  BY <1>1, TopAlone
<1>3. PICK d \in Dbs, opt \in Nat, n \in Nat, main \in BOOLEAN :
               d = Top.db /\ opt = Top.opt /\ n = Top.txn /\ main = Top.main
  BY <1>2
<1>4. /\ n # None => n \in DOMAIN native
      /\ opt # None => n = opt
  BY <1>2, <1>3, TurnType2
<1>5. /\ open'[d] = "CLOSED" /\ transaction'[d] = None
      /\ \A e \in Dbs : e # d => open'[e] = open[e] /\ transaction'[e] = transaction[e]
  BY <1>1, <1>3 DEF TypeOK, Cleared
<1>6. native \in Seq(NativeTxn) /\ DOMAIN native = 1 .. Len(native)
  BY DEF TypeOK
<1>7. ObjectStores(d)'
  BY <1>5 DEF ObjectStores
<1>8. n # None => native[n].state = "open" \/ Over(n)
  BY <1>2, <1>3 DEF FramePlace
<1>9. ASSUME n # None,
             native' = [native EXCEPT ![n].state = IF @ = "open" THEN "committing" ELSE @],
             waits' = waits \cup {[db |-> d, opt |-> opt, txn |-> n, main |-> main]},
             stack' = Tail(stack), UNCHANGED request
      PROVE  StoreInv'
  <2>1. SameContents /\ \A m \in DOMAIN native :
            native'[m].state = "committing" => native[m].state = "committing" \/ (m = n /\ native[m].state = "open")
    <3>1. \A m \in 1 .. Len(native) :
             native'[m] = IF m = n THEN [native[m] EXCEPT !.state = IF @ = "open" THEN "committing" ELSE @]
                          ELSE native[m]
      BY <1>9, ClosedNatives
    <3>2. DOMAIN native' = DOMAIN native
      BY <1>9
    <3>3. \A m \in 1 .. Len(native) :
             /\ native'[m].db = native[m].db /\ native'[m].log = native[m].log
             /\ native'[m].ops = native[m].ops /\ native'[m].isRetry = native[m].isRetry
             /\ native'[m].state = IF m = n /\ native[m].state = "open" THEN "committing" ELSE native[m].state
      <4> TAKE m \in 1 .. Len(native)
      <4>1. native[m] \in NativeTxn
        BY <1>6
      <4> QED
        BY <3>1, <4>1 DEF NativeTxn
    <3> QED
      BY <1>6, <3>2, <3>3 DEF SameContents, Over
  <2>2. ASSUME ~Over(n)
        PROVE  LoggedKeys(n) = KeysOf(d) /\ LoggedKeys(n) \subseteq OpKeys(n)
    <3>1. AllIn(d, n) /\ LoopStores(Top)
      BY <1>2, <1>3, <1>9, <2>2 DEF Own, StoreInv, ObjectsInv, TurnStores
    <3>2. KeysOf(d) \subseteq saved[d]
      BY <1>1, <1>2, <1>3 DEF AliveInv, LoopSaves, Turns
    <3>3. KeysOf(d) \subseteq OpKeys(n)
      BY <1>1, <1>3, <3>1 DEF LoopStores
    <3> QED
      BY <3>1, <3>2, <3>3 DEF AllIn
  <2>3. NativesInv'
    BY <1>1, <2>1, <2>2, NativesGiven DEF StoreInv, Over
  <2>4. PICK c : c = [db |-> d, opt |-> opt, txn |-> n, main |-> main]
    OBVIOUS
  <2>5. c.db = d /\ c.txn = n /\ waits' = {c} /\ stack' = <<>> /\ parked' = {}
    BY <1>1, <1>2, <1>9, <2>4
  <2>6. WaitStores(c)'
    <3>1. LoggedKeys(n)' = LoggedKeys(n) /\ KeysOf(d)' = KeysOf(d)
      BY <1>1, <1>4, <1>9, <2>1, SameKeys DEF KeysOf
    <3>2. Own(c)' => ~Over(n)
      BY <1>4, <1>9, <2>1, <2>5 DEF Own, Over, SameContents
    <3> QED
      BY <1>5, <2>2, <2>5, <3>1, <3>2 DEF WaitStores
  <2>7. Turns' = {} /\ Idle'
    BY <2>5, NoTurn DEF Idle
  <2>8. ASSUME NEW e \in Dbs PROVE ObjectStores(e)'
    <3>1. CASE e = d
      BY <1>7, <3>1
    <3>2. CASE e # d
      <4>1. Free(e)' => Free(e)
        BY <1>2, <1>3, <1>9, <3>2 DEF Free
      <4> QED
        BY <1>1, <1>5, <2>1, <3>2, <4>1, ObjectKept DEF StoreInv, ObjectsInv
    <3> QED
      BY <3>1, <3>2
  <2>9. FirstSave'
    BY <2>7 DEF FirstSave
  <2> QED
    BY <2>3, <2>5, <2>6, <2>7, <2>8, <2>9 DEF StoreInv, ObjectsInv
<1>10. ASSUME native' = IF n = None THEN native ELSE NativeAbort(n),
              AfterCommit(d, opt, main, Tail(stack)), UNCHANGED waits
       PROVE  StoreInv'
  <2>1. SameContents /\ NativesInv'
    BY <1>1, <1>10, UnchangedContents, AbortContents, NativesKept DEF StoreInv
  <2>2. opt # None => Over(opt)'
    <3>1. ASSUME opt # None PROVE native'[opt].state \in {"committed", "aborted"}
      <4>1. native' = NativeAbort(n) /\ n \in 1 .. Len(native) /\ n = opt
        BY <1>4, <1>6, <1>10, <3>1
      <4>2. native[n].state \in {"open", "committed", "aborted"}
        BY <1>4, <1>8, <3>1 DEF Over
      <4> QED
        BY <4>1, <4>2, AbortChange
    <3> QED
      BY <3>1 DEF Over
  <2>3. parked' = {} /\ waits' = {} /\ AfterCommit(d, opt, main, <<>>) /\ \A f \in Turns : f.db = d
    BY <1>1, <1>2, <1>3, <1>10
  <2>4. \A e \in Dbs : e # d =>
            /\ saved'[e] = saved[e] /\ writes'[e] = writes[e] /\ retries'[e] = retries[e]
            /\ open'[e] = open[e] /\ transaction'[e] = transaction[e]
    BY <1>1, <1>5
  <2> QED
    BY <1>7, <2>1, <2>2, <2>3, <2>4, NextStores
<1> QED
  BY <1>3, <1>9, <1>10 DEF CommitCloses

LEMMA CommitSucceededStores ==
  ASSUME TypeOK, TypeOK', HandleInv, TurnInv, TurnInv', StoreInv, NEW c \in waits, CommitSucceeded(c)
  PROVE  StoreInv'
<1>1. /\ Idle /\ waits' = waits \ {c} /\ AfterCommit(c.db, c.opt, c.main, <<>>)
      /\ native[c.txn].state \in {"committed", "aborted"}
      /\ writes' = [writes EXCEPT ![c.db] = <<>>]
      /\ UNCHANGED <<open, transaction, saved, retries, parked, native, applied>>
  BY DEF CommitSucceeded, storeVars
<1>2. PICK d \in Dbs, opt \in Nat, main \in BOOLEAN : d = c.db /\ opt = c.opt /\ main = c.main
  BY DEF TypeOK, Awaiting
<1>3. opt # None => Over(opt)'
  BY <1>1, <1>2 DEF HandleInv, Over
<1>4. waits' = {} /\ parked = {} /\ WaitPlace(c)
  BY <1>1 DEF TurnInv, OneTurn
<1>5. Turns = {}
  BY <1>1, <1>4, NoneUnderWay DEF Idle
<1>6. transaction'[d] = None /\ open'[d] = "CLOSED"
  BY <1>1, <1>2, <1>4 DEF WaitPlace, StoreInv, ObjectsInv, WaitStores
<1>7. ObjectStores(d)'
  BY <1>6 DEF ObjectStores
<1>8. SameContents /\ NativesInv'
  BY <1>1, UnchangedContents, NativesKept DEF StoreInv
<1>9. \A e \in Dbs : e # d =>
          /\ saved'[e] = saved[e] /\ writes'[e] = writes[e] /\ retries'[e] = retries[e]
          /\ open'[e] = open[e] /\ transaction'[e] = transaction[e]
  BY <1>1, <1>2
<1>10. AfterCommit(d, opt, main, <<>>) /\ parked' = {}
  BY <1>1, <1>2, <1>4
<1> QED
  BY <1>3, <1>4, <1>5, <1>7, <1>8, <1>9, <1>10, NextStores

\* The transaction of a retry: no writes, the same log.
LEMMA RetryNatives ==
  ASSUME TypeOK, NativesInv, UNCHANGED applied, NEW n \in DOMAIN native, native[n].state = "busy",
         native' = [native EXCEPT ![n] = Restarted(n)],
         \A d \in Dbs : retries[d] > 0 => retries'[d] > 0, retries'[native[n].db] > 0
  PROVE  NativesInv' /\ LoggedKeys(n)' = LoggedKeys(n)
<1>1. /\ native'[n].db = native[n].db /\ native'[n].state = "open" /\ native'[n].ops = {}
      /\ native'[n].log = native[n].log
      /\ DOMAIN native' = DOMAIN native
      /\ \A m \in DOMAIN native : m # n => native'[m] = native[m]
  <2>1. native'[n] = Restarted(n)
    OBVIOUS
  <2>2. /\ Restarted(n).db = native[n].db /\ Restarted(n).state = "open"
        /\ Restarted(n).ops = {} /\ Restarted(n).log = native[n].log
    BY RestartedType
  <2>3. DOMAIN native' = DOMAIN native /\ \A m \in DOMAIN native : m # n => native'[m] = native[m]
    OBVIOUS
  <2> QED
    BY <2>1, <2>2, <2>3
<1>2. LoggedKeys(n)' = LoggedKeys(n)
  BY <1>1 DEF LoggedKeys
<1>3. \A m, k \in DOMAIN native' : native'[m].db = native'[k].db => m = k
  BY <1>1 DEF NativesInv
<1>4. ASSUME NEW m \in DOMAIN native' PROVE Consistent(m)'
  <2>1. Consistent(m) /\ native[m].db \in Dbs
    <3>1. m \in DOMAIN native /\ native \in Seq(NativeTxn)
      BY <1>1 DEF TypeOK
    <3>2. native[m] \in NativeTxn
      BY <3>1
    <3> QED
      BY <3>1, <3>2 DEF NativesInv, NativeTxn
  <2>2. CASE m = n
    <3>1. OpKeys(m)' = {}
      BY <1>1, <2>2 DEF OpKeys
    <3> QED
      BY <1>1, <2>1, <2>2, <3>1 DEF Consistent
  <2>3. CASE m # n
    <3>1. native'[m] = native[m]
      BY <1>1, <2>3
    <3>2. OpKeys(m)' = OpKeys(m) /\ LoggedKeys(m)' = LoggedKeys(m)
      BY <3>1 DEF OpKeys, LoggedKeys
    <3> QED
      BY <2>1, <3>1, <3>2 DEF Consistent
  <2> QED
    BY <2>2, <2>3
<1>5. ASSUME NEW a \in applied'
      PROVE  \E m \in DOMAIN native' : native'[m].db = a.db /\ native'[m].state = "committed"
  <2>1. PICK m \in DOMAIN native : native[m].db = a.db /\ native[m].state = "committed"
    BY DEF NativesInv
  <2>2. m # n /\ m \in DOMAIN native' /\ native'[m] = native[m]
    BY <1>1, <2>1
  <2> QED
    BY <2>1, <2>2
<1> QED
  BY <1>2, <1>3, <1>4, <1>5 DEF NativesInv

LEMMA CommitRetriesStores ==
  ASSUME TypeOK, TypeOK', HandleInv, AliveInv, TurnInv, StoreInv, NEW c \in waits, CommitRetries(c)
  PROVE  StoreInv'
<1>1. /\ Idle /\ waits' = waits \ {c} /\ stack' = <<CommitFrame(c.db, c.txn, c.main)>>
      /\ native[c.txn].state = "busy" /\ retries' = [retries EXCEPT ![c.db] = @ + 1]
      /\ UNCHANGED <<open, transaction, parked, request, applied, writes, saved>>
  BY DEF CommitRetries, reqVars
<1>2. PICK n \in DOMAIN native, d \in Dbs : n = c.txn /\ d = c.db
  BY DEF TypeOK, Awaiting
<1>3. n # None /\ n \in Nat /\ c.main \in BOOLEAN
  <2>1. DOMAIN native = 1 .. Len(native) /\ c \in Awaiting
    BY DEF TypeOK
  <2> QED
    BY <2>1 DEF Awaiting, None
<1>4. waits' = {} /\ parked' = {} /\ parked = {} /\ Place(c) /\ WaitPlace(c) /\ WaitStores(c)
  BY <1>1 DEF TurnInv, OneTurn, StoreInv, ObjectsInv
<1>5. native' = [native EXCEPT ![n] = Restarted(n)]
  BY <1>2, RestartedType DEF CommitRetries
<1>6. ~Over(n) /\ native[n].db = d
  BY <1>1, <1>2, <1>3, <1>4 DEF Over, Place
<1>7. /\ retries'[d] > 0 /\ retries'[d] # 0
      /\ \A e \in Dbs : (retries[e] > 0 => retries'[e] > 0) /\ (e # d => retries'[e] = retries[e])
  BY <1>1, <1>2 DEF TypeOK
<1>8. NativesInv' /\ LoggedKeys(n)' = LoggedKeys(n)
  BY <1>1, <1>2, <1>5, <1>6, <1>7, RetryNatives DEF StoreInv
<1>9. LoggedKeys(n) = KeysOf(d) /\ transaction[d] = None /\ open[d] = "CLOSED"
  BY <1>2, <1>3, <1>4, <1>6 DEF WaitStores, WaitPlace, Own
<1>10. KeysOf(d) \subseteq saved[d]
  BY <1>9 DEF AliveInv, UnsavedKeeps, Unsaved
<1>11. AllIn(d, n)'
  <2>1. KeysOf(d)' = KeysOf(d)
    BY <1>1 DEF KeysOf
  <2> QED
    BY <1>1, <1>7, <1>8, <1>9, <1>10, <2>1 DEF AllIn
<1>12. PICK f \in CommitFrames : f = CommitFrame(d, n, c.main)
  BY <1>3, FrameTypes
<1>13. f.at = "loop" /\ f.i = 1 /\ f.db = d /\ f.txn = n
  BY <1>3, <1>12 DEF CommitFrame
<1>14. ASSUME NEW e \in Dbs PROVE ObjectStores(e)'
  <2>1. CASE e = d
    BY <1>1, <1>9, <2>1 DEF ObjectStores
  <2>2. CASE e # d
    <3>1. Turns = {}
      BY <1>1, <1>4, NoneUnderWay DEF Idle
    <3>2. Free(e)' => Free(e)
      BY <1>1, <3>1 DEF Free
    <3>3. ASSUME Free(e), transaction[e] # None PROVE AllIn(e, transaction[e])'
      <4>1. PICK m \in DOMAIN native : m = transaction[e]
        <5>1. DOMAIN native = 1 .. Len(native) /\ transaction[e] \in 0 .. Len(native)
          BY DEF TypeOK, Handles
        <5> QED
          BY <3>3, <5>1 DEF None
      <4>2. m # n
        BY <1>2, <4>1 DEF HandleInv, GivenAway
      <4>3. native'[m] = native[m]
        BY <1>5, <4>2
      <4>4. AllIn(e, m)
        BY <3>3, <4>1 DEF StoreInv, ObjectsInv, ObjectStores
      <4>5. AllIn(e, m)'
        BY <1>1, <1>7, <2>2, <4>3, <4>4 DEF AllIn, LoggedKeys, OpKeys, KeysOf
      <4> QED
        BY <1>1, <4>1, <4>5
    <3> QED
      BY <1>1, <1>7, <2>2, <3>2, <3>3 DEF ObjectStores, StoreInv, ObjectsInv
  <2> QED
    BY <2>1, <2>2
<1>15. ObjectsInv'
  BY <1>1, <1>2, <1>4, <1>9, <1>11, <1>12, <1>13, <1>14, FrameStores
<1> QED
  BY <1>8, <1>15 DEF StoreInv


(***************************************************************************)
(* save.                                                                   *)
(***************************************************************************)
\* While the request runs, a save asks for the transaction of the object.
OwnSave == (request = "running" /\ ~Idle /\ Top.at = "save") => Top.txn = None

\* save writes to the transaction that has all that was saved before, or that
\* starts; or it meets a transaction that is over.
LEMMA SaveTarget ==
  ASSUME TypeOK, HandleInv, QuietInv, TurnInv, StoreInv, OwnSave, ~Idle, Top.at = "save"
  PROVE  /\ SaveTxn = None => open[Top.db] = "OPEN" /\ saved[Top.db] = {} /\ transaction[Top.db] = None
         /\ SaveTxn # None => \/ /\ native[SaveTxn].db = Top.db /\ native[SaveTxn].state = "open"
                                 /\ AllIn(Top.db, SaveTxn)
                              \/ Over(SaveTxn) /\ Top.txn = SaveTxn
<1>1. PICK d \in Dbs : d = Top.db
  BY TopType
<1>2. ASSUME Free(d), Top.txn = None, open[d] = "OPEN"
      PROVE  /\ SaveTxn = None => open[d] = "OPEN" /\ saved[d] = {} /\ transaction[d] = None
             /\ SaveTxn # None => /\ native[SaveTxn].db = d /\ native[SaveTxn].state = "open"
                                  /\ AllIn(d, SaveTxn)
  <2>1. SaveTxn = transaction[d]
    BY <1>1, <1>2 DEF SaveTxn
  <2>2. ObjectStores(d) /\ OwnHandle(d)
    BY DEF StoreInv, ObjectsInv, HandleInv
  <2> QED
    BY <1>2, <2>1, <2>2 DEF ObjectStores, OwnHandle
<1>3. CASE request = "running" /\ Turns = {}
  <2>1. Free(d) /\ Top.txn = None /\ open[d] = "OPEN"
    BY <1>3 DEF Free, OwnSave, QuietInv
  <2> QED
    BY <1>1, <1>2, <2>1
<1>4. ASSUME NEW f \in CommitFrames, f.at = "loop", f.db = Top.db, f.txn = Top.txn,
             Turns = {f}, Place(f), FramePlace(f), f.main \in BOOLEAN
      PROVE  /\ SaveTxn = None => open[d] = "OPEN" /\ saved[d] = {} /\ transaction[d] = None
             /\ SaveTxn # None => \/ /\ native[SaveTxn].db = d /\ native[SaveTxn].state = "open"
                                     /\ AllIn(d, SaveTxn)
                                  \/ Over(SaveTxn) /\ Top.txn = SaveTxn
  <2>1. CASE Top.txn = None
    <3>1. open[d] = "OPEN" /\ request # "rejected"
      BY <1>1, <1>4, <2>1 DEF FramePlace, Place
    <3>2. Free(d)
      BY <1>4, <2>1, <3>1 DEF Free
    <3> QED
      BY <1>2, <2>1, <3>1, <3>2
  <2>2. CASE Top.txn # None
    <3>1. SaveTxn = f.txn /\ f.txn # None
      BY <1>4, <2>2 DEF SaveTxn
    <3>2. CASE Over(f.txn)
      BY <1>4, <3>1, <3>2
    <3>3. CASE ~Over(f.txn)
      <4>1. native[f.txn].state = "open" /\ native[f.txn].db = d
        BY <1>1, <1>4, <3>1, <3>3 DEF FramePlace, Place
      <4>2. TurnStores(f)
        BY <1>4 DEF StoreInv, ObjectsInv
      <4>3. AllIn(d, f.txn)
        BY <1>1, <1>4, <3>1, <3>3, <4>2 DEF TurnStores, Own
      <4> QED
        BY <3>1, <4>1, <4>3
    <3> QED
      BY <3>2, <3>3
  <2> QED
    BY <2>1, <2>2
<1>5. \/ request = "running" /\ Turns = {}
      \/ \E f \in CommitFrames : /\ f.at = "loop" /\ f.db = Top.db /\ f.txn = Top.txn
                                 /\ Turns = {f} /\ Place(f) /\ FramePlace(f) /\ f.main \in BOOLEAN
  BY SaveAlone
<1> QED
  BY <1>1, <1>3, <1>4, <1>5

\* What the transaction that save writes to has before.
LEMMA SaveBefore ==
  ASSUME TypeOK, TypeOK', HandleInv, QuietInv, AliveInv, TurnInv, StoreInv, OwnSave, Save,
         Usable(SaveNatives, SaveHandle, Top.db), NEW s, s = SaveNatives[SaveHandle]
  PROVE  /\ s.db = Top.db /\ s.state = "open"
         /\ \A j \in Keys : s.log[j] \in {0, 1}
         /\ {j \in Keys : s.log[j] = 1} = saved[Top.db] \cap KeysOf(Top.db)
         /\ {op.key : op \in s.ops} \subseteq {j \in Keys : s.log[j] = 1}
         /\ \A o, p \in s.ops : o.key = p.key => o = p
         /\ retries[Top.db] = 0 => {op.key : op \in s.ops} = {j \in Keys : s.log[j] = 1}
         /\ s.isRetry => retries[Top.db] > 0
<1>1. ~Idle /\ Top.at = "save" /\ Top.db \in Dbs
  BY SaveEffect
<1>2. s.db = Top.db /\ s.state = "open"
  BY DEF Usable
<1>3. CASE SaveTxn # None
  <2>1. PICK n \in DOMAIN native : n = SaveTxn /\ native[n] = s
    BY <1>3, SaveResult
  <2>2. AllIn(Top.db, n)
    BY <1>1, <1>2, <1>3, <2>1, SaveTarget DEF Over
  <2>3. Consistent(n)
    BY DEF StoreInv, NativesInv
  <2>4. LoggedKeys(n) = {j \in Keys : s.log[j] = 1} /\ OpKeys(n) = {op.key : op \in s.ops}
    BY <2>1 DEF LoggedKeys, OpKeys
  <2> QED
    BY <1>2, <2>1, <2>2, <2>3, <2>4 DEF AllIn, Consistent
<1>4. CASE SaveTxn = None
  <2>1. s = FreshNative(Top.db) /\ saved[Top.db] = {}
    BY <1>1, <1>4, SaveResult, SaveTarget
  <2>2. s.ops = {} /\ s.isRetry = FALSE /\ \A j \in Keys : s.log[j] = 0
    BY <2>1 DEF FreshNative
  <2>3. {j \in Keys : s.log[j] = 1} = {} /\ {op.key : op \in s.ops} = {}
    BY <2>2
  <2> QED
    BY <1>2, <2>1, <2>2, <2>3
<1> QED
  BY <1>3, <1>4

\* No native transaction of the database is committed while save can write.
LEMMA SaveFirst ==
  ASSUME TypeOK, TypeOK', HandleInv, QuietInv, AliveInv, TurnInv, StoreInv, OwnSave, Save,
         Usable(SaveNatives, SaveHandle, Top.db)
  PROVE  /\ \A m \in DOMAIN native : native[m].db = Top.db => m = SaveHandle /\ native[m].state = "open"
         /\ \A a \in applied : a.db # Top.db
<1>1. ~Idle /\ Top.at = "save" /\ Top.db \in Dbs
  BY SaveEffect
<1>2. ASSUME NEW m \in DOMAIN native, native[m].db = Top.db
      PROVE  m = SaveHandle /\ native[m].state = "open"
  <2>1. CASE SaveTxn # None
    <3>1. PICK n \in DOMAIN native : n = SaveHandle /\ SaveNatives[n] = native[n]
      BY <2>1, SaveResult
    <3>2. native[n].db = Top.db /\ native[n].state = "open"
      BY <3>1 DEF Usable
    <3>3. m = n
      BY <1>2, <3>2 DEF StoreInv, NativesInv
    <3> QED
      BY <3>1, <3>2, <3>3
  <2>2. CASE SaveTxn = None
    <3>1. open[Top.db] = "OPEN" /\ transaction[Top.db] = None
      BY <1>1, <2>2, SaveTarget
    <3>2. m = None
      BY <1>1, <1>2, <3>1 DEF AliveInv, OpenKeeps
    <3>3. DOMAIN native = 1 .. Len(native)
      BY DEF TypeOK
    <3> QED
      BY <1>2, <3>2, <3>3 DEF None
  <2> QED
    BY <2>1, <2>2
<1>3. ASSUME NEW a \in applied, a.db = Top.db PROVE FALSE
  <2>1. PICK m \in DOMAIN native : native[m].db = a.db /\ native[m].state = "committed"
    BY DEF StoreInv, NativesInv
  <2> QED
    BY <1>2, <1>3, <2>1
<1> QED
  BY <1>2, <1>3

\* The write and its log entry in the native transaction.
LEMMA SaveWritten ==
  ASSUME TypeOK, TypeOK', HandleInv, QuietInv, AliveInv, TurnInv, StoreInv, OwnSave, Save,
         Usable(SaveNatives, SaveHandle, Top.db), native'[SaveHandle] = Written,
         NEW d \in Dbs, d = Top.db, NEW k \in Keys, k = Top.key, NEW n, n = SaveHandle
  PROVE  /\ Consistent(n)' /\ AllIn(d, n)' /\ native'[n].db = d /\ native'[n].state = "open"
         /\ OpKeys(n)' = {op.key : op \in SaveNatives[SaveHandle].ops} \cup {k}
<1>1. /\ ~Idle /\ Top.at = "save" /\ Top \in SaveFrames
      /\ saved' = [saved EXCEPT ![Top.db] = @ \cup {Top.key}]
      /\ UNCHANGED <<open, writes, retries>>
  BY SaveEffect
<1>4. PICK s : s = SaveNatives[SaveHandle]
  OBVIOUS
<1>5. /\ s.db = d /\ s.state = "open"
      /\ \A j \in Keys : s.log[j] \in {0, 1}
      /\ {j \in Keys : s.log[j] = 1} = saved[d] \cap KeysOf(d)
      /\ {op.key : op \in s.ops} \subseteq {j \in Keys : s.log[j] = 1}
      /\ \A o, p \in s.ops : o.key = p.key => o = p
      /\ retries[d] = 0 => {op.key : op \in s.ops} = {j \in Keys : s.log[j] = 1}
      /\ s.isRetry => retries[d] > 0
  BY <1>4, SaveBefore
<1>6. SaveOps = {[key |-> k, base |-> SaveBase]}
  BY SaveFirst DEF SaveOps, Stored
<1>7. SaveRetry <=> retries[d] > 0
  BY <1>4, <1>5 DEF SaveRetry, IsRetry
<1>8. /\ native'[n].db = d /\ native'[n].state = "open" /\ native'[n].isRetry = SaveRetry
      /\ native'[n].ops = {o \in s.ops : o.key # k} \cup {[key |-> k, base |-> SaveBase]}
      /\ native'[n].log = [s.log EXCEPT ![k] = IF SaveRetry THEN @ ELSE @ + 1]
      /\ s.log \in [Keys -> Nat]
  <2>1. Top.txn <= Len(native)
    BY <1>1, LiveType DEF HandleInv, FrameHolds
  <2>2. /\ Written.db = s.db /\ Written.state = s.state /\ Written.isRetry = SaveRetry
        /\ Written.ops = {o \in s.ops : o.key # k} \cup SaveOps
        /\ Written.log = [s.log EXCEPT ![k] = IF SaveRetry THEN @ ELSE @ + 1]
        /\ SaveHandle \in 1 .. Len(SaveNatives)
    BY <1>1, <1>4, <2>1, SavedValues
  <2>3. s \in NativeTxn
    BY <1>1, <1>4, <2>2, SaveNativesType
  <2> QED
    BY <1>5, <1>6, <2>2, <2>3 DEF NativeTxn
<1>9. k \in KeysOf(d) /\ (retries[d] # 0 => k \in saved[d]) /\ (retries[d] = 0 => k \notin saved[d])
  <2>1. k \in KeysOf(d)
    BY <1>1 DEF AliveInv, TopSaves
  <2>2. retries[d] = 0 => k \notin saved[d]
    BY <1>1 DEF StoreInv, ObjectsInv, FirstSave
  <2>3. ASSUME retries[d] # 0 PROVE k \in saved[d]
    <3>1. retries[d] > 0
      BY <2>3 DEF TypeOK
    <3>2. open[d] # "OPEN"
      BY <3>1 DEF StoreInv, ObjectsInv, ObjectStores
    <3> QED
      BY <2>1, <3>2 DEF AliveInv, UnsavedKeeps, Unsaved
  <2> QED
    BY <2>1, <2>2, <2>3
<1>10. OpKeys(n)' = {op.key : op \in s.ops} \cup {k}
  <2>1. OpKeys(n)' = {op.key : op \in native'[n].ops}
    BY DEF OpKeys
  <2>2. \A op \in native'[n].ops : op.key = k \/ op \in s.ops
    BY <1>8
  <2>3. [key |-> k, base |-> SaveBase] \in native'[n].ops /\ [key |-> k, base |-> SaveBase].key = k
    BY <1>8
  <2>4. \A op \in s.ops : op.key = k \/ op \in native'[n].ops
    BY <1>8
  <2> QED
    BY <2>1, <2>2, <2>3, <2>4
<1>11. \A o, p \in native'[n].ops : o.key = p.key => o = p
  BY <1>5, <1>8
<1>12. \A j \in Keys : native'[n].log[j] = IF j = k /\ retries[d] = 0 THEN 1 ELSE s.log[j]
  <2>1. retries[d] = 0 => s.log[k] = 0
    <3>1. retries[d] = 0 => s.log[k] # 1
      BY <1>5, <1>9
    <3> QED
      BY <1>5, <3>1
  <2>2. SaveRetry <=> retries[d] # 0
    <3>1. retries[d] \in Nat
      BY DEF TypeOK
    <3>2. retries[d] > 0 <=> retries[d] # 0
      BY <3>1
    <3> QED
      BY <1>7, <3>2
  <2>3. CASE retries[d] = 0
    <3>1. native'[n].log = [s.log EXCEPT ![k] = @ + 1] /\ s.log \in [Keys -> Nat] /\ s.log[k] = 0
      BY <1>8, <2>1, <2>2, <2>3
    <3> QED
      BY <2>3, <3>1
  <2>4. CASE retries[d] # 0
    <3>1. native'[n].log = [s.log EXCEPT ![k] = @] /\ s.log \in [Keys -> Nat]
      BY <1>8, <2>2, <2>4
    <3> QED
      BY <2>4, <3>1
  <2> QED
    BY <2>3, <2>4
<1>13. LoggedKeys(n)' = {j \in Keys : s.log[j] = 1} \cup {k}
  <2>1. LoggedKeys(n)' = {j \in Keys : native'[n].log[j] = 1}
    BY DEF LoggedKeys
  <2>2. retries[d] # 0 => s.log[k] = 1
    BY <1>5, <1>9
  <2> QED
    BY <1>12, <2>1, <2>2
<1>14. Consistent(n)'
  <2>1. \A j \in Keys : native'[n].log[j] \in {0, 1}
    BY <1>5, <1>12
  <2>2. OpKeys(n)' \subseteq LoggedKeys(n)'
    BY <1>5, <1>10, <1>13
  <2>3. native'[n].isRetry => retries'[native'[n].db] > 0
    BY <1>1, <1>7, <1>8
  <2> QED
    BY <1>8, <1>11, <2>1, <2>2, <2>3 DEF Consistent
<1>15. AllIn(d, n)'
  <2>1. saved'[d] = saved[d] \cup {k} /\ KeysOf(d)' = KeysOf(d) /\ retries'[d] = retries[d]
    <3>1. saved \in [Dbs -> SUBSET Keys]
      BY DEF TypeOK
    <3>2. saved'[d] = saved[d] \cup {k}
      BY <1>1, <3>1
    <3> QED
      BY <1>1, <3>2 DEF KeysOf
  <2>2. LoggedKeys(n)' = saved'[d] \cap KeysOf(d)'
    BY <1>5, <1>9, <1>13, <2>1
  <2>3. retries'[d] = 0 => OpKeys(n)' = LoggedKeys(n)'
    BY <1>5, <1>10, <1>13, <2>1
  <2> QED
    BY <2>2, <2>3 DEF AllIn
<1> QED
  BY <1>4, <1>8, <1>10, <1>14, <1>15

\* A save that writes nothing leaves the natives as they are, or starts one.
LEMMA SaveNothing ==
  ASSUME TypeOK, TypeOK', HandleInv, QuietInv, AliveInv, TurnInv, StoreInv, OwnSave, Save,
         native'[SaveHandle] = SaveNatives[SaveHandle]
  PROVE  NativesInv'
<1>1. ~Idle /\ Top.at = "save" /\ Top.db \in Dbs /\ UNCHANGED <<applied, retries>>
  BY SaveEffect
<1>0. PICK d \in Dbs : d = Top.db
  BY <1>1
<1>2. PICK h : h = SaveHandle /\ d = Top.db
  BY <1>0
<1>3. /\ DOMAIN native \subseteq DOMAIN native'
      /\ \A n \in DOMAIN native' : n # h => n \in DOMAIN native /\ native'[n] = native[n]
      /\ SaveTxn # None => h \in DOMAIN native /\ native'[h] = native[h]
      /\ SaveTxn = None => h \notin DOMAIN native /\ native'[h] = FreshNative(d)
  BY <1>2, SaveResult
<1>4. h \notin DOMAIN native => \A n \in DOMAIN native : native[n].db # d
  <2>1. ASSUME h \notin DOMAIN native, NEW n \in DOMAIN native, native[n].db = d PROVE FALSE
    <3>1. open[d] = "OPEN" /\ transaction[d] = None
      BY <1>1, <1>2, <1>3, <2>1, SaveTarget
    <3>2. n = None
      BY <2>1, <3>1 DEF AliveInv, OpenKeeps
    <3>3. DOMAIN native = 1 .. Len(native)
      BY DEF TypeOK
    <3> QED
      BY <2>1, <3>2, <3>3 DEF None
  <2> QED
    BY <2>1
<1>5. /\ \A n \in DOMAIN native : native'[n] = native[n]
      /\ \A n \in DOMAIN native' : n \in DOMAIN native \/ (n = h /\ native'[n] = FreshNative(d))
  BY <1>3
<1>6. NativesInv
  BY DEF StoreInv
<1> QED
  BY <1>1, <1>3, <1>4, <1>5, <1>6, FreshNatives

\* A write that is not valid ends the commit of the request.
LEMMA RejectStores ==
  ASSUME TypeOK, TypeOK', HandleInv, QuietInv, AliveInv, TurnInv, StoreInv, OwnSave, Save, SaveRejects
  PROVE  StoreInv'
<1>1. /\ ~Idle /\ Top.at = "save" /\ Top.db \in Dbs
      /\ UNCHANGED <<open, retries, parked, waits>>
  BY SaveEffect
<1>2. /\ Tail(stack) # <<>> /\ Top.key \notin saved[Top.db] /\ native' = SaveNatives
      /\ stack' = <<>> /\ request' = IF stack[2].main THEN "rejected" ELSE request
  BY DEF SaveRejects
<1>3. PICK f \in CommitFrames : f.db = Top.db /\ stack[2] = f /\ Place(f) /\ f.main \in BOOLEAN
  BY <1>1, <1>2, SaveAlone
<1>4. f.main
  <2>1. Top.key \in KeysOf(Top.db)
    BY <1>1 DEF AliveInv, TopSaves
  <2>2. open[Top.db] = "OPEN"
    BY <1>1, <1>2, <2>1 DEF AliveInv, UnsavedKeeps, Unsaved
  <2> QED
    BY <1>3, <2>2 DEF Place
<1>5. request' = "rejected" /\ Turns' = {} /\ waits' = {} /\ Idle'
  <2>1. parked' = {} /\ waits' = {}
    BY <1>1, SaveAlone
  <2> QED
    BY <1>2, <1>3, <1>4, <2>1, NoTurn DEF Idle
<1>6. \A e \in Dbs : ObjectStores(e)'
  BY <1>1, <1>5 DEF ObjectStores, Free, StoreInv, ObjectsInv
<1>7. ObjectsInv'
  BY <1>5, <1>6, NoTurnStores DEF FirstSave
<1>8. NativesInv'
  BY <1>2, SaveNothing
<1> QED
  BY <1>7, <1>8 DEF StoreInv

\* What a save, of the request or of a commit, leaves under way.
LEMMA SaveReturns ==
  ASSUME TypeOK, TypeOK', HandleInv, QuietInv, AliveInv, TurnInv, StoreInv, OwnSave, Save, SaveWrites
  PROVE  /\ parked' = {} /\ waits' = {} /\ UNCHANGED request
         /\ transaction'[Top.db] = IF SaveTxn = None THEN SaveHandle ELSE transaction[Top.db]
         /\ \A e \in Dbs : e # Top.db => transaction'[e] = transaction[e] /\ saved'[e] = saved[e]
         /\ \/ Turns = {} /\ Turns' = {} /\ Idle' /\ Top.txn = None
            \/ \E f \in CommitFrames :
                  /\ Turns = {f} /\ Turns' = {f} /\ Top' = f /\ f.at = "loop"
                  /\ f.db = Top.db /\ f.txn = Top.txn
<1>1. /\ ~Idle /\ Top.at = "save" /\ Top.db \in Dbs
      /\ transaction' = [transaction EXCEPT ![Top.db] = IF SaveTxn = None /\ ~SaveNow THEN SaveHandle ELSE @]
      /\ saved' = [saved EXCEPT ![Top.db] = @ \cup {Top.key}]
      /\ UNCHANGED <<parked, waits>>
  BY SaveEffect
<1>2. ~SaveNow
  BY <1>1, SaveTarget DEF SaveNow
<1>3. stack' = Tail(stack) /\ UNCHANGED request
  BY <1>2 DEF SaveWrites
<1>4. parked' = {} /\ waits' = {}
  BY <1>1, SaveAlone
<1>5. /\ transaction'[Top.db] = IF SaveTxn = None THEN SaveHandle ELSE transaction[Top.db]
      /\ \A e \in Dbs : e # Top.db => transaction'[e] = transaction[e] /\ saved'[e] = saved[e]
  BY <1>1, <1>2 DEF TypeOK
<1>6. CASE request = "running" /\ Tail(stack) = <<>> /\ Turns = {}
  <2>1. Turns' = {} /\ Idle'
    BY <1>3, <1>4, <1>6, NoTurn DEF Idle
  <2> QED
    BY <1>1, <1>3, <1>4, <1>5, <1>6, <2>1 DEF OwnSave
<1>7. ASSUME NEW f \in CommitFrames, Tail(stack) = <<f>>, f.at = "loop", f.db = Top.db,
             f.txn = Top.txn, Turns = {f}
      PROVE  Turns = {f} /\ Turns' = {f} /\ Top' = f /\ f.at = "loop" /\ f.db = Top.db /\ f.txn = Top.txn
  BY <1>3, <1>4, <1>7, OneFrame
<1>8. \/ request = "running" /\ Tail(stack) = <<>> /\ Turns = {}
      \/ \E f \in CommitFrames : /\ Tail(stack) = <<f>> /\ f.at = "loop" /\ f.db = Top.db
                                 /\ f.txn = Top.txn /\ Turns = {f}
  BY <1>1, SaveAlone
<1> QED
  BY <1>3, <1>4, <1>5, <1>6, <1>7, <1>8

\* A commit whose transaction is over goes through its writes without storing.
LEMMA SaveOverStores ==
  ASSUME TypeOK, TypeOK', HandleInv, QuietInv, AliveInv, TurnInv, StoreInv, OwnSave, Save, SaveWrites,
         ~Usable(SaveNatives, SaveHandle, Top.db)
  PROVE  StoreInv'
<1>1. /\ ~Idle /\ Top.at = "save" /\ Top.db \in Dbs /\ Top \in SaveFrames
      /\ UNCHANGED <<open, retries, writes, applied>>
  BY SaveEffect
<1>2. SaveHandle # None
  BY <1>1, SaveNativesType
<1>3. SaveTxn # None
  <2>1. ASSUME SaveTxn = None PROVE FALSE
    <3>1. SaveNatives[SaveHandle] = FreshNative(Top.db)
      BY <2>1, SaveResult
    <3> QED
      BY <1>2, <3>1 DEF FreshNative, Usable
  <2> QED
    BY <2>1
<1>4. SaveHandle = SaveTxn /\ SaveNatives = native
  BY <1>3 DEF SaveHandle, SaveNatives
<1>5. Over(SaveTxn) /\ Top.txn = SaveTxn
  BY <1>1, <1>2, <1>3, <1>4, SaveTarget DEF Usable
<1>6. native' = native
  BY <1>4 DEF SaveWrites
<1>7. PICK f \in CommitFrames :
            /\ Turns = {f} /\ Turns' = {f} /\ Top' = f /\ f.at = "loop" /\ f.db = Top.db /\ f.txn = Top.txn
  BY <1>3, <1>5, SaveReturns
<1>8. /\ parked' = {} /\ waits' = {} /\ UNCHANGED <<request, transaction>>
      /\ \A e \in Dbs : e # Top.db => saved'[e] = saved[e]
  <2>1. /\ transaction'[Top.db] = transaction[Top.db]
        /\ \A e \in Dbs : e # Top.db => transaction'[e] = transaction[e]
    BY <1>3, SaveReturns
  <2>2. transaction \in [Dbs -> Handles] /\ transaction' \in [Dbs -> Handles']
    BY DEF TypeOK
  <2>3. \A e \in Dbs : transaction'[e] = transaction[e]
    BY <2>1
  <2>4. transaction' = transaction
    BY <2>2, <2>3
  <2> QED
    BY <2>4, SaveReturns
<1>0. PICK d \in Dbs : d = Top.db
  BY <1>1
<1>9. PICK n : n = f.txn /\ d = Top.db
  BY <1>0
<1>10. Over(n) /\ Over(n)' /\ n # None
  BY <1>3, <1>5, <1>6, <1>7, <1>9 DEF Over
<1>11. TurnStores(f)'
  <2>1. TurnStores(f)
    BY <1>7 DEF StoreInv, ObjectsInv
  <2>2. ~Own(f)'
    BY <1>9, <1>10 DEF Own, Over
  <2>3. transaction'[f.db] = transaction[f.db]
    BY <1>8
  <2> QED
    BY <2>1, <2>2, <2>3 DEF TurnStores
<1>12. SameContents /\ NativesInv'
  BY <1>1, <1>6, UnchangedContents, NativesKept DEF StoreInv
<1>13. ASSUME NEW e \in Dbs PROVE ObjectStores(e)'
  <2>1. Free(e)' => Free(e)
    BY <1>7, <1>8 DEF Free
  <2>2. CASE e # d
    BY <1>1, <1>8, <1>9, <1>12, <2>1, <2>2, ObjectKept DEF StoreInv, ObjectsInv
  <2>3. CASE e = d
    <3>1. OwnHandle(d)
      BY DEF HandleInv
    <3>2. transaction[d] # n
      BY <1>10, <3>1 DEF OwnHandle, Over
    <3>3. ~Free(d)'
      BY <1>7, <1>8, <1>9, <1>10, <3>2 DEF Free
    <3>4. ObjectStores(d)
      BY DEF StoreInv, ObjectsInv
    <3> QED
      BY <1>1, <2>3, <3>3, <3>4 DEF ObjectStores
  <2> QED
    BY <2>2, <2>3
<1>14. FirstSave'
  BY <1>7 DEF FirstSave
<1> QED
  BY <1>7, <1>8, <1>11, <1>12, <1>13, <1>14 DEF StoreInv, ObjectsInv

\* The write goes into the one transaction of its database.
LEMMA SaveWritesStores ==
  ASSUME TypeOK, TypeOK', HandleInv, QuietInv, AliveInv, TurnInv, StoreInv, OwnSave, Save, SaveWrites,
         Usable(SaveNatives, SaveHandle, Top.db), native'[SaveHandle] = Written
  PROVE  StoreInv'
<1>1. /\ ~Idle /\ Top.at = "save" /\ Top.db \in Dbs /\ Top.key \in Keys
      /\ UNCHANGED <<open, retries, writes, applied>>
  BY SaveEffect
<1>0. PICK d \in Dbs, k \in Keys : d = Top.db /\ k = Top.key
  BY <1>1
<1>2. PICK n : d = Top.db /\ k = Top.key /\ n = SaveHandle
  BY <1>0
<1>3. /\ Consistent(n)' /\ AllIn(d, n)' /\ native'[n].db = d /\ native'[n].state = "open"
      /\ OpKeys(n)' = {op.key : op \in SaveNatives[SaveHandle].ops} \cup {k}
  BY <1>2, SaveWritten
<1>4. /\ \A m \in DOMAIN native : native[m].db = d => m = n /\ native[m].state = "open"
      /\ \A a \in applied : a.db # d
  BY <1>2, SaveFirst
<1>5. /\ n \in DOMAIN native' /\ DOMAIN native \subseteq DOMAIN native'
      /\ \A m \in DOMAIN native' : m # n => m \in DOMAIN native /\ native'[m] = native[m]
      /\ SaveTxn # None => n = SaveTxn /\ n \in DOMAIN native /\ SaveNatives[SaveHandle] = native[n]
      /\ SaveTxn = None => n \notin DOMAIN native
  BY <1>2, SaveResult
<1>6. n \in DOMAIN native => native[n].db = d /\ native[n].state = "open"
  BY <1>2, <1>5 DEF Usable
<1>7. n # None
  BY <1>2 DEF Usable
<1>8. ASSUME NEW m \in DOMAIN native, m # n
      PROVE  native'[m] = native[m] /\ LoggedKeys(m)' = LoggedKeys(m) /\ OpKeys(m)' = OpKeys(m)
  BY <1>5, <1>8 DEF LoggedKeys, OpKeys
<1>9. NativesInv'
  <2>1. ASSUME NEW m \in DOMAIN native', NEW p \in DOMAIN native', native'[m].db = native'[p].db
        PROVE  m = p
    <3>1. CASE m # n /\ p # n
      BY <1>5, <2>1, <3>1 DEF StoreInv, NativesInv
    <3>2. CASE m = n /\ p # n
      BY <1>3, <1>4, <1>5, <2>1, <3>2
    <3>3. CASE m # n /\ p = n
      BY <1>3, <1>4, <1>5, <2>1, <3>3
    <3> QED
      BY <3>1, <3>2, <3>3
  <2>2. ASSUME NEW m \in DOMAIN native' PROVE Consistent(m)'
    <3>1. CASE m = n
      BY <1>3, <3>1
    <3>2. CASE m # n
      <4>1. m \in DOMAIN native /\ Consistent(m)
        BY <1>5, <3>2 DEF StoreInv, NativesInv
      <4>2. native'[m] = native[m] /\ LoggedKeys(m)' = LoggedKeys(m) /\ OpKeys(m)' = OpKeys(m)
        BY <1>8, <3>2, <4>1
      <4> QED
        BY <1>1, <4>1, <4>2 DEF Consistent
    <3> QED
      BY <3>1, <3>2
  <2>3. ASSUME NEW a \in applied'
        PROVE  \E m \in DOMAIN native' : native'[m].db = a.db /\ native'[m].state = "committed"
    <3>1. a \in applied /\ a.db # d
      BY <1>1, <1>4
    <3>2. PICK m \in DOMAIN native : native[m].db = a.db /\ native[m].state = "committed"
      BY <3>1 DEF StoreInv, NativesInv
    <3>3. native'[m] = native[m]
      BY <1>6, <1>8, <3>1, <3>2
    <3> QED
      BY <1>5, <3>2, <3>3
  <2> QED
    BY <2>1, <2>2, <2>3 DEF NativesInv
<1>10. /\ parked' = {} /\ waits' = {} /\ UNCHANGED request
       /\ transaction'[d] = IF SaveTxn = None THEN n ELSE transaction[d]
       /\ \A e \in Dbs : e # d => transaction'[e] = transaction[e] /\ saved'[e] = saved[e]
       /\ \/ Turns = {} /\ Turns' = {} /\ Idle' /\ Top.txn = None
          \/ \E f \in CommitFrames :
                /\ Turns = {f} /\ Turns' = {f} /\ Top' = f /\ f.at = "loop"
                /\ f.db = d /\ f.txn = Top.txn
  BY <1>2, SaveReturns
<1>11. ASSUME NEW e \in Dbs, e # d PROVE ObjectStores(e)'
  <2>1. ObjectStores(e) /\ OwnHandle(e) /\ transaction'[e] = transaction[e] /\ saved'[e] = saved[e]
    BY <1>10, <1>11 DEF StoreInv, ObjectsInv, HandleInv
  <2>2. Free(e)' => Free(e)
    <3>1. Turns' = Turns
      BY <1>10
    <3> QED
      BY <1>10, <2>1, <3>1 DEF Free
  <2>3. ASSUME transaction[e] # None, Free(e) PROVE AllIn(e, transaction[e])'
    <3>0. transaction[e] \in 0 .. Len(native) /\ DOMAIN native = 1 .. Len(native)
      BY DEF TypeOK, Handles
    <3>1. PICK m \in DOMAIN native : m = transaction[e]
      BY <2>3, <3>0 DEF None
    <3>2. m # n
      BY <1>6, <1>11, <2>1, <2>3, <3>1 DEF OwnHandle
    <3>3. AllIn(e, m)
      BY <2>1, <2>3, <3>1 DEF ObjectStores
    <3>4. LoggedKeys(m)' = LoggedKeys(m) /\ OpKeys(m)' = OpKeys(m) /\ KeysOf(e)' = KeysOf(e)
      BY <1>1, <1>8, <3>2 DEF KeysOf
    <3>5. AllIn(e, m)'
      BY <1>1, <2>1, <3>3, <3>4 DEF AllIn
    <3> QED
      BY <2>1, <3>1, <3>5
  <2> QED
    BY <1>1, <2>1, <2>2, <2>3 DEF ObjectStores
<1>12. ObjectStores(d)'
  <2>1. ObjectStores(d)
    BY DEF StoreInv, ObjectsInv
  <2>2. ASSUME Free(d)' PROVE transaction'[d] = n
    <3>1. CASE SaveTxn = None
      BY <1>10, <3>1
    <3>2. CASE SaveTxn # None /\ Top.txn = None
      BY <1>2, <1>5, <1>10, <3>2 DEF SaveTxn
    <3>3. CASE SaveTxn # None /\ Top.txn # None
      <4>1. Top.txn = n
        BY <1>5, <3>3 DEF SaveTxn
      <4>2. PICK f \in Turns' : f.db = d /\ f.txn = n
        BY <1>10, <3>3, <4>1
      <4> QED
        BY <1>7, <2>2, <4>2 DEF Free
    <3> QED
      BY <3>1, <3>2, <3>3
  <2>3. PICK t : t = transaction'[d]
    OBVIOUS
  <2>4. Free(d)' => t # None /\ AllIn(d, t)'
    BY <1>3, <1>7, <2>2, <2>3
  <2>5. Free(d)' => transaction'[d] # None /\ AllIn(d, transaction[d])'
    BY <2>3, <2>4 DEF AllIn, LoggedKeys, OpKeys
  <2>6. retries'[d] > 0 => open'[d] # "OPEN"
    BY <1>1, <2>1 DEF ObjectStores
  <2> QED
    BY <2>5, <2>6 DEF ObjectStores
<1>13. \A e \in Dbs : ObjectStores(e)'
  BY <1>11, <1>12
<1>14. CASE Turns' = {} /\ Idle'
  <2>1. FirstSave'
    BY <1>14 DEF FirstSave
  <2> QED
    BY <1>9, <1>10, <1>13, <1>14, <2>1, NoTurnStores DEF StoreInv
<1>15. ASSUME NEW f \in CommitFrames, Turns = {f}, Turns' = {f}, Top' = f, f.at = "loop",
              f.db = d, f.txn = Top.txn
       PROVE  StoreInv'
  <2>1. TurnStores(f)
    BY <1>15 DEF StoreInv, ObjectsInv
  <2>2. (NDbs = 1 /\ transaction'[d] # None) => f.txn \in {None, transaction'[d]}
    <3>1. CASE SaveTxn = None
      BY <1>15, <3>1 DEF SaveTxn
    <3>2. CASE SaveTxn # None
      BY <1>10, <1>15, <2>1, <3>2 DEF TurnStores
    <3> QED
      BY <3>1, <3>2
  <2>3. ASSUME f.txn # None PROVE AllIn(d, n)' /\ f.txn = n /\ LoopStores(f)'
    <3>1. f.txn = n /\ n \in DOMAIN native /\ SaveNatives[SaveHandle] = native[n]
      BY <1>5, <1>15, <2>3 DEF SaveTxn
    <3>2. Own(f)
      BY <1>6, <2>3, <3>1 DEF Own, Over
    <3>3. LoopStores(f)
      BY <2>1, <3>2 DEF TurnStores
    <3>4. OpKeys(n)' = OpKeys(n) \cup {k}
      BY <1>3, <3>1 DEF OpKeys
    <3>5. ASSUME NEW j \in 1 .. Len(writes[d]), j < f.i PROVE writes[d][j] \in OpKeys(n)'
      BY <1>2, <1>15, <3>1, <3>3, <3>4, <3>5 DEF LoopStores
    <3>6. LoopStores(f)'
      BY <1>1, <1>15, <3>1, <3>5 DEF LoopStores
    <3> QED
      BY <1>3, <3>1, <3>6
  <2>4. TurnStores(f)'
    <3>1. Own(f)' => AllIn(f.db, f.txn)' /\ LoopStores(f)'
      BY <1>15, <2>3 DEF Own
    <3> QED
      BY <1>15, <2>2, <3>1 DEF TurnStores
  <2>5. FirstSave'
    BY <1>15 DEF FirstSave
  <2> QED
    BY <1>9, <1>10, <1>13, <1>15, <2>4, <2>5 DEF StoreInv, ObjectsInv
<1> QED
  BY <1>10, <1>14, <1>15

LEMMA SaveKeepsStored ==
  ASSUME TypeOK, TypeOK', HandleInv, QuietInv, AliveInv, TurnInv, StoreInv, OwnSave, Save
  PROVE  StoreInv'
<1>1. SaveWrites \/ SaveRejects
  BY SaveEffect
<1>2. CASE SaveRejects
  BY <1>2, RejectStores
<1>3. CASE SaveWrites /\ ~SaveRejects
  <2>1. \/ ~Usable(SaveNatives, SaveHandle, Top.db)
        \/ Usable(SaveNatives, SaveHandle, Top.db) /\ native'[SaveHandle] = Written
    BY <1>3, SaveResult
  <2> QED
    BY <1>3, <2>1, SaveOverStores, SaveWritesStores
<1> QED
  BY <1>1, <1>2, <1>3

(***************************************************************************)
(* StoreInv is inductive.                                                  *)
(***************************************************************************)
LEMMA OwnSaveStep ==
  ASSUME OneCommit, CommitInv, CommitInv', Alive, TurnInv, OwnSave, Next, Alive'
  PROVE  OwnSave'
<1> SUFFICES ASSUME request' = "running", ~Idle', Top'.at = "save" PROVE Top'.txn = None
  BY DEF OwnSave
<1>1. request = "running"
  BY NeverAgain
<1>2. /\ TypeOK /\ TypeOK' /\ HandleInv /\ QuietInv /\ UpdateInv
      /\ ~ClosedUse /\ ~Timeouts /\ ~LoadsSource
  BY DEF CommitInv, OneCommit
<1>3. /\ parked = {} /\ waits = {} /\ \A f \in FramesOf(stack) : f.at = "save"
      /\ \A d \in Dbs : open[d] = "OPEN"
  BY <1>1, <1>2 DEF QuietInv, NothingGiven
<1>4. ~Idle => Top.at = "save"
  BY <1>2, <1>3, TopType
<1>5. ~CommitWrite /\ ~CommitValidated /\ ~CommitAgain /\ ~CommitLingers /\ ~CommitCloses
  BY <1>4 DEF CommitWrite, CommitValidated, CommitAgain, CommitLingers, CommitCloses
<1>6. ~Commit
  BY DEF Commit
<1>7. /\ \A n \in DOMAIN native : ~NativeCommit(n)
      /\ \A d \in Dbs, k \in Keys : ~OtherWrite(d, k)
  BY DEF OtherWrite, NativeCommit, callVars, Idle
<1>8. ~Save
  <2> SUFFICES ASSUME Save PROVE FALSE
    OBVIOUS
  <2>1. ~Idle /\ Top.at = "save" /\ (SaveWrites \/ SaveRejects)
    BY <1>2, SaveEffect
  <2>2. Turns = {}
    BY <1>3 DEF Turns, Live
  <2>3. Tail(stack) = <<>>
    BY <1>2, <2>1, <2>2, SaveAlone
  <2>4. SaveWrites
    BY <2>1, <2>3 DEF SaveRejects
  <2>5. CASE stack' = <<>>
    BY <2>5 DEF Idle
  <2>6. CASE stack' = <<CommitFrame(Top.db, SaveHandle, FALSE)>> \o <<>>
    <3>1. PICK f : f = CommitFrame(Top.db, SaveHandle, FALSE)
      OBVIOUS
    <3>2. <<f>> \o <<>> = <<f>>
      OBVIOUS
    <3>3. Top'.at = "loop"
      BY <2>6, <3>1, <3>2 DEF Top, CommitFrame
    <3> QED
      BY <3>3
  <2> QED
    BY <2>3, <2>4, <2>5, <2>6 DEF SaveWrites
<1>9. ASSUME NEW s \in Scans, ScanDone(s) PROVE FALSE
  <2>1. scan[s].db \in Dbs
    BY <1>2 DEF TypeOK
  <2>2. open[scan[s].db] # "LINGERING"
    BY <1>3, <2>1
  <2> QED
    BY <1>9, <2>2 DEF ScanDone, DoneReadTxn, LastUse, Idle
<1>10. ASSUME Proceeds PROVE Top'.txn = None
  <2>1. Idle
    BY <1>2, <1>10, ProceedsEffect
  <2>2. ASSUME NEW d \in Dbs, NEW k \in Keys, NEW kind, Write(d, k, kind) \/ Event(d, k)
        PROVE  Top'.txn = None
    <3>1. PICK s : s = SaveFrame(d, k, None, FALSE)
      OBVIOUS
    <3>2. stack' = <<>> \/ stack' = <<s>>
      BY <2>2, <3>1 DEF Write, Event, SaveUnlessDeferred
    <3>3. Top' = s
      BY <3>2 DEF Top, Idle
    <3> QED
      BY <3>1, <3>3 DEF SaveFrame
  <2>3. ASSUME NEW s \in Scans, NEW d \in Dbs, ScanStart(s, d) PROVE FALSE
    BY <2>1, <2>3 DEF ScanStart, callVars, Idle
  <2> QED
    BY <1>10, <2>2, <2>3 DEF Proceeds
<1> QED
  BY <1>2, <1>3, <1>5, <1>6, <1>7, <1>8, <1>9, <1>10, CommitSteps

LEMMA StoreStep ==
  ASSUME OneCommit, CommitInv, CommitInv', Alive, StoreInv, OwnSave, Next, Alive'
  PROVE  StoreInv'
<1>1. /\ TypeOK /\ TypeOK' /\ HandleInv /\ QuietInv /\ QuietInv' /\ UpdateInv /\ UsedInv
      /\ LingerInv /\ TurnInv /\ TurnInv' /\ ~ClosedUse /\ ~Timeouts /\ ~LoadsSource
  BY DEF CommitInv, OneCommit
<1>2. AliveInv /\ AliveInv'
  BY DEF CommitInv, UpdateInv
<1>3. CASE Save
  BY <1>1, <1>2, <1>3, SaveKeepsStored
<1>4. CASE CommitWrite \/ CommitValidated \/ CommitAgain \/ CommitLingers \/ CommitCloses
  BY <1>1, <1>2, <1>4, CommitWriteStores, CommitValidatedStores, NoCommitAgain,
     CommitLingersStores, CommitClosesStores
<1>5. ASSUME NEW n \in DOMAIN native, NativeCommit(n) PROVE StoreInv'
  BY <1>1, <1>2, <1>5, NativeCommitStores
<1>6. ASSUME NEW c \in waits, CommitSucceeded(c) \/ CommitRetries(c) PROVE StoreInv'
  BY <1>1, <1>2, <1>6, CommitSucceededStores, CommitRetriesStores
<1>7. ASSUME NEW f \in parked, HooksDone(f) \/ HookFailed(f) PROVE StoreInv'
  BY <1>1, <1>2, <1>7, HooksStores
<1>8. CASE Proceeds \/ Commit
  BY <1>1, <1>2, <1>8, ProceedsStores, CommitStores
<1>9. ASSUME NEW s \in Scans, ScanDone(s) PROVE StoreInv'
  BY <1>1, <1>2, <1>9, ScanDoneStores
<1>10. ASSUME NEW d \in Dbs, NEW k \in Keys, OtherWrite(d, k) PROVE StoreInv'
  <2>1. UNCHANGED <<native, applied, stack, parked, waits, writes, saved, retries, open, transaction, request>>
    BY <1>10 DEF OtherWrite, objVars, callVars, reqVars
  <2> QED
    BY <1>1, <1>2, <2>1, NothingStores
<1> QED
  BY <1>1, <1>3, <1>4, <1>5, <1>6, <1>7, <1>8, <1>9, <1>10, CommitSteps

(***************************************************************************)
(* The log and the store.                                                  *)
(***************************************************************************)
LEMMA NativeCommitLogs ==
  ASSUME TypeOK, NativesInv, LogMatchesStore, StoredOnce, NEW n \in DOMAIN native, NativeCommit(n)
  PROVE  LogMatchesStore' /\ StoredOnce'
<1>1. native[n].state = "committing" /\ native[n] \in NativeTxn
  BY DEF NativeCommit, TypeOK
<1>2. PICK d \in Dbs : d = native[n].db
  BY <1>1 DEF NativeTxn
<1>3. CASE UNCHANGED <<applied, logged>>
  BY <1>3 DEF LogMatchesStore, StoredOnce, Commits
<1>4. CASE ~UNCHANGED <<applied, logged>>
  <2> DEFINE stored(op) == [db |-> d, key |-> op.key, base |-> op.base, over |-> version[d][op.key]]
  <2>1. /\ applied' = applied \cup {stored(op) : op \in native[n].ops}
        /\ logged' = [logged EXCEPT ![d] = [k \in Keys |-> @[k] + native[n].log[k]]]
    BY <1>2, <1>4 DEF NativeCommit
  <2>2. logged \in [Dbs -> [Keys -> Nat]] /\ native[n].log \in [Keys -> Nat]
    BY <1>1 DEF TypeOK, NativeTxn
  <2>3. \A a \in applied : a.db # d
    <3>1. ASSUME NEW a \in applied, a.db = d PROVE FALSE
      <4>1. PICK m \in DOMAIN native : native[m].db = a.db /\ native[m].state = "committed"
        BY DEF NativesInv
      <4>2. m = n
        BY <1>2, <3>1, <4>1 DEF NativesInv
      <4> QED
        BY <1>1, <4>1, <4>2
    <3> QED
      BY <3>1
  <2>4. ASSUME NEW k \in Keys PROVE logged'[d][k] = Cardinality(Commits(d, k)') /\ logged'[d][k] <= 1
    <3>1. Commits(d, k) = {}
      BY <2>3 DEF Commits
    <3>2. logged[d][k] = 0
      BY <3>1, FS_EmptySet DEF LogMatchesStore
    <3>3. logged'[d][k] = native[n].log[k]
      BY <2>1, <2>2, <3>2
    <3>4. native[n].log[k] \in {0, 1} /\ (native[n].log[k] = 1 <=> k \in OpKeys(n))
      BY <1>1 DEF NativesInv, Consistent, LoggedKeys
    <3>5. \A a : a \in Commits(d, k)' <=> \E op \in native[n].ops : op.key = k /\ a = stored(op)
      BY <2>1, <2>3 DEF Commits
    <3>6. CASE k \in OpKeys(n)
      <4>1. PICK op \in native[n].ops : op.key = k
        BY <3>6 DEF OpKeys
      <4>2. \A o \in native[n].ops : o.key = k => o = op
        BY <4>1 DEF NativesInv, Consistent
      <4>3. Commits(d, k)' = {stored(op)}
        <5> HIDE DEF stored
        <5> QED
          BY <3>5, <4>1, <4>2
      <4>4. Cardinality({stored(op)}) = 1
        BY FS_Singleton
      <4> QED
        BY <3>3, <3>4, <3>6, <4>3, <4>4
    <3>7. CASE k \notin OpKeys(n)
      <4>1. Commits(d, k)' = {}
        BY <3>5, <3>7 DEF OpKeys
      <4> QED
        BY <3>3, <3>4, <3>7, <4>1, FS_EmptySet
    <3> QED
      BY <3>6, <3>7
  <2>5. ASSUME NEW e \in Dbs, e # d, NEW k \in Keys
        PROVE  logged'[e][k] = logged[e][k] /\ Commits(e, k)' = Commits(e, k)
    <3>1. logged'[e][k] = logged[e][k]
      BY <2>1, <2>2, <2>5
    <3>2. \A a : a \in Commits(e, k)' <=> a \in Commits(e, k)
      BY <2>1, <2>5 DEF Commits
    <3> QED
      BY <3>1, <3>2
  <2>6. ASSUME NEW e \in Dbs, NEW k \in Keys
        PROVE  logged'[e][k] = Cardinality(Commits(e, k)') /\ Cardinality(Commits(e, k)') <= 1
    <3>1. CASE e = d
      BY <2>4, <3>1
    <3>2. CASE e # d
      BY <2>5, <3>2 DEF LogMatchesStore, StoredOnce
    <3> QED
      BY <3>1, <3>2
  <2> QED
    BY <2>6 DEF LogMatchesStore, StoredOnce
<1> QED
  BY <1>3, <1>4

RecordInv == CommitInv /\ (Alive => StoreInv /\ OwnSave) /\ LogMatchesStore /\ StoredOnce

LEMMA RecordInit == Init => RecordInv
<1> SUFFICES ASSUME Init PROVE RecordInv
  OBVIOUS
<1>1. stack = <<>> /\ parked = {} /\ waits = {} /\ applied = {} /\ DOMAIN native = {}
  BY DEF Init
<1>2. Turns = {}
  BY <1>1, NoneUnderWay
<1>3. NativesInv
  BY <1>1 DEF NativesInv
<1>4. ObjectsInv
  BY <1>1, <1>2 DEF ObjectsInv, ObjectStores, FirstSave, Idle, Init
<1>5. \A d \in Dbs, k \in Keys : Commits(d, k) = {} /\ logged[d][k] = 0
  BY DEF Commits, Init
<1>6. LogMatchesStore /\ StoredOnce
  BY <1>5, FS_EmptySet, SMTT(30) DEF LogMatchesStore, StoredOnce
<1> QED
  BY <1>1, <1>3, <1>4, <1>6, CommitInit DEF RecordInv, StoreInv, OwnSave, Idle

LEMMA RecordStep ==
  ASSUME OneCommit, RecordInv, [Next]_vars
  PROVE  RecordInv'
<1>1. CommitInv /\ CommitInv' /\ TypeOK /\ TypeOK' /\ QuietInv /\ QuietInv'
  <2>1. CommitInv /\ CommitInv'
    BY CommitStep DEF RecordInv
  <2> QED
    BY <2>1 DEF CommitInv
<1>2. CASE UNCHANGED vars
  <2>1. UNCHANGED <<native, applied, logged, stack, parked, waits, writes, saved, retries, open, transaction, request>>
    BY <1>2 DEF vars, objVars, callVars, reqVars, storeVars
  <2>2. ASSUME Alive' PROVE StoreInv' /\ OwnSave'
    <3>1. Alive /\ StoreInv /\ OwnSave
      BY <2>1, <2>2 DEF Alive, RecordInv
    <3>2. HandleInv /\ AliveInv
      BY <1>1, <3>1 DEF CommitInv, UpdateInv
    <3>3. StoreInv'
      BY <1>1, <2>1, <3>1, <3>2, NothingStores
    <3> QED
      BY <2>1, <3>1, <3>3 DEF OwnSave, Idle, Top
  <2>3. LogMatchesStore' /\ StoredOnce'
    BY <2>1 DEF RecordInv, LogMatchesStore, StoredOnce, Commits
  <2> QED
    BY <1>1, <2>2, <2>3 DEF RecordInv
<1>3. CASE Next
  <2>1. ASSUME Alive' PROVE StoreInv' /\ OwnSave'
    <3>1. Alive /\ StoreInv /\ OwnSave
      BY <1>1, <1>3, <2>1, NoWayBack DEF RecordInv
    <3>2. TurnInv
      BY <1>1, <3>1 DEF CommitInv
    <3> QED
      BY <1>1, <1>3, <2>1, <3>1, <3>2, StoreStep, OwnSaveStep
  <2>2. LogMatchesStore' /\ StoredOnce'
    <3>1. CASE UNCHANGED <<applied, logged>>
      BY <3>1 DEF RecordInv, LogMatchesStore, StoredOnce, Commits
    <3>2. ASSUME NEW n \in DOMAIN native, NativeCommit(n) PROVE LogMatchesStore' /\ StoredOnce'
      <4>1. native[n].state = "committing"
        BY <3>2 DEF NativeCommit
      <4>2. ~NothingGiven
        BY <4>1 DEF NothingGiven
      <4>3. Alive
        BY <1>1, <4>2 DEF TypeOK, QuietInv, Alive
      <4> QED
        BY <1>1, <3>2, <4>3, NativeCommitLogs DEF RecordInv, StoreInv
    <3> QED
      BY <1>3, <3>1, <3>2, AppliedByStore
  <2> QED
    BY <1>1, <2>1, <2>2 DEF RecordInv
<1> QED
  BY <1>2, <1>3

LEMMA RecordInvariant ==
  ASSUME OneCommit
  PROVE  Spec => []RecordInv
<1>1. RecordInv /\ [Next]_vars => RecordInv'
  BY RecordStep
<1> QED
  BY RecordInit, <1>1, PTL DEF Spec

\* No write is stored a second time: a database of the chain has one native
\* transaction, whose operations have different keys, and it is committed once,
\* whatever retries and lingering writes come between.
THEOREM StoresOnce ==
  ASSUME OneCommit
  PROVE  Spec => []StoredOnce
<1>1. RecordInv => StoredOnce
  BY DEF RecordInv
<1> QED
  BY <1>1, RecordInvariant, PTL

\* The transaction log gets one entry for each write that is stored, and none
\* for another: the log batch that stays with a native transaction through
\* ERR_BUSY has the keys of the operations saved again for the retry.
THEOREM LogIsExact ==
  ASSUME OneCommit
  PROVE  Spec => []LogMatchesStore
<1>1. RecordInv => LogMatchesStore
  BY DEF RecordInv
<1> QED
  BY <1>1, RecordInvariant, PTL

(***************************************************************************)
(* When the promise of commit resolves, what the request has written is    *)
(* stored, or lingers.  For requests as above, where other requests write  *)
(* to the last database of the chain at most: the options of a retry go    *)
(* down the chain with its transaction, and the databases behind it commit *)
(* that in place of their own.                                             *)
(***************************************************************************)
LastConflicts == ConflictDbs \subseteq {NDbs}

\* Until its commit has resolved or failed.
Settling == request \in {"running", "committing"}

\* Where nobody else writes, a native transaction meets no conflict.
SnapsCurrent ==
    \A n \in DOMAIN native :
        native[n].db \notin ConflictDbs =>
            /\ native[n].state # "busy"
            /\ native[n].state \in {"open", "committing"} => native[n].snap = version[native[n].db]

\* An open object that counts its uses has one, and one for each iterator.
UsesCounted ==
    \A d \in Dbs :
        (open[d] = "OPEN" /\ used[d] # NaN) => used[d] = Cardinality(Active(d)) + 1

\* Native transactions of this step are those before it, further in their
\* life, or have the current snapshot.
SnapsMove ==
    \A n \in DOMAIN native' :
        \/ /\ n \in DOMAIN native
           /\ native'[n].db = native[n].db /\ native'[n].snap = native[n].snap
           /\ \/ native'[n].state = native[n].state
              \/ native'[n].state \in {"committed", "aborted"}
              \/ native[n].state = "open" /\ native'[n].state = "committing"
        \/ native'[n].state = "open" /\ native'[n].snap = version[native'[n].db]

LEMMA NativeOf ==
  ASSUME TypeOK, NEW n \in DOMAIN native
  PROVE  native[n] \in NativeTxn /\ native[n].db \in Dbs /\ n \in 1 .. Len(native) /\ n \in Nat
<1>1. native \in Seq(NativeTxn)
  BY DEF TypeOK
<1>2. native[n] \in NativeTxn /\ n \in 1 .. Len(native)
  BY <1>1
<1> QED
  BY <1>2 DEF NativeTxn

LEMMA SnapsMoved ==
  ASSUME SnapsCurrent, SnapsMove, UNCHANGED version
  PROVE  SnapsCurrent'
<1> SUFFICES ASSUME NEW n \in DOMAIN native', native'[n].db \notin ConflictDbs
             PROVE  /\ native'[n].state # "busy"
                    /\ native'[n].state \in {"open", "committing"}
                         => native'[n].snap = version'[native'[n].db]
  BY DEF SnapsCurrent
<1> QED
  BY DEF SnapsCurrent, SnapsMove

LEMMA SameSnaps ==
  ASSUME UNCHANGED native
  PROVE  SnapsMove
  BY DEF SnapsMove

LEMMA AbortSnaps ==
  ASSUME TypeOK, NEW m \in Nat, native' = NativeAbort(m)
  PROVE  SnapsMove
<1>1. DOMAIN native = 1 .. Len(native) /\ DOMAIN native' = 1 .. Len(native)
  <2>1. native' \in Seq(NativeTxn) /\ Len(native') = Len(native)
    BY AbortType
  <2> QED
    BY <2>1 DEF TypeOK
<1> QED
  BY <1>1, AbortChange DEF SnapsMove

LEMMA ReadSnaps ==
  ASSUME TypeOK, NEW d \in Dbs, NEW more, GetReadTxn(d, more)
  PROVE  SnapsMove
<1>1. \A n \in DOMAIN native' :
         n \in DOMAIN native \/ (n = transaction'[d] /\ native'[n] = FreshNative(d))
  BY ReadContents
<1>2. \A n \in DOMAIN native : native'[n] = native[n]
  BY ReadContents
<1> QED
  BY <1>1, <1>2 DEF SnapsMove, FreshNative

LEMMA SaveSnaps ==
  ASSUME TypeOK, TypeOK', HandleInv, Save
  PROVE  SnapsMove /\ UNCHANGED version
<1>1. ~Idle /\ Top \in SaveFrames /\ Top.at = "save" /\ UNCHANGED version
  BY SaveEffect
<1>2. Top.txn <= Len(native)
  BY <1>1, LiveType DEF HandleInv, FrameHolds
<1>3. /\ Written.db = SaveNatives[SaveHandle].db /\ Written.state = SaveNatives[SaveHandle].state
      /\ Written.snap = SaveNatives[SaveHandle].snap
  BY <1>1, <1>2, SavedValues
<1>4. /\ \A n \in DOMAIN native' : n # SaveHandle => n \in DOMAIN native /\ native'[n] = native[n]
      /\ SaveTxn # None => SaveHandle \in DOMAIN native /\ SaveNatives[SaveHandle] = native[SaveHandle]
      /\ SaveTxn = None => SaveNatives[SaveHandle] = FreshNative(Top.db)
      /\ native'[SaveHandle] \in {SaveNatives[SaveHandle], Written}
  BY SaveResult
<1>5. PICK h, s : h = SaveHandle /\ s = SaveNatives[SaveHandle]
  OBVIOUS
<1>6. native'[h].db = s.db /\ native'[h].state = s.state /\ native'[h].snap = s.snap
  BY <1>3, <1>4, <1>5
<1>7. SaveTxn = None => s.db = Top.db /\ s.state = "open" /\ s.snap = version[Top.db]
  BY <1>4, <1>5 DEF FreshNative
<1> QED
  BY <1>1, <1>4, <1>5, <1>6, <1>7 DEF SnapsMove

LEMMA ClosingSnaps ==
  ASSUME TypeOK, HandleInv, TurnInv, CommitCloses
  PROVE  SnapsMove /\ UNCHANGED version
<1>1. ~Idle /\ Top.at = "close" /\ UNCHANGED version
  BY DEF CommitCloses
<1>2. PICK n \in Nat : n = Top.txn
  BY <1>1, TopAlone
<1>3. \/ native' = native
      \/ native' = NativeAbort(n)
      \/ native' = [native EXCEPT ![n].state = IF @ = "open" THEN "committing" ELSE @]
  BY <1>2 DEF CommitCloses
<1>4. CASE native' = native
  BY <1>1, <1>4, SameSnaps
<1>5. CASE native' = NativeAbort(n)
  BY <1>1, <1>5, AbortSnaps
<1>6. CASE native' = [native EXCEPT ![n].state = IF @ = "open" THEN "committing" ELSE @]
  <2>1. /\ DOMAIN native' = DOMAIN native
        /\ \A m \in DOMAIN native :
              native'[m] = IF m = n THEN [native[m] EXCEPT !.state = IF @ = "open" THEN "committing" ELSE @]
                           ELSE native[m]
    BY <1>6
  <2>2. \A m \in DOMAIN native : native[m] \in NativeTxn
    BY DEF TypeOK
  <2>3. ASSUME NEW m \in DOMAIN native
        PROVE  /\ native'[m].db = native[m].db /\ native'[m].snap = native[m].snap
               /\ native'[m].state = native[m].state
                    \/ (native[m].state = "open" /\ native'[m].state = "committing")
    BY <2>1, <2>2 DEF NativeTxn
  <2> QED
    BY <1>1, <2>1, <2>3 DEF SnapsMove
<1> QED
  BY <1>3, <1>4, <1>5, <1>6

LEMMA StoringSnaps ==
  ASSUME TypeOK, NativesInv, SnapsCurrent, NEW n \in DOMAIN native, NativeCommit(n)
  PROVE  SnapsCurrent'
<1>1. PICK d \in Dbs : d = native[n].db
  BY NativeOf
<1>2. /\ native[n].state = "committing" /\ n \in 1 .. Len(native) /\ n \in Nat
      /\ \E st \in {"busy", "committed"} : native' = [native EXCEPT ![n].state = st]
      /\ \A e \in Dbs : e # d => version'[e] = version[e]
  <2>1. version \in [Dbs -> [Keys -> Nat]]
    BY DEF TypeOK
  <2>2. \A e \in Dbs : e # d => version'[e] = version[e]
    BY <1>1, <2>1 DEF NativeCommit
  <2>3. \E st \in {"busy", "committed"} : native' = [native EXCEPT ![n].state = st]
    BY DEF NativeCommit
  <2> QED
    BY <2>2, <2>3, NativeOf DEF NativeCommit
<1>3. PICK st \in {"busy", "committed"} : native' = [native EXCEPT ![n].state = st]
  BY <1>2
<1>4. d \notin ConflictDbs => st = "committed"
  <2>1. ASSUME d \notin ConflictDbs PROVE ~Conflicts(n)
    BY <1>1, <1>2, <2>1 DEF SnapsCurrent, Conflicts
  <2>2. native[n] \in NativeTxn
    BY NativeOf
  <2>3. native'[n].state = st
    BY <1>2, <1>3, <2>2 DEF NativeTxn
  <2> QED
    BY <2>1, <2>2, <2>3 DEF NativeCommit, NativeTxn
<1>5. /\ DOMAIN native' = DOMAIN native
      /\ \A m \in DOMAIN native :
            /\ native'[m].state = IF m = n THEN st ELSE native[m].state
            /\ native'[m].db = native[m].db /\ native'[m].snap = native[m].snap
  <2>1. DOMAIN native' = DOMAIN native
    BY <1>3
  <2>2. \A m \in DOMAIN native : m \in 1 .. Len(native)
    BY NativeOf
  <2>3. LET changed == [native EXCEPT ![n].state = st]
        IN \A m \in 1 .. Len(native) :
              /\ changed[m].state = IF m = n THEN st ELSE native[m].state
              /\ changed[m].db = native[m].db /\ changed[m].snap = native[m].snap
    BY <1>2, StateChange
  <2> QED
    BY <1>3, <2>1, <2>2, <2>3
<1>6. \A m \in DOMAIN native : m # n => native[m].db # d /\ native[m].db \in Dbs
  BY <1>1, NativeOf DEF NativesInv
<1>7. ASSUME NEW m \in DOMAIN native', native'[m].db \notin ConflictDbs
      PROVE  /\ native'[m].state # "busy"
             /\ native'[m].state \in {"open", "committing"}
                  => native'[m].snap = version'[native'[m].db]
  <2>1. CASE m = n
    BY <1>1, <1>4, <1>5, <1>7, <2>1
  <2>2. CASE m # n
    BY <1>2, <1>5, <1>6, <1>7, <2>2 DEF SnapsCurrent
  <2> QED
    BY <2>1, <2>2
<1> QED
  BY <1>7 DEF SnapsCurrent

LEMMA RetrySnaps ==
  ASSUME TypeOK, NEW c \in waits, CommitRetries(c)
  PROVE  SnapsMove /\ UNCHANGED version
<1>1. PICK n \in DOMAIN native : n = c.txn
  BY DEF TypeOK
<1>2. native' = [native EXCEPT ![n] = Restarted(n)] /\ UNCHANGED version
  BY <1>1, RestartedType DEF CommitRetries
<1>3. /\ DOMAIN native' = DOMAIN native /\ native'[n] = Restarted(n)
      /\ \A m \in DOMAIN native : m # n => native'[m] = native[m]
  BY <1>2
<1>4. Restarted(n).state = "open" /\ Restarted(n).snap = version[Restarted(n).db]
  BY RestartedType
<1> QED
  BY <1>2, <1>3, <1>4 DEF SnapsMove

LEMMA SnapsStep ==
  ASSUME OneCommit, RecordInv, RecordInv', Next, Alive', SnapsCurrent
  PROVE  SnapsCurrent'
<1>1. CommitInv /\ Alive /\ TypeOK /\ TypeOK' /\ HandleInv /\ QuietInv /\ UpdateInv
  BY NoWayBack DEF RecordInv, CommitInv
<1>2. TurnInv /\ StoreInv
  BY <1>1 DEF RecordInv, CommitInv
<1>3. CASE Save
  BY <1>1, <1>3, SaveSnaps, SnapsMoved
<1>4. CASE CommitWrite \/ CommitValidated \/ CommitLingers \/ CommitAgain \/ Commit
           \/ (\E c \in waits : CommitSucceeded(c)) \/ \E f \in parked : HooksDone(f) \/ HookFailed(f)
  <2>1. UNCHANGED <<native, version>>
    BY <1>4 DEF CommitWrite, CommitValidated, CommitLingers, CommitAgain, Commit, CommitSucceeded,
                HooksDone, HookFailed, storeVars
  <2> QED
    BY <2>1, SameSnaps, SnapsMoved
<1>5. CASE CommitCloses
  BY <1>1, <1>2, <1>5, ClosingSnaps, SnapsMoved
<1>6. ASSUME NEW n \in DOMAIN native, NativeCommit(n) PROVE SnapsCurrent'
  BY <1>1, <1>2, <1>6, StoringSnaps DEF StoreInv
<1>7. ASSUME NEW c \in waits, CommitRetries(c) PROVE SnapsCurrent'
  BY <1>1, <1>7, RetrySnaps, SnapsMoved
<1>8. CASE Proceeds
  <2>1. UNCHANGED version
    BY <1>1, <1>8, ProceedsEffect
  <2>2. UNCHANGED native \/ \E d \in Dbs, more \in {0, 1} : GetReadTxn(d, more)
    BY <1>8 DEF Proceeds, Write, Event, ScanStart, storeVars
  <2> QED
    BY <1>1, <2>1, <2>2, ReadSnaps, SameSnaps, SnapsMoved
<1>9. ASSUME NEW s \in Scans, ScanDone(s) PROVE SnapsCurrent'
  <2>0. scan[s].db \in Dbs
    BY <1>1 DEF TypeOK
  <2>1. UNCHANGED version /\ DoneReadTxn(scan[s].db) /\ scan[s].db \in Dbs
    BY <1>9, <2>0 DEF ScanDone
  <2>2. UNCHANGED native \/ native' = NativeAbort(transaction[scan[s].db])
    BY <2>1 DEF DoneReadTxn, LastUse
  <2>3. transaction[scan[s].db] \in Nat
    BY <1>1, <2>1 DEF TypeOK, Handles
  <2> QED
    BY <1>1, <2>1, <2>2, <2>3, AbortSnaps, SameSnaps, SnapsMoved
<1>10. ASSUME NEW d \in Dbs, NEW k \in Keys, OtherWrite(d, k) PROVE SnapsCurrent'
  <2>0. version \in [Dbs -> [Keys -> Nat]]
    BY <1>1 DEF TypeOK
  <2>1. UNCHANGED native /\ d \in ConflictDbs /\ \A e \in Dbs : e # d => version'[e] = version[e]
    BY <1>10, <2>0 DEF OtherWrite
  <2>2. \A n \in DOMAIN native : native[n].db \in Dbs
    BY <1>1, NativeOf
  <2> QED
    BY <2>1, <2>2 DEF SnapsCurrent
<1> QED
  BY <1>1, <1>3, <1>4, <1>5, <1>6, <1>7, <1>8, <1>9, <1>10, CommitSteps DEF OneCommit

(***************************************************************************)
(* The uses of an object are counted exactly.                              *)
(***************************************************************************)
LEMMA SameUses ==
  ASSUME UsesCounted, UNCHANGED scan,
         \A d \in Dbs : open'[d] = "OPEN" => open[d] = "OPEN" /\ used'[d] = used[d]
  PROVE  UsesCounted'
<1>1. \A d \in Dbs : Active(d)' = Active(d)
  BY DEF Active
<1> QED
  BY <1>1 DEF UsesCounted

LEMMA ReadUses ==
  ASSUME TypeOK, NEW d \in Dbs, NEW more \in {0, 1}, GetReadTxn(d, more), OpenState(d) = "OPEN",
         open[d] = "OPEN", OpenKeeps(d), UsesCounted
  PROVE  /\ used'[d] # NaN => used'[d] = Cardinality(Active(d)) + 1 + more
         /\ \A e \in Dbs : e # d => used'[e] = used[e]
         /\ IsFiniteSet(Active(d)) /\ Cardinality(Active(d)) \in Nat
<1>1. used \in [Dbs -> Int \cup {NaN}]
  BY DEF TypeOK
<1>2. IsFiniteSet(Active(d)) /\ Cardinality(Active(d)) \in Nat
  BY FS_CardinalityType DEF OpenKeeps
<1>3. /\ used'[d] = Plus(IF StartsNative(d) THEN 1 ELSE used[d], more)
      /\ \A e \in Dbs : e # d => used'[e] = used[e]
  BY <1>1 DEF GetReadTxn
<1>4. CASE transaction[d] # None
  <2>1. used'[d] = Plus(used[d], more)
    BY <1>3, <1>4 DEF StartsNative
  <2>2. used[d] # NaN => used[d] = Cardinality(Active(d)) + 1
    BY DEF UsesCounted
  <2> QED
    BY <1>1, <1>2, <1>3, <2>1, <2>2, NaNAssumption DEF Plus
<1>5. CASE transaction[d] = None
  <2>1. used'[d] = Plus(1, more)
    BY <1>3, <1>5 DEF StartsNative
  <2>2. Cardinality(Active(d)) = 0
    BY <1>5, FS_EmptySet DEF OpenKeeps
  <2> QED
    BY <1>2, <1>3, <2>1, <2>2, NaNAssumption DEF Plus
<1> QED
  BY <1>4, <1>5

LEMMA ProceedsUses ==
  ASSUME TypeOK, TypeOK', QuietInv, QuietInv', AliveInv, Alive, UsesCounted, Proceeds
  PROVE  UsesCounted'
<1>1. \A d \in Dbs : open[d] = "OPEN" /\ OpenState(d) = "OPEN"
  <2>1. Running
    BY DEF Proceeds, Write, Event, ScanStart, NewWrite
  <2> QED
    BY <2>1, RunningFacts
<1>2. ASSUME NEW d \in Dbs, NEW k \in Keys, NEW kind, Write(d, k, kind) PROVE UsesCounted'
  <2>1. GetReadTxn(d, 0) /\ UNCHANGED scan
    BY <1>2 DEF Write
  <2>2. OpenKeeps(d)
    BY DEF AliveInv
  <2>3. /\ used'[d] # NaN => used'[d] = Cardinality(Active(d)) + 1 + 0
        /\ \A e \in Dbs : e # d => used'[e] = used[e]
        /\ Cardinality(Active(d)) \in Nat
    BY <1>1, <2>1, <2>2, ReadUses
  <2>4. \A e \in Dbs : Active(e)' = Active(e)
    BY <2>1 DEF Active
  <2> QED
    BY <1>1, <2>3, <2>4 DEF UsesCounted
<1>3. ASSUME NEW d \in Dbs, NEW k \in Keys, Event(d, k) PROVE UsesCounted'
  <2>1. UNCHANGED <<used, scan>>
    BY <1>3 DEF Event
  <2> QED
    BY <1>1, <2>1, SameUses
<1>4. ASSUME NEW s \in Scans, NEW d \in Dbs, ScanStart(s, d) PROVE UsesCounted'
  <2>1. /\ GetReadTxn(d, 1) /\ scan[s].state = "idle"
        /\ scan' = [scan EXCEPT ![s] = [state |-> "active", db |-> d, txn |-> ReadTxn(d)]]
    BY <1>4 DEF ScanStart
  <2>2. OpenKeeps(d)
    BY DEF AliveInv
  <2>3. /\ used'[d] # NaN => used'[d] = Cardinality(Active(d)) + 1 + 1
        /\ \A e \in Dbs : e # d => used'[e] = used[e]
        /\ IsFiniteSet(Active(d)) /\ Cardinality(Active(d)) \in Nat
    BY <1>1, <2>1, <2>2, ReadUses
  <2>4. /\ Active(d)' = Active(d) \cup {s} /\ s \notin Active(d)
        /\ \A e \in Dbs : e # d => Active(e)' = Active(e)
    <3>1. scan \in [Scans -> [state : {"idle", "active", "done"}, db : Dbs, txn : Nat]]
      BY DEF TypeOK
    <3>2. scan'[s].state = "active" /\ scan'[s].db = d /\ \A t \in Scans : t # s => scan'[t] = scan[t]
      BY <2>1, <3>1
    <3> QED
      BY <2>1, <3>2 DEF Active
  <2>5. Cardinality(Active(d)') = Cardinality(Active(d)) + 1
    BY <2>3, <2>4, FS_AddElement
  <2>6. used'[d] # NaN => used'[d] = Cardinality(Active(d)') + 1
    BY <2>3, <2>5
  <2> QED
    BY <1>1, <2>3, <2>4, <2>6 DEF UsesCounted
<1> QED
  BY <1>2, <1>3, <1>4 DEF Proceeds

\* The end of an iterator leaves an open object what it has.
LEMMA DoneUses ==
  ASSUME TypeOK, AliveInv, UsesCounted, NEW s \in Scans, ScanDone(s), NEW d \in Dbs, d = scan[s].db,
         open[d] = "OPEN"
  PROVE  /\ UNCHANGED <<transaction, native, stack>>
         /\ used'[d] # NaN => used'[d] = Cardinality(Active(d)') + 1
<1>1. s \in Active(d) /\ Active(d)' = Active(d) \ {s}
  <2>1. scan \in [Scans -> [state : {"idle", "active", "done"}, db : Dbs, txn : Nat]]
    BY DEF TypeOK
  <2>2. scan[s].state = "active" /\ scan' = [scan EXCEPT ![s].state = "done"]
    BY DEF ScanDone
  <2>3. scan'[s].state = "done" /\ \A t \in Scans : t # s => scan'[t] = scan[t]
    BY <2>1, <2>2
  <2> QED
    BY <2>2, <2>3 DEF Active
<1>2. IsFiniteSet(Active(d)) /\ Cardinality(Active(d)) \in Nat /\ transaction[d] # None
  BY <1>1, FS_CardinalityType DEF AliveInv, OpenKeeps
<1>3. Cardinality(Active(d)') = Cardinality(Active(d)) - 1 /\ Cardinality(Active(d)') \in Nat
  BY <1>1, <1>2, FS_RemoveElement, FS_CardinalityType
<1>4. used \in [Dbs -> Int \cup {NaN}]
  BY DEF TypeOK
<1>5. used[d] # NaN => used[d] = Cardinality(Active(d)) + 1
  BY DEF UsesCounted
<1>6. /\ Plus(used[d], -1) # 0
      /\ Plus(used[d], -1) # NaN => Plus(used[d], -1) = Cardinality(Active(d)') + 1
  BY <1>2, <1>3, <1>4, <1>5, NaNAssumption DEF Plus
<1>7. UNCHANGED <<transaction, native, stack>> /\ used'[d] = Plus(used[d], -1)
  BY <1>2, <1>4, <1>6 DEF ScanDone, DoneReadTxn
<1> QED
  BY <1>6, <1>7

LEMMA UsesStep ==
  ASSUME OneCommit, RecordInv, RecordInv', Next, Alive', UsesCounted
  PROVE  UsesCounted'
<1>1. /\ CommitInv /\ Alive /\ TypeOK /\ TypeOK' /\ HandleInv /\ QuietInv /\ QuietInv'
      /\ UpdateInv /\ AliveInv /\ TurnInv
  BY NoWayBack DEF RecordInv, CommitInv, UpdateInv
<1>2. CASE CommitWrite \/ CommitValidated \/ CommitAgain \/ Commit \/ Save
           \/ (\E n \in DOMAIN native : NativeCommit(n))
           \/ (\E c \in waits : CommitSucceeded(c) \/ CommitRetries(c))
           \/ (\E f \in parked : HooksDone(f) \/ HookFailed(f))
           \/ \E d \in Dbs, k \in Keys : OtherWrite(d, k)
  <2>1. UNCHANGED <<open, used, scan>>
    BY <1>2 DEF CommitWrite, CommitValidated, CommitAgain, Commit, Save, NativeCommit, OtherWrite,
                CommitSucceeded, CommitRetries, HooksDone, HookFailed, objVars, reqVars
  <2> QED
    BY <2>1, SameUses, SMTT(30)
<1>3. CASE CommitLingers \/ CommitCloses
  <2>1. ~Idle /\ Top.at = "close"
    BY <1>3 DEF CommitLingers, CommitCloses
  <2>2. PICK d \in Dbs : d = Top.db
    BY <1>1, <2>1, TopAlone
  <2>3. /\ \E st \in {"LINGERING", "CLOSED"} : open' = [open EXCEPT ![d] = st]
        /\ used' = [used EXCEPT ![d] = Plus(@, -1)] /\ UNCHANGED scan
    BY <1>3, <2>2 DEF CommitLingers, CommitCloses, LeftOpen
  <2>4. open \in [Dbs -> States] /\ used \in [Dbs -> Int \cup {NaN}]
    BY <1>1 DEF TypeOK
  <2>5. open'[d] # "OPEN" /\ \A e \in Dbs : e # d => open'[e] = open[e] /\ used'[e] = used[e]
    BY <2>3, <2>4
  <2> QED
    BY <2>3, <2>5, SameUses
<1>4. CASE Proceeds
  BY <1>1, <1>4, ProceedsUses
<1>5. ASSUME NEW s \in Scans, ScanDone(s) PROVE UsesCounted'
  <2>1. PICK d \in Dbs : d = scan[s].db
    BY <1>1 DEF TypeOK
  <2>2. scan' = [scan EXCEPT ![s].state = "done"] /\ UNCHANGED open /\ DoneReadTxn(d)
    BY <1>5, <2>1 DEF ScanDone
  <2>3. used \in [Dbs -> Int \cup {NaN}]
        /\ scan \in [Scans -> [state : {"idle", "active", "done"}, db : Dbs, txn : Nat]]
    BY <1>1 DEF TypeOK
  <2>4. \A e \in Dbs : e # d => used'[e] = used[e]
    BY <2>2, <2>3 DEF DoneReadTxn
  <2>5. \A e \in Dbs : e # d => Active(e)' = Active(e)
    <3>1. scan'[s].db = d /\ \A t \in Scans : t # s => scan'[t] = scan[t]
      BY <2>1, <2>2, <2>3
    <3> QED
      BY <2>1, <3>1 DEF Active
  <2>6. open[d] = "OPEN" => (used'[d] # NaN => used'[d] = Cardinality(Active(d)') + 1)
    BY <1>1, <1>5, <2>1, DoneUses
  <2>7. ASSUME NEW e \in Dbs, open'[e] = "OPEN", used'[e] # NaN
        PROVE  used'[e] = Cardinality(Active(e)') + 1
    BY <2>2, <2>4, <2>5, <2>6, <2>7 DEF UsesCounted
  <2> QED
    BY <2>7 DEF UsesCounted
<1> QED
  BY <1>1, <1>2, <1>3, <1>4, <1>5, CommitSteps DEF OneCommit

(***************************************************************************)
(* What stays: the request is not yet over before, what is stored.         *)
(***************************************************************************)
LEMMA StillSettling ==
  ASSUME TypeOK, QuietInv, Next, Settling'
  PROVE  Settling /\ (request' = "running" => request = "running")
<1>1. request' = "running" => request = "running"
  BY NeverAgain
<1>2. request' = "committing" => request \in {"running", "resumed", "committing"}
  <2>1. CASE CallStep
    BY <2>1 DEF CallStep, Save, CommitWrite, CommitValidated, CommitAgain, CommitLingers,
                CommitCloses, AbortEnd, AfterCommit, reqVars
  <2>2. CASE Completion
    BY <2>2 DEF Completion, NativeCommit, CommitSucceeded, CommitRetries, HooksDone, HookFailed,
                AfterCommit, reqVars
  <2>3. CASE RequestStep
    <3>1. Commit => request \in {"running", "resumed"}
      BY DEF Commit, Running
    <3>2. request' = "committing" => request = "committing" \/ Commit
      BY <2>3 DEF RequestStep, Write, WriteLoaded, Event, ScanStart, ScanDone, LoadStart, LoadFromSource,
                  SourceLoaded, CommitMidway, Abort, reqVars
    <3> QED
      BY <3>1, <3>2
  <2>4. CASE Environment
    BY <2>4 DEF Environment, Timeout, OtherWrite, reqVars
  <2> QED
    BY <2>1, <2>2, <2>3, <2>4, SMTT(30) DEF Next
<1> QED
  BY <1>1, <1>2 DEF Settling, QuietInv

LEMMA AppliedGrows ==
  ASSUME Next
  PROVE  applied \subseteq applied'
<1>1. ASSUME NEW n \in DOMAIN native, NativeCommit(n) PROVE applied \subseteq applied'
  BY <1>1 DEF NativeCommit
<1> QED
  BY <1>1, AppliedByStore

LEMMA StaysCommitted ==
  ASSUME applied \subseteq applied', NEW d, NEW k, Committed(d, k)
  PROVE  Committed(d, k)'
  BY DEF Committed, Commits

\* Only the end of a commit leaves writes to an iterator.
LEMMA NoneLinger ==
  ASSUME OneCommit, TypeOK, UsedInv, TurnInv, Settling, Settling'
  PROVE  ~CommitLingers
<1> SUFFICES ASSUME CommitLingers PROVE FALSE
  OBVIOUS
<1>1. ~Idle /\ Top.at = "close" /\ StillRead(Top.db)
      /\ AfterCommit(Top.db, Top.opt, Top.main, Tail(stack))
  BY DEF CommitLingers
<1>2. Top.db \in Dbs /\ Place(Top) /\ Top.main \in BOOLEAN
  BY <1>1, TopAlone
<1>3. Top.main /\ request = "committing"
  BY <1>2 DEF Place, Settling
<1>4. NDbs = 1
  BY <1>1, <1>2, LastReader DEF OneCommit
<1>5. ~(Top.db < NDbs)
  BY <1>2, <1>4 DEF Dbs
<1> QED
  BY <1>1, <1>3, <1>5 DEF AfterCommit, Settling

\* A closed object has no use left, as long as the request is not over.
ClosedUnused ==
    Settling => \A d \in Dbs : (open[d] # "OPEN" /\ used[d] # NaN) => used[d] <= 0

LEMMA ClosedStep ==
  ASSUME OneCommit, RecordInv, RecordInv', Next, Alive', ClosedUnused
  PROVE  ClosedUnused'
<1> SUFFICES ASSUME Settling' PROVE \A d \in Dbs : (open'[d] # "OPEN" /\ used'[d] # NaN) => used'[d] <= 0
  BY DEF ClosedUnused
<1>1. /\ CommitInv /\ Alive /\ TypeOK /\ TypeOK' /\ HandleInv /\ QuietInv /\ QuietInv'
      /\ UpdateInv /\ AliveInv /\ TurnInv /\ UsedInv
  BY NoWayBack DEF RecordInv, CommitInv, UpdateInv
<1>2. Settling /\ \A d \in Dbs : (open[d] # "OPEN" /\ used[d] # NaN) => used[d] <= 0
  BY <1>1, StillSettling DEF ClosedUnused
<1>3. open \in [Dbs -> States] /\ used \in [Dbs -> Int \cup {NaN}]
  BY <1>1, SMTT(30) DEF TypeOK
<1>4. CASE CommitWrite \/ CommitValidated \/ CommitAgain \/ Commit \/ Save
           \/ (\E n \in DOMAIN native : NativeCommit(n))
           \/ (\E c \in waits : CommitSucceeded(c) \/ CommitRetries(c))
           \/ (\E f \in parked : HooksDone(f) \/ HookFailed(f))
           \/ \E d \in Dbs, k \in Keys : OtherWrite(d, k)
  <2>1. UNCHANGED <<open, used>>
    BY <1>4 DEF CommitWrite, CommitValidated, CommitAgain, Commit, Save, NativeCommit, OtherWrite,
                CommitSucceeded, CommitRetries, HooksDone, HookFailed, objVars, reqVars
  <2> QED
    BY <1>2, <2>1
<1>5. ~CommitLingers
  BY <1>1, <1>2, NoneLinger
<1>6. CASE CommitCloses
  <2>1. ~Idle /\ Top.at = "close" /\ ~StillRead(Top.db)
        /\ open' = [open EXCEPT ![Top.db] = "CLOSED"]
        /\ used' = [used EXCEPT ![Top.db] = Plus(@, -1)]
    BY <1>6 DEF CommitCloses
  <2>2. PICK d \in Dbs : d = Top.db
    BY <1>1, <2>1, TopAlone
  <2>3. used'[d] # NaN => used'[d] <= 0
    BY <1>3, <2>1, <2>2, NaNAssumption DEF StillRead, Positive, Plus
  <2>4. \A e \in Dbs : e # d => open'[e] = open[e] /\ used'[e] = used[e]
    BY <1>3, <2>1, <2>2
  <2> QED
    BY <1>2, <2>3, <2>4
<1>7. CASE Proceeds
  <2>1. request' = "running"
    BY <1>1, <1>7, ProceedsEffect
  <2> QED
    BY <1>1, <2>1 DEF QuietInv
<1>8. ASSUME NEW s \in Scans, ScanDone(s)
      PROVE  \A d \in Dbs : (open'[d] # "OPEN" /\ used'[d] # NaN) => used'[d] <= 0
  <2>1. PICK d \in Dbs : d = scan[s].db
    BY <1>1 DEF TypeOK
  <2>2. UNCHANGED open /\ (UNCHANGED used \/ used' = [used EXCEPT ![d] = Plus(@, -1)])
    BY <1>8, <2>1 DEF ScanDone, DoneReadTxn
  <2>3. CASE UNCHANGED used
    BY <1>2, <2>2, <2>3
  <2>4. CASE used' = [used EXCEPT ![d] = Plus(@, -1)]
    <3>1. used'[d] = Plus(used[d], -1) /\ \A e \in Dbs : e # d => used'[e] = used[e]
      BY <1>3, <2>4
    <3>2. (open[d] # "OPEN" /\ used'[d] # NaN) => used'[d] <= 0
      BY <1>2, <1>3, <3>1, NaNAssumption DEF Plus
    <3> QED
      BY <1>2, <2>2, <3>1, <3>2
  <2> QED
    BY <2>2, <2>3, <2>4
<1> QED
  BY <1>1, <1>4, <1>5, <1>6, <1>7, <1>8, CommitSteps DEF OneCommit

(***************************************************************************)
(* Where the writes are as long as the request is not over.                *)
(***************************************************************************)
\* The writes of an open object are in its native transaction, or about to be.
WritesHaveTxn(d) ==
    (open[d] = "OPEN" /\ transaction[d] = None /\ writes[d] # <<>>)
        => request = "running" /\ ~Idle /\ Top.at = "save" /\ Top.db = d

\* Databases join the chain in their order, and before they are written to;
\* a write is with its object until it is stored.
ObjectSettles(d) ==
    /\ WritesHaveTxn(d)
    /\ chain[d] # "absent" => \A e \in Dbs : e < d => chain[e] # "absent"
    /\ request = "running" => chain[d] # "dropped"
    /\ \A k \in Keys : <<d, k>> \in issued =>
          chain[d] # "absent" /\ (k \in KeysOf(d) \/ Committed(d, k))

\* The commit has nothing left to store in the databases behind it, and will
\* come to all those before it; only the last one is committed with options.
PlaceSettles(x) ==
    /\ x.opt # None => x.db = NDbs
    /\ \A e \in Dbs : e < x.db => writes[e] = <<>>
    /\ \A e \in Dbs : e > x.db => chain[e] # "dropped"

TurnSettles(f) ==
    /\ PlaceSettles(f)
    /\ IF f.txn = None THEN writes[f.db] = <<>> ELSE native[f.txn].state = "open"

WaitSettles(c) ==
    /\ PlaceSettles(c)
    /\ native[c.txn].state \in {"committing", "busy", "committed"}
    /\ native[c.txn].state = "committed" => \A k \in KeysOf(c.db) : Committed(c.db, k)

PlacesSettle ==
    /\ \A d \in Dbs : ObjectSettles(d)
    /\ \A f \in Turns : TurnSettles(f)
    /\ \A c \in waits : WaitSettles(c)

SettleInv ==
    /\ Alive => SnapsCurrent /\ UsesCounted
    /\ ClosedUnused
    /\ Settling => PlacesSettle

LEMMA ObjectSettled ==
  ASSUME NEW d \in Dbs, ObjectSettles(d), UNCHANGED <<chain, issued>>, writes'[d] = writes[d],
         applied \subseteq applied', request' = "running" => request = "running", WritesHaveTxn(d)'
  PROVE  ObjectSettles(d)'
<1>1. \A k \in Keys : Committed(d, k) => Committed(d, k)'
  BY StaysCommitted
<1>2. KeysOf(d)' = KeysOf(d)
  BY DEF KeysOf
<1> QED
  BY <1>1, <1>2 DEF ObjectSettles

LEMMA TxnSettled ==
  ASSUME NEW d \in Dbs, WritesHaveTxn(d), Idle \/ Top.at # "save" \/ request # "running",
         writes'[d] = writes[d],
         (open'[d] = "OPEN" /\ transaction'[d] = None) => open[d] = "OPEN" /\ transaction[d] = None
  PROVE  WritesHaveTxn(d)'
  BY DEF WritesHaveTxn

LEMMA PlaceSettled ==
  ASSUME UNCHANGED <<writes, chain>>, NEW x, PlaceSettles(x), NEW y, y.db = x.db, y.opt = x.opt
  PROVE  PlaceSettles(y)'
  BY DEF PlaceSettles

\* The frame on top gives way to another of the same commit.
LEMMA FrameSettles ==
  ASSUME PlacesSettle, ~Idle, Top.at # "save", Turns = {Top}, NEW g, Turns' = {g}, waits' = {},
         g.db = Top.db, g.opt = Top.opt, g.txn = Top.txn,
         UNCHANGED <<open, chain, transaction, writes, issued, native, applied, request>>
  PROVE  PlacesSettle'
<1>1. PICK f : f = Top
  OBVIOUS
<1>2. \A d \in Dbs : ObjectSettles(d)'
  BY ObjectSettled, TxnSettled DEF PlacesSettle, ObjectSettles
<1>3. TurnSettles(f) /\ g.db = f.db /\ g.opt = f.opt /\ g.txn = f.txn
  BY <1>1 DEF PlacesSettle
<1>4. PlaceSettles(g)'
  BY <1>3, PlaceSettled DEF TurnSettles
<1>5. TurnSettles(g)'
  BY <1>3, <1>4 DEF TurnSettles
<1> QED
  BY <1>2, <1>5 DEF PlacesSettle

LEMMA CommitWriteSettles ==
  ASSUME TypeOK, TypeOK', TurnInv, PlacesSettle, CommitWrite
  PROVE  PlacesSettle'
<1>1. /\ ~Idle /\ Top.at = "loop" /\ Top.i <= Len(writes[Top.db])
      /\ stack' = IF retries[Top.db] = 0 /\ TurnKey \in saved[Top.db]
                  THEN <<Turn>> \o Tail(stack)
                  ELSE <<TurnSave>> \o (<<Turn>> \o Tail(stack))
      /\ UNCHANGED <<objVars, parked, waits, reqVars, storeVars>>
  BY CommitWriteEffect
<1>2. Turns = {Top} /\ parked = {} /\ waits = {} /\ Tail(stack) = <<>>
  BY <1>1, TopAlone
<1>3. /\ Turn \in CommitFrames /\ Turn.db = Top.db /\ Turn.opt = Top.opt /\ Turn.txn = Top.txn
      /\ TurnSave \in SaveFrames
  BY <1>1, TurnType
<1>4. PICK g \in CommitFrames, s \in SaveFrames : g = Turn /\ s = TurnSave
  BY <1>3
<1>5. parked' = {} /\ waits' = {} /\ <<g>> \o <<>> = <<g>>
  BY <1>1, <1>2
<1>6. stack' = <<g>> \/ stack' = <<s>> \o <<g>>
  BY <1>1, <1>2, <1>4, <1>5
<1>7. Turns' = {g}
  BY <1>5, <1>6, OneFrame, SaveAbove
<1>8. UNCHANGED <<open, chain, transaction, writes, issued, native, applied, request>>
  BY <1>1 DEF objVars, reqVars, storeVars
<1> QED
  BY <1>1, <1>2, <1>3, <1>4, <1>5, <1>7, <1>8, FrameSettles

LEMMA CommitValidatedSettles ==
  ASSUME TypeOK, TypeOK', TurnInv, TurnInv', PlacesSettle, CommitValidated
  PROVE  PlacesSettle'
<1>1. /\ ~Idle /\ Top.at = "loop"
      /\ UNCHANGED <<open, chain, transaction, writes, issued, native, applied, request, waits>>
  BY DEF CommitValidated, reqVars, storeVars
<1>2. Turns = {Top} /\ parked = {} /\ waits = {} /\ Tail(stack) = <<>>
  BY <1>1, TopAlone
<1>3. PICK g \in CommitFrames :
         /\ g.db = Top.db /\ g.opt = Top.opt /\ g.txn = Top.txn
         /\ \/ parked' = parked \cup {g} /\ stack' = Tail(stack)
            \/ parked' = parked /\ stack' = <<g>> \o Tail(stack)
  BY <1>1, CloseFrame
<1>4. <<g>> \o <<>> = <<g>> /\ {} \cup {g} = {g}
  OBVIOUS
<1>5. \/ parked' = {g} /\ stack' = <<>>
      \/ parked' = {} /\ stack' = <<g>>
  BY <1>2, <1>3, <1>4
<1>6. Turns' = {g}
  <2>1. CASE parked' = {g} /\ stack' = <<>>
    <3>1. FramesOf(stack') = {} /\ g \in Frames /\ g.at # "save"
      BY <2>1, NoFrame DEF Frames, CommitFrames
    <3> QED
      BY <2>1, <3>1 DEF Turns, Live
  <2>2. CASE parked' = {} /\ stack' = <<g>>
    BY <2>2, OneFrame
  <2> QED
    BY <1>5, <2>1, <2>2
<1> QED
  BY <1>1, <1>2, <1>3, <1>6, FrameSettles

\* save is called by the request, or by the loop of its commit.
LEMMA SaveSettles ==
  ASSUME RecordInv, RecordInv', Settling, Settling', PlacesSettle, Save
  PROVE  PlacesSettle'
<1>1. /\ Alive /\ TypeOK /\ TypeOK' /\ HandleInv /\ QuietInv /\ AliveInv /\ TurnInv /\ StoreInv /\ OwnSave
  BY DEF RecordInv, CommitInv, UpdateInv, Settling, Alive
<1>2. /\ ~Idle /\ Top.at = "save" /\ Top.db \in Dbs
      /\ SaveWrites \/ SaveRejects
      /\ UNCHANGED <<open, chain, writes, parked, waits, issued, applied>>
  BY <1>1, SaveEffect
<1>3. ~SaveRejects
  <2> SUFFICES ASSUME SaveRejects PROVE FALSE
    OBVIOUS
  <2>1. Tail(stack) # <<>> /\ request' = IF stack[2].main THEN "rejected" ELSE request
    BY DEF SaveRejects
  <2>2. PICK f \in CommitFrames : stack[2] = f /\ Place(f) /\ f.main \in BOOLEAN
    BY <1>1, <1>2, <2>1, SaveAlone
  <2>3. f.main
    BY <2>2 DEF Place, Settling
  <2> QED
    BY <2>1, <2>2, <2>3 DEF Settling
<1>4. /\ parked' = {} /\ waits' = {} /\ UNCHANGED request
      /\ transaction'[Top.db] = IF SaveTxn = None THEN SaveHandle ELSE transaction[Top.db]
      /\ \A e \in Dbs : e # Top.db => transaction'[e] = transaction[e]
      /\ \/ Turns = {} /\ Turns' = {}
         \/ \E f \in CommitFrames : Turns = {f} /\ Turns' = {f} /\ f.txn = Top.txn
  BY <1>1, <1>2, <1>3, SaveReturns
<1>5. SaveHandle # None
  BY <1>1, <1>2, SaveNativesType, SaveEffect
<1>6. ASSUME NEW d \in Dbs PROVE WritesHaveTxn(d)'
  <2>1. WritesHaveTxn(d)
    BY DEF PlacesSettle, ObjectSettles
  <2>2. CASE d # Top.db
    BY <1>2, <1>4, <2>1, <2>2 DEF WritesHaveTxn
  <2>3. CASE d = Top.db /\ request = "running"
    <3>1. Top.txn = None
      BY <1>1, <1>2, <2>3 DEF OwnSave
    <3>2. transaction'[d] # None
      BY <1>4, <1>5, <2>3, <3>1 DEF SaveTxn
    <3> QED
      BY <3>2 DEF WritesHaveTxn
  <2>4. CASE d = Top.db /\ request # "running"
    <3>1. transaction'[d] = None => transaction[d] = None
      BY <1>4, <1>5, <2>4
    <3> QED
      BY <1>2, <1>4, <2>1, <2>4, <3>1 DEF WritesHaveTxn
  <2> QED
    BY <2>2, <2>3, <2>4
<1>7. \A d \in Dbs : ObjectSettles(d)'
  BY <1>2, <1>4, <1>6, ObjectSettled DEF PlacesSettle
<1>8. ASSUME NEW f \in CommitFrames, Turns = {f}, Turns' = {f} PROVE TurnSettles(f)'
  <2>1. TurnSettles(f)
    BY <1>8 DEF PlacesSettle
  <2>2. PlaceSettles(f)'
    BY <1>2, <2>1, PlaceSettled DEF TurnSettles
  <2>3. f.txn # None => f.txn \in DOMAIN native
    BY <1>1, <1>8, TurnType2
  <2>4. f.txn # None => native'[f.txn].state = native[f.txn].state
    BY <1>1, <2>3, SaveMoves
  <2> QED
    BY <1>2, <2>1, <2>2, <2>4 DEF TurnSettles
<1>9. \A f \in Turns' : TurnSettles(f)'
  BY <1>4, <1>8
<1> QED
  BY <1>4, <1>7, <1>9 DEF PlacesSettle

LEMMA HooksSettle ==
  ASSUME TypeOK, TurnInv, TurnInv', PlacesSettle, NEW f \in parked, HooksDone(f) \/ HookFailed(f), Settling'
  PROVE  PlacesSettle'
<1>1. f.main /\ f \in CommitFrames /\ waits = {} /\ \A g \in parked : g = f
  BY DEF TurnInv, OneTurn, TypeOK
<1>2. HooksDone(f)
  BY <1>1 DEF HookFailed, Settling
<1>3. /\ Idle /\ parked' = {} /\ stack' = <<f>> /\ waits' = {}
      /\ UNCHANGED <<open, chain, transaction, writes, issued, native, applied, request>>
  <2>1. parked' = parked \ {f} /\ UNCHANGED waits
    BY <1>2 DEF HooksDone
  <2>2. parked' = {}
    BY <1>1, <2>1
  <2> QED
    BY <1>1, <1>2, <2>1, <2>2 DEF HooksDone, objVars, reqVars
<1>4. Turns' = {f}
  BY <1>1, <1>3, OneFrame
<1>5. f \in Turns
  <2>1. f.at # "save"
    BY <1>1 DEF CommitFrames
  <2> QED
    BY <2>1 DEF Turns, Live
<1>6. \A d \in Dbs : ObjectSettles(d)'
  BY <1>3, ObjectSettled, TxnSettled DEF PlacesSettle, ObjectSettles
<1>7. TurnSettles(f) /\ PlaceSettles(f)'
  BY <1>3, <1>5, PlaceSettled DEF PlacesSettle, TurnSettles
<1>8. TurnSettles(f)'
  BY <1>3, <1>7 DEF TurnSettles
<1> QED
  BY <1>3, <1>4, <1>6, <1>8 DEF PlacesSettle

LEMMA RetrySettles ==
  ASSUME LastConflicts, TypeOK, TypeOK', HandleInv, TurnInv, PlacesSettle, SnapsCurrent,
         NEW c \in waits, CommitRetries(c)
  PROVE  PlacesSettle'
<1>1. c.db \in Dbs /\ c.txn \in DOMAIN native /\ c.main \in BOOLEAN /\ c.txn \in Nat
      /\ c.txn \in 1 .. Len(native)
  <2>1. c \in Awaiting /\ c.txn \in DOMAIN native
    BY DEF TypeOK
  <2> QED
    BY <2>1, NativeOf DEF Awaiting
<1>2. PICK d \in Dbs, n \in DOMAIN native : d = c.db /\ n = c.txn
  BY <1>1
<1>3. /\ Idle /\ native[n].state = "busy" /\ waits' = waits \ {c} /\ UNCHANGED parked
      /\ stack' = <<CommitFrame(d, n, c.main)>>
      /\ UNCHANGED <<open, chain, transaction, writes, issued, applied, request>>
  BY <1>2 DEF CommitRetries, reqVars
<1>4. native' = [native EXCEPT ![n] = Restarted(n)] /\ Restarted(n).state = "open"
  BY <1>2, RestartedType DEF CommitRetries
<1>5. native[n].db = d
  <2>1. Place(c)
    BY DEF TurnInv
  <2>2. ~Over(n)
    BY <1>3 DEF Over
  <2>3. n # None
    BY <1>1, <1>2 DEF None
  <2> QED
    BY <1>2, <2>1, <2>2, <2>3 DEF Place
<1>6. d = NDbs
  BY <1>3, <1>5 DEF SnapsCurrent, LastConflicts
<1>7. waits' = {} /\ parked' = {}
  BY <1>3 DEF TurnInv, OneTurn
<1>8. PICK g : g = CommitFrame(d, n, c.main)
  OBVIOUS
<1>9. g \in CommitFrames /\ g.db = d /\ g.opt = n /\ g.txn = n /\ n # None
  <2>1. n # None /\ n \in Nat
    BY <1>1, <1>2 DEF None
  <2> QED
    BY <1>1, <1>2, <1>8, <2>1, FrameTypes DEF CommitFrame
<1>10. Turns' = {g}
  BY <1>3, <1>7, <1>8, <1>9, OneFrame
<1>11. PlaceSettles(g)'
  <2>1. PlaceSettles(c)
    BY DEF PlacesSettle, WaitSettles
  <2> QED
    BY <1>2, <1>3, <1>6, <1>9, <2>1 DEF PlaceSettles
<1>12. TurnSettles(g)'
  <2>1. native'[n].state = "open"
    BY <1>4
  <2> QED
    BY <1>9, <1>11, <2>1 DEF TurnSettles
<1>13. \A e \in Dbs : ObjectSettles(e)'
  BY <1>3, ObjectSettled, TxnSettled DEF PlacesSettle, ObjectSettles
<1> QED
  BY <1>7, <1>10, <1>12, <1>13 DEF PlacesSettle

LEMMA CommitSettles ==
  ASSUME TypeOK, HandleInv, QuietInv, Settling, PlacesSettle, Commit
  PROVE  PlacesSettle'
<1>1. /\ Running /\ stack' = <<CommitFrame(1, None, TRUE)>> /\ request' = "committing"
      /\ UNCHANGED <<open, chain, transaction, writes, issued, native, applied, parked, waits>>
  BY DEF Commit, objVars, storeVars
<1>2. request = "running" /\ Idle /\ NothingGiven /\ (\A d \in Dbs : open[d] = "OPEN") /\ 1 \in Dbs
  BY <1>1, RunningFacts, DbsType DEF Settling, Alive
<1>3. parked' = {} /\ waits' = {}
  BY <1>1, <1>2 DEF NothingGiven
<1>4. PICK d \in Dbs : d = 1
  BY <1>2
<1>5. transaction[d] \in Nat
  BY DEF TypeOK, Handles
<1>6. PICK g : g = CommitFrame(d, None, TRUE)
  OBVIOUS
<1>7. g \in CommitFrames /\ g.db = d /\ g.opt = None /\ g.txn = transaction[d]
  <2>1. CommitFrame(d, None, TRUE) \in CommitFrames
    BY FrameTypes DEF None
  <2> QED
    BY <1>6, <2>1 DEF CommitFrame
<1>8. Turns' = {g}
  BY <1>1, <1>3, <1>4, <1>6, <1>7, OneFrame
<1>9. PlaceSettles(g)'
  <2>1. \A e \in Dbs : ~(e < d)
    BY <1>4 DEF Dbs
  <2>2. \A e \in Dbs : chain[e] # "dropped"
    BY <1>2 DEF PlacesSettle, ObjectSettles
  <2> QED
    BY <1>1, <1>7, <2>1, <2>2 DEF PlaceSettles
<1>10. TurnSettles(g)'
  <2>1. g.txn = None => writes[d] = <<>>
    BY <1>2, <1>7 DEF PlacesSettle, ObjectSettles, WritesHaveTxn
  <2>2. g.txn # None => native[g.txn].state = "open"
    BY <1>7 DEF HandleInv, OwnHandle
  <2> QED
    BY <1>1, <1>7, <1>9, <2>1, <2>2 DEF TurnSettles
<1>11. \A e \in Dbs : ObjectSettles(e)'
  BY <1>1, <1>2, ObjectSettled, TxnSettled DEF PlacesSettle, ObjectSettles
<1> QED
  BY <1>3, <1>8, <1>10, <1>11 DEF PlacesSettle

\* The store ends a commit: all the writes it awaited are stored.
LEMMA StoreSettles ==
  ASSUME TypeOK, TypeOK', HandleInv, AliveInv, TurnInv, StoreInv, PlacesSettle,
         NEW n \in DOMAIN native, NativeCommit(n)
  PROVE  PlacesSettle'
<1>1. /\ native[n].state = "committing" /\ n \in 1 .. Len(native) /\ n \in Nat /\ n # None
      /\ UNCHANGED <<open, chain, transaction, writes, issued, request, stack, parked, waits>>
  <2>1. n \in 1 .. Len(native) /\ n \in Nat
    BY NativeOf
  <2>2. n # None
    BY <2>1 DEF None
  <2> QED
    BY <2>1, <2>2 DEF NativeCommit, objVars, callVars, reqVars
<1>2. PICK st \in {"busy", "committed"} : native' = [native EXCEPT ![n].state = st]
  BY DEF NativeCommit
<1>3. \A m \in DOMAIN native : native'[m].state = IF m = n THEN st ELSE native[m].state
  <2>1. LET changed == [native EXCEPT ![n].state = st]
        IN \A m \in 1 .. Len(native) : changed[m].state = IF m = n THEN st ELSE native[m].state
    BY <1>1, StateChange
  <2>2. \A m \in DOMAIN native : m \in 1 .. Len(native)
    BY NativeOf
  <2> QED
    BY <1>2, <2>1, <2>2
<1>4. applied \subseteq applied'
  BY DEF NativeCommit
<1>5. \A d \in Dbs : ObjectSettles(d)'
  <2>1. ASSUME NEW d \in Dbs, WritesHaveTxn(d) PROVE WritesHaveTxn(d)'
    BY <1>1, <2>1 DEF WritesHaveTxn, Idle, Top
  <2> QED
    BY <1>1, <1>4, <2>1, ObjectSettled DEF PlacesSettle, ObjectSettles
<1>6. Turns' = Turns
  BY <1>1 DEF Turns, Live
<1>7. ASSUME NEW f \in Turns PROVE TurnSettles(f)'
  <2>1. TurnSettles(f)
    BY DEF PlacesSettle
  <2>2. PlaceSettles(f)'
    BY <1>1, <2>1, PlaceSettled DEF TurnSettles
  <2>3. f.txn # None => f.txn \in DOMAIN native
    BY TurnType2
  <2>4. f.txn # None => native'[f.txn].state = native[f.txn].state
    BY <1>1, <1>3, <2>1, <2>3 DEF TurnSettles
  <2> QED
    BY <1>1, <2>1, <2>2, <2>4 DEF TurnSettles
<1>8. ASSUME NEW c \in waits PROVE WaitSettles(c)'
  <2>1. WaitSettles(c) /\ c.txn \in DOMAIN native /\ c.db \in Dbs
    BY DEF PlacesSettle, TypeOK, Awaiting
  <2>2. PlaceSettles(c)'
    BY <1>1, <2>1, PlaceSettled DEF WaitSettles
  <2>3. CASE c.txn # n
    <3>1. native'[c.txn].state = native[c.txn].state
      BY <1>3, <2>1, <2>3
    <3>2. \A k \in Keys : Committed(c.db, k) => Committed(c.db, k)'
      BY <1>4, StaysCommitted
    <3>3. KeysOf(c.db)' = KeysOf(c.db)
      BY <1>1 DEF KeysOf
    <3>4. \A k : Committed(c.db, k) => Committed(c.db, k)'
      BY <1>4, StaysCommitted
    <3> QED
      BY <2>1, <2>2, <3>1, <3>3, <3>4 DEF WaitSettles
  <2>4. CASE c.txn = n
    <3>1. native[n].db = c.db
      <4>1. Place(c)
        BY DEF TurnInv
      <4> QED
        BY <1>1, <2>4, <4>1 DEF Place, Over
    <3>2. LoggedKeys(n) = KeysOf(c.db) /\ LoggedKeys(n) \subseteq OpKeys(n)
      <4>1. WaitStores(c) /\ Consistent(n)
        BY DEF StoreInv, NativesInv, ObjectsInv
      <4>2. Own(c)
        BY <1>1, <2>4 DEF Own, Over
      <4> QED
        BY <1>1, <2>4, <4>1, <4>2 DEF WaitStores, Consistent
    <3>3. native'[n].state = st
      BY <1>3
    <3>4. ASSUME st = "committed", NEW k \in KeysOf(c.db) PROVE Committed(c.db, k)'
      <4>1. PICK op \in native[n].ops : op.key = k
        BY <3>2 DEF OpKeys
      <4>2. applied' = applied \cup {[db |-> c.db, key |-> o.key, base |-> o.base, over |-> version[c.db][o.key]] :
                                       o \in native[n].ops}
        <5>1. native'[n].state # "busy"
          BY <3>3, <3>4
        <5>2. native[n] \in NativeTxn
          BY NativeOf
        <5>3. native' # [native EXCEPT ![n].state = "busy"]
          <6>1. ([native EXCEPT ![n].state = "busy"])[n].state = "busy"
            BY <5>2 DEF NativeTxn
          <6> QED
            BY <5>1, <6>1
        <5> QED
          BY <3>1, <5>3 DEF NativeCommit
      <4>3. [db |-> c.db, key |-> op.key, base |-> op.base, over |-> version[c.db][op.key]] \in applied'
        BY <4>1, <4>2
      <4>4. [db |-> c.db, key |-> op.key, base |-> op.base, over |-> version[c.db][op.key]] \in Commits(c.db, k)'
        BY <4>1, <4>3 DEF Commits
      <4> QED
        BY <4>4 DEF Committed
    <3>5. KeysOf(c.db)' = KeysOf(c.db)
      BY <1>1 DEF KeysOf
    <3> QED
      BY <2>2, <2>4, <3>3, <3>4, <3>5 DEF WaitSettles
  <2> QED
    BY <2>3, <2>4
<1> QED
  BY <1>1, <1>5, <1>6, <1>7, <1>8 DEF PlacesSettle

\* Nothing a commit depends on changes.
LEMMA NothingSettles ==
  ASSUME PlacesSettle,
         UNCHANGED <<open, chain, transaction, writes, issued, request, stack, parked, waits, native, applied>>
  PROVE  PlacesSettle'
<1>1. ASSUME NEW d \in Dbs, WritesHaveTxn(d) PROVE WritesHaveTxn(d)'
  BY <1>1 DEF WritesHaveTxn, Idle, Top
<1>2. \A d \in Dbs : ObjectSettles(d)'
  BY <1>1, ObjectSettled DEF PlacesSettle, ObjectSettles
<1>3. Turns' = Turns
  BY DEF Turns, Live
<1>4. \A x : PlaceSettles(x) => PlaceSettles(x)'
  BY PlaceSettled
<1>5. \A f \in Turns : TurnSettles(f)'
  BY <1>4 DEF PlacesSettle, TurnSettles
<1>6. ASSUME NEW c \in waits PROVE WaitSettles(c)'
  <2>1. WaitSettles(c)
    BY DEF PlacesSettle
  <2>2. KeysOf(c.db)' = KeysOf(c.db)
    BY DEF KeysOf
  <2>3. \A k : Committed(c.db, k) => Committed(c.db, k)'
    BY StaysCommitted
  <2> QED
    BY <1>4, <2>1, <2>2, <2>3 DEF WaitSettles
<1> QED
  BY <1>2, <1>3, <1>5, <1>6 DEF PlacesSettle

LEMMA ScanDoneSettles ==
  ASSUME TypeOK, AliveInv, UsesCounted, ClosedUnused, Settling, PlacesSettle, NEW s \in Scans, ScanDone(s)
  PROVE  PlacesSettle'
<1>1. PICK d \in Dbs : d = scan[s].db
  BY DEF TypeOK
<1>2. /\ UNCHANGED <<open, chain, writes, issued, request, parked, waits, applied>>
      /\ Idle /\ DoneReadTxn(d)
  BY <1>1 DEF ScanDone
<1>3. UNCHANGED <<transaction, native, stack>>
  <2>1. CASE open[d] = "OPEN"
    BY <1>1, <2>1, DoneUses
  <2>2. CASE open[d] # "OPEN"
    <3>1. used \in [Dbs -> Int \cup {NaN}]
      BY DEF TypeOK
    <3>2. Plus(used[d], -1) # 0
      BY <2>2, <3>1, NaNAssumption DEF ClosedUnused, Plus
    <3> QED
      BY <1>2, <3>2 DEF DoneReadTxn
  <2> QED
    BY <2>1, <2>2
<1> QED
  BY <1>2, <1>3, NothingSettles

\* A database joins the chain, and may be written to.
LEMMA JoinSettles ==
  ASSUME TypeOK, PlacesSettle, NEW d \in Dbs, TxnForContext(d), UNCHANGED applied, request = "running",
         request' = "running", Turns' = {}, waits' = {}, \A e \in Dbs : WritesHaveTxn(e)',
         \A e \in Dbs, k \in Keys : <<e, k>> \in issued' =>
            (<<e, k>> \in issued /\ KeysOf(e) \subseteq KeysOf(e)') \/ (e = d /\ k \in KeysOf(e)')
  PROVE  PlacesSettle'
<1>1. chain \in [Dbs -> {"absent", "linked", "dropped"}]
  BY DEF TypeOK
<1>2. chain'[d] = "linked" /\ \A e \in Dbs : e # d => chain'[e] = chain[e]
  BY <1>1 DEF TxnForContext
<1>3. \A e \in Dbs : e < d => chain[e] # "absent"
  <2>1. CASE chain[d] = "linked"
    BY <2>1 DEF PlacesSettle, ObjectSettles
  <2>2. CASE chain[d] # "linked" /\ d # 1
    <3>1. chain[d - 1] = "linked" /\ d - 1 \in Dbs
      BY <2>2, ChainAssumption DEF TxnForContext, Reachable, Dbs
    <3>2. \A e \in Dbs : e < d - 1 => chain[e] # "absent"
      BY <3>1 DEF PlacesSettle, ObjectSettles
    <3>3. \A e \in Dbs : e < d => e < d - 1 \/ e = d - 1
      BY DEF Dbs
    <3> QED
      BY <3>1, <3>2, <3>3
  <2>3. CASE d = 1
    BY <2>3 DEF Dbs
  <2> QED
    BY <2>1, <2>2, <2>3
<1>4. ASSUME NEW e \in Dbs PROVE ObjectSettles(e)'
  <2>1. ObjectSettles(e)
    BY DEF PlacesSettle
  <2>2. chain'[e] # "absent" => \A b \in Dbs : b < e => chain'[b] # "absent"
    BY <1>2, <1>3, <2>1 DEF ObjectSettles
  <2>3. chain'[e] # "dropped"
    BY <1>2, <2>1 DEF ObjectSettles
  <2>4. ASSUME NEW k \in Keys, <<e, k>> \in issued'
        PROVE  chain'[e] # "absent" /\ (k \in KeysOf(e)' \/ Committed(e, k)')
    <3>1. Committed(e, k)' = Committed(e, k)
      BY DEF Committed, Commits
    <3> QED
      BY <1>2, <2>1, <2>4, <3>1 DEF ObjectSettles
  <2> QED
    BY <2>2, <2>3, <2>4 DEF ObjectSettles
<1> QED
  BY <1>4 DEF PlacesSettle

LEMMA ProceedsSettles ==
  ASSUME TypeOK, TypeOK', QuietInv, QuietInv', AliveInv, Settling, PlacesSettle, Proceeds
  PROVE  PlacesSettle'
<1>1. /\ Idle /\ request = "running" /\ request' = "running" /\ UNCHANGED <<parked, waits, applied>>
      /\ \A e \in Dbs : open[e] = "OPEN"
  BY ProceedsEffect DEF Settling, Alive
<1>2. Turns' = {} /\ waits' = {}
  <2>1. parked' = {} /\ waits' = {} /\ \A f \in FramesOf(stack') : f.at = "save"
    BY <1>1 DEF QuietInv, NothingGiven
  <2> QED
    BY <2>1 DEF Turns, Live
<1>3. \A e \in Dbs : open[e] = "OPEN" /\ OpenState(e) = "OPEN"
  BY <1>1, RunningFacts DEF Running, Alive
<1>4. \A e \in Dbs : transaction[e] = None => writes[e] = <<>>
  BY <1>1 DEF PlacesSettle, ObjectSettles, WritesHaveTxn
<1>5. \A e \in Dbs : OpenKeeps(e)
  BY DEF AliveInv
<1>6. writes \in [Dbs -> Seq(Keys)]
  BY DEF TypeOK
<1>7. ASSUME NEW d \in Dbs, NEW k \in Keys, NEW kind \in Kinds, Write(d, k, kind) PROVE PlacesSettle'
  <2>1. NewWrite(d, k, kind) /\ TxnForContext(d) /\ GetReadTxn(d, 0)
    BY <1>7 DEF Write
  <2>2. transaction'[d] # None /\ \A e \in Dbs : e # d => transaction'[e] = transaction[e]
    BY <1>3, <1>5, <2>1, ReadKeeps
  <2>3. KeysOf(d)' = KeysOf(d) \cup {k} /\ \A e \in Dbs : e # d => KeysOf(e)' = KeysOf(e)
    BY <2>1, NewWriteKeys
  <2>4. issued' = issued \cup {<<d, k>>} /\ \A e \in Dbs : e # d => writes'[e] = writes[e]
    BY <1>6, <2>1 DEF NewWrite
  <2>5. \A e \in Dbs : WritesHaveTxn(e)'
    BY <1>4, <2>2, <2>4 DEF WritesHaveTxn
  <2> QED
    BY <1>1, <1>2, <2>1, <2>3, <2>4, <2>5, JoinSettles
<1>8. ASSUME NEW d \in Dbs, NEW k \in Keys, Event(d, k) PROVE PlacesSettle'
  <2>1. NewWrite(d, k, "event") /\ TxnForContext(d) /\ stack' = <<SaveFrame(d, k, None, FALSE)>>
        /\ UNCHANGED transaction
    BY <1>8 DEF Event, SaveUnlessDeferred, Deferred
  <2>2. ~Idle' /\ Top'.at = "save" /\ Top'.db = d
    BY <2>1 DEF Idle, Top, SaveFrame
  <2>3. KeysOf(d)' = KeysOf(d) \cup {k} /\ \A e \in Dbs : e # d => KeysOf(e)' = KeysOf(e)
    BY <2>1, NewWriteKeys
  <2>4. issued' = issued \cup {<<d, k>>} /\ \A e \in Dbs : e # d => writes'[e] = writes[e]
    BY <1>6, <2>1 DEF NewWrite
  <2>5. \A e \in Dbs : WritesHaveTxn(e)'
    BY <1>1, <1>4, <2>1, <2>2, <2>4 DEF WritesHaveTxn
  <2> QED
    BY <1>1, <1>2, <2>1, <2>3, <2>4, <2>5, JoinSettles
<1>9. ASSUME NEW s \in Scans, NEW d \in Dbs, ScanStart(s, d) PROVE PlacesSettle'
  <2>1. TxnForContext(d) /\ GetReadTxn(d, 1) /\ UNCHANGED <<writes, issued>>
    BY <1>9 DEF ScanStart
  <2>2. transaction'[d] # None /\ \A e \in Dbs : e # d => transaction'[e] = transaction[e]
    BY <1>3, <1>5, <2>1, ReadKeeps
  <2>3. \A e \in Dbs : KeysOf(e)' = KeysOf(e)
    BY <2>1 DEF KeysOf
  <2>4. \A e \in Dbs : WritesHaveTxn(e)'
    BY <1>4, <2>1, <2>2 DEF WritesHaveTxn
  <2> QED
    BY <1>1, <1>2, <2>1, <2>3, <2>4, JoinSettles
<1> QED
  BY <1>7, <1>8, <1>9 DEF Proceeds

\* The commit is through with d: the next database of the chain commits.
LEMMA NextSettles ==
  ASSUME TypeOK, TypeOK', HandleInv', PlacesSettle, request = "committing", Settling',
         NEW d \in Dbs, NEW opt \in Nat, NEW main \in BOOLEAN, main,
         AfterCommit(d, opt, main, <<>>), parked' = {}, waits' = {}, UNCHANGED issued, applied \subseteq applied',
         opt # None => d = NDbs, writes'[d] = <<>>,
         \A e \in Dbs : e < d => writes[e] = <<>>,
         \A e \in Dbs : e > d => chain[e] # "dropped" /\ open[e] = "OPEN",
         \A e \in Dbs : e # d =>
            writes'[e] = writes[e] /\ open'[e] = open[e] /\ transaction'[e] = transaction[e],
         \A e \in Dbs : chain'[e] = chain[e] \/ (e = d + 1 /\ chain'[e] = "dropped"),
         \A e \in Dbs : e > d + 1 => chain'[e] = chain[e],
         \A k \in Keys : <<d, k>> \in issued => Committed(d, k)'
  PROVE  PlacesSettle'
<1>1. /\ d < NDbs /\ chain[d + 1] = "linked" /\ stack' = <<CommitFrame(d + 1, opt, main)>> \o <<>>
      /\ request' = "committing"
  BY DEF AfterCommit, Settling
<1>2. PICK b \in Dbs : b = d + 1
  BY <1>1, DbsType
<1>3. d \in Nat /\ opt = None
  BY <1>1, DbsType
<1>4. PICK g : g = CommitFrame(b, opt, main)
  OBVIOUS
<1>5. /\ g \in CommitFrames /\ g.db = b /\ g.opt = None /\ g.txn = transaction[b]
      /\ stack' = <<g>>
  <2>1. CommitFrame(b, opt, main) \in CommitFrames
    BY FrameTypes
  <2>2. transaction[b] \in Nat
    BY DEF TypeOK, Handles
  <2>3. <<g>> \o <<>> = <<g>>
    OBVIOUS
  <2> QED
    BY <1>1, <1>2, <1>3, <1>4, <2>1, <2>2, <2>3 DEF CommitFrame
<1>6. Turns' = {g}
  BY <1>5, OneFrame
<1>7. b # d /\ b > d /\ \A e \in Dbs : (e < b => e < d \/ e = d) /\ (e > b => e > d /\ e > d + 1 /\ e # d)
  BY <1>2, <1>3 DEF Dbs
<1>8. PlaceSettles(g)'
  <2>1. \A e \in Dbs : e < b => writes'[e] = <<>>
    <3>1. \A e \in Dbs : e < d => e # d
      BY <1>3, DbsType
    <3> QED
      BY <1>7, <3>1
  <2>2. \A e \in Dbs : e > b => chain'[e] # "dropped"
    BY <1>7
  <2> QED
    BY <1>5, <2>1, <2>2 DEF PlaceSettles
<1>9. TurnSettles(g)'
  <2>1. g.txn = None => writes'[b] = <<>>
    <3>1. WritesHaveTxn(b)
      BY DEF PlacesSettle, ObjectSettles
    <3> QED
      BY <1>5, <1>7, <3>1 DEF WritesHaveTxn
  <2>2. g.txn # None => native'[g.txn].state = "open"
    <3>1. transaction'[b] = transaction[b]
      BY <1>7
    <3> QED
      BY <1>5, <3>1 DEF HandleInv, OwnHandle
  <2> QED
    BY <1>5, <1>8, <2>1, <2>2 DEF TurnSettles
<1>10. ASSUME NEW e \in Dbs PROVE ObjectSettles(e)'
  <2>1. ObjectSettles(e)
    BY DEF PlacesSettle
  <2>2. WritesHaveTxn(e)'
    BY <2>1 DEF ObjectSettles, WritesHaveTxn
  <2>3. chain'[e] # "absent" => \A a \in Dbs : a < e => chain'[a] # "absent"
    <3>1. chain'[e] # "absent" => chain[e] # "absent"
      BY <1>1
    <3>2. \A a \in Dbs : chain[a] # "absent" => chain'[a] = chain[a] \/ a = b
      BY <1>2
    <3>3. chain'[b] # "absent"
      BY <1>1, <1>2
    <3> QED
      BY <2>1, <3>1, <3>2, <3>3 DEF ObjectSettles
  <2>4. \A k \in Keys : <<e, k>> \in issued' =>
           chain'[e] # "absent" /\ (k \in KeysOf(e)' \/ Committed(e, k)')
    <3>1. \A k : Committed(e, k) => Committed(e, k)'
      BY StaysCommitted
    <3>2. e # d => KeysOf(e)' = KeysOf(e)
      BY DEF KeysOf
    <3>3. chain[e] # "absent" => chain'[e] # "absent"
      BY <1>1
    <3> QED
      BY <2>1, <3>1, <3>2, <3>3 DEF ObjectSettles
  <2> QED
    BY <1>1, <2>2, <2>3, <2>4 DEF ObjectSettles
<1> QED
  BY <1>6, <1>9, <1>10 DEF PlacesSettle

LEMMA CommitClosesSettles ==
  ASSUME TypeOK, TypeOK', HandleInv, HandleInv', AliveInv, TurnInv, Settling, Settling', PlacesSettle, CommitCloses
  PROVE  PlacesSettle'
<1>1. /\ ~Idle /\ Top.at = "close"
      /\ open' = [open EXCEPT ![Top.db] = "CLOSED"]
      /\ transaction' = Cleared(Top.db)
      /\ UNCHANGED <<chain, parked, applied, writes, issued>>
  BY DEF CommitCloses
<1>2. /\ Tail(stack) = <<>> /\ parked = {} /\ waits = {} /\ Place(Top)
      /\ Turns = {Top} /\ Top.db \in Dbs
      /\ Top.opt \in Nat /\ Top.txn \in Nat /\ Top.main \in BOOLEAN
  BY <1>1, TopAlone
<1>3. PICK d \in Dbs, opt \in Nat, n \in Nat, main \in BOOLEAN :
               d = Top.db /\ opt = Top.opt /\ n = Top.txn /\ main = Top.main
  BY <1>2
<1>4. main /\ request = "committing" /\ \A e \in Dbs : e > d => open[e] = "OPEN"
  BY <1>2, <1>3 DEF Place, Settling
<1>5. /\ open'[d] = "CLOSED" /\ transaction'[d] = None
      /\ \A e \in Dbs : e # d => open'[e] = open[e] /\ transaction'[e] = transaction[e]
  BY <1>1, <1>3 DEF TypeOK, Cleared
<1>6. TurnSettles(Top) /\ (n # None => n \in DOMAIN native)
  BY <1>2, <1>3, TurnType2 DEF PlacesSettle
<1>7. ASSUME n # None,
             native' = [native EXCEPT ![n].state = IF @ = "open" THEN "committing" ELSE @],
             waits' = waits \cup {[db |-> d, opt |-> opt, txn |-> n, main |-> main]},
             stack' = Tail(stack), UNCHANGED request
      PROVE  PlacesSettle'
  <2>1. native'[n].state = "committing"
    <3>1. n \in 1 .. Len(native) /\ native[n] \in NativeTxn /\ native[n].state = "open"
      BY <1>3, <1>6, <1>7, NativeOf DEF TurnSettles
    <3>2. native'[n] = [native[n] EXCEPT !.state = IF @ = "open" THEN "committing" ELSE @]
      BY <1>7, <3>1, ClosedNatives
    <3> QED
      BY <3>1, <3>2 DEF NativeTxn
  <2>2. PICK c : c = [db |-> d, opt |-> opt, txn |-> n, main |-> main]
    OBVIOUS
  <2>3. c.db = d /\ c.opt = opt /\ c.txn = n /\ waits' = {c} /\ stack' = <<>> /\ parked' = {}
    BY <1>1, <1>2, <1>7, <2>2
  <2>4. PICK f : f = Top
    OBVIOUS
  <2>5. PlaceSettles(c)'
    <3>1. PlaceSettles(f) /\ c.db = f.db /\ c.opt = f.opt
      BY <1>3, <1>6, <2>3, <2>4 DEF TurnSettles
    <3> QED
      BY <1>1, <3>1, PlaceSettled
  <2>6. WaitSettles(c)'
    BY <2>1, <2>3, <2>5 DEF WaitSettles
  <2>7. \A e \in Dbs : ObjectSettles(e)'
    <3>1. \A e \in Dbs : (open'[e] = "OPEN" /\ transaction'[e] = None) => open[e] = "OPEN" /\ transaction[e] = None
      BY <1>5
    <3> QED
      BY <1>1, <1>4, <1>7, <3>1, ObjectSettled, TxnSettled DEF PlacesSettle, ObjectSettles
  <2>8. Turns' = {}
    BY <2>3, NoTurn
  <2> QED
    BY <2>3, <2>6, <2>7, <2>8 DEF PlacesSettle
<1>8. ASSUME n = None \/ writes[d] = <<>>, AfterCommit(d, opt, main, Tail(stack)), UNCHANGED waits
      PROVE  PlacesSettle'
  <2>1. writes[d] = <<>>
    BY <1>3, <1>6, <1>8 DEF TurnSettles
  <2>2. opt # None => d = NDbs
    BY <1>3, <1>6 DEF TurnSettles, PlaceSettles
  <2>3. \A e \in Dbs : e < d => writes[e] = <<>>
    BY <1>3, <1>6 DEF TurnSettles, PlaceSettles
  <2>4. \A e \in Dbs : e > d => chain[e] # "dropped" /\ open[e] = "OPEN"
    BY <1>3, <1>4, <1>6 DEF TurnSettles, PlaceSettles
  <2>5. \A k \in Keys : <<d, k>> \in issued => Committed(d, k)'
    <3>1. KeysOf(d) = {}
      BY <2>1 DEF KeysOf
    <3>2. \A k : Committed(d, k) => Committed(d, k)'
      BY <1>1, StaysCommitted
    <3> QED
      BY <3>1, <3>2 DEF PlacesSettle, ObjectSettles
  <2>6. parked' = {} /\ waits' = {} /\ AfterCommit(d, opt, main, <<>>)
    BY <1>1, <1>2, <1>8
  <2> QED
    BY <1>1, <1>4, <1>5, <2>1, <2>2, <2>3, <2>4, <2>5, <2>6, NextSettles
<1> QED
  BY <1>3, <1>7, <1>8 DEF CommitCloses

\* What the store has stored is taken from the object.
LEMMA SucceededCommitted ==
  ASSUME TypeOK, TurnInv, PlacesSettle, NEW c \in waits, CommitSucceeded(c), NEW d \in Dbs, d = c.db
  PROVE  \A k \in Keys : <<d, k>> \in issued => Committed(d, k)'
<1>1. native[c.txn].state = "committed" /\ UNCHANGED applied
  BY DEF CommitSucceeded, storeVars, PlacesSettle, WaitSettles
<1>2. \A k \in KeysOf(d) : Committed(d, k)
  BY <1>1 DEF PlacesSettle, WaitSettles
<1>3. \A k : Committed(d, k) => Committed(d, k)'
  BY <1>1, StaysCommitted
<1> QED
  BY <1>2, <1>3 DEF PlacesSettle, ObjectSettles

LEMMA CommitSucceededSettles ==
  ASSUME TypeOK, TypeOK', HandleInv', TurnInv, Settling, Settling', PlacesSettle,
         NEW c \in waits, CommitSucceeded(c)
  PROVE  PlacesSettle'
<1>1. /\ waits' = waits \ {c} /\ AfterCommit(c.db, c.opt, c.main, <<>>)
      /\ writes' = [writes EXCEPT ![c.db] = <<>>]
      /\ chain' = [d \in Dbs |-> IF d = c.db + 1 /\ chain[d] = "linked" THEN "dropped" ELSE chain[d]]
      /\ UNCHANGED <<open, transaction, parked, issued, applied>>
  BY DEF CommitSucceeded, storeVars
<1>2. PICK d \in Dbs, opt \in Nat, main \in BOOLEAN : d = c.db /\ opt = c.opt /\ main = c.main
  BY DEF TypeOK, Awaiting
<1>3. waits' = {} /\ parked' = {} /\ Place(c)
  BY <1>1 DEF TurnInv, OneTurn
<1>4. main /\ request = "committing" /\ \A e \in Dbs : e > d => open[e] = "OPEN"
  BY <1>2, <1>3 DEF Place, Settling
<1>5. PlaceSettles(c)
  BY DEF PlacesSettle, WaitSettles
<1>6. opt # None => d = NDbs
  BY <1>2, <1>5 DEF PlaceSettles
<1>7. /\ \A e \in Dbs : e < d => writes[e] = <<>>
      /\ \A e \in Dbs : e > d => chain[e] # "dropped" /\ open[e] = "OPEN"
  BY <1>2, <1>4, <1>5 DEF PlaceSettles
<1>8. writes'[d] = <<>> /\ \A e \in Dbs : e # d => writes'[e] = writes[e]
  BY <1>1, <1>2 DEF TypeOK
<1>9. /\ \A e \in Dbs : chain'[e] = chain[e] \/ (e = d + 1 /\ chain'[e] = "dropped")
      /\ \A e \in Dbs : e > d + 1 => chain'[e] = chain[e]
  <2>1. \A e \in Dbs : e > d + 1 => e # d + 1
    BY DEF Dbs
  <2> QED
    BY <1>1, <1>2, <2>1
<1>10. \A k \in Keys : <<d, k>> \in issued => Committed(d, k)'
  BY <1>2, SucceededCommitted
<1>11. AfterCommit(d, opt, main, <<>>)
  BY <1>1, <1>2
<1> QED
  BY <1>1, <1>3, <1>4, <1>6, <1>7, <1>8, <1>9, <1>10, <1>11, NextSettles

(***************************************************************************)
(* The steps together.                                                     *)
(***************************************************************************)
LEMMA SettleInit == Init => SettleInv
<1> SUFFICES ASSUME Init PROVE SettleInv
  OBVIOUS
<1>1. /\ native = <<>> /\ stack = <<>> /\ parked = {} /\ waits = {} /\ request = "running" /\ issued = {}
      /\ \A d \in Dbs : used[d] = NaN /\ chain[d] = "absent" /\ writes[d] = <<>>
  BY DEF Init
<1>2. DOMAIN native = {} /\ Turns = {}
  BY <1>1, NoneUnderWay
<1>3. SnapsCurrent /\ UsesCounted /\ ClosedUnused
  BY <1>1, <1>2 DEF SnapsCurrent, UsesCounted, ClosedUnused
<1>4. \A d \in Dbs : ObjectSettles(d)
  BY <1>1 DEF ObjectSettles, WritesHaveTxn
<1> QED
  BY <1>1, <1>2, <1>3, <1>4 DEF SettleInv, PlacesSettle

LEMMA PlacesStep ==
  ASSUME OneCommit, LastConflicts, RecordInv, RecordInv', SettleInv, Next, Settling'
  PROVE  PlacesSettle'
<1>1. CommitInv /\ CommitInv' /\ TypeOK /\ TypeOK' /\ HandleInv /\ HandleInv' /\ QuietInv /\ QuietInv'
      /\ UpdateInv /\ UsedInv
  BY DEF RecordInv, CommitInv
<1>2. Settling /\ Alive /\ Alive'
  BY <1>1, StillSettling DEF Settling, Alive
<1>3. AliveInv /\ TurnInv /\ TurnInv' /\ StoreInv
  BY <1>1, <1>2 DEF RecordInv, CommitInv, UpdateInv
<1>4. SnapsCurrent /\ UsesCounted /\ ClosedUnused /\ PlacesSettle
  BY <1>2 DEF SettleInv
<1>5. CASE Save
  BY <1>2, <1>4, <1>5, SaveSettles
<1>6. CASE CommitWrite
  BY <1>1, <1>3, <1>4, <1>6, CommitWriteSettles
<1>7. CASE CommitValidated
  BY <1>1, <1>3, <1>4, <1>7, CommitValidatedSettles
<1>8. ~CommitAgain /\ ~CommitLingers
  BY <1>1, <1>2, <1>3, NoCommitAgain, NoneLinger
<1>9. CASE CommitCloses
  BY <1>1, <1>2, <1>3, <1>4, <1>9, CommitClosesSettles
<1>10. ASSUME NEW n \in DOMAIN native, NativeCommit(n) PROVE PlacesSettle'
  BY <1>1, <1>3, <1>4, <1>10, StoreSettles
<1>11. ASSUME NEW c \in waits, CommitSucceeded(c) \/ CommitRetries(c) PROVE PlacesSettle'
  BY <1>1, <1>2, <1>3, <1>4, <1>11, CommitSucceededSettles, RetrySettles
<1>12. ASSUME NEW f \in parked, HooksDone(f) \/ HookFailed(f) PROVE PlacesSettle'
  BY <1>1, <1>3, <1>4, <1>12, HooksSettle
<1>13. CASE Proceeds
  BY <1>1, <1>2, <1>3, <1>4, <1>13, ProceedsSettles
<1>14. CASE Commit
  BY <1>1, <1>2, <1>4, <1>14, CommitSettles
<1>15. ASSUME NEW s \in Scans, ScanDone(s) PROVE PlacesSettle'
  BY <1>1, <1>2, <1>3, <1>4, <1>15, ScanDoneSettles
<1>16. ASSUME NEW d \in Dbs, NEW k \in Keys, OtherWrite(d, k) PROVE PlacesSettle'
  <2>1. UNCHANGED <<open, chain, transaction, writes, issued, request, stack, parked, waits, native, applied>>
    BY <1>16 DEF OtherWrite, objVars, callVars, reqVars
  <2> QED
    BY <1>4, <2>1, NothingSettles
<1> QED
  BY <1>1, <1>2, <1>5, <1>6, <1>7, <1>8, <1>9, <1>10, <1>11, <1>12, <1>13, <1>14, <1>15, <1>16,
     CommitSteps DEF OneCommit

LEMMA SettleStep ==
  ASSUME OneCommit, LastConflicts, RecordInv, RecordInv', SettleInv, [Next]_vars
  PROVE  SettleInv'
<1>1. CASE Next
  <2>1. Alive' => Alive
    BY <1>1, NoWayBack DEF RecordInv, CommitInv
  <2>2. Alive' => SnapsCurrent' /\ UsesCounted'
    BY <1>1, <2>1, SnapsStep, UsesStep DEF SettleInv
  <2>3. ClosedUnused'
    <3>1. ASSUME ~Alive' PROVE ClosedUnused'
      BY <3>1 DEF ClosedUnused, Settling, Alive
    <3>2. Alive' => ClosedUnused'
      BY <1>1, ClosedStep DEF SettleInv
    <3> QED
      BY <3>1, <3>2
  <2>4. Settling' => PlacesSettle'
    BY <1>1, PlacesStep
  <2> QED
    BY <2>2, <2>3, <2>4 DEF SettleInv
<1>2. CASE UNCHANGED vars
  <2>1. UNCHANGED <<objVars, callVars, reqVars, storeVars>>
    BY <1>2 DEF vars
  <2>2. /\ UNCHANGED <<open, used, chain, transaction, writes, issued, request, scan, version>>
        /\ UNCHANGED <<stack, parked, waits, native, applied>>
    BY <2>1 DEF objVars, callVars, reqVars, storeVars
  <2>3. SnapsCurrent => SnapsCurrent'
    BY <2>2 DEF SnapsCurrent
  <2>4. UsesCounted => UsesCounted'
    BY <2>2, SameUses
  <2>5. ClosedUnused => ClosedUnused'
    BY <2>2 DEF ClosedUnused, Settling
  <2>6. PlacesSettle => PlacesSettle'
    BY <2>2, NothingSettles
  <2> QED
    BY <2>2, <2>3, <2>4, <2>5, <2>6 DEF SettleInv, Alive, Settling
<1> QED
  BY <1>1, <1>2

LEMMA SettleInvariant ==
  ASSUME OneCommit, LastConflicts
  PROVE  Spec => [](RecordInv /\ SettleInv)
<1>1. Init => RecordInv /\ SettleInv
  BY RecordInit, SettleInit
<1>2. RecordInv /\ SettleInv /\ [Next]_vars => (RecordInv /\ SettleInv)'
  BY RecordStep, SettleStep
<1> QED
  BY <1>1, <1>2, PTL DEF Spec

(***************************************************************************)
(* The step that resolves the promise of commit.                           *)
(***************************************************************************)
\* What a commit that ends with d left with the other databases is stored.
LEMMA OthersCommitted ==
  ASSUME TypeOK, PlacesSettle, NEW x, PlaceSettles(x), NEW d \in Dbs, d = x.db,
         ~(d < NDbs /\ chain[d + 1] = "linked"),
         NEW e \in Dbs, e # d, NEW k \in Keys, <<e, k>> \in issued
  PROVE  Committed(e, k)
<1>1. ObjectSettles(e)
  BY DEF PlacesSettle
<1>2. CASE e < d
  <2>1. writes[e] = <<>>
    BY <1>2 DEF PlaceSettles
  <2> QED
    BY <1>1, <2>1 DEF ObjectSettles, KeysOf
<1>3. ~(e > d)
  <2> SUFFICES ASSUME e > d PROVE FALSE
    OBVIOUS
  <2>1. d < NDbs /\ d + 1 \in Dbs
    BY ChainAssumption DEF Dbs
  <2>2. chain[d + 1] = "absent"
    <3>1. chain[d + 1] \in {"absent", "linked", "dropped"}
      BY <2>1 DEF TypeOK
    <3>2. d + 1 > d
      BY <2>1 DEF Dbs
    <3> QED
      BY <2>1, <3>1, <3>2 DEF PlaceSettles
  <2>3. d + 1 < e \/ d + 1 = e
    BY DEF Dbs
  <2> QED
    BY <1>1, <2>1, <2>2, <2>3 DEF ObjectSettles
<1> QED
  BY <1>2, <1>3 DEF Dbs

LEMMA ResolveStep ==
  ASSUME OneCommit, RecordInv, SettleInv, Next, request # "resolved", request' = "resolved"
  PROVE  /\ UNCHANGED issued
         /\ \A w \in issued : \/ Committed(w[1], w[2])'
                              \/ open'[w[1]] = "LINGERING" /\ Scanning(w[1])'
<1>1. /\ TypeOK /\ QuietInv /\ UpdateInv /\ UsedInv /\ Alive /\ Alive'
  BY NoWayBack DEF RecordInv, CommitInv, Alive
<1>2. TurnInv
  BY <1>1 DEF RecordInv, CommitInv
<1>3. CommitLingers \/ CommitCloses \/ \E c \in waits : CommitSucceeded(c)
  <2>1. CASE Save
    BY <2>1, ZenonT(60) DEF Save
  <2>2. CASE CommitWrite \/ CommitValidated \/ CommitAgain \/ Commit
             \/ (\E n \in DOMAIN native : NativeCommit(n))
             \/ (\E c \in waits : CommitRetries(c))
             \/ (\E f \in parked : HooksDone(f) \/ HookFailed(f))
             \/ (\E s \in Scans : ScanDone(s))
             \/ \E d \in Dbs, k \in Keys : OtherWrite(d, k)
    BY <2>2 DEF CommitWrite, CommitValidated, CommitAgain, Commit, NativeCommit, CommitRetries,
                HooksDone, HookFailed, ScanDone, OtherWrite, reqVars
  <2>3. CASE Proceeds
    BY <1>1, <2>3, ProceedsEffect
  <2> QED
    BY <1>1, <2>1, <2>2, <2>3, CommitSteps, SMTT(30) DEF OneCommit
<1>4. ASSUME NEW d \in Dbs, NEW opt, NEW main, NEW rest, AfterCommit(d, opt, main, rest)
      PROVE  request = "committing" /\ main /\ ~(d < NDbs /\ chain[d + 1] = "linked")
  BY <1>4 DEF AfterCommit
<1>5. UNCHANGED <<issued, applied, scan>>
  BY <1>3 DEF CommitLingers, CommitCloses, CommitSucceeded, storeVars
<1>6. \A d, k : Committed(d, k) => Committed(d, k)'
  BY <1>5, StaysCommitted
<1>7. /\ UNCHANGED issued
      /\ \A w \in issued : \E e \in Dbs, k \in Keys : w = <<e, k>> /\ w[1] = e /\ w[2] = k
  <2>1. issued \subseteq Dbs \X Keys
    BY <1>1 DEF TypeOK
  <2> QED
    BY <1>5, <2>1
<1>8. CASE \E c \in waits : CommitSucceeded(c)
  <2>1. PICK c \in waits : CommitSucceeded(c)
    BY <1>8
  <2>2. PICK d \in Dbs : d = c.db
    BY <1>1 DEF TypeOK, Awaiting
  <2>3. request = "committing" /\ ~(d < NDbs /\ chain[d + 1] = "linked")
    BY <1>4, <2>1, <2>2 DEF CommitSucceeded
  <2>4. PlacesSettle /\ PlaceSettles(c)
    BY <2>3 DEF SettleInv, Settling, PlacesSettle, WaitSettles
  <2>5. \A k \in Keys : <<d, k>> \in issued => Committed(d, k)'
    BY <1>1, <1>2, <2>1, <2>2, <2>4, SucceededCommitted
  <2>6. \A e \in Dbs, k \in Keys : <<e, k>> \in issued => Committed(e, k)'
    BY <1>1, <1>6, <2>2, <2>3, <2>4, <2>5, OthersCommitted
  <2> QED
    BY <1>5, <1>7, <2>6
<1>9. CASE CommitLingers \/ CommitCloses
  <2>1. ~Idle /\ Top.at = "close"
    BY <1>9 DEF CommitLingers, CommitCloses
  <2>2. PICK f : f = Top /\ f.db \in Dbs
    BY <1>1, <1>2, <2>1, TopAlone
  <2>3. PICK d \in Dbs : d = f.db
    BY <2>2
  <2>4. AfterCommit(d, f.opt, f.main, Tail(stack))
    BY <1>9, <2>2, <2>3 DEF CommitLingers, CommitCloses
  <2>5. request = "committing" /\ ~(d < NDbs /\ chain[d + 1] = "linked")
    BY <1>4, <2>4
  <2>6. PlacesSettle /\ TurnSettles(f) /\ UsesCounted /\ ClosedUnused
    <3>1. f \in Turns
      BY <1>1, <1>2, <2>1, <2>2, <2>3, TopAlone
    <3> QED
      BY <1>1, <2>5, <3>1 DEF SettleInv, Settling, PlacesSettle
  <2>7. PlaceSettles(f)
    BY <2>6 DEF TurnSettles
  <2>8. \A e \in Dbs, k \in Keys : e # d /\ <<e, k>> \in issued => Committed(e, k)'
    BY <1>1, <1>6, <2>2, <2>3, <2>5, <2>6, <2>7, OthersCommitted
  <2>9. writes[d] = <<>> => \A k \in Keys : <<d, k>> \in issued => Committed(d, k)'
    BY <1>6, <2>6 DEF PlacesSettle, ObjectSettles, KeysOf
  <2>10. ASSUME CommitCloses PROVE writes[d] = <<>>
    BY <2>2, <2>3, <2>6, <2>10 DEF CommitCloses, TurnSettles
  <2>11. ASSUME CommitLingers, writes[d] # <<>> PROVE open'[d] = "LINGERING" /\ Scanning(d)'
    <3>1. StillRead(d) /\ open' = [open EXCEPT ![d] = "LINGERING"]
      BY <2>2, <2>3, <2>11 DEF CommitLingers, LeftOpen
    <3>2. open \in [Dbs -> States] /\ used \in [Dbs -> Int \cup {NaN}]
      BY <1>1 DEF TypeOK
    <3>3. used[d] # NaN /\ used[d] > 1 /\ used[d] \in Int
      BY <3>1, <3>2, NaNAssumption DEF StillRead, Positive, Plus
    <3>4. open[d] = "OPEN"
      BY <2>5, <2>6, <3>3 DEF ClosedUnused, Settling
    <3>5. Cardinality(Active(d)) + 1 > 1
      BY <2>6, <3>3, <3>4 DEF UsesCounted
    <3>6. Active(d) # {}
      BY <3>5, FS_EmptySet
    <3>7. Scanning(d)'
      BY <1>5, <3>6 DEF Scanning, Active
    <3> QED
      BY <3>1, <3>2, <3>7
  <2>12. ASSUME NEW e \in Dbs, NEW k \in Keys, <<e, k>> \in issued
         PROVE  Committed(e, k)' \/ (open'[e] = "LINGERING" /\ Scanning(e)')
    BY <1>9, <2>8, <2>9, <2>10, <2>11, <2>12
  <2> QED
    BY <1>7, <2>12
<1> QED
  BY <1>3, <1>8, <1>9

\* The step that resolves the promise of commit finds every write of the
\* request stored, or lingering under an iterator that will commit it: commit
\* has then gone down the whole chain (DatabaseTransaction.ts, commit).
THEOREM ResolvesWithAll ==
  ASSUME OneCommit, LastConflicts
  PROVE  Spec => ResolvesStoredOrLingering
<1>1. RecordInv /\ SettleInv /\ [Next]_vars
        => [ (request # "resolved" /\ request' = "resolved") =>
                \A w \in issued : \/ Committed(w[1], w[2])'
                                  \/ open'[w[1]] = "LINGERING" /\ Scanning(w[1])' ]_vars
  BY ResolveStep DEF vars, reqVars
<1> QED
  BY <1>1, SettleInvariant, PTL DEF Spec, ResolvesStoredOrLingering

LEMMA ResolvedIssues ==
  ASSUME Next, request = "resolved"
  PROVE  UNCHANGED issued
<1>1. CASE CallStep
  BY <1>1 DEF CallStep, Save, CommitWrite, CommitValidated, CommitAgain, CommitLingers,
              CommitCloses, AbortEnd, reqVars
<1>2. CASE Completion
  <2>1. ASSUME NEW n \in DOMAIN native, NativeCommit(n) PROVE UNCHANGED issued
    BY <2>1 DEF NativeCommit, reqVars
  <2>2. ASSUME NEW c \in waits, CommitSucceeded(c) \/ CommitRetries(c) PROVE UNCHANGED issued
    BY <2>2 DEF CommitSucceeded, CommitRetries, reqVars
  <2>3. ASSUME NEW f \in parked, HooksDone(f) \/ HookFailed(f) PROVE UNCHANGED issued
    BY <2>3 DEF HooksDone, HookFailed, reqVars
  <2> QED
    BY <1>2, <2>1, <2>2, <2>3 DEF Completion
<1>3. CASE RequestStep
  <2>1. ~Running
    BY DEF Running
  <2> QED
    BY <1>3, <2>1, NotRunning DEF ScanDone, LoadFromSource, SourceLoaded
<1>4. CASE Environment
  BY <1>4 DEF Environment, Timeout, OtherWrite, reqVars
<1> QED
  BY <1>1, <1>2, <1>3, <1>4, SMTT(30) DEF Next

\* A request without iterators finds all its writes stored when its commit has
\* resolved, and they stay (DatabaseTransaction.ts, commit).
THEOREM ResolvedHasAll ==
  ASSUME OneCommit, LastConflicts, Scans = {}
  PROVE  Spec => []ResolvedMeansCommitted
<1>1. Init => ResolvedMeansCommitted
  BY DEF Init, ResolvedMeansCommitted
<1>2. ASSUME RecordInv, SettleInv, ResolvedMeansCommitted, [Next]_vars
      PROVE  ResolvedMeansCommitted'
  <2> SUFFICES ASSUME request' = "resolved"
               PROVE  \A w \in issued' : Committed(w[1], w[2])'
    BY DEF ResolvedMeansCommitted
  <2>1. CASE request # "resolved"
    <3>1. Next
      BY <1>2, <2>1 DEF vars, reqVars
    <3>2. \A d : ~Scanning(d)'
      BY DEF Scanning
    <3> QED
      BY <1>2, <2>1, <3>1, <3>2, ResolveStep
  <2>2. CASE request = "resolved" /\ Next
    <3>1. UNCHANGED issued /\ applied \subseteq applied'
      BY <2>2, ResolvedIssues, AppliedGrows
    <3>2. \A d, k : Committed(d, k) => Committed(d, k)'
      BY <3>1, StaysCommitted
    <3> QED
      BY <1>2, <2>2, <3>1, <3>2 DEF ResolvedMeansCommitted
  <2>3. CASE request = "resolved" /\ UNCHANGED vars
    <3>1. UNCHANGED issued /\ applied \subseteq applied'
      BY <2>3 DEF vars, reqVars, storeVars
    <3>2. \A d, k : Committed(d, k) => Committed(d, k)'
      BY <3>1, StaysCommitted
    <3> QED
      BY <1>2, <2>3, <3>1, <3>2 DEF ResolvedMeansCommitted
  <2> QED
    BY <1>2, <2>1, <2>2, <2>3
<1> QED
  BY <1>1, <1>2, SettleInvariant, PTL DEF Spec
=============================================================================
