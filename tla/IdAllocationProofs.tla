------------------------- MODULE IdAllocationProofs -------------------------
(***************************************************************************)
(* Proofs about IdAllocation, for any number of threads, ids, keys and     *)
(* restarts and every size of the ranges: no id is given twice while the   *)
(* server runs, unless a start collides, and none is the key of a record,  *)
(* unless one of the Causes has come about.                                *)
(***************************************************************************)
EXTENDS IdAllocation, SequenceTheorems, WellFoundedInduction, TLAPS

Places == {"idle", "create", "store", "register", "take", "sync", "search", "read", "put", "move"}

Threadlike == [at : Places, maxSafeId : Nat, pending : Seq(Nat \ {0}), nextId : Nat,
               inTxn : BOOLEAN, newestId : Nat, idAfter : Nat, proposal : Nat, start : Nat]

TypeInv ==
    /\ keys \subseteq Nat
    /\ allocation \in [start : Nat, end : Nat]
    /\ idIncrementer \in Nat
    /\ thread \in [Threads -> Threadlike]
    /\ unsaved \subseteq given /\ given \subseteq Nat
    /\ taken \in 0 .. MaxIds
    /\ causes \subseteq Causes

\* A thread that has its first id to come, and nothing under way.
Fresh(s) == s.nextId = 0 /\ s.pending = <<>>

\* Where a thread may be in each phase: before its first id, while that is being
\* given, and in updateEnd.
ThreadInv(t) ==
    LET s == thread[t]
    IN /\ s.maxSafeId = 0 => Fresh(s) /\ s.at \in {"idle", "create", "store"}
       /\ s.at \in {"register", "take"} => Fresh(s)
       /\ s.at \in {"sync", "search", "read", "put", "move"} => s.nextId > 0
       /\ s.at \in {"create", "store"} /\ s.nextId = 0 => Fresh(s)
       /\ s.at \in {"store", "move"} => s.proposal \in Starts
       /\ s.at = "register" => s.proposal > 0
       /\ idIncrementer = 0 => /\ Fresh(s) /\ s.at \in {"idle", "create", "store", "register"}
                               /\ s.at = "idle" => s.maxSafeId = 0
       /\ given = {} => Fresh(s)
       /\ allocation.end = 0 => s.maxSafeId = 0

StartInv ==
    /\ idIncrementer = 0 => given = {}
    /\ allocation.end = 0 => idIncrementer = 0

\* How many ids may still be taken.
Left == MaxIds - taken

\* A thread that will move the shared number.
Mover(t) == thread[t].at \in {"store", "move"} /\ thread[t].nextId > 0

\* Whether the number counts on or is moved, it does not meet an id that was given.
GivenInv ==
    /\ idIncrementer > 0 => \A x \in given : x < idIncrementer \/ x > idIncrementer + Left
    /\ \A t \in Threads : Mover(t) =>
          LET p == thread[t].proposal
          IN /\ \A x \in given : x <= p \/ x > p + RangeSize + Left
             /\ idIncrementer + Left <= p \/ idIncrementer > p + RangeSize + Left
             /\ \A u \in Threads \ {t} : Mover(u) =>
                   LET q == thread[u].proposal
                   IN p + RangeSize + Left < q \/ q + RangeSize + Left < p

\* No key lies in x .. y.
Free(x, y) == \A k \in keys : k < x \/ k > y

\* Of the keys between x and y the number meets none.
Unmet(x, y) == \A k \in keys : x <= k /\ k <= y => k < idIncrementer \/ k > idIncrementer + Left

\* The number counts within the stored range, and meets no key there.
RangeInv ==
    (idIncrementer > 0 /\ ~Moving) =>
       /\ allocation.start < idIncrementer
       /\ given # {} => idIncrementer <= allocation.end
       /\ Unmet(idIncrementer, allocation.end)

\* A thread that has taken no id yet.
Calm(s) ==
    /\ Fresh(s) /\ s.at \in {"idle", "create", "store", "register", "take"}
    /\ s.at = "idle" => s.maxSafeId = 0

\* A range that is to be stored, or to which the number is to be set or moved, has no
\* keys, nor has what is to be added to the range, behind the number.
PhaseInv(t) ==
    LET s == thread[t]
    IN /\ s.at = "register" /\ idIncrementer = 0 =>
             allocation.start < s.proposal /\ Free(s.proposal, allocation.end)
       /\ s.at = "store" /\ (s.nextId > 0 \/ allocation.end = 0) =>
             Free(s.proposal + 1, s.proposal + RangeSize)
       /\ s.at = "move" =>
             /\ allocation.start = s.proposal /\ allocation.end = s.proposal + RangeSize
             /\ Free(s.proposal + 1, s.proposal + RangeSize)
             /\ \A u \in Threads \ {t} : Calm(thread[u])
       /\ s.at \in {"search", "read", "put"} => s.newestId <= idIncrementer
       /\ s.at = "put" \/ (s.at = "read" /\ s.maxSafeId < s.idAfter) =>
             Unmet(s.newestId + 1, s.maxSafeId)

KeyInv ==
    /\ unsaved \cap keys = {}
    /\ RangeInv
    /\ \A t \in Threads : PhaseInv(t)

IdInv ==
    /\ TypeInv
    /\ StartInv
    /\ \A t \in Threads : ThreadInv(t)
    /\ "collide" \notin causes => GivenInv
    /\ causes = {} => KeyInv
-----------------------------------------------------------------------------
LEMMA Constants ==
  /\ MaxId \in Nat /\ RangeSize \in Nat /\ Extension \in Nat /\ Near \in Nat /\ Ahead \in Nat
  /\ SafeDistance \in Nat /\ MaxIds \in Nat /\ MaxRestarts \in Nat
  /\ 0 < Near /\ 0 < Extension /\ 0 < RangeSize /\ RangeSize <= SafeDistance
  /\ \A s \in Starts : s \in Nat /\ s > 0 /\ s <= MaxId
  /\ Others \subseteq Nat
  BY IdAssumption

\* Min and Max of the sets of numbers that the searches for keys are about.
LEMMA LeastElement ==
  ASSUME NEW T \in SUBSET Nat, T # {}
  PROVE  Min(T) \in T /\ \A y \in T : Min(T) <= y
<1>1. PICK x \in T : \A y \in T : ~(<<y, x>> \in OpToRel(<, Nat))
  BY NatLessThanWellFounded, WFMin
<1>2. ASSUME NEW y \in T PROVE x <= y
  <2>1. ~(<<y, x>> \in {ss \in Nat \X Nat : ss[1] < ss[2]})
    BY <1>1 DEF OpToRel
  <2>2. <<y, x>> \in Nat \X Nat
    OBVIOUS
  <2> QED
    BY <2>1, <2>2
<1> QED
  BY <1>2 DEF Min

LEMMA GreatestElement ==
  ASSUME NEW T \in SUBSET Nat, T # {}, NEW m \in Nat, \A x \in T : x <= m
  PROVE  Max(T) \in T /\ \A y \in T : Max(T) >= y
<1> DEFINE D == {m - x : x \in T}
<1>1. D \in SUBSET Nat
  <2>1. ASSUME NEW x \in T PROVE m - x \in Nat
    OBVIOUS
  <2> QED
    BY <2>1
<1>2. D # {}
  OBVIOUS
<1>3. Min(D) \in D /\ \A y \in D : Min(D) <= y
  BY <1>1, <1>2, LeastElement
<1>4. PICK x \in T : Min(D) = m - x
  BY <1>3
<1>5. ASSUME NEW y \in T PROVE x >= y
  <2>1. m - x <= m - y
    BY <1>3, <1>4
  <2> QED
    BY <2>1
<1> QED
  BY <1>5 DEF Max

\* What getKeys upwards from x finds: no key lies before it.
LEMMA KeyFromFree ==
  ASSUME keys \subseteq Nat, NEW x \in Nat, NEW end \in Nat
  PROVE  /\ KeyFrom(x, end) \in Nat /\ KeyFrom(x, end) <= end
         /\ \A k \in keys : k < x \/ k >= KeyFrom(x, end)
<1> DEFINE T == {k \in keys : k >= x} \cup {end}
<1>1. T \in SUBSET Nat /\ T # {}
  <2>1. end \in T
    OBVIOUS
  <2> QED
    BY <2>1
<1>2. Min(T) \in T /\ \A y \in T : Min(T) <= y
  BY <1>1, LeastElement
<1>3. KeyFrom(x, end) = Min(T)
  BY DEF KeyFrom
<1> QED
  BY <1>1, <1>2, <1>3

\* The last key of a range: the counter may go on behind it.
LEMMA LastKeyFree ==
  ASSUME keys \subseteq Nat, NEW a \in [start : Nat, end : Nat]
  PROVE  /\ LastKey(a) \in Nat /\ a.start <= LastKey(a)
         /\ Free(LastKey(a) + 1, a.end)
<1> DEFINE T == {k \in keys : a.start <= k /\ k <= a.end} \cup {a.start}
           m == a.start + a.end
<1>1. T \in SUBSET Nat /\ T # {} /\ a.start \in T
  <2>1. a.start \in T
    OBVIOUS
  <2> QED
    BY <2>1
<1>2. m \in Nat /\ \A x \in T : x <= m
  OBVIOUS
<1>3. Max(T) \in T /\ \A y \in T : Max(T) >= y
  BY <1>1, <1>2, GreatestElement
<1>4. LastKey(a) = Max(T)
  BY DEF LastKey
<1>5. LastKey(a) \in Nat /\ a.start <= LastKey(a)
  BY <1>1, <1>3, <1>4
<1>6. Free(LastKey(a) + 1, a.end)
  BY <1>3, <1>4, <1>5 DEF Free
<1> QED
  BY <1>5, <1>6

\* A start around which createNewAllocation found a gap has a free range.
LEMMA GapFree ==
  ASSUME keys \subseteq Nat, NEW s \in Starts, Gap(s)
  PROVE  Free(s + 1, s + RangeSize)
<1>1. /\ s \in Nat /\ MaxId \in Nat /\ RangeSize \in Nat
      /\ SafeDistance \in Nat /\ RangeSize <= SafeDistance
  BY Constants
<1>2. /\ KeyFrom(s + 1, MaxId) \in Nat
      /\ \A k \in keys : k < s + 1 \/ k >= KeyFrom(s + 1, MaxId)
  <2>1. s + 1 \in Nat
    BY <1>1
  <2> QED
    BY <1>1, <2>1, KeyFromFree
<1>3. SafeDistance < KeyFrom(s + 1, MaxId) - s
  BY DEF Gap
<1> QED
  BY <1>1, <1>2, <1>3 DEF Free

-----------------------------------------------------------------------------
(***************************************************************************)
(* What each step of a thread does to it.                                  *)
(***************************************************************************)
LEMMA ThreadType ==
  ASSUME TypeInv, NEW t \in Threads
  PROVE  /\ thread[t] \in Threadlike /\ thread[t].at \in Places
         /\ thread[t].maxSafeId \in Nat /\ thread[t].nextId \in Nat
         /\ thread[t].pending \in Seq(Nat \ {0}) /\ thread[t].inTxn \in BOOLEAN
         /\ thread[t].newestId \in Nat /\ thread[t].idAfter \in Nat
         /\ thread[t].proposal \in Nat /\ thread[t].start \in Nat
<1>1. thread[t] \in Threadlike
  BY DEF TypeInv
<1> QED
  BY <1>1 DEF Threadlike

\* s takes the place of thread t.
Only(t, s) ==
    /\ thread' \in [Threads -> Threadlike] /\ thread'[t] = s
    /\ \A u \in Threads \ {t} : thread'[u] = thread[u]

LEMMA OnlyOne ==
  ASSUME TypeInv, NEW t \in Threads, NEW s \in Threadlike, thread' = [thread EXCEPT ![t] = s]
  PROVE  Only(t, s)
  BY DEF TypeInv, Only

LEMMA IdleIs ==
  ASSUME NEW s \in Threadlike
  PROVE  /\ Idle(s) \in Threadlike /\ Idle(s).at = "idle" /\ Idle(s).nextId = 0
         /\ Idle(s).maxSafeId = s.maxSafeId /\ Idle(s).pending = s.pending
  BY DEF Idle, NewThread, Threadlike, Places

LEMMA NewThreadIs ==
  /\ NewThread \in Threadlike /\ NewThread.at = "idle" /\ NewThread.nextId = 0
  /\ NewThread.maxSafeId = 0 /\ NewThread.pending = <<>>
<1>1. <<>> \in Seq(Nat \ {0})
  OBVIOUS
<1> QED
  BY <1>1 DEF NewThread, Threadlike, Places

LEMMA LoadStep ==
  ASSUME TypeInv, NEW t \in Threads, LoadAllocation(t)
  PROVE  LET s == thread'[t]
         IN /\ Only(t, s) /\ thread[t].at = "idle" /\ thread[t].maxSafeId = 0
            /\ s.nextId = thread[t].nextId /\ s.pending = thread[t].pending
            /\ IF allocation.end = 0 THEN s.at = "create" /\ s.maxSafeId = 0
               ELSE /\ s.at = "register" /\ s.proposal = LastKey(allocation) + 1
                    /\ s.maxSafeId = allocation.end
<1>1. LastKey(allocation) \in Nat /\ allocation.end \in Nat
  BY LastKeyFree DEF TypeInv
<1> DEFINE s == IF allocation.end = 0 THEN [thread[t] EXCEPT !.at = "create"]
                ELSE [thread[t] EXCEPT !.at = "register", !.proposal = LastKey(allocation) + 1,
                                       !.maxSafeId = allocation.end]
<1>2. thread[t] \in Threadlike
  BY ThreadType
<1>3. s \in Threadlike
  <2>1. PICK k \in Nat : k = LastKey(allocation) + 1
    BY <1>1
  <2>2. CASE allocation.end = 0
    BY <1>2, <2>2 DEF Threadlike, Places
  <2>3. CASE allocation.end # 0
    BY <1>1, <1>2, <2>1, <2>3 DEF Threadlike, Places
  <2> QED
    BY <2>2, <2>3
<1>4. thread' = [thread EXCEPT ![t] = s]
  BY DEF LoadAllocation
<1>5. Only(t, s)
  BY <1>3, <1>4, OnlyOne
<1> QED
  BY <1>2, <1>5 DEF Only, LoadAllocation, Threadlike

LEMMA CreateStep ==
  ASSUME TypeInv, NEW t \in Threads, CreateAllocation(t)
  PROVE  LET s == thread'[t]
         IN /\ Only(t, s) /\ thread[t].at = "create" /\ s.at = "store"
            /\ s.nextId = thread[t].nextId /\ s.pending = thread[t].pending
            /\ s.maxSafeId = thread[t].maxSafeId
            /\ s.proposal \in Starts /\ Gap(s.proposal)
            /\ causes' = causes \cup If(Collides(s.proposal), "collide")
<1>1. PICK p \in Starts :
        /\ Gap(p)
        /\ thread' = [thread EXCEPT ![t].at = "store", ![t].proposal = p]
        /\ causes' = causes \cup If(Collides(p), "collide")
  BY DEF CreateAllocation
<1> DEFINE s == [thread[t] EXCEPT !.at = "store", !.proposal = p]
<1>2. thread[t] \in Threadlike /\ p \in Nat
  BY ThreadType, Constants
<1>3. s \in Threadlike
  BY <1>2 DEF Threadlike, Places
<1>4. thread' = [thread EXCEPT ![t] = s]
  BY <1>1 DEF TypeInv
<1>5. Only(t, s)
  BY <1>3, <1>4, OnlyOne
<1>6. /\ s.at = "store" /\ s.proposal = p /\ s.nextId = thread[t].nextId
      /\ s.pending = thread[t].pending /\ s.maxSafeId = thread[t].maxSafeId
  BY <1>2 DEF Threadlike
<1> HIDE DEF s
<1> QED
  BY <1>1, <1>5, <1>6 DEF Only, CreateAllocation

LEMMA StoreStep ==
  ASSUME TypeInv, NEW t \in Threads, StoreAllocation(t), thread[t].proposal \in Starts
  PROVE  LET s == thread'[t]
             p == thread[t].proposal
         IN /\ Only(t, s) /\ thread[t].at = "store"
            /\ s.nextId = thread[t].nextId /\ s.pending = thread[t].pending
            /\ allocation' \in [start : Nat, end : Nat]
            /\ allocation'.start = p /\ allocation'.end = p + RangeSize
            /\ IF thread[t].nextId = 0
               THEN s.at = "register" /\ s.proposal = p + 1 /\ s.maxSafeId = p + RangeSize
               ELSE s.at = "move" /\ s.proposal = p /\ s.maxSafeId = thread[t].maxSafeId
<1> DEFINE p == thread[t].proposal
           s == IF thread[t].nextId = 0
                THEN [thread[t] EXCEPT !.at = "register", !.proposal = p + 1,
                                       !.maxSafeId = p + RangeSize]
                ELSE [thread[t] EXCEPT !.at = "move"]
<1>2. thread[t] \in Threadlike /\ p \in Nat /\ RangeSize \in Nat
  BY ThreadType, Constants
<1>3. s \in Threadlike
  <2>1. p + 1 \in Nat /\ p + RangeSize \in Nat
    BY <1>2
  <2> HIDE DEF p
  <2>2. CASE thread[t].nextId = 0
    BY <1>2, <2>1, <2>2 DEF Threadlike, Places
  <2>3. CASE thread[t].nextId # 0
    BY <1>2, <2>3 DEF Threadlike, Places
  <2> QED
    BY <2>2, <2>3
<1>4. thread' = [thread EXCEPT ![t] = s] /\ allocation' = [start |-> p, end |-> p + RangeSize]
  BY DEF StoreAllocation
<1>5. Only(t, s)
  BY <1>3, <1>4, OnlyOne
<1>6. /\ s.nextId = thread[t].nextId /\ s.pending = thread[t].pending
      /\ IF thread[t].nextId = 0
         THEN s.at = "register" /\ s.proposal = p + 1 /\ s.maxSafeId = p + RangeSize
         ELSE s.at = "move" /\ s.proposal = p /\ s.maxSafeId = thread[t].maxSafeId
  BY <1>2 DEF Threadlike
<1>7. thread'[t] = s /\ thread[t].at = "store"
  BY <1>5 DEF Only, StoreAllocation
<1>8. /\ allocation' \in [start : Nat, end : Nat]
      /\ allocation'.start = p /\ allocation'.end = p + RangeSize
  BY <1>2, <1>4
<1> HIDE DEF s, p
<1>9. LET z == thread'[t]
      IN /\ Only(t, z)
         /\ z.nextId = thread[t].nextId /\ z.pending = thread[t].pending
         /\ IF thread[t].nextId = 0
            THEN z.at = "register" /\ z.proposal = p + 1 /\ z.maxSafeId = p + RangeSize
            ELSE z.at = "move" /\ z.proposal = p /\ z.maxSafeId = thread[t].maxSafeId
  BY <1>5, <1>6, <1>7
<1> QED
  BY <1>7, <1>8, <1>9 DEF p

LEMMA RegisterStep ==
  ASSUME TypeInv, NEW t \in Threads, Register(t)
  PROVE  LET s == thread'[t]
         IN /\ Only(t, s) /\ thread[t].at = "register" /\ s.at = "take"
            /\ s.nextId = thread[t].nextId /\ s.pending = thread[t].pending
            /\ s.maxSafeId = thread[t].maxSafeId
            /\ idIncrementer' = IF idIncrementer = 0 THEN thread[t].proposal ELSE idIncrementer
<1> DEFINE s == [thread[t] EXCEPT !.at = "take", !.proposal = 0]
<1>2. thread[t] \in Threadlike
  BY ThreadType
<1>3. s \in Threadlike
  BY <1>2 DEF Threadlike, Places
<1>4. thread' = [thread EXCEPT ![t] = s]
  BY DEF Register, TypeInv
<1>5. Only(t, s)
  BY <1>3, <1>4, OnlyOne
<1> QED
  BY <1>2, <1>5 DEF Only, Register, Threadlike

LEMMA TakeStep ==
  ASSUME TypeInv, NEW t \in Threads, Take(t), idIncrementer > 0
  PROVE  LET s == thread'[t]
         IN /\ Only(t, s) /\ s.maxSafeId = thread[t].maxSafeId
            /\ \/ s.at = "idle" /\ s.nextId = thread[t].nextId
                  /\ s.pending \in {thread[t].pending, Append(thread[t].pending, idIncrementer)}
               \/ s.at = "sync" /\ s.nextId = idIncrementer /\ s.pending = thread[t].pending
<1> DEFINE c == idIncrementer
           z == thread[t]
<1>1. z \in Threadlike /\ c \in Nat \ {0} /\ z.pending \in Seq(Nat \ {0})
  BY ThreadType DEF TypeInv
<1>2. Append(z.pending, c) \in Seq(Nat \ {0})
  BY <1>1
<1> DEFINE s1 == [z EXCEPT !.at = "idle", !.pending = Append(z.pending, c)]
           s2 == [z EXCEPT !.at = "sync", !.nextId = c, !.inTxn = TRUE]
           s3 == [z EXCEPT !.at = "idle"]
<1>3. /\ s1 \in Threadlike /\ s2 \in Threadlike /\ s3 \in Threadlike
      /\ s1.maxSafeId = z.maxSafeId /\ s2.maxSafeId = z.maxSafeId /\ s3.maxSafeId = z.maxSafeId
      /\ s1.at = "idle" /\ s1.nextId = z.nextId /\ s1.pending = Append(z.pending, c)
      /\ s2.at = "sync" /\ s2.nextId = c /\ s2.pending = z.pending
      /\ s3.at = "idle" /\ s3.nextId = z.nextId /\ s3.pending = z.pending
  BY <1>1, <1>2 DEF Threadlike, Places
<1>4. PICK s \in {s1, s2, s3} : thread' = [thread EXCEPT ![t] = s]
  BY DEF Take
<1>5. Only(t, s)
  BY <1>3, <1>4, OnlyOne
<1> QED
  BY <1>3, <1>4, <1>5 DEF Only

LEMMA SyncUpdateStep ==
  ASSUME TypeInv, NEW t \in Threads, SyncUpdate(t)
  PROVE  LET s == thread'[t]
         IN /\ Only(t, s) /\ thread[t].at = "sync" /\ s.at = "search"
            /\ s.nextId = thread[t].nextId /\ s.pending = thread[t].pending
            /\ s.maxSafeId = thread[t].nextId + Extension /\ s.newestId = idIncrementer
<1> DEFINE s == [thread[t] EXCEPT !.at = "search", !.maxSafeId = thread[t].nextId + Extension,
                                  !.newestId = idIncrementer]
<1>2. thread[t] \in Threadlike /\ thread[t].nextId + Extension \in Nat /\ idIncrementer \in Nat
  BY ThreadType, Constants DEF TypeInv
<1>3. s \in Threadlike
  BY <1>2 DEF Threadlike, Places
<1>4. thread' = [thread EXCEPT ![t] = s]
  BY DEF SyncUpdate, TypeInv
<1>5. Only(t, s)
  BY <1>3, <1>4, OnlyOne
<1> QED
  BY <1>2, <1>5 DEF Only, SyncUpdate, Threadlike

LEMMA SyncSearchStep ==
  ASSUME TypeInv, NEW t \in Threads, SyncSearch(t)
  PROVE  LET s == thread'[t]
         IN /\ Only(t, s) /\ thread[t].at = "search" /\ s.at = "read"
            /\ s.nextId = thread[t].nextId /\ s.pending = thread[t].pending
            /\ s.maxSafeId = thread[t].maxSafeId /\ s.newestId = thread[t].newestId
            /\ s.idAfter = KeyFrom(thread[t].newestId + 1, MaxId)
<1> DEFINE a == KeyFrom(thread[t].newestId + 1, MaxId)
           s == [thread[t] EXCEPT !.at = "read", !.idAfter = a]
<1>1. thread[t].newestId + 1 \in Nat /\ MaxId \in Nat
  BY ThreadType, Constants
<1>2. thread[t] \in Threadlike /\ a \in Nat
  BY <1>1, ThreadType, KeyFromFree DEF TypeInv
<1>4. thread' = [thread EXCEPT ![t] = s] /\ thread[t].at = "search"
  BY DEF SyncSearch, TypeInv
<1> HIDE DEF a
<1>3. s \in Threadlike
  BY <1>2 DEF Threadlike, Places
<1>5. Only(t, s)
  BY <1>3, <1>4, OnlyOne
<1>6. /\ s.at = "read" /\ s.nextId = thread[t].nextId /\ s.pending = thread[t].pending
      /\ s.maxSafeId = thread[t].maxSafeId /\ s.newestId = thread[t].newestId /\ s.idAfter = a
  BY <1>2 DEF Threadlike
<1> HIDE DEF s
<1> QED
  BY <1>4, <1>5, <1>6 DEF Only, a

LEMMA AsyncStep ==
  ASSUME TypeInv, NEW t \in Threads, AsyncUpdate(t)
  PROVE  LET s == thread'[t]
         IN /\ Only(t, s) /\ thread[t].at = "idle" /\ thread[t].pending # <<>> /\ s.at = "read"
            /\ s.nextId > 0 /\ s.maxSafeId > 0 /\ s.newestId = idIncrementer
            /\ s.idAfter = KeyFrom(idIncrementer + 1, MaxId)
<1> DEFINE a == KeyFrom(idIncrementer + 1, MaxId)
           h == Head(thread[t].pending)
           s == [thread[t] EXCEPT !.at = "read", !.nextId = h,
                      !.pending = Tail(thread[t].pending), !.maxSafeId = h + Extension, !.newestId = idIncrementer, !.idAfter = a]
<1>1. idIncrementer + 1 \in Nat /\ MaxId \in Nat /\ idIncrementer \in Nat
      /\ thread[t].pending \in Seq(Nat \ {0}) /\ thread[t].pending # <<>>
  BY ThreadType, Constants, SMTT(30) DEF TypeInv, AsyncUpdate
<1>2. thread[t] \in Threadlike /\ a \in Nat /\ h \in Nat \ {0}
      /\ Tail(thread[t].pending) \in Seq(Nat \ {0})
  <2>1. h \in Nat \ {0} /\ Tail(thread[t].pending) \in Seq(Nat \ {0})
    BY <1>1, HeadTailProperties
  <2> QED
    BY <1>1, <2>1, ThreadType, KeyFromFree DEF TypeInv
<1>4. thread' = [thread EXCEPT ![t] = s] /\ thread[t].at = "idle"
  BY DEF AsyncUpdate
<1> HIDE DEF a, h
<1>7. h + Extension \in Nat /\ h + Extension > 0
  BY <1>2, Constants
<1>3. s \in Threadlike
  BY <1>1, <1>2, <1>7 DEF Threadlike, Places
<1>5. Only(t, s)
  BY <1>3, <1>4, OnlyOne
<1>6. /\ s.at = "read" /\ s.nextId = h
      /\ s.maxSafeId = h + Extension /\ s.newestId = idIncrementer /\ s.idAfter = a
  BY <1>2 DEF Threadlike
<1> HIDE DEF s
<1> QED
  BY <1>1, <1>2, <1>4, <1>5, <1>6, <1>7 DEF Only, a

LEMMA ReadStep ==
  ASSUME TypeInv, NEW t \in Threads, ReadAllocation(t)
  PROVE  LET s == thread'[t]
             z == thread[t]
         IN /\ Only(t, s) /\ z.at = "read"
            /\ s.maxSafeId = z.maxSafeId /\ s.pending = z.pending
            /\ \/ s.at = "create" /\ s.nextId = z.nextId
               \/ s.at = "idle" /\ s.nextId = 0
               \/ /\ s.at = "put" /\ s.nextId = z.nextId /\ s.newestId = z.newestId
                  /\ s.start = allocation.start /\ z.maxSafeId < z.idAfter
<1> DEFINE z == thread[t]
           s1 == [z EXCEPT !.at = "create"]
           s2 == Idle(z)
           s3 == [z EXCEPT !.at = "put", !.start = allocation.start]
<1>1. z \in Threadlike /\ allocation.start \in Nat /\ z.at = "read"
      /\ z.maxSafeId \in Nat /\ z.idAfter \in Nat
  BY ThreadType DEF TypeInv, ReadAllocation
<1>2. /\ s1 \in Threadlike /\ s3 \in Threadlike
      /\ s1.maxSafeId = z.maxSafeId /\ s1.pending = z.pending /\ s1.at = "create"
      /\ s1.nextId = z.nextId
      /\ s3.maxSafeId = z.maxSafeId /\ s3.pending = z.pending /\ s3.at = "put"
      /\ s3.nextId = z.nextId /\ s3.newestId = z.newestId /\ s3.start = allocation.start
  BY <1>1 DEF Threadlike, Places
<1>3. /\ s2 \in Threadlike /\ s2.at = "idle" /\ s2.nextId = 0
      /\ s2.maxSafeId = z.maxSafeId /\ s2.pending = z.pending
  BY <1>1, IdleIs
<1>4. \/ thread' = [thread EXCEPT ![t] = s1]
      \/ thread' = [thread EXCEPT ![t] = s2]
      \/ thread' = [thread EXCEPT ![t] = s3] /\ z.maxSafeId < z.idAfter
  <2>1. CASE z.maxSafeId >= z.idAfter
    BY <2>1 DEF ReadAllocation
  <2>2. CASE ~(z.maxSafeId >= z.idAfter) /\ Extended(z)
    BY <2>2 DEF ReadAllocation
  <2>3. CASE ~(z.maxSafeId >= z.idAfter) /\ ~Extended(z)
    <3>1. z.maxSafeId < z.idAfter
      BY <1>1, <2>3
    <3> QED
      BY <2>3, <3>1 DEF ReadAllocation
  <2> QED
    BY <2>1, <2>2, <2>3
<1> HIDE DEF s1, s2, s3
<1>5. CASE thread' = [thread EXCEPT ![t] = s1]
  BY <1>1, <1>2, <1>5, OnlyOne DEF Only
<1>6. CASE thread' = [thread EXCEPT ![t] = s2]
  BY <1>1, <1>3, <1>6, OnlyOne DEF Only
<1>7. CASE thread' = [thread EXCEPT ![t] = s3] /\ z.maxSafeId < z.idAfter
  BY <1>1, <1>2, <1>7, OnlyOne DEF Only
<1> QED
  BY <1>4, <1>5, <1>6, <1>7

LEMMA PutStep ==
  ASSUME TypeInv, NEW t \in Threads, PutEnd(t)
  PROVE  LET s == thread'[t]
         IN /\ Only(t, s) /\ thread[t].at = "put" /\ s.at = "idle" /\ s.nextId = 0
            /\ s.maxSafeId = thread[t].maxSafeId /\ s.pending = thread[t].pending
            /\ allocation' \in [start : Nat, end : Nat]
            /\ allocation'.start = thread[t].start /\ allocation'.end = thread[t].maxSafeId
<1>1. /\ Idle(thread[t]) \in Threadlike /\ Idle(thread[t]).at = "idle"
      /\ Idle(thread[t]).nextId = 0 /\ Idle(thread[t]).maxSafeId = thread[t].maxSafeId
      /\ Idle(thread[t]).pending = thread[t].pending
  BY ThreadType, IdleIs
<1>2. Only(t, Idle(thread[t]))
  BY <1>1, OnlyOne DEF PutEnd
<1> QED
  BY <1>1, <1>2, ThreadType DEF Only, PutEnd

LEMMA MoveStep ==
  ASSUME TypeInv, NEW t \in Threads, MoveCounter(t)
  PROVE  LET s == thread'[t]
         IN /\ Only(t, s) /\ thread[t].at = "move" /\ s.at = "idle" /\ s.nextId = 0
            /\ s.maxSafeId = thread[t].proposal + RangeSize /\ s.pending = thread[t].pending
            /\ idIncrementer' = thread[t].proposal + 1
<1> DEFINE z == Idle(thread[t])
           s == [z EXCEPT !.maxSafeId = thread[t].proposal + RangeSize]
<1>1. /\ z \in Threadlike /\ z.at = "idle" /\ z.nextId = 0 /\ z.pending = thread[t].pending
      /\ thread[t].proposal + RangeSize \in Nat
  BY ThreadType, IdleIs, Constants
<1>2. thread' = [thread EXCEPT ![t] = s] /\ thread[t].at = "move"
      /\ idIncrementer' = thread[t].proposal + 1
  BY DEF MoveCounter
<1> HIDE DEF z
<1>3. /\ s \in Threadlike /\ s.at = "idle" /\ s.nextId = 0 /\ s.pending = thread[t].pending
      /\ s.maxSafeId = thread[t].proposal + RangeSize
  BY <1>1 DEF Threadlike
<1> HIDE DEF s
<1>4. Only(t, s)
  BY <1>2, <1>3, OnlyOne
<1> QED
  BY <1>2, <1>3, <1>4 DEF Only

-----------------------------------------------------------------------------
(***************************************************************************)
(* The types, and the phases of the threads.                               *)
(***************************************************************************)
LEMMA IfIs ==
  ASSUME NEW happens, NEW cause \in Causes
  PROVE  If(happens, cause) \subseteq Causes /\ (happens => cause \in If(happens, cause))
  BY DEF If

LEMMA IsCause ==
  /\ "collide" \in Causes /\ "infringe" \in Causes /\ "together" \in Causes
  /\ "moved" \in Causes /\ "behind" \in Causes /\ "overrun" \in Causes
  BY DEF Causes

Structure == TypeInv /\ StartInv /\ \A t \in Threads : ThreadInv(t)

\* The steps of a thread, of which those that give an id have a shared number.
Step(t) ==
    \/ LoadAllocation(t) \/ CreateAllocation(t) \/ StoreAllocation(t) \/ Register(t) \/ Take(t)
    \/ SyncUpdate(t) \/ SyncSearch(t) \/ AsyncUpdate(t) \/ ReadAllocation(t) \/ PutEnd(t)
    \/ MoveCounter(t)

LEMMA TakeFrom ==
  ASSUME Structure, NEW t \in Threads, Take(t)
  PROVE  idIncrementer > 0 /\ idIncrementer \in Nat
  BY DEF Structure, TypeInv, ThreadInv, Take

LEMMA StoreFrom ==
  ASSUME Structure, NEW t \in Threads, StoreAllocation(t)
  PROVE  thread[t].proposal \in Starts /\ thread[t].proposal \in Nat
  BY Constants DEF Structure, ThreadInv, StoreAllocation

\* The causes are not forgotten.
LEMMA CausesGrow ==
  ASSUME [Next]_vars
  PROVE  causes \subseteq causes'
  BY DEF Next, vars, LoadAllocation, CreateAllocation, StoreAllocation, Register, Take,
         SyncUpdate, SyncSearch, AsyncUpdate, ReadAllocation, PutEnd, MoveCounter, Save, Insert, Restart

LEMMA TypeInit == Init => IdInv
<1> SUFFICES ASSUME Init PROVE IdInv
  OBVIOUS
<1>1. /\ keys = {} /\ allocation = [start |-> 0, end |-> 0] /\ idIncrementer = 0
      /\ thread = [t \in Threads |-> NewThread] /\ unsaved = {} /\ given = {} /\ taken = 0
      /\ causes = {}
  BY DEF Init
<1>2. TypeInv
  BY <1>1, NewThreadIs, Constants DEF TypeInv
<1>3. ASSUME NEW t \in Threads
      PROVE  thread[t].at = "idle" /\ Fresh(thread[t]) /\ thread[t].maxSafeId = 0
  BY <1>1, NewThreadIs DEF Fresh
<1>4. ASSUME NEW t \in Threads PROVE ThreadInv(t)
  BY <1>3 DEF ThreadInv
<1>5. StartInv
  BY <1>1 DEF StartInv
<1>6. GivenInv
  BY <1>1, <1>3 DEF GivenInv, Mover
<1>7. KeyInv
  <2>1. RangeInv
    BY <1>1 DEF RangeInv
  <2>2. ASSUME NEW t \in Threads PROVE PhaseInv(t)
    BY <1>3 DEF PhaseInv
  <2> QED
    BY <1>1, <2>1, <2>2 DEF KeyInv
<1> QED
  BY <1>2, <1>4, <1>5, <1>6, <1>7 DEF IdInv

LEMMA TypeStep ==
  ASSUME Structure, [Next]_vars
  PROVE  TypeInv'
<1> USE DEF Structure
<1>0. causes' \subseteq Causes
  <2>1. causes \subseteq Causes
    BY DEF TypeInv
  <2> QED
    BY <2>1, IfIs, IsCause DEF Next, vars, LoadAllocation, CreateAllocation, StoreAllocation,
         Register, Take, SyncUpdate, SyncSearch, AsyncUpdate, ReadAllocation, PutEnd, MoveCounter,
         Save, Insert, Restart
<1>1. ASSUME NEW t \in Threads, LoadAllocation(t) PROVE TypeInv'
  BY <1>0, <1>1, LoadStep DEF TypeInv, Only, LoadAllocation
<1>2. ASSUME NEW t \in Threads, CreateAllocation(t) PROVE TypeInv'
  BY <1>0, <1>2, CreateStep DEF TypeInv, Only, CreateAllocation
<1>3. ASSUME NEW t \in Threads, StoreAllocation(t) PROVE TypeInv'
  <2>1. allocation' \in [start : Nat, end : Nat] /\ thread' \in [Threads -> Threadlike]
    BY <1>3, StoreFrom, StoreStep DEF Only
  <2>2. UNCHANGED <<keys, idIncrementer, unsaved, given, taken>>
    BY <1>3 DEF StoreAllocation
  <2> QED
    BY <1>0, <2>1, <2>2 DEF TypeInv
<1>4. ASSUME NEW t \in Threads, Register(t) PROVE TypeInv'
  <2>1. idIncrementer' \in Nat /\ thread' \in [Threads -> Threadlike]
    BY <1>4, RegisterStep, ThreadType DEF Only, TypeInv
  <2>2. UNCHANGED <<keys, allocation, unsaved, given, taken>>
    BY <1>4 DEF Register
  <2> QED
    BY <1>0, <2>1, <2>2 DEF TypeInv
<1>5. ASSUME NEW t \in Threads, Take(t) PROVE TypeInv'
  <2>1. thread' \in [Threads -> Threadlike]
    BY <1>5, TakeFrom, TakeStep DEF Only
  <2>2. /\ UNCHANGED <<keys, allocation>> /\ idIncrementer' = idIncrementer + 1 /\ taken < MaxIds
        /\ taken' = taken + 1 /\ given' = given \cup {idIncrementer}
        /\ unsaved' = unsaved \cup {idIncrementer} /\ idIncrementer \in Nat
    BY <1>5, TakeFrom DEF Take
  <2>3. taken' \in 0 .. MaxIds
    BY <2>2, Constants DEF TypeInv
  <2> QED
    BY <1>0, <2>1, <2>2, <2>3 DEF TypeInv
<1>6. ASSUME NEW t \in Threads, SyncUpdate(t) PROVE TypeInv'
  BY <1>0, <1>6, SyncUpdateStep DEF TypeInv, Only, SyncUpdate
<1>7. ASSUME NEW t \in Threads, SyncSearch(t) PROVE TypeInv'
  BY <1>0, <1>7, SyncSearchStep DEF TypeInv, Only, SyncSearch
<1>8. ASSUME NEW t \in Threads, AsyncUpdate(t) PROVE TypeInv'
  BY <1>0, <1>8, AsyncStep DEF TypeInv, Only, AsyncUpdate
<1>9. ASSUME NEW t \in Threads, ReadAllocation(t) PROVE TypeInv'
  BY <1>0, <1>9, ReadStep DEF TypeInv, Only, ReadAllocation
<1>10. ASSUME NEW t \in Threads, PutEnd(t) PROVE TypeInv'
  <2>1. allocation' \in [start : Nat, end : Nat] /\ thread' \in [Threads -> Threadlike]
    BY <1>10, PutStep DEF Only
  <2>2. UNCHANGED <<keys, idIncrementer, unsaved, given, taken>>
    BY <1>10 DEF PutEnd
  <2> QED
    BY <1>0, <2>1, <2>2 DEF TypeInv
<1>11. ASSUME NEW t \in Threads, MoveCounter(t) PROVE TypeInv'
  <2>1. idIncrementer' \in Nat /\ thread' \in [Threads -> Threadlike]
    BY <1>11, MoveStep, ThreadType DEF Only
  <2>2. UNCHANGED <<keys, allocation, unsaved, given, taken>>
    BY <1>11 DEF MoveCounter
  <2> QED
    BY <1>0, <2>1, <2>2 DEF TypeInv
<1>12. ASSUME NEW x \in unsaved, Save(x) PROVE TypeInv'
  BY <1>0, <1>12 DEF TypeInv, Save
<1>13. ASSUME NEW k \in Others, Insert(k) PROVE TypeInv'
  <2>1. k \in Nat /\ keys' = keys \cup {k} /\ UNCHANGED <<allocation, idIncrementer, thread, unsaved, given, taken>>
    BY <1>13, Constants DEF Insert
  <2> QED
    BY <1>0, <2>1 DEF TypeInv
<1>14. CASE Restart
  <2>1. \A t \in Threads : NewThread \in Threadlike
    BY NewThreadIs
  <2>2. thread' \in [Threads -> Threadlike]
    BY <1>14, <2>1 DEF Restart
  <2> QED
    BY <1>0, <1>14, <2>2 DEF TypeInv, Restart
<1>15. CASE UNCHANGED vars
  BY <1>0, <1>15 DEF TypeInv, vars
<1> QED
  BY <1>1, <1>2, <1>3, <1>4, <1>5, <1>6, <1>7, <1>8, <1>9, <1>10, <1>11, <1>12, <1>13, <1>14, <1>15
     DEF Next

\* A thread that is left alone stays in its phase while the number and the range
\* become no less known.
LEMMA Others1 ==
  ASSUME Structure, TypeInv', NEW u \in Threads, thread'[u] = thread[u],
         idIncrementer' = 0 => idIncrementer = 0, given' = {} => given = {},
         allocation'.end = 0 => allocation.end = 0
  PROVE  ThreadInv(u)'
  BY DEF Structure, ThreadInv, Fresh

LEMMA ThreadStep ==
  ASSUME Structure, TypeInv', NEW t \in Threads, Step(t)
  PROVE  StartInv' /\ \A u \in Threads : ThreadInv(u)'
<1> USE DEF Structure
<1>0. /\ ThreadInv(t) /\ StartInv /\ TypeInv /\ idIncrementer \in Nat /\ idIncrementer' \in Nat
      /\ allocation.end \in Nat /\ Extension > 0 /\ RangeSize > 0 /\ Extension \in Nat
      /\ RangeSize \in Nat
  BY Constants DEF TypeInv
<1>a. /\ thread[t].maxSafeId \in Nat /\ thread[t].nextId \in Nat /\ thread[t].proposal \in Nat
      /\ thread[t].pending \in Seq(Nat \ {0})
  BY ThreadType
<1>1. CASE LoadAllocation(t)
  <2>1. UNCHANGED <<keys, allocation, idIncrementer, unsaved, given, taken>>
    BY <1>1 DEF LoadAllocation
  <2>2. StartInv'
    BY <1>0, <2>1 DEF StartInv
  <2>3. ThreadInv(t)'
    <3>1. LastKey(allocation) \in Nat
      BY LastKeyFree DEF TypeInv
    <3> QED
      BY <1>0, <1>1, <2>1, <3>1, LoadStep DEF ThreadInv, Fresh
  <2> QED
    BY <1>1, <2>1, <2>2, <2>3, LoadStep, Others1 DEF Only
<1>2. CASE CreateAllocation(t)
  <2>1. UNCHANGED <<keys, allocation, idIncrementer, unsaved, given, taken>>
    BY <1>2 DEF CreateAllocation
  <2>2. StartInv'
    BY <1>0, <2>1 DEF StartInv
  <2>3. ThreadInv(t)'
    BY <1>0, <1>2, <2>1, CreateStep DEF ThreadInv, Fresh
  <2> QED
    BY <1>2, <2>1, <2>2, <2>3, CreateStep, Others1 DEF Only
<1>3. CASE StoreAllocation(t)
  <2>1. UNCHANGED <<keys, idIncrementer, unsaved, given, taken>>
    BY <1>3 DEF StoreAllocation
  <2>2. /\ thread[t].proposal > 0 /\ thread[t].proposal \in Starts
        /\ allocation'.end = thread[t].proposal + RangeSize /\ allocation'.end # 0
    BY <1>0, <1>3, Constants, StoreFrom, StoreStep
  <2>3. StartInv'
    BY <1>0, <2>1, <2>2 DEF StartInv
  <2>4. ThreadInv(t)'
    <3>1. CASE thread[t].nextId = 0
      BY <1>0, <1>a, <1>3, <2>1, <2>2, <3>1, StoreStep, SMTT(30) DEF ThreadInv, Fresh
    <3>2. CASE thread[t].nextId # 0
      BY <1>0, <1>a, <1>3, <2>1, <2>2, <3>2, StoreStep, SMTT(30) DEF ThreadInv, Fresh
    <3> QED
      BY <3>1, <3>2
  <2> QED
    BY <1>3, <2>1, <2>2, <2>3, <2>4, StoreStep, Others1 DEF Only
<1>4. CASE Register(t)
  <2>1. UNCHANGED <<keys, allocation, unsaved, given, taken>>
    BY <1>4 DEF Register
  <2>2. idIncrementer' > 0 /\ allocation.end # 0
    BY <1>0, <1>a, <1>4, RegisterStep DEF ThreadInv
  <2>3. StartInv'
    BY <2>1, <2>2 DEF StartInv
  <2>4. ThreadInv(t)'
    BY <1>0, <1>4, <2>1, <2>2, RegisterStep DEF ThreadInv, Fresh
  <2> QED
    BY <1>4, <2>1, <2>2, <2>3, <2>4, RegisterStep, Others1 DEF Only
<1>5. CASE Take(t)
  <2>1. /\ UNCHANGED <<keys, allocation>> /\ idIncrementer' = idIncrementer + 1
        /\ given' = given \cup {idIncrementer} /\ idIncrementer > 0
        /\ thread[t].at \in {"take", "idle"}
        /\ thread[t].at = "idle" => thread[t].maxSafeId > 0
    BY <1>5, TakeFrom DEF Take
  <2>2. idIncrementer' > 0 /\ given' # {} /\ allocation.end # 0
    BY <1>0, <2>1 DEF StartInv
  <2>3. StartInv'
    BY <2>1, <2>2 DEF StartInv
  <2>4. ThreadInv(t)'
    <3>1. thread[t].maxSafeId # 0
      BY <1>0, <1>a, <2>1 DEF ThreadInv
    <3>2. /\ thread'[t].maxSafeId = thread[t].maxSafeId
          /\ \/ thread'[t].at = "idle"
             \/ thread'[t].at = "sync" /\ thread'[t].nextId > 0
      BY <1>5, <2>1, TakeStep
    <3> QED
      BY <2>1, <2>2, <3>1, <3>2 DEF ThreadInv
  <2> QED
    BY <1>5, <2>1, <2>2, <2>3, <2>4, TakeStep, Others1 DEF Only
<1>6. CASE SyncUpdate(t)
  <2>1. UNCHANGED <<keys, allocation, idIncrementer, unsaved, given, taken>>
    BY <1>6 DEF SyncUpdate
  <2>2. StartInv'
    BY <1>0, <2>1 DEF StartInv
  <2>3. ThreadInv(t)'
    BY <1>0, <1>a, <1>6, <2>1, SyncUpdateStep DEF ThreadInv, Fresh
  <2> QED
    BY <1>6, <2>1, <2>2, <2>3, SyncUpdateStep, Others1 DEF Only
<1>7. CASE SyncSearch(t)
  <2>1. UNCHANGED <<keys, allocation, idIncrementer, unsaved, given, taken>>
    BY <1>7 DEF SyncSearch
  <2>2. StartInv'
    BY <1>0, <2>1 DEF StartInv
  <2>3. ThreadInv(t)'
    BY <1>0, <1>7, <2>1, SyncSearchStep DEF ThreadInv, Fresh
  <2> QED
    BY <1>7, <2>1, <2>2, <2>3, SyncSearchStep, Others1 DEF Only
<1>8. CASE AsyncUpdate(t)
  <2>1. UNCHANGED <<keys, allocation, idIncrementer, unsaved, given, taken>>
    BY <1>8 DEF AsyncUpdate
  <2>2. StartInv'
    BY <1>0, <2>1 DEF StartInv
  <2>3. ThreadInv(t)'
    BY <1>0, <1>8, <2>1, AsyncStep DEF ThreadInv, Fresh
  <2> QED
    BY <1>8, <2>1, <2>2, <2>3, AsyncStep, Others1 DEF Only
<1>9. CASE ReadAllocation(t)
  <2>1. UNCHANGED <<keys, allocation, idIncrementer, unsaved, given, taken>>
    BY <1>9 DEF ReadAllocation
  <2>2. StartInv'
    BY <1>0, <2>1 DEF StartInv
  <2>3. ThreadInv(t)'
    BY <1>0, <1>9, <2>1, ReadStep DEF ThreadInv, Fresh
  <2> QED
    BY <1>9, <2>1, <2>2, <2>3, ReadStep, Others1 DEF Only
<1>10. CASE PutEnd(t)
  <2>1. UNCHANGED <<keys, idIncrementer, unsaved, given, taken>>
    BY <1>10 DEF PutEnd
  <2>2. allocation'.end # 0 /\ allocation'.end = thread[t].maxSafeId
    BY <1>0, <1>10, PutStep DEF ThreadInv
  <2>3. StartInv'
    BY <1>0, <2>1, <2>2 DEF StartInv
  <2>4. ThreadInv(t)'
    BY <1>0, <1>10, <2>1, <2>2, PutStep DEF ThreadInv, Fresh
  <2> QED
    BY <1>10, <2>1, <2>2, <2>3, <2>4, PutStep, Others1 DEF Only
<1>11. CASE MoveCounter(t)
  <2>1. UNCHANGED <<keys, allocation, unsaved, given, taken>>
    BY <1>11 DEF MoveCounter
  <2>2. /\ idIncrementer' # 0 /\ allocation.end # 0
    BY <1>0, <1>a, <1>11, MoveStep DEF ThreadInv
  <2>3. StartInv'
    BY <1>0, <2>1, <2>2 DEF StartInv
  <2>4. ThreadInv(t)'
    <3>1. /\ thread'[t].at = "idle" /\ thread'[t].maxSafeId # 0 /\ given # {}
      BY <1>0, <1>a, <1>11, MoveStep DEF ThreadInv, Fresh
    <3> QED
      BY <2>1, <2>2, <3>1 DEF ThreadInv
  <2> QED
    BY <1>11, <2>1, <2>2, <2>3, <2>4, MoveStep, Others1 DEF Only
<1> QED
  BY <1>1, <1>2, <1>3, <1>4, <1>5, <1>6, <1>7, <1>8, <1>9, <1>10, <1>11 DEF Step

LEMMA StructureStep ==
  ASSUME Structure, [Next]_vars
  PROVE  Structure'
<1>0. TypeInv'
  BY TypeStep
<1>1. ASSUME NEW t \in Threads, Step(t) PROVE Structure'
  BY <1>0, <1>1, ThreadStep DEF Structure
<1>2. ASSUME NEW x \in unsaved, Save(x) PROVE Structure'
  <2>1. UNCHANGED <<allocation, idIncrementer, thread, given>>
    BY <1>2 DEF Save
  <2> QED
    BY <1>0, <2>1 DEF Structure, StartInv, ThreadInv
<1>3. ASSUME NEW k \in Others, Insert(k) PROVE Structure'
  <2>1. UNCHANGED <<allocation, idIncrementer, thread, given>>
    BY <1>3 DEF Insert
  <2> QED
    BY <1>0, <2>1 DEF Structure, StartInv, ThreadInv
<1>4. CASE Restart
  <2>1. \A u \in Threads : thread'[u] = NewThread
    BY <1>4 DEF Restart
  <2>2. StartInv'
    BY <1>4 DEF Restart, StartInv
  <2>3. ASSUME NEW u \in Threads PROVE ThreadInv(u)'
    BY <2>1, NewThreadIs DEF ThreadInv, Fresh
  <2> QED
    BY <1>0, <2>2, <2>3 DEF Structure
<1>5. CASE UNCHANGED vars
  BY <1>0, <1>5 DEF Structure, StartInv, ThreadInv, vars
<1> QED
  BY <1>1, <1>2, <1>3, <1>4, <1>5 DEF Next, Step
-----------------------------------------------------------------------------
(***************************************************************************)
(* The ids that were given, and the number.                                *)
(***************************************************************************)
LEMMA LeftIs ==
  ASSUME TypeInv
  PROVE  /\ Left \in Nat
         /\ taken' = taken => Left' = Left
         /\ taken < MaxIds /\ taken' = taken + 1 => Left' = Left - 1 /\ Left' \in Nat
  BY Constants DEF TypeInv, Left

LEMMA MoverIs ==
  ASSUME Structure, NEW t \in Threads, Mover(t)
  PROVE  /\ thread[t].proposal \in Nat /\ thread[t].proposal > 0 /\ thread[t].proposal \in Starts
         /\ idIncrementer > 0 /\ idIncrementer \in Nat
<1>1. thread[t].proposal \in Starts /\ thread[t].nextId > 0 /\ thread[t].nextId \in Nat
  BY ThreadType DEF Structure, ThreadInv, Mover
<1>2. idIncrementer \in Nat /\ idIncrementer # 0
  BY <1>1 DEF Structure, TypeInv, ThreadInv, Fresh
<1> QED
  BY <1>1, <1>2, Constants

LEMMA GivenKept ==
  ASSUME Structure, GivenInv, given' \subseteq given, UNCHANGED <<idIncrementer, taken>>,
         \A u \in Threads : Mover(u)' => Mover(u) /\ thread'[u].proposal = thread[u].proposal
  PROVE  GivenInv'
<1>1. Left' = Left
  BY LeftIs DEF Structure
<1>2. idIncrementer' > 0 => \A x \in given' : x < idIncrementer' \/ x > idIncrementer' + Left'
  BY <1>1 DEF GivenInv
<1>3. ASSUME NEW t \in Threads, Mover(t)'
      PROVE  LET p == thread'[t].proposal
             IN /\ \A x \in given' : x <= p \/ x > p + RangeSize + Left'
                /\ idIncrementer' + Left' <= p \/ idIncrementer' > p + RangeSize + Left'
                /\ \A u \in Threads \ {t} : Mover(u)' =>
                      LET q == thread'[u].proposal
                      IN p + RangeSize + Left' < q \/ q + RangeSize + Left' < p
  <2>1. Mover(t) /\ thread'[t].proposal = thread[t].proposal
    BY <1>3
  <2> QED
    BY <1>1, <1>3, <2>1 DEF GivenInv
<1> QED
  BY <1>2, <1>3 DEF GivenInv

LEMMA GivenStep ==
  ASSUME IdInv, Structure', [Next]_vars, "collide" \notin causes'
  PROVE  GivenInv'
<1>0. Structure /\ GivenInv /\ TypeInv /\ idIncrementer \in Nat
  BY CausesGrow DEF IdInv, Structure, TypeInv
<1>a. /\ RangeSize \in Nat /\ RangeSize > 0 /\ MaxIds \in Nat /\ Left \in Nat /\ Left <= MaxIds
  <2>1. Left <= MaxIds
    BY <1>0, Constants DEF TypeInv, Left
  <2> QED
    BY <1>0, <2>1, Constants, LeftIs
<1>1. ASSUME NEW t \in Threads, LoadAllocation(t) PROVE GivenInv'
  <2>1. ASSUME NEW u \in Threads, Mover(u)'
        PROVE  Mover(u) /\ thread'[u].proposal = thread[u].proposal
    BY <1>0, <1>1, <2>1, LoadStep DEF Mover, Only
  <2> QED
    BY <1>0, <1>1, <2>1, GivenKept DEF LoadAllocation
<1>2. ASSUME NEW t \in Threads, CreateAllocation(t) PROVE GivenInv'
  <2>1. /\ UNCHANGED <<idIncrementer, given, taken>> /\ Left' = Left
    BY <1>0, <1>2, LeftIs DEF CreateAllocation
  <2>2. PICK s \in Starts : s = thread'[t].proposal /\ ~Collides(s)
    BY <1>0, <1>2, CreateStep DEF If
  <2>3. s \in Nat /\ s > 0
    BY Constants
  <2>4. ASSUME NEW x \in Nat, x > 0, x \in given \cup {idIncrementer}
        PROVE  x < s - RangeSize - MaxIds \/ x > s + RangeSize + MaxIds
    BY <1>a, <2>2, <2>3, <2>4 DEF Collides, Close
  <2>5. \A u \in Threads \ {t} : thread'[u] = thread[u]
    BY <1>0, <1>2, CreateStep DEF Only
  <2>6. ASSUME NEW u \in Threads \ {t}, Mover(u)
        PROVE  LET q == thread[u].proposal
               IN s + RangeSize + Left < q \/ q + RangeSize + Left < s
    <3>1. thread[u].proposal \in Nat /\ thread[u].proposal > 0
      BY <1>0, <2>6, MoverIs
    <3> QED
      BY <1>a, <2>2, <2>3, <3>1 DEF Collides, Close
  <2>7. \A x \in given : x <= s \/ x > s + RangeSize + Left
    <3> SUFFICES ASSUME NEW x \in given PROVE x <= s \/ x > s + RangeSize + Left
      OBVIOUS
    <3>1. x \in Nat
      BY <1>0 DEF TypeInv
    <3> QED
      BY <1>a, <2>3, <2>4, <3>1
  <2>8. Mover(t)' => idIncrementer + Left <= s \/ idIncrementer > s + RangeSize + Left
    <3> SUFFICES ASSUME Mover(t)' PROVE idIncrementer + Left <= s \/ idIncrementer > s + RangeSize + Left
      OBVIOUS
    <3>1. idIncrementer > 0
      BY <2>1, MoverIs, Mover(t)', Structure', t \in Threads, ThreadType, <1>0, <1>2, CreateStep
         DEF Mover, Structure, ThreadInv, Fresh
    <3> QED
      BY <1>0, <1>a, <2>3, <2>4, <3>1
  <2>9. ASSUME NEW v \in Threads, Mover(v)'
        PROVE  LET p == thread'[v].proposal
               IN /\ \A x \in given : x <= p \/ x > p + RangeSize + Left
                  /\ idIncrementer + Left <= p \/ idIncrementer > p + RangeSize + Left
                  /\ \A u \in Threads \ {v} : Mover(u)' =>
                        LET q == thread'[u].proposal
                        IN p + RangeSize + Left < q \/ q + RangeSize + Left < p
    <3>1. CASE v = t
      <4>1. \A u \in Threads \ {t} : Mover(u)' => Mover(u)
        BY <2>5 DEF Mover
      <4> QED
        BY <2>2, <2>5, <2>6, <2>7, <2>8, <2>9, <3>1, <4>1
    <3>2. CASE v # t
      <4>1. Mover(v) /\ thread'[v] = thread[v]
        BY <2>5, <2>9, <3>2 DEF Mover
      <4>2. \A u \in Threads \ {t} : Mover(u)' => Mover(u)
        BY <2>5 DEF Mover
      <4>3. /\ \A x \in given : x <= thread[v].proposal \/ x > thread[v].proposal + RangeSize + Left
            /\ \/ idIncrementer + Left <= thread[v].proposal
               \/ idIncrementer > thread[v].proposal + RangeSize + Left
            /\ \A u \in Threads \ {v} : Mover(u) =>
                  \/ thread[v].proposal + RangeSize + Left < thread[u].proposal
                  \/ thread[u].proposal + RangeSize + Left < thread[v].proposal
        BY <1>0, <4>1 DEF GivenInv
      <4>4. \/ thread[v].proposal + RangeSize + Left < thread'[t].proposal
            \/ thread'[t].proposal + RangeSize + Left < thread[v].proposal
        BY <2>2, <2>6, <3>2, <4>1
      <4> QED
        BY <2>5, <4>1, <4>2, <4>3, <4>4
    <3> QED
      BY <3>1, <3>2
  <2>10. idIncrementer > 0 => \A x \in given : x < idIncrementer \/ x > idIncrementer + Left
    BY <1>0 DEF GivenInv
  <2> QED
    BY <2>1, <2>9, <2>10 DEF GivenInv
<1>3. ASSUME NEW t \in Threads, StoreAllocation(t) PROVE GivenInv'
  <2>1. ASSUME NEW u \in Threads, Mover(u)'
        PROVE  Mover(u) /\ thread'[u].proposal = thread[u].proposal
    <3>1. thread[t].nextId \in Nat
      BY <1>0, ThreadType
    <3> QED
      BY <1>0, <1>3, <2>1, <3>1, StoreFrom, StoreStep DEF Mover, Only
  <2> QED
    BY <1>0, <1>3, <2>1, GivenKept DEF StoreAllocation
<1>4. ASSUME NEW t \in Threads, Register(t) PROVE GivenInv'
  <2>1. UNCHANGED <<given, taken>>
    BY <1>4 DEF Register
  <2>2. ASSUME NEW u \in Threads, Mover(u)'
        PROVE  Mover(u) /\ thread'[u].proposal = thread[u].proposal
    BY <1>0, <1>4, <2>2, RegisterStep DEF Mover, Only
  <2>3. CASE idIncrementer > 0
    <3>1. idIncrementer' = idIncrementer
      BY <1>0, <1>4, <2>3, RegisterStep
    <3> QED
      BY <1>0, <2>1, <2>2, <3>1, GivenKept
  <2>4. CASE idIncrementer = 0
    <3>1. given' = {} /\ \A u \in Threads : ~Mover(u)
      BY <1>0, <2>1, <2>4, MoverIs DEF Structure, StartInv
    <3> QED
      BY <2>2, <3>1 DEF GivenInv
  <2> QED
    BY <1>0, <2>3, <2>4
<1>5. ASSUME NEW t \in Threads, Take(t) PROVE GivenInv'
  <2>1. /\ idIncrementer' = idIncrementer + 1 /\ taken' = taken + 1 /\ taken < MaxIds
        /\ given' = given \cup {idIncrementer} /\ idIncrementer > 0
    BY <1>0, <1>5, TakeFrom DEF Take
  <2>2. Left' = Left - 1 /\ Left' \in Nat
    BY <1>0, <2>1, LeftIs
  <2>3. ASSUME NEW u \in Threads, Mover(u)'
        PROVE  Mover(u) /\ thread'[u].proposal = thread[u].proposal
    BY <1>0, <1>5, <2>1, <2>3, TakeStep DEF Mover, Only
  <2>4. \A x \in given : x \in Nat
    BY <1>0 DEF TypeInv
  <2>5. \A x \in given' : x < idIncrementer' \/ x > idIncrementer' + Left'
    BY <1>0, <1>a, <2>1, <2>2, <2>4 DEF GivenInv
  <2>6. ASSUME NEW v \in Threads, Mover(v)'
        PROVE  LET p == thread'[v].proposal
               IN /\ \A x \in given' : x <= p \/ x > p + RangeSize + Left'
                  /\ idIncrementer' + Left' <= p \/ idIncrementer' > p + RangeSize + Left'
                  /\ \A u \in Threads \ {v} : Mover(u)' =>
                        LET q == thread'[u].proposal
                        IN p + RangeSize + Left' < q \/ q + RangeSize + Left' < p
    <3>1. PICK p \in Nat : p = thread[v].proposal /\ p = thread'[v].proposal
      BY <1>0, <2>3, <2>6, MoverIs
    <3>2. /\ \A x \in given : x <= p \/ x > p + RangeSize + Left
          /\ idIncrementer + Left <= p \/ idIncrementer > p + RangeSize + Left
      BY <1>0, <2>3, <2>6, <3>1 DEF GivenInv
    <3>3. \A x \in given' : x <= p \/ x > p + RangeSize + Left'
      BY <1>0, <1>a, <2>1, <2>2, <2>4, <3>1, <3>2
    <3>4. idIncrementer' + Left' <= p \/ idIncrementer' > p + RangeSize + Left'
      BY <1>0, <1>a, <2>1, <2>2, <3>1, <3>2
    <3>5. ASSUME NEW u \in Threads \ {v}, Mover(u)'
          PROVE  LET q == thread'[u].proposal
                 IN p + RangeSize + Left' < q \/ q + RangeSize + Left' < p
      <4>1. PICK q \in Nat : q = thread[u].proposal /\ q = thread'[u].proposal
        BY <1>0, <2>3, <3>5, MoverIs
      <4>2. p + RangeSize + Left < q \/ q + RangeSize + Left < p
        BY <1>0, <2>3, <2>6, <3>1, <3>5, <4>1 DEF GivenInv
      <4> QED
        BY <1>a, <2>2, <3>1, <4>1, <4>2
    <3> QED
      BY <3>1, <3>3, <3>4, <3>5
  <2> QED
    BY <2>5, <2>6 DEF GivenInv
<1>6. ASSUME NEW t \in Threads, SyncUpdate(t) PROVE GivenInv'
  <2>1. ASSUME NEW u \in Threads, Mover(u)'
        PROVE  Mover(u) /\ thread'[u].proposal = thread[u].proposal
    BY <1>0, <1>6, <2>1, SyncUpdateStep DEF Mover, Only
  <2> QED
    BY <1>0, <1>6, <2>1, GivenKept DEF SyncUpdate
<1>7. ASSUME NEW t \in Threads, SyncSearch(t) PROVE GivenInv'
  <2>1. ASSUME NEW u \in Threads, Mover(u)'
        PROVE  Mover(u) /\ thread'[u].proposal = thread[u].proposal
    BY <1>0, <1>7, <2>1, SyncSearchStep DEF Mover, Only
  <2> QED
    BY <1>0, <1>7, <2>1, GivenKept DEF SyncSearch
<1>8. ASSUME NEW t \in Threads, AsyncUpdate(t) PROVE GivenInv'
  <2>1. ASSUME NEW u \in Threads, Mover(u)'
        PROVE  Mover(u) /\ thread'[u].proposal = thread[u].proposal
    BY <1>0, <1>8, <2>1, AsyncStep DEF Mover, Only
  <2> QED
    BY <1>0, <1>8, <2>1, GivenKept DEF AsyncUpdate
<1>9. ASSUME NEW t \in Threads, ReadAllocation(t) PROVE GivenInv'
  <2>1. ASSUME NEW u \in Threads, Mover(u)'
        PROVE  Mover(u) /\ thread'[u].proposal = thread[u].proposal
    BY <1>0, <1>9, <2>1, ReadStep DEF Mover, Only
  <2> QED
    BY <1>0, <1>9, <2>1, GivenKept DEF ReadAllocation
<1>10. ASSUME NEW t \in Threads, PutEnd(t) PROVE GivenInv'
  <2>1. ASSUME NEW u \in Threads, Mover(u)'
        PROVE  Mover(u) /\ thread'[u].proposal = thread[u].proposal
    BY <1>0, <1>10, <2>1, PutStep DEF Mover, Only
  <2> QED
    BY <1>0, <1>10, <2>1, GivenKept DEF PutEnd
<1>11. ASSUME NEW t \in Threads, MoveCounter(t) PROVE GivenInv'
  <2>1. UNCHANGED <<given, taken>> /\ Left' = Left
    BY <1>0, <1>11, LeftIs DEF MoveCounter
  <2>2. ASSUME NEW u \in Threads, Mover(u)'
        PROVE  u # t /\ Mover(u) /\ thread'[u].proposal = thread[u].proposal
    BY <1>0, <1>11, <2>2, MoveStep DEF Mover, Only
  <2>3. Mover(t)
    <3>1. thread[t].at = "move"
      BY <1>0, <1>11, MoveStep
    <3> QED
      BY <1>0, <3>1 DEF Mover, Structure, ThreadInv
  <2>4. PICK p \in Nat : p = thread[t].proposal /\ idIncrementer' = p + 1
    BY <1>0, <1>11, <2>3, MoverIs, MoveStep
  <2>5. \A x \in given' : x < idIncrementer' \/ x > idIncrementer' + Left'
    <3>1. \A x \in given : x \in Nat /\ (x <= p \/ x > p + RangeSize + Left)
      BY <1>0, <2>3, <2>4 DEF GivenInv, TypeInv
    <3> QED
      BY <1>a, <2>1, <2>4, <3>1
  <2>6. ASSUME NEW v \in Threads, Mover(v)'
        PROVE  LET q == thread'[v].proposal
               IN /\ \A x \in given' : x <= q \/ x > q + RangeSize + Left'
                  /\ idIncrementer' + Left' <= q \/ idIncrementer' > q + RangeSize + Left'
                  /\ \A u \in Threads \ {v} : Mover(u)' =>
                        LET r == thread'[u].proposal
                        IN q + RangeSize + Left' < r \/ r + RangeSize + Left' < q
    <3>1. PICK q \in Nat : q = thread[v].proposal /\ q = thread'[v].proposal
      BY <1>0, <2>2, <2>6, MoverIs
    <3>2. /\ \A x \in given : x <= q \/ x > q + RangeSize + Left
          /\ p + RangeSize + Left < q \/ q + RangeSize + Left < p
      BY <1>0, <2>2, <2>3, <2>4, <2>6, <3>1 DEF GivenInv
    <3>3. idIncrementer' + Left' <= q \/ idIncrementer' > q + RangeSize + Left'
      BY <1>a, <2>1, <2>4, <3>1, <3>2
    <3>4. ASSUME NEW u \in Threads \ {v}, Mover(u)'
          PROVE  LET r == thread'[u].proposal
                 IN q + RangeSize + Left < r \/ r + RangeSize + Left < q
      BY <1>0, <2>2, <2>6, <3>1, <3>4 DEF GivenInv
    <3> QED
      BY <2>1, <3>1, <3>2, <3>3, <3>4
  <2> QED
    BY <2>5, <2>6 DEF GivenInv
<1>12. ASSUME NEW x \in unsaved, Save(x) PROVE GivenInv'
  BY <1>0, <1>12, GivenKept DEF Save, Mover
<1>13. ASSUME NEW k \in Others, Insert(k) PROVE GivenInv'
  BY <1>0, <1>13, GivenKept DEF Insert, Mover
<1>14. CASE Restart
  <2>1. \A u \in Threads : ~Mover(u)'
    BY <1>14, NewThreadIs DEF Restart, Mover
  <2> QED
    BY <1>14, <2>1 DEF Restart, GivenInv
<1>15. CASE UNCHANGED vars
  BY <1>0, <1>15, GivenKept DEF vars, Mover
<1> QED
  BY <1>1, <1>2, <1>3, <1>4, <1>5, <1>6, <1>7, <1>8, <1>9, <1>10, <1>11, <1>12, <1>13, <1>14, <1>15
     DEF Next

\* While the server runs the threads never take an id twice.
LEMMA NextIsNew ==
  ASSUME IdInv
  PROVE  GivenOnce
<1> SUFFICES ASSUME "collide" \notin causes, idIncrementer > 0 PROVE idIncrementer \notin given
  BY DEF GivenOnce
<1>1. Left \in Nat /\ idIncrementer \in Nat
  BY LeftIs DEF IdInv, TypeInv
<1> QED
  BY <1>1 DEF IdInv, GivenInv
-----------------------------------------------------------------------------
(***************************************************************************)
(* The keys, the number and the stored range, while none of the Causes has *)
(* come about.                                                             *)
(***************************************************************************)
\* A thread comes to "move" only by storing its range, and leaves it only by moving
\* the number: any other of its steps that writes nothing keeps KeyInv.
LEMMA QuietStep ==
  ASSUME Structure, KeyInv, NEW t \in Threads, Only(t, thread'[t]),
         UNCHANGED <<keys, allocation, idIncrementer, unsaved, given, taken>>,
         thread[t].at # "move", thread'[t].at # "move", PhaseInv(t)',
         Moving => Calm(thread'[t])
  PROVE  KeyInv'
<1>1. Left' = Left
  BY LeftIs DEF Structure
<1>2. \A u \in Threads \ {t} : thread'[u] = thread[u]
  BY DEF Only
<1>3. Moving' <=> Moving
  BY <1>2 DEF Moving
<1>4. RangeInv'
  BY <1>1, <1>3 DEF KeyInv, RangeInv, Unmet
<1>5. ASSUME NEW u \in Threads \ {t} PROVE PhaseInv(u)'
  <2>1. thread'[u] = thread[u] /\ PhaseInv(u)
    BY <1>2 DEF KeyInv
  <2>2. thread[u].at = "move" => \A v \in Threads \ {u} : Calm(thread'[v])
    BY <1>2, <2>1 DEF PhaseInv, Moving
  <2> QED
    BY <1>1, <2>1, <2>2 DEF PhaseInv, Free, Unmet
<1> QED
  BY <1>4, <1>5 DEF KeyInv

\* While a thread is at "move" the others are calm.
LEMMA MovingIs ==
  ASSUME KeyInv, Moving, NEW t \in Threads, thread[t].at # "move"
  PROVE  Calm(thread[t])
  BY DEF KeyInv, Moving, PhaseInv

LEMMA KeyTypes ==
  ASSUME Structure
  PROVE  /\ idIncrementer \in Nat /\ Left \in Nat /\ \A k \in keys : k \in Nat
         /\ \A x \in given : x \in Nat
         /\ allocation.start \in Nat /\ allocation.end \in Nat
  BY LeftIs DEF Structure, TypeInv

LEMMA LoadKey ==
  ASSUME Structure, KeyInv, NEW t \in Threads, LoadAllocation(t)
  PROVE  KeyInv'
<1>1. UNCHANGED <<keys, allocation, idIncrementer, unsaved, given, taken>>
  BY DEF LoadAllocation
<1>2. Fresh(thread[t]) /\ thread[t].at = "idle"
  BY LoadStep DEF Structure, ThreadInv
<1>3. /\ LastKey(allocation) \in Nat /\ allocation.start <= LastKey(allocation)
      /\ Free(LastKey(allocation) + 1, allocation.end)
  BY LastKeyFree DEF Structure, TypeInv
<1>4. /\ Only(t, thread'[t]) /\ Fresh(thread'[t]) /\ thread'[t].at \in {"create", "register"}
      /\ thread'[t].at = "register" => thread'[t].proposal = LastKey(allocation) + 1
  BY <1>2, LoadStep DEF Structure, Fresh
<1>5. allocation.start < LastKey(allocation) + 1
  BY <1>3, KeyTypes
<1>6. PhaseInv(t)'
  BY <1>1, <1>3, <1>4, <1>5 DEF PhaseInv, Free
<1>7. Calm(thread'[t])
  BY <1>4 DEF Calm
<1> QED
  BY <1>1, <1>2, <1>4, <1>6, <1>7, QuietStep

LEMMA CreateKey ==
  ASSUME Structure, KeyInv, NEW t \in Threads, CreateAllocation(t)
  PROVE  KeyInv'
<1>1. UNCHANGED <<keys, allocation, idIncrementer, unsaved, given, taken>>
  BY DEF CreateAllocation
<1>2. /\ Only(t, thread'[t]) /\ thread[t].at = "create" /\ thread'[t].at = "store"
      /\ thread'[t].nextId = thread[t].nextId /\ thread'[t].pending = thread[t].pending
      /\ thread'[t].proposal \in Starts /\ Gap(thread'[t].proposal)
  BY CreateStep DEF Structure
<1>3. Free(thread'[t].proposal + 1, thread'[t].proposal + RangeSize)
  BY <1>2, GapFree DEF Structure, TypeInv
<1>4. PhaseInv(t)'
  BY <1>1, <1>2, <1>3 DEF PhaseInv, Free
<1>5. Moving => Calm(thread'[t])
  BY <1>2, MovingIs DEF Calm, Fresh
<1> QED
  BY <1>1, <1>2, <1>4, <1>5, QuietStep

LEMMA StoreKey ==
  ASSUME Structure, KeyInv, NEW t \in Threads, StoreAllocation(t), causes' = {}
  PROVE  KeyInv'
<1> DEFINE p == thread[t].proposal
<1>1. UNCHANGED <<keys, idIncrementer, unsaved, given, taken>> /\ Left' = Left
  BY LeftIs DEF Structure, StoreAllocation
<1>2. /\ Only(t, thread'[t]) /\ thread[t].at = "store"
      /\ allocation'.start = p /\ allocation'.end = p + RangeSize
      /\ IF thread[t].nextId = 0
         THEN thread'[t].at = "register" /\ thread'[t].proposal = p + 1
         ELSE thread'[t].at = "move" /\ thread'[t].proposal = p
  BY StoreFrom, StoreStep DEF Structure
<1>3. p \in Nat /\ RangeSize \in Nat /\ p + RangeSize # 0 /\ p < p + 1
  BY StoreFrom, Constants
<1>4. \A u \in Threads \ {t} : thread'[u] = thread[u]
  BY <1>2 DEF Only
<1>5. unsaved' \cap keys' = {}
  BY <1>1 DEF KeyInv
<1>6. PhaseInv(t)
  BY DEF KeyInv
<1>7. CASE thread[t].nextId = 0
  <2>1. allocation.end = 0
    BY <1>7 DEF StoreAllocation, If
  <2>2. idIncrementer = 0
    BY <2>1 DEF Structure, StartInv
  <2>3. RangeInv'
    BY <1>1, <2>2 DEF RangeInv
  <2>4. Free(p + 1, p + RangeSize)
    BY <1>2, <1>6, <2>1 DEF PhaseInv
  <2>5. PhaseInv(t)'
    BY <1>1, <1>2, <1>3, <1>7, <2>4 DEF PhaseInv, Free
  <2>6. ASSUME NEW u \in Threads \ {t} PROVE PhaseInv(u)'
    <3>1. thread[u].at \in {"idle", "create", "store"} /\ thread[u].nextId = 0
      BY <2>1 DEF Structure, ThreadInv, Fresh
    <3> QED
      BY <1>2, <1>3, <1>4, <3>1 DEF PhaseInv
  <2> QED
    BY <1>5, <2>3, <2>5, <2>6 DEF KeyInv
<1>8. CASE thread[t].nextId # 0
  <2>1. ASSUME NEW u \in Threads \ {t}
        PROVE  Fresh(thread[u]) /\ thread[u].at \in {"idle", "create", "store"} /\ Calm(thread[u])
    <3>1. ~(thread[u].maxSafeId > 0) /\ thread[u].maxSafeId \in Nat
      BY <1>8, ThreadType DEF StoreAllocation, If, Structure
    <3> QED
      BY <3>1 DEF Structure, ThreadInv, Calm
  <2>2. thread'[t].at = "move"
    BY <1>2, <1>8
  <2>3. RangeInv'
    BY <2>2 DEF RangeInv, Moving
  <2>4. Free(p + 1, p + RangeSize)
    <3>1. thread[t].nextId > 0
      BY <1>8, ThreadType DEF Structure
    <3> QED
      BY <1>2, <1>6, <3>1 DEF PhaseInv
  <2>5. PhaseInv(t)'
    BY <1>1, <1>2, <1>4, <1>8, <2>1, <2>4 DEF PhaseInv, Free
  <2>6. ASSUME NEW u \in Threads \ {t} PROVE PhaseInv(u)'
    BY <1>2, <1>3, <1>4, <2>1 DEF PhaseInv, Fresh
  <2> QED
    BY <1>5, <2>3, <2>5, <2>6 DEF KeyInv
<1> QED
  BY <1>7, <1>8

LEMMA RegisterKey ==
  ASSUME Structure, KeyInv, NEW t \in Threads, Register(t)
  PROVE  KeyInv'
<1> DEFINE q == thread[t].proposal
<1>1. UNCHANGED <<keys, allocation, unsaved, given, taken>>
  BY DEF Register
<1>2. /\ Only(t, thread'[t]) /\ thread[t].at = "register" /\ thread'[t].at = "take"
      /\ thread'[t].nextId = thread[t].nextId /\ thread'[t].pending = thread[t].pending
      /\ idIncrementer' = IF idIncrementer = 0 THEN q ELSE idIncrementer
  BY RegisterStep DEF Structure
<1>3. PhaseInv(t)'
  BY <1>2 DEF PhaseInv
<1>4. CASE idIncrementer # 0
  <2>1. idIncrementer' = idIncrementer
    BY <1>2, <1>4
  <2>2. Moving => Calm(thread'[t])
    BY <1>2, MovingIs DEF Calm, Fresh
  <2> QED
    BY <1>1, <1>2, <1>3, <2>1, <2>2, QuietStep
<1>5. CASE idIncrementer = 0
  <2>1. /\ given = {} /\ idIncrementer' = q /\ q \in Nat /\ q > 0
        /\ allocation.start < q /\ Free(q, allocation.end)
    BY <1>2, <1>5, ThreadType DEF Structure, StartInv, ThreadInv, KeyInv, PhaseInv
  <2>2. Unmet(idIncrementer, allocation.end)'
    BY <1>1, <2>1, KeyTypes DEF Unmet, Free
  <2>3. RangeInv'
    BY <1>1, <2>1, <2>2 DEF RangeInv
  <2>4. ASSUME NEW u \in Threads \ {t} PROVE PhaseInv(u)'
    <3>1. thread'[u] = thread[u] /\ PhaseInv(u)
      BY <1>2 DEF Only, KeyInv
    <3>2. thread[u].at \in {"idle", "create", "store", "register"}
      BY <1>5 DEF Structure, ThreadInv
    <3> QED
      BY <1>1, <2>1, <3>1, <3>2 DEF PhaseInv, Free
  <2> QED
    BY <1>1, <1>3, <2>3, <2>4 DEF KeyInv
<1> QED
  BY <1>4, <1>5

LEMMA TakeKey ==
  ASSUME Structure, KeyInv, NEW t \in Threads, Take(t), causes' = {}
  PROVE  KeyInv'
<1> DEFINE c == idIncrementer
<1>1. /\ UNCHANGED <<keys, allocation>> /\ idIncrementer' = c + 1
      /\ given' = given \cup {c} /\ unsaved' = unsaved \cup {c}
      /\ taken < MaxIds /\ taken' = taken + 1
  BY DEF Take
<1>2. ~Moving
  BY DEF Take, If
<1>3. {c, c + 1} \subseteq InRange(allocation)
  BY DEF Take, If
<1>4. /\ c > 0 /\ c \in Nat /\ Left \in Nat /\ Left' = Left - 1 /\ \A k \in keys : k \in Nat
      /\ allocation.start \in Nat /\ allocation.end \in Nat
  BY <1>1, TakeFrom, LeftIs, KeyTypes DEF Structure
<1>5. allocation.start < c /\ c + 1 <= allocation.end /\ Unmet(c, allocation.end)
  BY <1>2, <1>3, <1>4 DEF InRange, KeyInv, RangeInv
<1>6. c \notin keys
  BY <1>4, <1>5 DEF Unmet
<1>7. ASSUME NEW k \in keys, k < c \/ k > c + Left
      PROVE  k < idIncrementer' \/ k > idIncrementer' + Left'
  BY <1>1, <1>4, <1>7
<1>8. \A k \in keys : c + 1 <= k /\ k <= allocation.end => k > c + Left
  BY <1>4, <1>5 DEF Unmet
<1>9. RangeInv'
  <2>1. Unmet(idIncrementer, allocation.end)'
    BY <1>1, <1>4, <1>8 DEF Unmet
  <2> QED
    BY <1>1, <1>4, <1>5, <2>1 DEF RangeInv
<1>10. /\ Only(t, thread'[t]) /\ thread'[t].at \in {"idle", "sync"}
  BY <1>4, TakeStep DEF Structure
<1>11. PhaseInv(t)'
  BY <1>10 DEF PhaseInv
<1>12. ASSUME NEW u \in Threads \ {t} PROVE PhaseInv(u)'
  <2>1. thread'[u] = thread[u] /\ PhaseInv(u) /\ thread[u].at # "move"
    BY <1>2, <1>10 DEF Only, KeyInv, Moving
  <2>2. thread[u].newestId \in Nat /\ thread[u].maxSafeId \in Nat
    BY ThreadType DEF Structure
  <2>3. Unmet(thread[u].newestId + 1, thread[u].maxSafeId)
          => Unmet(thread[u].newestId + 1, thread[u].maxSafeId)'
    BY <1>1, <1>7, <2>1 DEF Unmet
  <2>4. idIncrementer' # 0 /\ (thread[u].newestId <= c => thread[u].newestId <= idIncrementer')
    BY <1>1, <1>4, <2>2
  <2> QED
    BY <1>1, <2>1, <2>3, <2>4 DEF PhaseInv, Free
<1> QED
  BY <1>1, <1>6, <1>9, <1>11, <1>12 DEF KeyInv

LEMMA PutKey ==
  ASSUME Structure, KeyInv, NEW t \in Threads, PutEnd(t), causes' = {}
  PROVE  KeyInv'
<1> DEFINE c == idIncrementer
           n == thread[t].newestId
           m == thread[t].maxSafeId
<1>1. UNCHANGED <<keys, idIncrementer, unsaved, given, taken>> /\ Left' = Left
  BY LeftIs DEF Structure, PutEnd
<1>2. /\ Only(t, thread'[t]) /\ thread[t].at = "put" /\ thread'[t].at = "idle"
      /\ allocation'.start = thread[t].start /\ allocation'.end = m
  BY PutStep DEF Structure
<1>3. thread[t].start = allocation.start /\ ~(allocation.end > m)
  BY DEF PutEnd, If
<1>4. /\ c \in Nat /\ Left \in Nat /\ \A k \in keys : k \in Nat
      /\ allocation.start \in Nat /\ allocation.end \in Nat /\ n \in Nat /\ m \in Nat
  BY KeyTypes, ThreadType DEF Structure
<1>5. c > 0 /\ given # {}
  BY <1>2, <1>4 DEF Structure, ThreadInv, Fresh
<1>6. ~Moving
  BY <1>2, MovingIs DEF Calm
<1>7. allocation.start < c /\ c <= allocation.end /\ Unmet(c, allocation.end)
  BY <1>5, <1>6 DEF KeyInv, RangeInv
<1>8. n <= c /\ Unmet(n + 1, m)
  BY <1>2 DEF KeyInv, PhaseInv
<1>9. c <= m
  BY <1>3, <1>4, <1>7
<1>10. ASSUME NEW k \in keys, c <= k, k <= m PROVE k < c \/ k > c + Left
  <2>1. CASE k = c
    BY <1>4, <1>7, <2>1 DEF Unmet
  <2>2. CASE k # c
    BY <1>4, <1>8, <1>10, <2>2 DEF Unmet
  <2> QED
    BY <2>1, <2>2
<1>11. RangeInv'
  <2>1. Unmet(idIncrementer, allocation.end)'
    BY <1>1, <1>2, <1>10 DEF Unmet
  <2> QED
    BY <1>1, <1>2, <1>3, <1>7, <1>9, <2>1 DEF RangeInv
<1>12. PhaseInv(t)'
  BY <1>2 DEF PhaseInv
<1>13. ASSUME NEW u \in Threads \ {t} PROVE PhaseInv(u)'
  <2>1. thread'[u] = thread[u] /\ PhaseInv(u) /\ thread[u].at # "move"
    BY <1>2, <1>6 DEF Only, KeyInv, Moving
  <2>2. allocation'.end # 0 /\ idIncrementer # 0
    BY <1>2, <1>4, <1>5, <1>9
  <2> QED
    BY <1>1, <2>1, <2>2 DEF PhaseInv, Free, Unmet
<1> QED
  BY <1>1, <1>11, <1>12, <1>13 DEF KeyInv

LEMMA MoveKey ==
  ASSUME Structure, KeyInv, NEW t \in Threads, MoveCounter(t)
  PROVE  KeyInv'
<1> DEFINE p == thread[t].proposal
<1>1. UNCHANGED <<keys, allocation, unsaved, given, taken>> /\ idIncrementer' = p + 1
  BY DEF MoveCounter
<1>2. Only(t, thread'[t]) /\ thread[t].at = "move" /\ thread'[t].at = "idle"
  BY MoveStep DEF Structure
<1>3. /\ allocation.start = p /\ allocation.end = p + RangeSize
      /\ Free(p + 1, p + RangeSize) /\ \A u \in Threads \ {t} : Calm(thread[u])
  BY <1>2 DEF KeyInv, PhaseInv
<1>4. p \in Nat /\ RangeSize \in Nat /\ RangeSize > 0
  BY ThreadType, Constants DEF Structure
<1>5. RangeInv'
  <2>1. Unmet(idIncrementer, allocation.end)'
    BY <1>1, <1>3, <1>4, KeyTypes DEF Unmet, Free
  <2>2. p < p + 1 /\ p + 1 <= p + RangeSize
    BY <1>4
  <2> QED
    BY <1>1, <1>3, <2>1, <2>2 DEF RangeInv
<1>6. PhaseInv(t)'
  BY <1>2 DEF PhaseInv
<1>7. ASSUME NEW u \in Threads \ {t} PROVE PhaseInv(u)'
  <2>1. /\ thread'[u] = thread[u] /\ PhaseInv(u)
        /\ thread[u].at \in {"idle", "create", "store", "register", "take"}
    BY <1>2, <1>3 DEF Only, KeyInv, Calm
  <2>2. idIncrementer' # 0
    BY <1>1, <1>4
  <2> QED
    BY <1>1, <2>1, <2>2 DEF PhaseInv, Free
<1> QED
  BY <1>1, <1>5, <1>6, <1>7 DEF KeyInv

\* The record of an id that was given is in the way of no number and no range.
LEMMA SaveKey ==
  ASSUME Structure, KeyInv, GivenInv, NEW x \in unsaved, Save(x)
  PROVE  KeyInv'
<1>1. /\ keys' = keys \cup {x} /\ unsaved' = unsaved \ {x}
      /\ UNCHANGED <<allocation, idIncrementer, thread, given, taken>>
  BY DEF Save
<1>2. Left' = Left
  BY <1>1, LeftIs DEF Structure
<1>3. x \in given /\ x \in Nat /\ idIncrementer \in Nat
  BY KeyTypes DEF Structure, TypeInv
<1>4. idIncrementer > 0 /\ allocation.end # 0
  BY <1>3 DEF Structure, StartInv
<1>5. x < idIncrementer \/ x > idIncrementer + Left
  BY <1>3, <1>4 DEF GivenInv
<1>6. RangeInv'
  BY <1>1, <1>2, <1>5 DEF KeyInv, RangeInv, Unmet, Moving
<1>7. ASSUME NEW u \in Threads PROVE PhaseInv(u)'
  <2>1. PhaseInv(u) /\ thread[u].proposal \in Nat /\ RangeSize \in Nat /\ Left \in Nat
    BY Constants, ThreadType, LeftIs DEF KeyInv, Structure
  <2>2. ASSUME Mover(u)
        PROVE  x < thread[u].proposal + 1 \/ x > thread[u].proposal + RangeSize
    <3>1. x <= thread[u].proposal \/ x > thread[u].proposal + RangeSize + Left
      BY <1>3, <2>2 DEF GivenInv
    <3> QED
      BY <1>3, <2>1, <3>1
  <2>3. thread[u].at = "move" => Mover(u)
    BY DEF Structure, ThreadInv, Mover
  <2>4. thread[u].at = "store" /\ thread[u].nextId > 0 => Mover(u)
    BY DEF Mover
  <2> QED
    BY <1>1, <1>2, <1>4, <1>5, <2>1, <2>2, <2>3, <2>4 DEF PhaseInv, Free, Unmet
<1>8. unsaved' \cap keys' = {}
  BY <1>1 DEF KeyInv
<1> QED
  BY <1>6, <1>7, <1>8 DEF KeyInv

LEMMA InsertKey ==
  ASSUME Structure, KeyInv, NEW k \in Others, Insert(k), causes' = {}
  PROVE  KeyInv'
<1>1. /\ keys' = keys \cup {k}
      /\ UNCHANGED <<allocation, idIncrementer, thread, unsaved, given, taken>>
  BY DEF Insert
<1>2. Left' = Left
  BY <1>1, LeftIs DEF Structure
<1>3. k \notin Claimed
  BY DEF Insert, If
<1>4. k \notin InRange(allocation) /\ k \notin unsaved
  BY <1>3 DEF Claimed
<1>5. k \in Nat /\ allocation.start \in Nat /\ allocation.end \in Nat /\ idIncrementer \in Nat
  BY Constants, KeyTypes
<1>6. k < allocation.start \/ k > allocation.end
  BY <1>4, <1>5 DEF InRange
<1>7. RangeInv'
  BY <1>1, <1>2, <1>5, <1>6 DEF KeyInv, RangeInv, Unmet, Moving
<1>8. ASSUME NEW u \in Threads PROVE PhaseInv(u)'
  <2>1. /\ PhaseInv(u) /\ thread[u].proposal \in Nat /\ RangeSize \in Nat
        /\ thread[u].newestId \in Nat /\ thread[u].maxSafeId \in Nat
    BY Constants, ThreadType DEF KeyInv, Structure
  <2>2. ASSUME thread[u].at = "store"
        PROVE  k < thread[u].proposal \/ k > thread[u].proposal + RangeSize
    <3>1. k \notin thread[u].proposal .. (thread[u].proposal + RangeSize)
      BY <1>3, <2>2 DEF Claimed
    <3> QED
      BY <1>5, <2>1, <3>1
  <2>3. ASSUME thread[u].at \in {"read", "put"}
        PROVE  k < thread[u].newestId \/ k > thread[u].maxSafeId
    <3>1. k \notin thread[u].newestId .. thread[u].maxSafeId
      BY <1>3, <2>3 DEF Claimed
    <3> QED
      BY <1>5, <2>1, <3>1
  <2> QED
    BY <1>1, <1>2, <1>5, <1>6, <2>1, <2>2, <2>3 DEF PhaseInv, Free, Unmet
<1>9. unsaved' \cap keys' = {}
  BY <1>1, <1>4 DEF KeyInv
<1> QED
  BY <1>7, <1>8, <1>9 DEF KeyInv

LEMMA KeyStep ==
  ASSUME IdInv, [Next]_vars, causes' = {}
  PROVE  KeyInv'
<1>0. Structure /\ GivenInv /\ KeyInv
  BY CausesGrow DEF IdInv, Structure
<1>1. ASSUME NEW t \in Threads, SyncUpdate(t) PROVE KeyInv'
  <2>1. UNCHANGED <<keys, allocation, idIncrementer, unsaved, given, taken>>
    BY <1>1 DEF SyncUpdate
  <2>2. /\ Only(t, thread'[t]) /\ thread[t].at = "sync" /\ thread'[t].at = "search"
        /\ thread'[t].newestId = idIncrementer
    BY <1>0, <1>1, SyncUpdateStep DEF Structure
  <2>3. PhaseInv(t)'
    BY <1>0, <2>1, <2>2, KeyTypes DEF PhaseInv
  <2>4. ~Moving
    BY <1>0, <2>2, MovingIs DEF Calm
  <2> QED
    BY <1>0, <2>1, <2>2, <2>3, <2>4, QuietStep
<1>2. ASSUME NEW t \in Threads, SyncSearch(t) PROVE KeyInv'
  <2>1. UNCHANGED <<keys, allocation, idIncrementer, unsaved, given, taken>> /\ Left' = Left
    BY <1>0, <1>2, LeftIs DEF SyncSearch, Structure
  <2>2. /\ Only(t, thread'[t]) /\ thread[t].at = "search" /\ thread'[t].at = "read"
        /\ thread'[t].newestId = thread[t].newestId
        /\ thread'[t].idAfter = KeyFrom(thread[t].newestId + 1, MaxId)
    BY <1>0, <1>2, SyncSearchStep DEF Structure
  <2>3. /\ thread[t].newestId <= idIncrementer /\ thread[t].newestId + 1 \in Nat
        /\ thread'[t].maxSafeId \in Nat /\ MaxId \in Nat /\ \A k \in keys : k \in Nat
    <3>1. thread'[t] \in Threadlike /\ thread[t].newestId \in Nat
      BY <1>0, <2>2, ThreadType DEF Only, Structure
    <3>2. thread[t].newestId <= idIncrementer
      BY <1>0, <2>2 DEF KeyInv, PhaseInv
    <3>3. thread'[t].maxSafeId \in Nat /\ thread[t].newestId + 1 \in Nat
      BY <3>1 DEF Threadlike
    <3> QED
      BY <1>0, <3>2, <3>3, KeyTypes, Constants
  <2>4. /\ thread'[t].idAfter \in Nat
        /\ \A k \in keys : k < thread[t].newestId + 1 \/ k >= thread'[t].idAfter
    BY <1>0, <2>2, <2>3, KeyFromFree DEF Structure, TypeInv
  <2>5. PhaseInv(t)'
    BY <2>1, <2>2, <2>3, <2>4 DEF PhaseInv, Unmet
  <2>6. ~Moving
    BY <1>0, <2>2, MovingIs DEF Calm
  <2> QED
    BY <1>0, <2>1, <2>2, <2>5, <2>6, QuietStep
<1>3. ASSUME NEW t \in Threads, AsyncUpdate(t) PROVE KeyInv'
  <2>1. UNCHANGED <<keys, allocation, idIncrementer, unsaved, given, taken>> /\ Left' = Left
    BY <1>0, <1>3, LeftIs DEF AsyncUpdate, Structure
  <2>2. /\ Only(t, thread'[t]) /\ thread[t].at = "idle" /\ thread[t].pending # <<>>
        /\ thread'[t].at = "read" /\ thread'[t].newestId = idIncrementer
        /\ thread'[t].idAfter = KeyFrom(idIncrementer + 1, MaxId)
    BY <1>0, <1>3, AsyncStep DEF Structure
  <2>3. /\ idIncrementer \in Nat /\ idIncrementer + 1 \in Nat
        /\ thread'[t].maxSafeId \in Nat /\ MaxId \in Nat /\ \A k \in keys : k \in Nat
    <3>1. thread'[t] \in Threadlike
      BY <2>2 DEF Only
    <3> QED
      BY <1>0, <3>1, KeyTypes, Constants DEF Threadlike
  <2>4. /\ thread'[t].idAfter \in Nat
        /\ \A k \in keys : k < idIncrementer + 1 \/ k >= thread'[t].idAfter
    BY <1>0, <2>2, <2>3, KeyFromFree DEF Structure, TypeInv
  <2>5. PhaseInv(t)'
    BY <2>1, <2>2, <2>3, <2>4 DEF PhaseInv, Unmet
  <2>6. ~Moving
    BY <1>0, <2>2, MovingIs DEF Calm, Fresh
  <2> QED
    BY <1>0, <2>1, <2>2, <2>5, <2>6, QuietStep
<1>4. ASSUME NEW t \in Threads, ReadAllocation(t) PROVE KeyInv'
  <2>1. UNCHANGED <<keys, allocation, idIncrementer, unsaved, given, taken>> /\ Left' = Left
    BY <1>0, <1>4, LeftIs DEF ReadAllocation, Structure
  <2>2. /\ Only(t, thread'[t]) /\ thread[t].at = "read"
        /\ thread'[t].maxSafeId = thread[t].maxSafeId
        /\ thread'[t].at \in {"create", "idle", "put"}
        /\ thread'[t].at = "put" => /\ thread'[t].newestId = thread[t].newestId
                                    /\ thread[t].maxSafeId < thread[t].idAfter
    BY <1>0, <1>4, ReadStep DEF Structure
  <2>3. PhaseInv(t)'
    BY <1>0, <2>1, <2>2 DEF KeyInv, PhaseInv, Unmet
  <2>4. ~Moving
    BY <1>0, <2>2, MovingIs DEF Calm
  <2> QED
    BY <1>0, <2>1, <2>2, <2>3, <2>4, QuietStep
<1>5. CASE Restart
  <2>1. \A u \in Threads : thread'[u].at = "idle"
    BY <1>5, NewThreadIs DEF Restart
  <2>2. RangeInv' /\ \A u \in Threads : PhaseInv(u)'
    BY <1>5, <2>1 DEF Restart, RangeInv, PhaseInv
  <2> QED
    BY <1>5, <2>2 DEF Restart, KeyInv
<1>6. CASE UNCHANGED vars
  BY <1>0, <1>6, LeftIs
     DEF vars, Structure, KeyInv, RangeInv, PhaseInv, Moving, Free, Unmet
<1> QED
  BY <1>0, <1>1, <1>2, <1>3, <1>4, <1>5, <1>6, LoadKey, CreateKey, StoreKey, RegisterKey,
     TakeKey, PutKey, MoveKey, SaveKey, InsertKey
     DEF Next

-----------------------------------------------------------------------------
LEMMA IdStep ==
  ASSUME IdInv, [Next]_vars
  PROVE  IdInv'
<1>1. Structure'
  BY StructureStep DEF IdInv, Structure
<1>2. ("collide" \notin causes => GivenInv)'
  BY <1>1, GivenStep
<1>3. (causes = {} => KeyInv)'
  BY KeyStep
<1> QED
  BY <1>1, <1>2, <1>3 DEF IdInv, Structure

LEMMA NoCauseNewIds ==
  ASSUME IdInv, Excused = Causes
  PROVE  IdsAreNew
BY DEF IdInv, TypeInv, KeyInv, IdsAreNew

\* While the server runs no two threads are given the same id by getNewId, unless a
\* start that Math.random chose collides: for any number of threads, whatever ranges
\* they store over each other's and wherever they move the shared number.
THEOREM NoIdTwice == Spec => []GivenOnce
<1>1. IdInv /\ [Next]_vars => IdInv'
  BY IdStep
<1>2. IdInv => GivenOnce
  BY NextIsNew
<1> QED
  BY TypeInit, <1>1, <1>2, PTL DEF Spec

\* The id that getNewId gives is that of no record, across any number of restarts, as
\* long as none of the Causes has come about.
THEOREM NewIds == Excused = Causes => (Spec => []IdsAreNew)
<1> SUFFICES ASSUME Excused = Causes PROVE Spec => []IdsAreNew
  OBVIOUS
<1>1. IdInv /\ [Next]_vars => IdInv'
  BY IdStep
<1>2. IdInv => IdsAreNew
  BY NoCauseNewIds
<1> QED
  BY TypeInit, <1>1, <1>2, PTL DEF Spec
=============================================================================
