------------------------ MODULE WorkerThreadsProofs ------------------------
(***************************************************************************)
(* Proofs about WorkerThreads, for any number of workers, jobs and exits   *)
(* and any calls: types; and, where one worker is down at a time and none  *)
(* of the Circumstances occurs, that the calls keep this limit, leave      *)
(* nobody behind, keep one worker for each index, and shut down for good.  *)
(***************************************************************************)
EXTENDS WorkerThreads, SequenceTheorems, FiniteSetTheorems, WellFoundedInduction, TLAPS

Places == {"idle", "loop", "raceFinish", "raceStart", "allFinish", "allStart", "done"}
CallState == [at : Places, todo : Seq(Started), waitingToFinish : Seq(Started),
              waitingToStart : Seq(Started), awaited : Seq(Started),
              number : Nat, limit : {0, MaxWorkersDown}]
ThreadState == [state : {"running", "exited", "lost"}, started : BOOLEAN,
                index : 0 .. Threads, toldBy : 0 .. Len(Calls), startedBy : 0 .. Len(Calls),
                unexpectedRestarts : 0 .. MAX_UNEXPECTED_RESTARTS, restartNumber : 0 .. Len(Calls)]

\* What no step changes of a thread.
SameThread(v, w) ==
    /\ w.index = v.index /\ w.startedBy = v.startedBy /\ w.restartNumber = v.restartNumber
    /\ w.unexpectedRestarts = v.unexpectedRestarts

\* The calls are made in order, and restartNumber counts them.
CallInv == \A c \in Callers : call[c].at = "idle" <=> c > restartNumber

TypeInv ==
    /\ worker \in Seq(ThreadState)
    /\ workers \in Seq(Started) /\ ToSet(workers) = Live /\ IsInjective(workers)
    /\ workerCount \in {0, Threads}
    /\ restarts \in [1 .. Threads -> 0 .. MAX_UNEXPECTED_RESTARTS]
    /\ restartNumber \in 0 .. Len(Calls)
    /\ jobs \in 0 .. MaxJobs /\ exits \in 0 .. MaxExits
    /\ call \in [Callers -> CallState]
    /\ CallInv

Called(c) == c <= restartNumber
IsJob(w) == worker[w].index = Job

\* A job is only started once all restarts were called, so that none restarts it.
JobInv ==
    /\ (\E c \in Callers : Replaces(c) /\ ~Called(c)) =>
          workerCount = Threads /\ \A w \in Started : ~IsJob(w)
    /\ \A w \in Started : IsJob(w) =>
          /\ worker[w].startedBy = 0
          /\ WasShutdown(w) => ~Replaces(worker[w].toldBy)

\* No exit is missed: who exits has started, and who has exited is not told.
ThreadInv(w) ==
    /\ worker[w].state # "lost"
    /\ worker[w].started \/ w \in Live
    /\ worker[w].toldBy <= restartNumber
    /\ worker[w].startedBy <= restartNumber
    /\ worker[w].startedBy # 0 => Replaces(worker[w].startedBy)

\* Whom the loop has yet to visit is running, unless another call told it.
TodoInv(c) ==
    /\ call[c].todo # <<>> => call[c].at \in {"loop", "raceFinish", "raceStart"}
    /\ \A w \in ToSet(call[c].todo) :
          /\ WasShutdown(w) \/ w \in Live
          /\ Replaces(c) => ~IsJob(w)

\* A restart waits for the worker it told, then for the copy of that.
RestartShape(c) ==
    LET s == call[c]
        w == s.awaited[1]
    IN /\ s.limit = 1
       /\ s.at = "raceFinish" =>
             /\ Len(s.awaited) = 1 /\ worker[w].toldBy = c
             /\ s.waitingToFinish = IF w \in Live THEN s.awaited ELSE <<>>
             /\ \/ s.waitingToStart = <<>>
                \/ /\ Len(s.waitingToStart) = 1
                   /\ worker[s.waitingToStart[1]].startedBy = c
                   /\ ~worker[s.waitingToStart[1]].started
                   /\ worker[s.waitingToStart[1]].index = worker[w].index
       /\ s.at = "raceStart" =>
             /\ Len(s.awaited) = 1 /\ worker[w].startedBy = c /\ ~IsJob(w)
             /\ s.waitingToFinish = <<>>
             /\ s.waitingToStart = IF worker[w].started THEN <<>> ELSE s.awaited
       /\ s.at \notin {"raceFinish", "raceStart"} =>
             s.awaited = <<>> /\ s.waitingToFinish = <<>> /\ s.waitingToStart = <<>>

\* A shutdown tells all, and then waits for those it told.
ShutdownShape(c) ==
    LET s == call[c]
    IN /\ s.at \notin {"raceFinish", "raceStart"} /\ s.limit = 0 /\ s.waitingToStart = <<>>
       /\ \A w \in ToSet(s.waitingToFinish \o s.awaited) : worker[w].toldBy = c
       /\ s.at \in {"allStart", "done"} => s.awaited = <<>>

ShapeInv(c) ==
    Called(c) => /\ call[c].number = c
                 /\ Replaces(c) => RestartShape(c)
                 /\ ~Replaces(c) => ShutdownShape(c)

\* Who was told and still runs is waited for, and so is who has not started.
WaitInv(c) ==
    \A w \in Live :
       /\ worker[w].toldBy = c =>
            IF Replaces(c) THEN call[c].at = "raceFinish" /\ call[c].awaited[1] = w
            ELSE \/ call[c].at = "loop" /\ w \in ToSet(call[c].waitingToFinish)
                 \/ call[c].at = "allFinish" /\ w \in ToSet(call[c].awaited)
       /\ (worker[w].startedBy = c /\ ~worker[w].started) =>
            \/ call[c].at = "raceFinish" /\ call[c].waitingToStart = <<w>>
            \/ call[c].at = "raceStart" /\ call[c].awaited[1] = w

\* The code behind one await runs at a time.
OneTurn == \A c, d \in Callers : Resolved(c) /\ Resolved(d) => c = d

Untold == {w \in Live : ~WasShutdown(w)}

\* Who runs old code is in the list of each call that applies, and after a
\* shutdown was called, every worker is in the list of that.
OldInv(c) ==
    Called(c) => \A w \in Untold :
       /\ (Calls[c] = "http" => ~IsJob(w)) /\ worker[w].restartNumber < c =>
             w \in ToSet(call[c].todo)
       /\ ~Replaces(c) /\ ~IsJob(w) => w \in ToSet(call[c].todo)

\* No worker is told by a call behind a shutdown.
LastInv(w) ==
    ~IsJob(w) => \A c \in Callers : c < worker[w].toldBy => Replaces(c)

\* Each index has one worker that is not told, until it has failed too often or
\* the server shuts down.
Failed(w) ==
    /\ worker[w].state = "exited" /\ ~WasShutdown(w)
    /\ worker[w].unexpectedRestarts = MAX_UNEXPECTED_RESTARTS

CurrentInv ==
    /\ \A v, w \in Untold : ~IsJob(v) /\ worker[v].index = worker[w].index => v = w
    /\ (\A c \in Callers : ~Replaces(c) => ~Called(c)) =>
          \A i \in 1 .. Threads : \/ \E w \in Untold : worker[w].index = i
                                  \/ \E w \in Started : worker[w].index = i /\ Failed(w)

RestartInv ==
    /\ JobInv /\ OneTurn /\ CurrentInv
    /\ \A w \in Started : ThreadInv(w) /\ LastInv(w)
    /\ \A c \in Callers : TodoInv(c) /\ ShapeInv(c) /\ WaitInv(c) /\ OldInv(c)

\* A step that is not one of call d, and how it may change the threads.
Aside(d) ==
    /\ call'[d] = call[d] /\ (Called(d)' <=> Called(d))
    /\ \A w \in Started :
          /\ w \in Started' /\ SameThread(worker[w], worker'[w])
          /\ \/ worker'[w].toldBy = worker[w].toldBy
             \/ worker[w].toldBy = 0 /\ worker'[w].toldBy \notin {0, d}
          /\ w \in Live' => w \in Live
          /\ w \notin Live' => worker'[w].state = "exited"
          /\ w \in Live /\ w \notin Live' =>
                worker[w].toldBy # d /\ (WasShutdown(w) \/ w \notin ToSet(call[d].todo))
          /\ (worker'[w].started <=> worker[w].started) \/ worker[w].startedBy # d
    /\ \A w \in Started' \ Started :
          /\ worker'[w].toldBy = 0 /\ worker'[w].startedBy # d
          /\ worker'[w].restartNumber = restartNumber
          /\ worker'[w].index = Job \/ Replaces(d) \/ ~Called(d)

-----------------------------------------------------------------------------
\* What the lists of the main thread contain.
LEMMA ConcatSet ==
  ASSUME NEW S, NEW s \in Seq(S), NEW t \in Seq(S)
  PROVE  s \o t \in Seq(S) /\ ToSet(s \o t) = ToSet(s) \cup ToSet(t)
<1> DEFINE r == s \o t
<1>1. /\ r \in Seq(S) /\ Len(r) = Len(s) + Len(t) /\ Len(s) \in Nat /\ Len(t) \in Nat
      /\ \A i \in 1 .. Len(s) : r[i] = s[i]
      /\ \A i \in 1 .. Len(t) : r[Len(s) + i] = t[i]
      /\ DOMAIN r = 1 .. Len(r) /\ DOMAIN s = 1 .. Len(s) /\ DOMAIN t = 1 .. Len(t)
  OBVIOUS
<1> HIDE DEF r
<1>2. ASSUME NEW i \in DOMAIN r PROVE r[i] \in ToSet(s) \cup ToSet(t)
  <2>1. CASE i <= Len(s)
    BY <1>1, <2>1 DEF ToSet
  <2>2. CASE i > Len(s)
    <3>1. i - Len(s) \in 1 .. Len(t) /\ i = Len(s) + (i - Len(s))
      BY <1>1, <2>2
    <3>2. r[i] = t[i - Len(s)]
      BY <1>1, <3>1
    <3> QED
      BY <1>1, <3>1, <3>2 DEF ToSet
  <2> QED
    BY <1>1, <2>1, <2>2
<1>3. ASSUME NEW i \in DOMAIN s PROVE s[i] \in ToSet(r)
  <2>1. i \in DOMAIN r /\ r[i] = s[i]
    BY <1>1
  <2> QED
    BY <2>1 DEF ToSet
<1>4. ASSUME NEW i \in DOMAIN t PROVE t[i] \in ToSet(r)
  <2>1. Len(s) + i \in DOMAIN r /\ r[Len(s) + i] = t[i]
    BY <1>1
  <2> QED
    BY <2>1 DEF ToSet
<1>5. ToSet(r) = ToSet(s) \cup ToSet(t)
  BY <1>2, <1>3, <1>4 DEF ToSet
<1> QED
  BY <1>1, <1>5 DEF r

LEMMA AppendSet ==
  ASSUME NEW S, NEW s \in Seq(S), NEW x \in S
  PROVE  Append(s, x) \in Seq(S) /\ ToSet(Append(s, x)) = ToSet(s) \cup {x}
<1>1. Append(s, x) = s \o <<x>> /\ <<x>> \in Seq(S)
  OBVIOUS
<1>2. ToSet(<<x>>) = {x}
  BY DEF ToSet
<1>3. s \o <<x>> \in Seq(S) /\ ToSet(s \o <<x>>) = ToSet(s) \cup ToSet(<<x>>)
  BY <1>1, ConcatSet
<1> QED
  BY <1>1, <1>2, <1>3

LEMMA HeadTailSet ==
  ASSUME NEW S, NEW s \in Seq(S), s # <<>>
  PROVE  Tail(s) \in Seq(S) /\ Head(s) \in S /\ ToSet(s) = {Head(s)} \cup ToSet(Tail(s))
<1>1. s = <<Head(s)>> \o Tail(s) /\ <<Head(s)>> \in Seq(S) /\ Tail(s) \in Seq(S) /\ Head(s) \in S
  OBVIOUS
<1>2. ToSet(<<Head(s)>>) = {Head(s)}
  BY DEF ToSet
<1>3. ToSet(<<Head(s)>> \o Tail(s)) = ToSet(<<Head(s)>>) \cup ToSet(Tail(s))
  BY <1>1, ConcatSet
<1> QED
  BY <1>1, <1>2, <1>3

LEMMA ElementSet ==
  ASSUME NEW S, NEW s \in Seq(S)
  PROVE  /\ ToSet(s) \subseteq S /\ ToSet(<<>>) = {} /\ \A x : ToSet(<<x>>) = {x}
         /\ s # <<>> => s[1] \in ToSet(s)
         /\ Len(s) = 1 => s = <<s[1]>>
         /\ \A x : x \in ToSet(s) <=> Contains(s, x)
  BY DEF ToSet, Contains

LEMMA ListWithin ==
  ASSUME NEW S, NEW T, NEW s \in Seq(S)
  PROVE  /\ S \subseteq T => s \in Seq(T)
         /\ ToSet(s) \subseteq T => s \in Seq(T)
  BY DEF ToSet

LEMMA IndexInList ==
  ASSUME NEW S, NEW s \in Seq(S), NEW x \in ToSet(s)
  PROVE  IndexOf(s, x) \in 1 .. Len(s) /\ s[IndexOf(s, x)] = x
<1> DEFINE I == {i \in 1 .. Len(s) : s[i] = x}
<1>1. I # {} /\ I \in SUBSET Nat
  BY DEF ToSet
<1>2. PICK n \in I : \A m \in I : ~(<<m, n>> \in OpToRel(<, Nat))
  BY <1>1, NatLessThanWellFounded, WFMin
<1>3. \A m \in I : n <= m
  <2> SUFFICES ASSUME NEW m \in I PROVE n <= m
    OBVIOUS
  <2>1. ~(<<m, n>> \in {ss \in Nat \X Nat : ss[1] < ss[2]})
    BY <1>2 DEF OpToRel
  <2>2. <<m, n>> \in Nat \X Nat
    BY <1>1
  <2> QED
    BY <2>1, <2>2
<1>4. Min(I) \in I
  BY <1>2, <1>3 DEF Min
<1>5. IndexOf(s, x) = Min(I)
  BY <1>1 DEF IndexOf, SelectInSeq
<1> QED
  BY <1>4, <1>5

LEMMA SplicedSet ==
  ASSUME NEW S, NEW s \in Seq(S), NEW x
  PROVE  /\ SplicedFrom(s, x) \in Seq(S) /\ ToSet(SplicedFrom(s, x)) \subseteq ToSet(s)
         /\ s = <<x>> => SplicedFrom(s, x) = <<>>
<1>1. ASSUME NEW n \in Int, n <= Len(s)
      PROVE  SubSeq(s, 1, n) \in Seq(S) /\ ToSet(SubSeq(s, 1, n)) \subseteq ToSet(s)
  <2>1. /\ SubSeq(s, 1, n) \in Seq(S) /\ Len(SubSeq(s, 1, n)) <= Len(s)
        /\ \A i \in 1 .. Len(SubSeq(s, 1, n)) : SubSeq(s, 1, n)[i] = s[i]
    BY <1>1, SubSeqProperties
  <2> QED
    BY <2>1 DEF ToSet
<1>2. CASE Contains(s, x)
  <2>1. IndexOf(s, x) \in 1 .. Len(s) /\ s[IndexOf(s, x)] = x
    BY <1>2, ElementSet, IndexInList
  <2>2. SplicedFrom(s, x) = SubSeq(s, 1, IndexOf(s, x) - 1)
    BY <1>2 DEF SplicedFrom
  <2>3. s = <<x>> => SplicedFrom(s, x) = <<>>
    <3> SUFFICES ASSUME s = <<x>> PROVE SubSeq(s, 1, 0) = <<>>
      BY <2>1, <2>2
    <3> QED
      BY SubSeqProperties
  <2> QED
    BY <1>1, <2>1, <2>2, <2>3
<1>3. CASE ~Contains(s, x)
  <2>1. SplicedFrom(s, x) = SubSeq(s, 1, Len(s) - 1) /\ s # <<x>>
    BY <1>3 DEF SplicedFrom, Contains
  <2> QED
    BY <1>1, <2>1
<1> QED
  BY <1>2, <1>3

LEMMA RemovedSet ==
  ASSUME NEW S, NEW s \in Seq(S), IsInjective(s), NEW x \in ToSet(s)
  PROVE  /\ RemoveAt(s, IndexOf(s, x)) \in Seq(S)
         /\ ToSet(RemoveAt(s, IndexOf(s, x))) = ToSet(s) \ {x}
         /\ IsInjective(RemoveAt(s, IndexOf(s, x)))
<1>1. PICK n \in 1 .. Len(s) : n = IndexOf(s, x) /\ s[n] = x
  BY IndexInList
<1> DEFINE front == SubSeq(s, 1, n - 1)
           back == SubSeq(s, n + 1, Len(s))
           r == front \o back
<1>2. /\ front \in Seq(S) /\ Len(front) = n - 1
      /\ \A i \in 1 .. n - 1 : front[i] = s[i]
  BY SubSeqProperties
<1>3. /\ back \in Seq(S) /\ Len(back) = Len(s) - n
      /\ \A i \in 1 .. Len(s) - n : back[i] = s[n + i]
  BY SubSeqProperties
<1> HIDE DEF front, back
<1>4. /\ r \in Seq(S) /\ Len(r) = Len(s) - 1 /\ DOMAIN r = 1 .. Len(s) - 1
      /\ \A i \in 1 .. n - 1 : r[i] = s[i]
      /\ \A i \in n .. Len(s) - 1 : r[i] = s[i + 1]
  <2>1. r \in Seq(S) /\ Len(r) = Len(s) - 1 /\ \A i \in 1 .. n - 1 : r[i] = s[i]
    BY <1>2, <1>3
  <2>2. ASSUME NEW i \in n .. Len(s) - 1 PROVE r[i] = s[i + 1]
    <3>1. i - (n - 1) \in 1 .. Len(back) /\ i = Len(front) + (i - (n - 1)) /\ i + 1 = n + (i - (n - 1))
      BY <1>2, <1>3
    <3>2. r[i] = back[i - (n - 1)]
      BY <1>2, <1>3, <3>1
    <3> QED
      BY <1>3, <3>1, <3>2
  <2> QED
    BY <2>1, <2>2
<1> HIDE DEF r
<1> DEFINE from(i) == IF i < n THEN i ELSE i + 1
<1>5. \A i \in DOMAIN r : from(i) \in DOMAIN s /\ from(i) # n /\ r[i] = s[from(i)]
  BY <1>4
<1>6. \A i \in DOMAIN s : i # n => \E j \in DOMAIN r : from(j) = i
  <2> SUFFICES ASSUME NEW i \in DOMAIN s, i # n PROVE \E j \in DOMAIN r : from(j) = i
    OBVIOUS
  <2>1. CASE i < n
    <3>1. i \in DOMAIN r /\ from(i) = i
      BY <1>4, <2>1
    <3> QED
      BY <3>1
  <2>2. CASE i > n
    <3>1. i - 1 \in DOMAIN r /\ from(i - 1) = i
      BY <1>4, <2>2
    <3> QED
      BY <3>1
  <2> QED
    BY <2>1, <2>2
<1>7. \A i, j \in DOMAIN r : from(i) = from(j) => i = j
  BY <1>4
<1>8. \A i, j \in DOMAIN s : s[i] = s[j] => i = j
  BY DEF IsInjective
<1> HIDE DEF from
<1>9. ToSet(r) = ToSet(s) \ {x}
  BY <1>1, <1>5, <1>6, <1>8 DEF ToSet
<1>10. IsInjective(r)
  BY <1>5, <1>7, <1>8 DEF IsInjective
<1>11. RemoveAt(s, IndexOf(s, x)) = r
  BY <1>1 DEF RemoveAt, r, front, back
<1> QED
  BY <1>4, <1>9, <1>10, <1>11
-----------------------------------------------------------------------------
LEMMA StateFacts ==
  ASSUME TypeInv
  PROVE  /\ Started = 1 .. Len(worker) /\ Len(worker) \in Nat /\ Callers = 1 .. Len(Calls)
         /\ Len(Calls) \in Nat /\ Threads \in Nat \ {0} /\ Live \subseteq Started
         /\ \A w \in Started : worker[w] \in ThreadState
         /\ \A c \in Callers : call[c] \in CallState
         /\ restartNumber \in Nat /\ NoCall \in CallState
  BY WorkerAssumption DEF TypeInv, Started, Callers, Live, NoCall, CallState, Places

LEMMA TypeIsOK ==
  ASSUME TypeInv
  PROVE  TypeOK
<1>1. ASSUME NEW c \in Callers
      PROVE  ToSet(call[c].todo \o call[c].waitingToFinish \o call[c].awaited
                   \o call[c].waitingToStart) \subseteq Started
  <2>1. PICK s, t, u, v \in Seq(Started) :
          s = call[c].todo /\ t = call[c].waitingToFinish /\ u = call[c].awaited
          /\ v = call[c].waitingToStart
    BY StateFacts DEF CallState
  <2>2. s \o t \in Seq(Started)
    BY ConcatSet
  <2>3. s \o t \o u \in Seq(Started)
    BY <2>2, ConcatSet
  <2>4. s \o t \o u \o v \in Seq(Started)
    BY <2>3, ConcatSet
  <2> QED
    BY <2>1, <2>4, ElementSet
<1>2. \A c \in Callers : call[c].at \in Places /\ call[c].limit \in {0, MaxWorkersDown}
  BY StateFacts DEF CallState
<1> QED
  BY <1>1, <1>2 DEF TypeInv, TypeOK, ThreadState, Places

LEMMA TypeAtInit ==
  ASSUME Init
  PROVE  TypeInv
<1>1. worker \in Seq(ThreadState) /\ Started = 1 .. Threads /\ Live = Started
  <2> DEFINE t(i) == [Thread(i, 0, 0) EXCEPT !.started = TRUE]
  <2>1. Threads \in Nat /\ Len(Calls) \in Nat /\ MAX_UNEXPECTED_RESTARTS \in Nat /\ restartNumber = 0
    BY WorkerAssumption DEF Init
  <2>2. \A i \in 1 .. Threads : t(i) \in ThreadState /\ t(i).state = "running"
    <3> SUFFICES ASSUME NEW i \in 1 .. Threads PROVE t(i) \in ThreadState /\ t(i).state = "running"
      OBVIOUS
    <3>1. 0 \in 0 .. Len(Calls) /\ 0 \in 0 .. MAX_UNEXPECTED_RESTARTS /\ i \in 0 .. Threads
      BY <2>1
    <3>2. Thread(i, 0, 0) \in ThreadState /\ Thread(i, 0, 0).state = "running"
      BY <2>1, <3>1 DEF Thread, ThreadState
    <3> QED
      BY <3>2 DEF ThreadState
  <2> HIDE DEF t
  <2>3. worker = [i \in 1 .. Threads |-> t(i)]
    BY DEF Init, t
  <2>4. worker \in Seq(ThreadState) /\ DOMAIN worker = 1 .. Threads
    BY <2>1, <2>2, <2>3
  <2>5. \A i \in 1 .. Threads : worker[i].state = "running"
    BY <2>2, <2>3
  <2> QED
    BY <2>4, <2>5 DEF Started, Live
<1>2. workers \in Seq(Started) /\ ToSet(workers) = Live /\ IsInjective(workers)
  <2>1. workers = [i \in 1 .. Threads |-> i] /\ Threads \in Nat
    BY WorkerAssumption DEF Init
  <2>2. workers \in Seq(Started) /\ DOMAIN workers = 1 .. Threads
    BY <1>1, <2>1
  <2> QED
    BY <1>1, <2>1, <2>2 DEF ToSet, IsInjective
<1>3. call \in [Callers -> CallState] /\ CallInv
  BY WorkerAssumption DEF Init, NoCall, CallState, CallInv, Places, Callers
<1> QED
  BY <1>1, <1>2, <1>3, WorkerAssumption DEF Init, TypeInv

\* The threads and the list when one thread is added, and when none is.
LEMMA TypeAdded ==
  ASSUME TypeInv, NEW t \in ThreadState, t.state = "running",
         NEW u \in Seq(ThreadState), Len(u) = Len(worker),
         \A w \in Started : u[w].state = "running" <=> worker[w].state = "running",
         worker' = Append(u, t), workers' = Append(workers, New)
  PROVE  /\ worker' \in Seq(ThreadState) /\ Started' = Started \cup {New} /\ New \notin Started
         /\ workers' \in Seq(Started)' /\ ToSet(workers') = Live' /\ IsInjective(workers')
         /\ CallState \subseteq CallState'
<1>1. PICK n \in Nat : n = Len(worker) /\ New = n + 1
  BY StateFacts DEF New
<1>2. /\ worker' \in Seq(ThreadState) /\ Len(worker') = n + 1 /\ worker'[n + 1] = t
      /\ \A w \in 1 .. n : worker'[w] = u[w]
  BY <1>1
<1>3. Started' = Started \cup {New} /\ New \notin Started /\ Started = 1 .. n
  BY <1>1, <1>2, StateFacts DEF Started
<1>4. Live' = Live \cup {New}
  BY <1>1, <1>2, <1>3 DEF Live
<1>5. \A s \in Seq(Started) : s \in Seq(Started')
  BY <1>3, ListWithin
<1>6. workers \in Seq(Started') /\ New \in Started' /\ ToSet(workers) = Live
  BY <1>3, <1>5 DEF TypeInv
<1>7. workers' \in Seq(Started') /\ ToSet(workers') = ToSet(workers) \cup {New}
  BY <1>6, AppendSet
<1>8. IsInjective(workers')
  <2>1. New \notin ToSet(workers)
    BY <1>3, <1>6 DEF Live
  <2>2. \A i \in 1 .. Len(workers) : workers[i] # New /\ workers'[i] = workers[i]
    BY <2>1, <1>6 DEF ToSet
  <2>3. Len(workers') = Len(workers) + 1 /\ workers'[Len(workers) + 1] = New
    BY <1>6
  <2>4. \A i, j \in 1 .. Len(workers) : workers[i] = workers[j] => i = j
    BY <1>6 DEF TypeInv, IsInjective
  <2>5. DOMAIN workers' = 1 .. Len(workers) + 1 /\ Len(workers) \in Nat
    BY <1>6, <1>7, <2>3
  <2> QED
    BY <2>2, <2>3, <2>4, <2>5 DEF IsInjective
<1>9. CallState \subseteq CallState'
  BY <1>5 DEF CallState
<1> QED
  BY <1>2, <1>3, <1>4, <1>6, <1>7, <1>8, <1>9

LEMMA TypeKept ==
  ASSUME TypeInv, worker' \in Seq(ThreadState), Len(worker') = Len(worker)
  PROVE  Started' = Started /\ CallState' = CallState
<1>1. Len(worker) = Len(worker') /\ DOMAIN worker' = 1 .. Len(worker')
  OBVIOUS
<1>2. Started' = Started
  BY <1>1, StateFacts DEF Started
<1> QED
  BY <1>2 DEF CallState
LEMMA TypeCall ==
  ASSUME TypeInv, NEW c \in Callers, Call(c)
  PROVE  TypeInv' /\ restartNumber' = c /\ restartNumber = c - 1
<1>1. restartNumber + 1 = c /\ restartNumber' = c
  <2>1. restartNumber \in Nat /\ c \in Nat /\ c \in 1 .. Len(Calls) /\ c > restartNumber
    BY StateFacts DEF TypeInv, CallInv, Call
  <2>2. \A d \in Callers : d \in 1 .. c - 1 => d <= restartNumber
    BY StateFacts, SMTT(30) DEF TypeInv, CallInv, Call
  <2>3. CASE restartNumber < c - 1
    <3>1. restartNumber + 1 \in Callers /\ restartNumber + 1 \in 1 .. c - 1
      BY <2>1, <2>3, StateFacts
    <3> QED
      BY <2>1, <2>2, <3>1
  <2>4. CASE restartNumber = c - 1
    BY <2>1, <2>4 DEF Call
  <2> QED
    BY <2>1, <2>3, <2>4
<1>2. call' \in [Callers -> CallState]
  <2>1. workers \in Seq(Started) /\ restartNumber + 1 \in Nat /\ call \in [Callers -> CallState]
    BY StateFacts DEF TypeInv
  <2>2. PICK l \in {0, MaxWorkersDown} :
          l = IF workerCount = 0 \/ ~Replaces(c) THEN 0 ELSE MaxWorkersDown
    OBVIOUS
  <2>3. [NoCall EXCEPT !.at = "loop", !.todo = workers, !.number = restartNumber + 1,
                       !.limit = l] \in CallState
    BY <2>1, StateFacts DEF CallState, Places
  <2> QED
    BY <2>1, <2>2, <2>3 DEF Call
<1>3. worker' = worker /\ CallState' = CallState
  BY TypeKept DEF TypeInv, Call
<1>4. \A d \in Callers : call'[d].at = IF d = c THEN "loop" ELSE call[d].at
  BY DEF TypeInv, Call, NoCall
<1>5. CallInv'
  <2>1. \A d \in Callers : d \in Nat /\ (call[d].at = "idle" <=> d > c - 1) /\ c \in Nat
    BY <1>1, StateFacts DEF TypeInv, CallInv
  <2> QED
    BY <1>1, <1>4, <2>1 DEF CallInv
<1>6. restartNumber' \in 0 .. Len(Calls)
  BY <1>1, StateFacts
<1>7. Started' = Started /\ Live' = Live
  BY <1>3 DEF Started, Live
<1> QED
  <2>1. UNCHANGED <<worker, workers, workerCount, restarts, jobs, exits>>
    BY DEF Call
  <2> QED
    BY <1>1, <1>2, <1>3, <1>5, <1>6, <1>7, <2>1 DEF TypeInv

LEMMA TypeSkip ==
  ASSUME TypeInv, NEW c \in Callers, Skip(c)
  PROVE  TypeInv'
<1>1. PICK s \in Seq(Started) : s = call[c].todo
  BY StateFacts DEF CallState
<1>2. Tail(s) \in Seq(Started)
  BY <1>1, HeadTailSet DEF Skip
<1>3. call[c] \in CallState /\ call \in [Callers -> CallState]
  BY StateFacts DEF TypeInv
<1>4. [call[c] EXCEPT !.todo = Tail(s)] \in CallState
  BY <1>2, <1>3 DEF CallState
<1>5. call' \in [Callers -> CallState] /\ \A d \in Callers : call'[d].at = call[d].at
  BY <1>1, <1>3, <1>4 DEF Skip, CallState
<1>6. worker' = worker /\ Started' = Started /\ Live' = Live /\ CallState' = CallState
  BY TypeKept DEF TypeInv, Skip, Started, Live
<1> QED
  BY <1>5, <1>6 DEF TypeInv, CallInv, Skip

\* The threads when one is told, and the copy of a thread.
LEMMA ToldFacts ==
  ASSUME TypeInv, NEW c \in Callers, NEW w \in Started
  PROVE  /\ Told(w, c) \in Seq(ThreadState) /\ Len(Told(w, c)) = Len(worker)
         /\ Told(w, c)[w].toldBy = c
         /\ Told(w, c)[w].state = IF worker[w].state = "exited" THEN "lost" ELSE worker[w].state
         /\ SameThread(worker[w], Told(w, c)[w]) /\ Told(w, c)[w].started = worker[w].started
         /\ \A v \in Started : v # w => Told(w, c)[v] = worker[v]
         /\ StartCopy(w, c) \in ThreadState
<1>1. worker[w] \in ThreadState /\ worker \in Seq(ThreadState) /\ c \in 0 .. Len(Calls)
  BY StateFacts DEF TypeInv
<1> DEFINE t == [worker[w] EXCEPT !.toldBy = c, !.state = IF @ = "exited" THEN "lost" ELSE @]
<1>2. /\ t \in ThreadState /\ t.toldBy = c /\ t.started = worker[w].started
      /\ t.state = IF worker[w].state = "exited" THEN "lost" ELSE worker[w].state
      /\ SameThread(worker[w], t)
  BY <1>1 DEF ThreadState, SameThread
<1>3. Told(w, c) = [worker EXCEPT ![w] = t]
  BY <1>1 DEF Told, ThreadState
<1> HIDE DEF t
<1>4. /\ Told(w, c) \in Seq(ThreadState) /\ Len(Told(w, c)) = Len(worker)
      /\ Told(w, c)[w] = t /\ \A v \in Started : v # w => Told(w, c)[v] = worker[v]
  BY <1>1, <1>2, <1>3, StateFacts
<1>5. StartCopy(w, c) \in ThreadState
  <2>1. /\ worker[w].index \in 0 .. Threads
        /\ worker[w].index # 0 => restarts[worker[w].index] \in 0 .. MAX_UNEXPECTED_RESTARTS
        /\ 0 \in 0 .. MAX_UNEXPECTED_RESTARTS /\ restartNumber \in 0 .. Len(Calls)
    <3>1. worker[w].index \in 0 .. Threads /\ Threads \in Nat
      BY <1>1, WorkerAssumption DEF ThreadState
    <3>2. restarts \in [1 .. Threads -> 0 .. MAX_UNEXPECTED_RESTARTS] /\ restartNumber \in 0 .. Len(Calls)
      BY DEF TypeInv
    <3>3. 0 \in 0 .. MAX_UNEXPECTED_RESTARTS
      BY WorkerAssumption
    <3> QED
      BY <3>1, <3>2, <3>3
  <2> QED
    BY <1>1, <2>1 DEF StartCopy, Thread, ThreadState, Job
<1> QED
  BY <1>2, <1>4, <1>5
LEMMA TypeShutDown ==
  ASSUME TypeInv, NEW c \in Callers, ShutDown(c)
  PROVE  TypeInv'
<1>1. PICK todo, finishing, starting \in Seq(Started) :
        /\ todo = call[c].todo /\ todo # <<>>
        /\ finishing = call[c].waitingToFinish /\ starting = call[c].waitingToStart
  BY StateFacts DEF CallState, ShutDown
<1>2. PICK w \in Started : w = Head(todo)
  BY <1>1, HeadTailSet
<1> DEFINE rest == [call[c] EXCEPT !.todo = Tail(todo), !.waitingToFinish = Append(finishing, w)]
<1>3. rest \in CallState /\ rest.at = call[c].at
  <2>1. Tail(todo) \in Seq(Started) /\ Append(finishing, w) \in Seq(Started)
    BY <1>1, <1>2, HeadTailSet, AppendSet
  <2> QED
    BY <2>1, StateFacts DEF CallState
<1>4. call \in [Callers -> CallState] /\ call[c].at = "loop"
  BY DEF TypeInv, ShutDown
<1>5. UNCHANGED <<restarts, restartNumber, jobs, exits>>
  BY DEF ShutDown
<1>6. CASE Overlapping(w) /\ Replaces(c)
  <2> DEFINE t == StartCopy(w, c)
             u == Told(w, c)
  <2>1. worker' = Append(u, t) /\ workers' = Append(workers, New) /\ workerCount' = Threads
    BY <1>1, <1>2, <1>6 DEF ShutDown
  <2>2. /\ t \in ThreadState /\ t.state = "running" /\ u \in Seq(ThreadState) /\ Len(u) = Len(worker)
        /\ \A v \in Started : u[v].state = "running" <=> worker[v].state = "running"
    <3>1. u[w].state = "running" <=> worker[w].state = "running"
      BY ToldFacts
    <3> QED
      BY <3>1, ToldFacts DEF StartCopy, Thread
  <2> HIDE DEF t, u
  <2>3. /\ worker' \in Seq(ThreadState) /\ Started' = Started \cup {New}
        /\ workers' \in Seq(Started') /\ ToSet(workers') = Live' /\ IsInjective(workers')
        /\ CallState \subseteq CallState'
    BY <2>1, <2>2, TypeAdded
  <2>4. /\ Append(starting, New) \in Seq(Started') /\ Append(finishing, w) \in Seq(Started')
        /\ rest \in CallState' /\ call \in [Callers -> CallState']
    <3>1. starting \in Seq(Started') /\ finishing \in Seq(Started') /\ w \in Started' /\ New \in Started'
      BY <1>1, <1>2, <2>3, ListWithin
    <3> QED
      BY <1>3, <1>4, <2>3, <3>1, AppendSet
  <2>5. PICK a \in {"raceFinish", "raceStart", "loop"}, l \in Seq(Started') :
          call' = [call EXCEPT ![c] =
            [rest EXCEPT !.waitingToStart = Append(starting, New), !.at = a, !.awaited = l]]
    <3> DEFINE a == IF Full(c, Append(finishing, w)) THEN "raceFinish"
                    ELSE IF Full(c, Append(starting, New)) THEN "raceStart" ELSE "loop"
               l == IF Full(c, Append(finishing, w)) THEN Append(finishing, w) ELSE Append(starting, New)
    <3>1. a \in {"raceFinish", "raceStart", "loop"} /\ l \in Seq(Started')
      BY <2>4
    <3>2. call' = [call EXCEPT ![c] =
            [rest EXCEPT !.waitingToStart = Append(starting, New), !.at = a, !.awaited = l]]
      BY <1>1, <1>2, <1>6 DEF ShutDown
    <3> QED
      BY <3>1, <3>2
  <2> HIDE DEF rest
  <2> DEFINE s == [rest EXCEPT !.waitingToStart = Append(starting, New), !.at = a, !.awaited = l]
  <2>6. s \in CallState' /\ s.at = a
    BY <2>4 DEF CallState, Places
  <2> HIDE DEF s
  <2>7. call' \in [Callers -> CallState'] /\ call'[c] = s /\ \A d \in Callers : d # c => call'[d] = call[d]
    BY <2>4, <2>5, <2>6 DEF s
  <2>8. CallInv'
    <3>1. \A d \in Callers : call'[d].at = "idle" <=> call[d].at = "idle"
      BY <1>4, <2>6, <2>7
    <3> QED
      BY <1>5, <3>1 DEF CallInv, TypeInv
  <2> QED
    BY <1>5, <2>1, <2>3, <2>7, <2>8 DEF TypeInv
<1>7. CASE ~(Overlapping(w) /\ Replaces(c))
  <2>1. worker' = Told(w, c) /\ workers' = workers /\ workerCount' = workerCount
        /\ call' = [call EXCEPT ![c] = rest]
    BY <1>1, <1>2, <1>7 DEF ShutDown
  <2> HIDE DEF rest
  <2>2. worker' \in Seq(ThreadState) /\ Started' = Started /\ CallState' = CallState
    BY <2>1, ToldFacts, TypeKept
  <2>3. \A v \in Started : worker'[v].state = "running" <=> worker[v].state = "running"
    <3>1. worker'[w].state = "running" <=> worker[w].state = "running"
      BY <2>1, ToldFacts
    <3> QED
      <4>1. \A v \in Started : v # w => worker'[v] = worker[v]
        BY <2>1, ToldFacts
      <4> QED
        BY <3>1, <4>1
  <2>4. Live' = Live
    BY <2>2, <2>3 DEF Live
  <2>5. call' \in [Callers -> CallState'] /\ \A d \in Callers : call'[d].at = call[d].at
    BY <1>3, <1>4, <2>1, <2>2
  <2>6. CallInv'
    BY <1>5, <2>5 DEF CallInv, TypeInv
  <2> QED
    BY <1>5, <2>1, <2>2, <2>4, <2>5, <2>6 DEF TypeInv
<1> QED
  BY <1>6, <1>7

LEMMA TypeContinue ==
  ASSUME TypeInv, NEW c \in Callers, Continue(c)
  PROVE  TypeInv'
<1>1. call \in [Callers -> CallState] /\ call[c] \in CallState
  BY StateFacts DEF TypeInv
<1>2. PICK at \in Places \ {"idle"}, awaited \in Seq(Started) :
        call' = [call EXCEPT ![c].at = at, ![c].awaited = awaited] /\ call[c].at # "idle"
  <2>1. <<>> \in Seq(Started) /\ call[c].waitingToStart \in Seq(Started) /\ call[c].waitingToFinish \in Seq(Started)
    BY <1>1 DEF CallState
  <2> QED
    BY <2>1 DEF Continue, Places
<1> DEFINE s == [call[c] EXCEPT !.at = at, !.awaited = awaited]
<1>3. s \in CallState /\ s.at = at
  BY <1>1 DEF CallState
<1>4. call' = [call EXCEPT ![c] = s]
  BY <1>1, <1>2 DEF CallState
<1> HIDE DEF s
<1>5. call' \in [Callers -> CallState] /\ \A d \in Callers : call'[d].at = "idle" <=> call[d].at = "idle"
  BY <1>1, <1>2, <1>3, <1>4
<1>6. worker' = worker /\ Started' = Started /\ Live' = Live /\ CallState' = CallState
  BY TypeKept DEF TypeInv, Continue, Started, Live
<1> QED
  BY <1>5, <1>6 DEF TypeInv, CallInv, Continue

LEMMA TypeWorkerStarts ==
  ASSUME TypeInv, NEW w \in Started, WorkerStarts(w)
  PROVE  TypeInv'
<1>1. worker \in Seq(ThreadState) /\ worker[w] \in ThreadState /\ call \in [Callers -> CallState]
  BY StateFacts DEF TypeInv
<1> DEFINE t == [worker[w] EXCEPT !.started = TRUE]
<1>2. t \in ThreadState /\ t.state = worker[w].state
  BY <1>1 DEF ThreadState
<1>3. worker' = [worker EXCEPT ![w] = t]
  BY <1>1 DEF WorkerStarts
<1> HIDE DEF t
<1>4. /\ worker' \in Seq(ThreadState) /\ Len(worker') = Len(worker)
      /\ \A v \in Started : worker'[v].state = worker[v].state
  BY <1>1, <1>2, <1>3, StateFacts
<1>5. Started' = Started /\ CallState' = CallState
  BY <1>4, TypeKept
<1>6. Live' = Live
  BY <1>4, <1>5 DEF Live
<1>7. ASSUME NEW d \in Callers
      PROVE  [call[d] EXCEPT !.waitingToStart = SplicedFrom(@, w)] \in CallState
  <2>1. SplicedFrom(call[d].waitingToStart, w) \in Seq(Started) /\ call[d] \in CallState
    BY <1>1, SplicedSet DEF CallState
  <2> QED
    BY <2>1 DEF CallState
<1>8. call' \in [Callers -> CallState] /\ \A d \in Callers : call'[d].at = call[d].at
  BY <1>1, <1>7 DEF WorkerStarts, CallState
<1> QED
  BY <1>4, <1>5, <1>6, <1>8 DEF TypeInv, CallInv, WorkerStarts

LEMMA TypeStartJob ==
  ASSUME TypeInv, StartJob
  PROVE  TypeInv'
<1>1. Thread(Job, 0, 0) \in ThreadState /\ Thread(Job, 0, 0).state = "running"
  <2>1. 0 \in 0 .. Threads /\ 0 \in 0 .. Len(Calls) /\ 0 \in 0 .. MAX_UNEXPECTED_RESTARTS
    BY WorkerAssumption
  <2> QED
    BY <2>1 DEF TypeInv, Thread, Job, ThreadState
<1>2. worker \in Seq(ThreadState) /\ worker' = Append(worker, Thread(Job, 0, 0)) /\ workers' = Append(workers, New)
  BY DEF TypeInv, StartJob
<1>3. /\ worker' \in Seq(ThreadState)
      /\ workers' \in Seq(Started') /\ ToSet(workers') = Live' /\ IsInjective(workers')
      /\ CallState \subseteq CallState'
  BY <1>1, <1>2, TypeAdded
<1>4. call' \in [Callers -> CallState'] /\ CallInv'
  BY <1>3 DEF TypeInv, StartJob, CallInv
<1>5. workerCount' \in {0, Threads} /\ jobs' \in 0 .. MaxJobs
  <2>1. jobs \in 0 .. MaxJobs /\ jobs < MaxJobs /\ jobs' = jobs + 1 /\ workerCount' = 0 /\ MaxJobs \in Nat
    BY WorkerAssumption DEF TypeInv, StartJob
  <2> QED
    BY <2>1
<1> QED
  BY <1>3, <1>4, <1>5 DEF TypeInv, StartJob
\* What an exit starts: nothing, or one thread.
LEMMA NewThreadsFacts ==
  ASSUME TypeInv, NEW w \in Started
  PROVE  \/ NewThreads(w) = <<>>
         \/ \E t \in ThreadState :
              /\ NewThreads(w) = <<t>> /\ t.state = "running" /\ ~t.started /\ t.toldBy = 0
              /\ t.index = worker[w].index /\ t.restartNumber = restartNumber
              /\ ~WasShutdown(w) => t.index # Job /\ t.startedBy = 0
                                    /\ t.unexpectedRestarts = worker[w].unexpectedRestarts + 1
<1>1. /\ worker[w] \in ThreadState /\ restartNumber \in 0 .. Len(Calls)
      /\ restarts \in [1 .. Threads -> 0 .. MAX_UNEXPECTED_RESTARTS]
      /\ MAX_UNEXPECTED_RESTARTS \in Nat /\ Threads \in Nat
  BY StateFacts, WorkerAssumption DEF TypeInv
<1> DEFINE i == worker[w].index
           told == worker[w].toldBy
           A == ~WasShutdown(w) /\ i # Job /\ worker[w].unexpectedRestarts < MAX_UNEXPECTED_RESTARTS
           B == WasShutdown(w) /\ ~Overlapping(w) /\ Replaces(told)
<1>2. CASE A
  <2> DEFINE t == Thread(i, worker[w].unexpectedRestarts + 1, 0)
  <2>1. NewThreads(w) = <<t>>
    BY <1>2 DEF NewThreads
  <2>2. /\ worker[w].unexpectedRestarts + 1 \in 0 .. MAX_UNEXPECTED_RESTARTS
        /\ i \in 0 .. Threads /\ 0 \in 0 .. Len(Calls)
    BY <1>1, <1>2 DEF ThreadState
  <2>3. t \in ThreadState
    BY <1>1, <2>2 DEF Thread, ThreadState
  <2> QED
    BY <1>2, <2>1, <2>3 DEF Thread
<1>3. CASE ~A /\ B
  <2>1. NewThreads(w) = <<StartCopy(w, told)>>
    BY <1>3 DEF NewThreads
  <2>2. told \in Callers
    BY <1>1, <1>3, StateFacts DEF WasShutdown, ThreadState
  <2>3. StartCopy(w, told) \in ThreadState
    BY <2>2, ToldFacts
  <2> QED
    BY <1>3, <2>1, <2>3 DEF StartCopy, Thread
<1>4. CASE ~A /\ ~B
  BY <1>4 DEF NewThreads
<1> QED
  BY <1>2, <1>3, <1>4

\* The threads after an exit.
LEMMA ExitFacts ==
  ASSUME TypeInv, NEW w \in Started, Exit(w)
  PROVE  \E n \in Nat :
           /\ n = Len(worker) /\ Started = 1 .. n /\ New = n + 1
           /\ worker' \in Seq(ThreadState)
           /\ worker'[w] \in ThreadState /\ worker'[w].state = "exited" /\ SameThread(worker[w], worker'[w])
           /\ worker'[w].started = worker[w].started /\ worker'[w].toldBy = worker[w].toldBy
           /\ \A v \in Started : v # w => worker'[v] = worker[v]
           /\ NewThreads(w) = <<>> => Len(worker') = n
           /\ \A t : NewThreads(w) = <<t>> => Len(worker') = n + 1 /\ worker'[n + 1] = t
<1>1. PICK n \in Nat : n = Len(worker) /\ Started = 1 .. n /\ New = n + 1
  BY StateFacts DEF New
<1>2. worker \in Seq(ThreadState) /\ worker[w] \in ThreadState
  BY StateFacts DEF TypeInv
<1> DEFINE t == [worker[w] EXCEPT !.state = "exited"]
           u == [worker EXCEPT ![w] = t]
<1>3. /\ t \in ThreadState /\ t.state = "exited" /\ SameThread(worker[w], t)
      /\ t.started = worker[w].started /\ t.toldBy = worker[w].toldBy
  BY <1>2 DEF ThreadState, SameThread
<1>4. worker' = u \o NewThreads(w)
  BY <1>2 DEF Exit
<1> HIDE DEF t
<1>5. u \in Seq(ThreadState) /\ Len(u) = n /\ u[w] = t /\ \A v \in Started : v # w => u[v] = worker[v]
  BY <1>1, <1>2, <1>3
<1> HIDE DEF u
<1>6. CASE NewThreads(w) = <<>>
  <2>1. worker' = u
    BY <1>4, <1>5, <1>6
  <2>2. \A x : NewThreads(w) # <<x>>
    BY <1>6
  <2> QED
    BY <1>1, <1>3, <1>5, <2>1, <2>2
<1>7. ASSUME NEW x \in ThreadState, NewThreads(w) = <<x>>
      PROVE  /\ worker' \in Seq(ThreadState) /\ Len(worker') = n + 1 /\ worker'[n + 1] = x
             /\ \A v \in Started : worker'[v] = u[v]
  BY <1>1, <1>4, <1>5, <1>7
<1>8. ASSUME NEW x \in ThreadState, NewThreads(w) = <<x>>
      PROVE  /\ worker' \in Seq(ThreadState)
             /\ worker'[w] = t /\ \A v \in Started : v # w => worker'[v] = worker[v]
             /\ \A y : NewThreads(w) = <<y>> => Len(worker') = n + 1 /\ worker'[n + 1] = y
             /\ NewThreads(w) # <<>>
  BY <1>5, <1>7, <1>8
<1> QED
  BY <1>1, <1>3, <1>6, <1>8, NewThreadsFacts

LEMMA TypeExit ==
  ASSUME TypeInv, NEW w \in Started, Exit(w)
  PROVE  TypeInv'
<1>1. PICK n \in Nat :
        /\ n = Len(worker) /\ Started = 1 .. n /\ New = n + 1
        /\ worker' \in Seq(ThreadState) /\ worker'[w].state = "exited"
        /\ \A v \in Started : v # w => worker'[v] = worker[v]
        /\ NewThreads(w) = <<>> => Len(worker') = n
        /\ \A t : NewThreads(w) = <<t>> => Len(worker') = n + 1 /\ worker'[n + 1] = t
  BY ExitFacts
<1> DEFINE others == RemoveAt(workers, IndexOf(workers, w))
           new == NewThreads(w)
<1>2. w \in Live /\ workers \in Seq(Started) /\ ToSet(workers) = Live /\ IsInjective(workers)
  BY DEF TypeInv, Exit
<1>3. others \in Seq(Started) /\ ToSet(others) = Live \ {w} /\ IsInjective(others)
  BY <1>2, RemovedSet
<1>4. workers' = others \o [i \in DOMAIN new |-> New]
  BY DEF Exit
<1> HIDE DEF others
<1>5. /\ workers' \in Seq(Started') /\ ToSet(workers') = Live' /\ IsInjective(workers')
      /\ Started \subseteq Started'
  <2>1. CASE new = <<>>
    <3>1. workers' = others
      <4>1. [i \in DOMAIN new |-> New] = <<>>
        BY <2>1
      <4> QED
        BY <1>3, <1>4, <4>1
    <3>2. Started' = Started /\ Live' = Live \ {w}
      BY <1>1, <2>1 DEF Started, Live
    <3> QED
      BY <1>3, <3>1, <3>2
  <2>2. ASSUME NEW t \in ThreadState, new = <<t>>, t.state = "running"
        PROVE  /\ workers' \in Seq(Started') /\ ToSet(workers') = Live' /\ IsInjective(workers')
               /\ Started \subseteq Started'
    <3>1. workers' = Append(others, New)
      <4>1. [i \in DOMAIN new |-> New] = <<New>>
        BY <2>2
      <4> QED
        BY <1>3, <1>4, <4>1
    <3>2. Started' = Started \cup {n + 1} /\ n + 1 \notin Started
      <4>1. DOMAIN worker' = 1 .. n + 1
        BY <1>1, <2>2
      <4> QED
        BY <1>1, <4>1 DEF Started
    <3>3. Live' = (Live \ {w}) \cup {n + 1}
      BY <1>1, <2>2, <3>2 DEF Live
    <3>4. others \in Seq(Started') /\ New \in Started'
      BY <1>1, <1>3, <3>2, ListWithin
    <3>5. workers' \in Seq(Started') /\ ToSet(workers') = ToSet(others) \cup {New}
      BY <3>1, <3>4, AppendSet
    <3>6. \A i \in 1 .. Len(others) : others[i] # New /\ workers'[i] = others[i]
      <4>1. New \notin ToSet(others)
        BY <1>1, <1>3, <3>2 DEF Live
      <4> QED
        BY <1>3, <3>1, <4>1 DEF ToSet
    <3>7. /\ Len(workers') = Len(others) + 1 /\ workers'[Len(others) + 1] = New
          /\ DOMAIN workers' = 1 .. Len(others) + 1 /\ Len(others) \in Nat
      BY <1>3, <3>1
    <3>8. \A i, j \in 1 .. Len(others) : others[i] = others[j] => i = j
      BY <1>3 DEF IsInjective
    <3>9. IsInjective(workers')
      BY <3>6, <3>7, <3>8 DEF IsInjective
    <3> QED
      BY <1>1, <1>3, <3>2, <3>3, <3>5, <3>9
  <2> QED
    BY <2>1, <2>2, NewThreadsFacts
<1>6. workerCount' \in {0, Threads} /\ exits' \in 0 .. MaxExits
  <2>1. exits \in 0 .. MaxExits /\ MaxExits \in Nat /\ workerCount \in {0, Threads}
    BY WorkerAssumption DEF TypeInv
  <2>2. exits' = exits \/ (exits < MaxExits /\ exits' = exits + 1)
    BY DEF Exit
  <2>3. workerCount' = workerCount \/ workerCount' \in {0, Threads}
    BY DEF Exit
  <2> QED
    BY <2>1, <2>2, <2>3
<1>7. restarts' \in [1 .. Threads -> 0 .. MAX_UNEXPECTED_RESTARTS]
  <2>1. restarts \in [1 .. Threads -> 0 .. MAX_UNEXPECTED_RESTARTS]
    BY DEF TypeInv
  <2>2. ~WasShutdown(w) /\ new # <<>> =>
          worker[w].unexpectedRestarts + 1 \in 0 .. MAX_UNEXPECTED_RESTARTS
    BY NewThreadsFacts DEF ThreadState
  <2> QED
    BY <2>1, <2>2 DEF Exit
<1>8. call' \in [Callers -> CallState] /\ \A d \in Callers : call'[d].at = call[d].at
  <2>1. call \in [Callers -> CallState] /\ worker[w] \in ThreadState
    BY StateFacts DEF TypeInv
  <2>2. CASE WasShutdown(w)
    <3>1. worker[w].toldBy \in Callers
      BY <2>1, <2>2, StateFacts DEF WasShutdown, ThreadState
    <3>2. PICK d \in Callers : d = worker[w].toldBy
      BY <3>1
    <3>3. call' = [call EXCEPT ![d].waitingToFinish = SplicedFrom(@, w)]
      BY <2>2, <3>2 DEF Exit
    <3>4. SplicedFrom(call[d].waitingToFinish, w) \in Seq(Started)
      BY <2>1, SplicedSet DEF CallState
    <3> QED
      BY <2>1, <3>3, <3>4 DEF CallState
  <2>3. CASE ~WasShutdown(w)
    BY <2>1, <2>3 DEF Exit
  <2> QED
    BY <2>2, <2>3
<1>9. CallState \subseteq CallState'
  <2>1. \A s \in Seq(Started) : s \in Seq(Started')
    BY <1>5, ListWithin
  <2> QED
    BY <2>1 DEF CallState
<1>10. call' \in [Callers -> CallState'] /\ CallInv' /\ restartNumber' = restartNumber /\ jobs' = jobs
  BY <1>8, <1>9 DEF TypeInv, CallInv, Exit
<1> QED
  BY <1>1, <1>5, <1>6, <1>7, <1>10 DEF TypeInv

\* Types, for all the Circumstances: also that the list of the main thread has
\* each thread that runs, and nobody else, once.
THEOREM TypeCorrect ==
  Spec => []TypeOK
<1>1. Init => TypeInv
  BY TypeAtInit
<1>2. TypeInv /\ [Next]_vars => TypeInv'
  <2> SUFFICES ASSUME TypeInv, [Next]_vars PROVE TypeInv'
    OBVIOUS
  <2>1. ASSUME NEW c \in Callers, Call(c) \/ Skip(c) \/ ShutDown(c) \/ Continue(c) PROVE TypeInv'
    BY <2>1, TypeCall, TypeSkip, TypeShutDown, TypeContinue
  <2>2. ASSUME NEW w \in Started, WorkerStarts(w) \/ Exit(w) PROVE TypeInv'
    BY <2>2, TypeWorkerStarts, TypeExit
  <2>3. CASE StartJob
    BY <2>3, TypeStartJob
  <2>4. CASE UNCHANGED vars
    BY <2>4 DEF vars, TypeInv, CallInv, CallState, Started, Live
  <2> QED
    BY <2>1, <2>2, <2>3, <2>4 DEF Next, Done
<1>3. TypeInv => TypeOK
  BY TypeIsOK
<1> QED
  BY <1>1, <1>2, <1>3, PTL DEF Spec
-----------------------------------------------------------------------------
LEMMA CallFacts ==
  ASSUME TypeInv, NEW c \in Callers
  PROVE  /\ c \in Nat \ {0} /\ c \in 1 .. Len(Calls) /\ call[c] \in CallState
         /\ ToSet(call[c].todo) \subseteq Started /\ ToSet(call[c].awaited) \subseteq Started
         /\ ToSet(call[c].waitingToFinish) \subseteq Started
         /\ ToSet(call[c].waitingToStart) \subseteq Started
         /\ Len(call[c].awaited) = 1 => call[c].awaited[1] \in Started /\ call[c].awaited = <<call[c].awaited[1]>>
         /\ Len(call[c].waitingToStart) = 1 => call[c].waitingToStart[1] \in Started
         /\ Called(c) <=> call[c].at # "idle"
<1>1. call[c] \in CallState /\ c \in Nat \ {0} /\ c \in 1 .. Len(Calls)
  BY StateFacts
<1>2. PICK s, t, u, v \in Seq(Started) :
        s = call[c].todo /\ t = call[c].waitingToFinish /\ u = call[c].awaited
        /\ v = call[c].waitingToStart
  BY <1>1 DEF CallState
<1>3. /\ ToSet(s) \subseteq Started /\ ToSet(t) \subseteq Started /\ ToSet(u) \subseteq Started
      /\ ToSet(v) \subseteq Started
  BY <1>2, ElementSet
<1>4. Len(u) = 1 => u[1] \in Started /\ u = <<u[1]>>
  BY <1>2, ElementSet
<1>5. Len(v) = 1 => v[1] \in Started
  BY <1>2
<1>6. Called(c) <=> call[c].at # "idle"
  BY <1>1, StateFacts DEF TypeInv, CallInv, Called
<1> QED
  BY <1>1, <1>2, <1>3, <1>4, <1>5, <1>6

\* A call that a step is not about keeps what is known of it.
LEMMA CallKept ==
  ASSUME TypeInv, TypeInv', RestartInv, NEW d \in Callers, Aside(d)
  PROVE  TodoInv(d)' /\ ShapeInv(d)' /\ WaitInv(d)' /\ OldInv(d)'
<1>1. /\ TodoInv(d) /\ ShapeInv(d) /\ WaitInv(d) /\ OldInv(d)
      /\ call'[d] = call[d] /\ (Called(d)' <=> Called(d))
  BY DEF RestartInv, Aside
<1>2. \A w \in Started :
        /\ w \in Started' /\ (IsJob(w)' <=> IsJob(w))
        /\ worker'[w].startedBy = worker[w].startedBy /\ worker'[w].restartNumber = worker[w].restartNumber
        /\ worker'[w].index = worker[w].index
        /\ WasShutdown(w) => WasShutdown(w)' /\ worker'[w].toldBy = worker[w].toldBy
        /\ worker'[w].toldBy = d <=> worker[w].toldBy = d
        /\ worker[w].toldBy = d => (w \in Live' <=> w \in Live)
        /\ worker[w].startedBy = d => (worker'[w].started <=> worker[w].started)
  BY CallFacts DEF Aside, SameThread, IsJob, WasShutdown
<1>3. TodoInv(d)'
  <2>1. ASSUME NEW w \in ToSet(call[d].todo) PROVE WasShutdown(w)' \/ w \in Live'
    BY <1>1, <1>2, CallFacts DEF TodoInv, Aside
  <2>2. ASSUME NEW w \in ToSet(call[d].todo), Replaces(d) PROVE ~IsJob(w)'
    BY <1>1, <1>2, <2>2, CallFacts DEF TodoInv
  <2> QED
    BY <1>1, <2>1, <2>2 DEF TodoInv
<1>4. Replaces(d) /\ RestartShape(d) => RestartShape(d)'
  <2> SUFFICES ASSUME Replaces(d), RestartShape(d) PROVE RestartShape(d)'
    OBVIOUS
  <2>1. PICK s \in CallState : s = call[d] /\ s = call'[d]
    BY <1>1, CallFacts
  <2>2. Len(s.awaited) = 1 => s.awaited[1] \in Started
    BY <2>1, CallFacts
  <2>3. Len(s.waitingToStart) = 1 => s.waitingToStart[1] \in Started
    BY <2>1, CallFacts
  <2>4. s.limit = 1 /\ (s.at \notin {"raceFinish", "raceStart"} =>
             s.awaited = <<>> /\ s.waitingToFinish = <<>> /\ s.waitingToStart = <<>>)
    BY <2>1 DEF RestartShape
  <2>5. CASE s.at = "raceFinish"
    <3>1. /\ Len(s.awaited) = 1 /\ worker[s.awaited[1]].toldBy = d
          /\ s.waitingToFinish = IF s.awaited[1] \in Live THEN s.awaited ELSE <<>>
          /\ \/ s.waitingToStart = <<>>
             \/ /\ Len(s.waitingToStart) = 1
                /\ worker[s.waitingToStart[1]].startedBy = d
                /\ ~worker[s.waitingToStart[1]].started
                /\ worker[s.waitingToStart[1]].index = worker[s.awaited[1]].index
      BY <2>1, <2>5 DEF RestartShape
    <3>2. /\ worker'[s.awaited[1]].toldBy = d
          /\ s.waitingToFinish = IF s.awaited[1] \in Live' THEN s.awaited ELSE <<>>
          /\ worker'[s.awaited[1]].index = worker[s.awaited[1]].index
      BY <1>2, <2>2, <3>1
    <3>3. s.waitingToStart # <<>> =>
             /\ worker'[s.waitingToStart[1]].startedBy = d
             /\ ~worker'[s.waitingToStart[1]].started
             /\ worker'[s.waitingToStart[1]].index = worker'[s.awaited[1]].index
      BY <1>2, <2>3, <3>1, <3>2
    <3> QED
      BY <2>1, <2>4, <2>5, <3>1, <3>2, <3>3 DEF RestartShape
  <2>6. CASE s.at = "raceStart"
    <3>1. /\ Len(s.awaited) = 1 /\ worker[s.awaited[1]].startedBy = d /\ ~IsJob(s.awaited[1])
          /\ s.waitingToFinish = <<>>
          /\ s.waitingToStart = IF worker[s.awaited[1]].started THEN <<>> ELSE s.awaited
      BY <2>1, <2>6 DEF RestartShape
    <3>2. /\ worker'[s.awaited[1]].startedBy = d /\ ~IsJob(s.awaited[1])'
          /\ worker'[s.awaited[1]].started <=> worker[s.awaited[1]].started
      BY <1>2, <2>1, <2>2, <3>1 DEF IsJob
    <3> QED
      BY <2>1, <2>4, <2>6, <3>1, <3>2 DEF RestartShape
  <2>7. CASE s.at \notin {"raceFinish", "raceStart"}
    BY <2>1, <2>4, <2>7 DEF RestartShape
  <2> QED
    BY <2>5, <2>6, <2>7
<1>5. ShutdownShape(d) => ShutdownShape(d)'
  <2> SUFFICES ASSUME ShutdownShape(d) PROVE ShutdownShape(d)'
    OBVIOUS
  <2>1. PICK t, u \in Seq(Started) : t = call[d].waitingToFinish /\ u = call[d].awaited
    BY CallFacts DEF CallState
  <2>2. ToSet(t \o u) \subseteq Started
    BY ConcatSet, ElementSet
  <2>3. \A w \in ToSet(t \o u) : worker[w].toldBy = d
    BY <2>1 DEF ShutdownShape
  <2>4. \A w \in ToSet(t \o u) : worker'[w].toldBy = d
    BY <1>2, <2>2, <2>3
  <2> QED
    BY <1>1, <2>1, <2>4 DEF ShutdownShape
<1>6. ShapeInv(d)'
  BY <1>1, <1>4, <1>5 DEF ShapeInv
<1>7. ASSUME NEW w \in Live', w \notin Started
      PROVE  worker'[w].toldBy = 0 /\ worker'[w].startedBy # d /\ worker'[w].restartNumber = restartNumber
             /\ (worker'[w].index = Job \/ Replaces(d) \/ ~Called(d))
  BY <1>7 DEF Aside, Live
<1>8. WaitInv(d)'
  <2> SUFFICES ASSUME NEW w \in Live', worker'[w].toldBy = d \/ worker'[w].startedBy = d
               PROVE  /\ worker'[w].toldBy = d =>
                           IF Replaces(d) THEN call[d].at = "raceFinish" /\ call[d].awaited[1] = w
                           ELSE \/ call[d].at = "loop" /\ w \in ToSet(call[d].waitingToFinish)
                                \/ call[d].at = "allFinish" /\ w \in ToSet(call[d].awaited)
                      /\ (worker'[w].startedBy = d /\ ~worker'[w].started) =>
                           \/ call[d].at = "raceFinish" /\ call[d].waitingToStart = <<w>>
                           \/ call[d].at = "raceStart" /\ call[d].awaited[1] = w
    BY <1>1 DEF WaitInv
  <2>1. w \in Started /\ w \in Live
    BY <1>7, CallFacts DEF Aside
  <2> QED
    BY <1>1, <1>2, <2>1 DEF WaitInv
<1>9. OldInv(d)'
  <2> SUFFICES ASSUME Called(d), NEW w \in Live', ~WasShutdown(w)'
               PROVE  /\ (Calls[d] = "http" => ~IsJob(w)') /\ worker'[w].restartNumber < d =>
                           w \in ToSet(call[d].todo)
                      /\ ~Replaces(d) /\ ~IsJob(w)' => w \in ToSet(call[d].todo)
    BY <1>1 DEF OldInv, Untold
  <2>1. CASE w \in Started
    <3>1. w \in Untold
      BY <1>2, <2>1 DEF Aside, Untold
    <3> QED
      BY <1>1, <1>2, <2>1, <3>1 DEF OldInv
  <2>2. CASE w \notin Started
    <3>1. ~(worker'[w].restartNumber < d)
      BY <1>7, <2>2, CallFacts, StateFacts DEF Called
    <3> QED
      BY <1>7, <2>2, <3>1 DEF IsJob
  <2> QED
    BY <2>1, <2>2
<1> QED
  BY <1>3, <1>6, <1>8, <1>9

\* A call that waits goes on waiting, when the step is not about what it awaits.
LEMMA StillUnresolved ==
  ASSUME TypeInv, TypeInv', RestartInv, NEW d \in Callers, Aside(d), ~Resolved(d)
  PROVE  ~Resolved(d)'
<1>1. PICK s \in CallState : s = call[d] /\ s = call'[d]
  BY CallFacts DEF Aside
<1>2. ToSet(s.awaited) \subseteq Started /\ s.at # "loop"
  BY <1>1, CallFacts DEF Resolved
<1>3. s.at \in {"raceFinish", "allFinish"} =>
        \A w \in ToSet(s.awaited) : worker[w].toldBy = d /\ (WhenDone(w)' <=> WhenDone(w))
  <2>1. ASSUME s.at \in {"raceFinish", "allFinish"}, NEW w \in ToSet(s.awaited)
        PROVE  worker[w].toldBy = d
    <3>1. Called(d) /\ ShapeInv(d)
      BY <1>1, <2>1, CallFacts DEF RestartInv
    <3>2. CASE Replaces(d)
      <4>1. CASE s.at = "raceFinish"
        <5>1. Len(s.awaited) = 1 /\ worker[s.awaited[1]].toldBy = d
          BY <1>1, <3>1, <3>2, <4>1 DEF ShapeInv, RestartShape
        <5>2. s.awaited = <<s.awaited[1]>>
          BY <1>1, <5>1, CallFacts
        <5>3. ToSet(<<s.awaited[1]>>) = {s.awaited[1]}
          BY DEF ToSet
        <5> QED
          BY <2>1, <5>1, <5>2, <5>3
      <4>2. CASE s.at = "allFinish"
        <5>1. s.awaited = <<>>
          BY <1>1, <3>1, <3>2, <4>2 DEF ShapeInv, RestartShape
        <5> QED
          BY <2>1, <5>1 DEF ToSet
      <4> QED
        BY <2>1, <4>1, <4>2
    <3>3. CASE ~Replaces(d)
      <4>1. PICK t, u \in Seq(Started) : t = call[d].waitingToFinish /\ u = call[d].awaited
        BY CallFacts DEF CallState
      <4>2. w \in ToSet(t \o u)
        <5>1. ToSet(t \o u) = ToSet(t) \cup ToSet(u)
          BY ConcatSet
        <5> QED
          BY <1>1, <2>1, <4>1, <5>1
      <4> QED
        BY <3>1, <3>3, <4>1, <4>2 DEF ShapeInv, ShutdownShape
    <3> QED
      BY <3>2, <3>3
  <2>2. ASSUME NEW w \in Started, worker[w].toldBy = d
        PROVE  WhenDone(w)' <=> WhenDone(w)
    <3>1. w \in Live' <=> w \in Live
      BY <2>2 DEF Aside
    <3>2. worker'[w].toldBy = d /\ d # 0
      BY <2>2, CallFacts DEF Aside
    <3>3. w \in Started' /\ worker'[w] \in ThreadState /\ worker[w] \in ThreadState
      BY StateFacts DEF TypeInv, Started, Aside
    <3>4. w \notin Live => worker[w].state = "exited"
      BY <3>3 DEF RestartInv, ThreadInv, Live, ThreadState
    <3>5. w \notin Live' => worker'[w].state = "exited"
      BY DEF Aside
    <3> QED
      BY <2>2, <3>1, <3>2, <3>3, <3>4, <3>5 DEF WhenDone, WasShutdown, Live
  <2> QED
    BY <1>2, <2>1, <2>2
<1>4. s.at \in {"raceStart", "allStart"} =>
        \A w \in ToSet(s.awaited) : WhenStarted(w)' <=> WhenStarted(w)
  <2> SUFFICES ASSUME s.at \in {"raceStart", "allStart"}, NEW w \in ToSet(s.awaited)
               PROVE  WhenStarted(w)' <=> WhenStarted(w)
    OBVIOUS
  <2>1. Called(d) /\ ShapeInv(d)
    BY <1>1, CallFacts DEF RestartInv
  <2>2. s.at = "raceStart"
    <3>1. s.at = "allStart" => s.awaited = <<>>
      BY <1>1, <2>1 DEF ShapeInv, RestartShape, ShutdownShape
    <3> QED
      BY <3>1 DEF ToSet
  <2>3. Len(s.awaited) = 1 /\ worker[s.awaited[1]].startedBy = d
    BY <1>1, <2>1, <2>2 DEF ShapeInv, RestartShape, ShutdownShape
  <2>4. s.awaited = <<s.awaited[1]>>
    BY <1>1, <2>3, CallFacts
  <2>5. ToSet(<<s.awaited[1]>>) = {s.awaited[1]}
    BY DEF ToSet
  <2>6. w \in Started /\ worker[w].startedBy = d
    BY <1>2, <2>3, <2>4, <2>5
  <2> QED
    BY <2>6 DEF Aside, WhenStarted
<1> QED
  BY <1>1, <1>2, <1>3, <1>4 DEF Resolved
-----------------------------------------------------------------------------
\* What a step of call c has to show of the others.
LEMMA OthersKept ==
  ASSUME TypeInv, TypeInv', RestartInv, NEW c,
         \A d \in Callers \ {c} : Aside(d) /\ ~Resolved(d)
  PROVE  /\ OneTurn'
         /\ \A d \in Callers \ {c} : TodoInv(d)' /\ ShapeInv(d)' /\ WaitInv(d)' /\ OldInv(d)'
<1>1. \A d \in Callers \ {c} : ~Resolved(d)'
  BY StillUnresolved
<1>2. OneTurn'
  BY <1>1 DEF OneTurn
<1> QED
  BY <1>2, CallKept

\* A step that changes no thread.
LEMMA ThreadsKept ==
  ASSUME TypeInv, RestartInv, worker' = worker, restartNumber' = restartNumber
  PROVE  /\ workerCount' = workerCount => JobInv'
         /\ CurrentInv' /\ \A w \in Started' : ThreadInv(w)' /\ LastInv(w)'
         /\ \A d \in Callers : call'[d] = call[d] => Aside(d)
<1>1. Started' = Started /\ Live' = Live /\ Untold' = Untold
  BY DEF Started, Live, Untold, WasShutdown
<1>2. workerCount' = workerCount => JobInv'
  BY <1>1 DEF RestartInv, JobInv, Called, IsJob, WasShutdown
<1>3. CurrentInv'
  BY <1>1 DEF RestartInv, CurrentInv, Called, IsJob, Failed, WasShutdown
<1>4. \A w \in Started' : ThreadInv(w)' /\ LastInv(w)'
  BY <1>1 DEF RestartInv, ThreadInv, LastInv, IsJob
<1>5. \A w \in Started : w \notin Live => worker[w].state = "exited"
  BY StateFacts DEF RestartInv, ThreadInv, Live, ThreadState
<1>6. \A d \in Callers : call'[d] = call[d] => Aside(d)
  BY <1>1, <1>5 DEF Aside, Called, SameThread
<1> QED
  BY <1>2, <1>3, <1>4, <1>6

LEMMA RestartAtInit ==
  ASSUME Init
  PROVE  RestartInv
<1>1. TypeInv /\ Started = 1 .. Threads /\ Threads \in Nat /\ restartNumber = 0
  BY TypeAtInit, WorkerAssumption DEF Init, Started
<1>2. \A c \in Callers : ~Called(c) /\ call[c] = NoCall /\ c \in Nat \ {0}
  BY <1>1, CallFacts DEF Init, Called
<1>3. \A w \in Started : /\ worker[w].state = "running" /\ worker[w].started /\ worker[w].index = w
                         /\ worker[w].toldBy = 0 /\ worker[w].startedBy = 0
  BY <1>1 DEF Init, Thread
<1>4. JobInv
  BY <1>1, <1>3 DEF Init, JobInv, IsJob, Job, WasShutdown
<1>5. OneTurn
  BY <1>2 DEF OneTurn, Resolved, NoCall
<1>6. CurrentInv
  BY <1>1, <1>3 DEF CurrentInv, Untold, Live, WasShutdown
<1>7. \A w \in Started : ThreadInv(w) /\ LastInv(w)
  BY <1>1, <1>2, <1>3 DEF ThreadInv, LastInv, Live
<1>8. ASSUME NEW c \in Callers PROVE TodoInv(c) /\ ShapeInv(c) /\ WaitInv(c) /\ OldInv(c)
  <2>1. TodoInv(c)
    BY <1>2 DEF TodoInv, NoCall, ToSet
  <2>2. WaitInv(c)
    BY <1>2, <1>3 DEF WaitInv, Live
  <2> QED
    BY <1>2, <2>1, <2>2 DEF ShapeInv, OldInv
<1> QED
  BY <1>4, <1>5, <1>6, <1>7, <1>8 DEF RestartInv

LEMMA RestartCall ==
  ASSUME TypeInv, RestartInv, MaxWorkersDown = 1, NEW c \in Callers, Call(c)
  PROVE  RestartInv'
<1>1. TypeInv' /\ restartNumber' = c /\ restartNumber = c - 1 /\ c \in Nat \ {0}
  BY TypeCall, CallFacts
<1>2. worker' = worker /\ Started' = Started /\ Live' = Live /\ Untold' = Untold
  BY DEF Call, Started, Live, Untold, WasShutdown
<1>3. /\ call'[c].at = "loop" /\ call'[c].todo = workers /\ call'[c].waitingToFinish = <<>>
      /\ call'[c].waitingToStart = <<>> /\ call'[c].awaited = <<>> /\ call'[c].number = c
      /\ call'[c].limit = IF workerCount = 0 \/ ~Replaces(c) THEN 0 ELSE MaxWorkersDown
  BY <1>1 DEF Call, NoCall, TypeInv
<1>4. \A d \in Callers : d \in Nat /\ (Called(d)' <=> d <= c) /\ (Called(d) <=> d <= c - 1)
  BY <1>1, CallFacts DEF Called
<1>5. \A w \in Started : w \notin Live => worker[w].state = "exited"
  BY StateFacts DEF RestartInv, ThreadInv, Live, ThreadState
<1>6. \A d \in Callers \ {c} : Aside(d) /\ ~Resolved(d)
  <2> SUFFICES ASSUME NEW d \in Callers \ {c} PROVE Aside(d) /\ ~Resolved(d)
    OBVIOUS
  <2>1. call'[d] = call[d] /\ (Called(d)' <=> Called(d)) /\ ~Resolved(d)
    BY <1>1, <1>4 DEF Call, EventTurn, TypeInv
  <2> QED
    BY <1>2, <1>5, <2>1 DEF Aside, SameThread
<1>7. Replaces(c) => workerCount = Threads /\ \A w \in Started : ~IsJob(w)
  BY <1>1, <1>4 DEF RestartInv, JobInv
<1>8. JobInv'
  <2>1. \A d \in Callers : ~Called(d)' => ~Called(d)
    BY <1>1, <1>4
  <2> QED
    BY <1>2, <2>1 DEF RestartInv, JobInv, IsJob, WasShutdown, Call
<1>9. CurrentInv'
  <2>1. \A d \in Callers : ~Called(d)' => ~Called(d)
    BY <1>1, <1>4
  <2> QED
    BY <1>2, <2>1 DEF RestartInv, CurrentInv, IsJob, Failed, WasShutdown
<1>10. ASSUME NEW w \in Started' PROVE ThreadInv(w)' /\ LastInv(w)'
  <2>1. worker[w] \in ThreadState /\ ThreadInv(w) /\ LastInv(w) /\ w \in Started
    BY <1>2, StateFacts DEF RestartInv
  <2>2. worker[w].toldBy <= c /\ worker[w].startedBy <= c
    BY <1>1, <2>1 DEF ThreadInv, ThreadState
  <2> QED
    BY <1>1, <1>2, <2>1, <2>2 DEF ThreadInv, LastInv, IsJob
<1>11. ToSet(workers) = Live
  BY DEF TypeInv
<1>12. TodoInv(c)'
  BY <1>2, <1>3, <1>7, <1>11 DEF TodoInv, IsJob, Live
<1>13. ShapeInv(c)'
  <2>1. Replaces(c) => RestartShape(c)'
    <3>1. Replaces(c) => call'[c].limit = 1
      BY <1>3, <1>7, WorkerAssumption
    <3> QED
      BY <1>3, <3>1 DEF RestartShape
  <2>2. ~Replaces(c) => ShutdownShape(c)'
    <3>1. ToSet(<<>> \o <<>>) = {}
      BY DEF ToSet
    <3> QED
      BY <1>3, <3>1 DEF ShutdownShape
  <2> QED
    BY <1>3, <2>1, <2>2 DEF ShapeInv
<1>14. WaitInv(c)'
  <2>1. \A w \in Started : worker[w].toldBy # c /\ worker[w].startedBy # c
    BY <1>1, StateFacts DEF RestartInv, ThreadInv, ThreadState
  <2> QED
    BY <1>2, <2>1 DEF WaitInv, Live
<1>15. OldInv(c)'
  BY <1>2, <1>3, <1>11 DEF OldInv, Untold
<1> QED
  BY <1>1, <1>2, <1>6, <1>8, <1>9, <1>10, <1>12, <1>13, <1>14, <1>15, OthersKept DEF RestartInv

LEMMA RestartSkip ==
  ASSUME TypeInv, RestartInv, NEW c \in Callers, Skip(c)
  PROVE  RestartInv'
<1>1. TypeInv' /\ worker' = worker /\ restartNumber' = restartNumber /\ workerCount' = workerCount
  BY TypeSkip DEF Skip
<1>2. Started' = Started /\ Live' = Live /\ Untold' = Untold
  BY <1>1 DEF Started, Live, Untold, WasShutdown
<1>3. PICK s \in CallState : s = call[c] /\ s.todo # <<>> /\ s.at = "loop" /\ s.todo \in Seq(Started)
  BY CallFacts DEF Skip, CallState
<1>4. call'[c] = [s EXCEPT !.todo = Tail(@)] /\ \A d \in Callers \ {c} : call'[d] = call[d]
  BY <1>3 DEF Skip, TypeInv
<1>5. /\ call'[c].at = "loop" /\ call'[c].todo = Tail(s.todo) /\ call'[c].waitingToFinish = s.waitingToFinish
      /\ call'[c].waitingToStart = s.waitingToStart /\ call'[c].awaited = s.awaited
      /\ call'[c].number = s.number /\ call'[c].limit = s.limit
  BY <1>3, <1>4 DEF CallState
<1>6. \A d \in Callers \ {c} : Aside(d) /\ ~Resolved(d)
  <2>1. Resolved(c)
    BY <1>3 DEF Resolved
  <2> QED
    BY <1>1, <1>4, <2>1, ThreadsKept DEF RestartInv, OneTurn
<1>7. PICK w \in Started : /\ w = Head(s.todo) /\ ToSet(s.todo) = {w} \cup ToSet(Tail(s.todo))
                           /\ WasShutdown(w) \/ (Calls[c] = "http" /\ IsJob(w))
  BY <1>3, HeadTailSet DEF Skip, IsJob
<1>8. TodoInv(c)'
  BY <1>1, <1>2, <1>3, <1>5, <1>7 DEF RestartInv, TodoInv, IsJob, WasShutdown, Live
<1>9. ShapeInv(c)'
  <2>1. ShapeInv(c) /\ (Called(c)' <=> Called(c))
    BY <1>1 DEF RestartInv, Called
  <2> QED
    BY <1>1, <1>2, <1>3, <1>5, <2>1 DEF ShapeInv, RestartShape, ShutdownShape
<1>10. WaitInv(c)'
  BY <1>1, <1>2, <1>3, <1>5 DEF RestartInv, WaitInv
<1>11. OldInv(c)'
  <2>1. OldInv(c) /\ (Called(c)' <=> Called(c)) /\ (w \in Untold => Calls[c] = "http" /\ IsJob(w))
    BY <1>1, <1>7 DEF RestartInv, Called, Untold
  <2> QED
    BY <1>1, <1>2, <1>3, <1>5, <1>7, <2>1 DEF OldInv, IsJob, Replaces
<1> QED
  BY <1>1, <1>2, <1>6, <1>8, <1>9, <1>10, <1>11, OthersKept, ThreadsKept DEF RestartInv
LEMMA RestartContinue ==
  ASSUME TypeInv, RestartInv, NEW c \in Callers, Continue(c)
  PROVE  RestartInv'
<1>1. TypeInv' /\ worker' = worker /\ restartNumber' = restartNumber /\ workerCount' = workerCount
  BY TypeContinue DEF Continue
<1>2. Started' = Started /\ Live' = Live /\ Untold' = Untold /\ (Called(c)' <=> Called(c))
  BY <1>1 DEF Started, Live, Untold, WasShutdown, Called
<1>3. PICK s \in CallState : s = call[c]
  BY CallFacts
<1>4. PICK a \in Places, l \in Seq(Started) :
        /\ call' = [call EXCEPT ![c].at = a, ![c].awaited = l]
        /\ \/ s.at = "loop" /\ s.todo = <<>> /\ a = "allFinish" /\ l = s.waitingToFinish
           \/ s.at = "raceFinish" /\ Full(c, s.waitingToStart) /\ a = "raceStart" /\ l = s.waitingToStart
           \/ s.at = "raceFinish" /\ ~Full(c, s.waitingToStart) /\ a = "loop" /\ l = <<>>
           \/ s.at = "raceStart" /\ a = "loop" /\ l = <<>>
           \/ s.at = "allFinish" /\ a = "allStart" /\ l = s.waitingToStart
           \/ s.at = "allStart" /\ a = "done" /\ l = <<>>
  <2>1. s.waitingToStart \in Seq(Started) /\ s.waitingToFinish \in Seq(Started) /\ <<>> \in Seq(Started)
    BY DEF CallState
  <2> QED
    BY <1>3, <2>1 DEF Continue, Places
<1>5. call \in [Callers -> CallState] /\ s \in CallState
  BY DEF TypeInv
<1>6. \A d \in Callers \ {c} : call'[d] = call[d]
  BY <1>4, <1>5
<1>7. /\ call'[c].at = a /\ call'[c].awaited = l /\ call'[c].todo = s.todo
      /\ call'[c].waitingToFinish = s.waitingToFinish /\ call'[c].waitingToStart = s.waitingToStart
      /\ call'[c].number = s.number /\ call'[c].limit = s.limit
  BY <1>3, <1>4, <1>5 DEF CallState
<1>8. \A d \in Callers \ {c} : Aside(d) /\ ~Resolved(d)
  BY <1>1, <1>6, ThreadsKept DEF Continue, RestartInv, OneTurn
<1>9. Called(c) /\ ShapeInv(c) /\ WaitInv(c) /\ TodoInv(c) /\ OldInv(c) /\ Resolved(c)
  BY <1>3, <1>4, CallFacts DEF Continue, RestartInv
<1>10. TodoInv(c)'
  BY <1>1, <1>2, <1>3, <1>4, <1>7, <1>9 DEF TodoInv, IsJob, WasShutdown
<1>11. OldInv(c)'
  BY <1>1, <1>2, <1>3, <1>7, <1>9 DEF OldInv, IsJob
<1>12. ASSUME Replaces(c) PROVE RestartShape(c)' /\ WaitInv(c)'
  <2>1. RestartShape(c) /\ s.limit = 1
    BY <1>3, <1>9, <1>12 DEF ShapeInv, RestartShape
  <2>2. CASE s.at \notin {"raceFinish", "raceStart"}
    <3>1. s.awaited = <<>> /\ s.waitingToFinish = <<>> /\ s.waitingToStart = <<>>
      BY <1>3, <2>1, <2>2 DEF RestartShape
    <3>2. a \notin {"raceFinish", "raceStart"} /\ l = <<>>
      BY <1>4, <2>2, <3>1
    <3>3. \A w \in Live : worker[w].toldBy # c /\ (worker[w].startedBy = c => worker[w].started)
      BY <1>3, <1>9, <1>12, <2>2 DEF WaitInv
    <3>4. RestartShape(c)'
      BY <1>7, <2>1, <3>1, <3>2 DEF RestartShape
    <3>5. WaitInv(c)'
      BY <1>1, <1>2, <3>3 DEF WaitInv
    <3> QED
      BY <3>4, <3>5
  <2>3. CASE s.at = "raceFinish"
    <3>1. PICK w \in Started : w = s.awaited[1] /\ s.awaited = <<w>> /\ ToSet(<<w>>) = {w}
      <4>1. Len(s.awaited) = 1 /\ \A x : ToSet(<<x>>) = {x}
        BY <1>3, <2>1, <2>3 DEF RestartShape, ToSet
      <4> QED
        BY <1>3, <4>1, CallFacts
    <3>2. worker[w].toldBy = c /\ worker[w].state = "exited"
      BY <1>3, <1>9, <2>1, <2>3, <3>1 DEF RestartShape, Resolved, WhenDone
    <3>3. w \notin Live /\ s.waitingToFinish = <<>>
      BY <1>3, <2>1, <2>3, <3>1, <3>2 DEF RestartShape, Live
    <3>4. \A v \in Live : worker[v].toldBy # c /\
             (worker[v].startedBy = c /\ ~worker[v].started => s.waitingToStart = <<v>>)
      BY <1>3, <1>9, <1>12, <2>3, <3>1, <3>3 DEF WaitInv
    <3>5. ~IsJob(w)
      BY <1>12, <3>2, CallFacts DEF RestartInv, JobInv, WasShutdown
    <3>6. CASE s.waitingToStart = <<>>
      <4>1. a = "loop" /\ l = <<>>
        BY <1>3, <1>4, <2>1, <2>3, <3>6 DEF Full
      <4>2. RestartShape(c)'
        BY <1>7, <2>1, <3>3, <3>6, <4>1 DEF RestartShape
      <4>3. \A v \in Live : worker[v].startedBy = c => worker[v].started
        BY <3>4, <3>6
      <4>4. WaitInv(c)'
        BY <1>1, <1>2, <3>4, <4>3 DEF WaitInv
      <4> QED
        BY <4>2, <4>4
    <3>7. CASE s.waitingToStart # <<>>
      <4>1. /\ Len(s.waitingToStart) = 1 /\ worker[s.waitingToStart[1]].startedBy = c
            /\ ~worker[s.waitingToStart[1]].started
            /\ worker[s.waitingToStart[1]].index = worker[w].index
        BY <1>3, <2>1, <2>3, <3>1, <3>7 DEF RestartShape
      <4>2. a = "raceStart" /\ l = s.waitingToStart
        BY <1>3, <1>4, <2>1, <2>3, <4>1 DEF Full
      <4>3. RestartShape(c)'
        BY <1>1, <1>7, <2>1, <3>3, <3>5, <4>1, <4>2 DEF RestartShape, IsJob
      <4>4. WaitInv(c)'
        BY <1>1, <1>2, <1>7, <3>4, <4>2 DEF WaitInv
      <4> QED
        BY <4>3, <4>4
    <3> QED
      BY <3>6, <3>7
  <2>4. CASE s.at = "raceStart"
    <3>1. PICK w \in Started : w = s.awaited[1] /\ s.awaited = <<w>> /\ ToSet(<<w>>) = {w}
      <4>1. Len(s.awaited) = 1 /\ \A x : ToSet(<<x>>) = {x}
        BY <1>3, <2>1, <2>4 DEF RestartShape, ToSet
      <4> QED
        BY <1>3, <4>1, CallFacts
    <3>2. worker[w].started
      BY <1>3, <1>9, <2>4, <3>1 DEF Resolved, WhenStarted
    <3>3. s.waitingToStart = <<>> /\ s.waitingToFinish = <<>> /\ a = "loop" /\ l = <<>>
      BY <1>3, <1>4, <2>1, <2>4, <3>1, <3>2 DEF RestartShape
    <3>4. RestartShape(c)'
      BY <1>7, <2>1, <3>3 DEF RestartShape
    <3>5. \A v \in Live : worker[v].toldBy # c /\ (worker[v].startedBy = c => worker[v].started)
      BY <1>3, <1>9, <1>12, <2>4, <3>1, <3>2 DEF WaitInv
    <3>6. WaitInv(c)'
      BY <1>1, <1>2, <3>5 DEF WaitInv
    <3> QED
      BY <3>4, <3>6
  <2> QED
    BY <2>2, <2>3, <2>4
<1>13. ASSUME ~Replaces(c) PROVE ShutdownShape(c)' /\ WaitInv(c)'
  <2>1. /\ s.at \notin {"raceFinish", "raceStart"} /\ s.limit = 0 /\ s.waitingToStart = <<>>
        /\ \A w \in ToSet(s.waitingToFinish \o s.awaited) : worker[w].toldBy = c
        /\ s.at \in {"allStart", "done"} => s.awaited = <<>>
    BY <1>3, <1>9, <1>13 DEF ShapeInv, ShutdownShape
  <2>2. PICK t, u \in Seq(Started) : t = s.waitingToFinish /\ u = s.awaited
    BY DEF CallState
  <2>3. /\ ToSet(t \o u) = ToSet(t) \cup ToSet(u) /\ ToSet(t \o l) = ToSet(t) \cup ToSet(l)
    BY ConcatSet
  <2>4. \A w \in ToSet(t \o l) : worker[w].toldBy = c
    <3>1. \A w \in ToSet(t) : worker[w].toldBy = c
      BY <2>1, <2>2, <2>3
    <3>2. l = t \/ l = <<>>
      BY <1>4, <2>1, <2>2
    <3> QED
      BY <2>3, <3>1, <3>2 DEF ToSet
  <2>5. ShutdownShape(c)'
    BY <1>1, <1>4, <1>7, <2>1, <2>2, <2>4 DEF ShutdownShape
  <2>6. \A w \in Live : /\ worker[w].toldBy = c => (s.at = "loop" /\ w \in ToSet(t))
                                    \/ (s.at = "allFinish" /\ w \in ToSet(u))
                        /\ ~(worker[w].startedBy = c /\ ~worker[w].started)
    <3> SUFFICES ASSUME NEW w \in Live
                 PROVE  /\ worker[w].toldBy = c => (s.at = "loop" /\ w \in ToSet(t))
                                    \/ (s.at = "allFinish" /\ w \in ToSet(u))
                        /\ ~(worker[w].startedBy = c /\ ~worker[w].started)
      OBVIOUS
    <3>1. WaitInv(c)
      BY <1>9
    <3>2. worker[w].toldBy = c => (s.at = "loop" /\ w \in ToSet(s.waitingToFinish))
                                    \/ (s.at = "allFinish" /\ w \in ToSet(s.awaited))
      BY <1>3, <1>13, <3>1 DEF WaitInv
    <3>3. (worker[w].startedBy = c /\ ~worker[w].started) => s.at = "raceFinish" \/ s.at = "raceStart"
      BY <1>3, <3>1 DEF WaitInv
    <3> QED
      BY <2>1, <2>2, <3>2, <3>3
  <2>7. s.at = "allFinish" => \A w \in ToSet(u) : w \notin Live
    BY <1>3, <1>9, <2>2 DEF Resolved, WhenDone, Live
  <2>8. \A w \in Live : worker[w].toldBy = c => a = "allFinish" /\ w \in ToSet(l)
    BY <1>4, <2>1, <2>2, <2>6, <2>7
  <2>9. WaitInv(c)'
    BY <1>1, <1>2, <1>7, <1>13, <2>6, <2>8 DEF WaitInv
  <2> QED
    BY <2>5, <2>9
<1>14. ShapeInv(c)' /\ WaitInv(c)'
  BY <1>2, <1>3, <1>7, <1>9, <1>12, <1>13 DEF ShapeInv
<1> QED
  BY <1>1, <1>2, <1>8, <1>10, <1>11, <1>14, OthersKept, ThreadsKept DEF RestartInv
\* One turn of the loop tells a worker that runs.  A restart starts its copy, and
\* waits for both, one after the other.
LEMMA ShutDownFacts ==
  ASSUME TypeInv, RestartInv, MaxWorkersDown = 1, NEW c \in Callers, ShutDown(c)
  PROVE  \E w \in Started, s \in CallState :
           /\ s = call[c] /\ s.at = "loop" /\ s.todo # <<>>
           /\ ToSet(s.todo) = {w} \cup ToSet(Tail(s.todo)) /\ Tail(s.todo) \in Seq(Started)
           /\ w \in Untold /\ (Replaces(c) => ~IsJob(w))
           /\ w \in Started' /\ SameThread(worker[w], worker'[w]) /\ worker'[w].toldBy = c
           /\ worker'[w].state = "running" /\ (worker'[w].started <=> worker[w].started)
           /\ \A v \in Started : v # w => v \in Started' /\ worker'[v] = worker[v]
           /\ call'[c].todo = Tail(s.todo) /\ call'[c].number = s.number /\ call'[c].limit = s.limit
           /\ \A d \in Callers \ {c} : call'[d] = call[d]
           /\ Replaces(c) =>
                /\ Started' = Started \cup {New} /\ New \notin Started /\ workerCount' = Threads
                /\ worker'[New].state = "running" /\ ~worker'[New].started
                /\ worker'[New].index = worker[w].index /\ worker'[New].toldBy = 0
                /\ worker'[New].startedBy = c /\ worker'[New].restartNumber = restartNumber
                /\ call'[c].at = "raceFinish" /\ call'[c].waitingToFinish = <<w>>
                /\ call'[c].waitingToStart = <<New>> /\ call'[c].awaited = <<w>>
           /\ ~Replaces(c) =>
                /\ Started' = Started /\ workerCount' = workerCount
                /\ call'[c].at = "loop" /\ call'[c].waitingToFinish = Append(s.waitingToFinish, w)
                /\ call'[c].waitingToStart = s.waitingToStart /\ call'[c].awaited = s.awaited
<1>1. PICK s \in CallState : s = call[c] /\ s.at = "loop" /\ s.todo # <<>> /\ s.todo \in Seq(Started)
  BY CallFacts DEF ShutDown, CallState
<1>2. PICK w \in Started : /\ w = Head(s.todo) /\ ToSet(s.todo) = {w} \cup ToSet(Tail(s.todo))
                           /\ Tail(s.todo) \in Seq(Started)
  BY <1>1, HeadTailSet
<1>3. w \in Untold /\ (Replaces(c) => ~IsJob(w))
  <2>1. ~WasShutdown(w)
    BY <1>1, <1>2 DEF ShutDown
  <2> QED
    BY <1>1, <1>2, <2>1 DEF RestartInv, TodoInv, Untold
<1>4. worker[w].state = "running" /\ worker[w] \in ThreadState /\ call \in [Callers -> CallState]
  BY <1>3, StateFacts, SMTT(30) DEF Untold, Live, TypeInv
<1> DEFINE rest == [s EXCEPT !.todo = Tail(s.todo), !.waitingToFinish = Append(s.waitingToFinish, w)]
<1>5. CASE Replaces(c)
  <2>1. /\ worker' = Append(Told(w, c), StartCopy(w, c)) /\ workerCount' = Threads
        /\ call' = [call EXCEPT ![c] =
             [rest EXCEPT !.waitingToStart = Append(s.waitingToStart, New),
                !.at = IF Full(c, Append(s.waitingToFinish, w)) THEN "raceFinish"
                       ELSE IF Full(c, Append(s.waitingToStart, New)) THEN "raceStart" ELSE "loop",
                !.awaited = IF Full(c, Append(s.waitingToFinish, w)) THEN Append(s.waitingToFinish, w)
                            ELSE Append(s.waitingToStart, New)]]
    BY <1>1, <1>2, <1>3, <1>5 DEF ShutDown, Overlapping, IsJob
  <2>2. s.limit = 1 /\ s.waitingToFinish = <<>> /\ s.waitingToStart = <<>>
    <3>1. Called(c)
      BY <1>1, CallFacts
    <3> QED
      BY <1>1, <1>5, <3>1 DEF RestartInv, ShapeInv, RestartShape
  <2>3. Append(s.waitingToFinish, w) = <<w>> /\ Append(s.waitingToStart, New) = <<New>>
    BY <2>2
  <2>4. Full(c, <<w>>)
    BY <1>1, <2>2 DEF Full
  <2>5. call' = [call EXCEPT ![c] =
           [rest EXCEPT !.waitingToStart = <<New>>, !.at = "raceFinish", !.awaited = <<w>>]]
    BY <2>1, <2>3, <2>4
  <2>6. /\ call'[c].todo = Tail(s.todo) /\ call'[c].number = s.number /\ call'[c].limit = s.limit
        /\ call'[c].at = "raceFinish" /\ call'[c].waitingToFinish = <<w>>
        /\ call'[c].waitingToStart = <<New>> /\ call'[c].awaited = <<w>>
        /\ \A d \in Callers \ {c} : call'[d] = call[d]
    BY <1>4, <2>3, <2>5 DEF CallState
  <2>7. PICK n \in Nat : n = Len(worker) /\ Started = 1 .. n /\ New = n + 1
    BY StateFacts DEF New
  <2> DEFINE u == Told(w, c)
             t == StartCopy(w, c)
  <2>8. /\ u \in Seq(ThreadState) /\ Len(u) = n /\ t \in ThreadState
        /\ u[w].toldBy = c /\ u[w].state = "running" /\ (u[w].started <=> worker[w].started)
        /\ SameThread(worker[w], u[w]) /\ \A v \in Started : v # w => u[v] = worker[v]
    BY <1>4, <2>7, ToldFacts
  <2>9. /\ t.state = "running" /\ ~t.started /\ t.index = worker[w].index /\ t.toldBy = 0
        /\ t.startedBy = c /\ t.restartNumber = restartNumber
    BY DEF StartCopy, Thread
  <2> HIDE DEF u, t
  <2>10. /\ Len(worker') = n + 1 /\ worker'[n + 1] = t /\ DOMAIN worker' = 1 .. n + 1
         /\ \A v \in 1 .. n : worker'[v] = u[v]
    BY <2>1, <2>8 DEF u, t
  <2>11. Started' = Started \cup {New} /\ New \notin Started
    BY <2>7, <2>10 DEF Started
  <2>12. /\ w \in Started' /\ SameThread(worker[w], worker'[w]) /\ worker'[w].toldBy = c
         /\ worker'[w].state = "running" /\ (worker'[w].started <=> worker[w].started)
         /\ \A v \in Started : v # w => v \in Started' /\ worker'[v] = worker[v]
    BY <2>7, <2>8, <2>10, <2>11
  <2>13. /\ worker'[New].state = "running" /\ ~worker'[New].started
         /\ worker'[New].index = worker[w].index /\ worker'[New].toldBy = 0
         /\ worker'[New].startedBy = c /\ worker'[New].restartNumber = restartNumber
    BY <2>7, <2>9, <2>10
  <2> QED
    BY <1>1, <1>2, <1>3, <1>5, <2>1, <2>6, <2>11, <2>12, <2>13, ZenonT(60)
<1>6. CASE ~Replaces(c)
  <2>1. worker' = Told(w, c) /\ workerCount' = workerCount /\ call' = [call EXCEPT ![c] = rest]
    BY <1>1, <1>2, <1>6 DEF ShutDown
  <2>2. /\ call'[c].todo = Tail(s.todo) /\ call'[c].number = s.number /\ call'[c].limit = s.limit
        /\ call'[c].at = "loop" /\ call'[c].waitingToFinish = Append(s.waitingToFinish, w)
        /\ call'[c].waitingToStart = s.waitingToStart /\ call'[c].awaited = s.awaited
        /\ \A d \in Callers \ {c} : call'[d] = call[d]
    BY <1>1, <1>4, <2>1 DEF CallState
  <2>3. /\ worker'[w].toldBy = c /\ worker'[w].state = "running" /\ (worker'[w].started <=> worker[w].started)
        /\ SameThread(worker[w], worker'[w]) /\ \A v \in Started : v # w => worker'[v] = worker[v]
        /\ worker' \in Seq(ThreadState) /\ Len(worker') = Len(worker)
    BY <1>4, <2>1, ToldFacts
  <2>4. Started' = Started
    BY <2>3, TypeKept
  <2> QED
    BY <1>1, <1>2, <1>3, <1>6, <2>1, <2>2, <2>3, <2>4, ZenonT(60)
<1> QED
  BY <1>5, <1>6
\* A shutdown that was called has every worker that nobody told before it.
LEMMA LoopAlone ==
  ASSUME TypeInv, RestartInv, NEW w \in Untold, ~IsJob(w),
         NEW d \in Callers, Called(d), ~Replaces(d)
  PROVE  Resolved(d) /\ Running(d)
<1>1. w \in ToSet(call[d].todo)
  BY DEF RestartInv, OldInv
<1>2. call[d].todo # <<>>
  BY <1>1 DEF ToSet
<1>3. call[d].at = "loop"
  BY <1>2 DEF RestartInv, TodoInv, ShapeInv, ShutdownShape
<1> QED
  BY <1>3 DEF Resolved, Running

LEMMA RestartShutDown ==
  ASSUME TypeInv, RestartInv, MaxWorkersDown = 1, NEW c \in Callers, ShutDown(c)
  PROVE  RestartInv'
<1>1. TypeInv'
  BY TypeShutDown
<1>2. PICK w \in Started, s \in CallState :
        /\ s = call[c] /\ s.at = "loop" /\ s.todo # <<>>
        /\ ToSet(s.todo) = {w} \cup ToSet(Tail(s.todo)) /\ Tail(s.todo) \in Seq(Started)
        /\ w \in Untold /\ (Replaces(c) => ~IsJob(w))
        /\ w \in Started' /\ SameThread(worker[w], worker'[w]) /\ worker'[w].toldBy = c
        /\ worker'[w].state = "running" /\ (worker'[w].started <=> worker[w].started)
        /\ \A v \in Started : v # w => v \in Started' /\ worker'[v] = worker[v]
        /\ call'[c].todo = Tail(s.todo) /\ call'[c].number = s.number /\ call'[c].limit = s.limit
        /\ \A d \in Callers \ {c} : call'[d] = call[d]
        /\ Replaces(c) =>
             /\ Started' = Started \cup {New} /\ New \notin Started /\ workerCount' = Threads
             /\ worker'[New].state = "running" /\ ~worker'[New].started
             /\ worker'[New].index = worker[w].index /\ worker'[New].toldBy = 0
             /\ worker'[New].startedBy = c /\ worker'[New].restartNumber = restartNumber
             /\ call'[c].at = "raceFinish" /\ call'[c].waitingToFinish = <<w>>
             /\ call'[c].waitingToStart = <<New>> /\ call'[c].awaited = <<w>>
        /\ ~Replaces(c) =>
             /\ Started' = Started /\ workerCount' = workerCount
             /\ call'[c].at = "loop" /\ call'[c].waitingToFinish = Append(s.waitingToFinish, w)
             /\ call'[c].waitingToStart = s.waitingToStart /\ call'[c].awaited = s.awaited
  BY ShutDownFacts
<1>3. restartNumber' = restartNumber /\ \A d \in Callers : Called(d)' <=> Called(d)
  BY DEF ShutDown, Called
<1>4. Called(c) /\ Resolved(c) /\ c \in Nat \ {0}
  BY <1>2, CallFacts DEF Resolved
<1>5. \A v \in Started :
        /\ v \in Started' /\ SameThread(worker[v], worker'[v]) /\ (IsJob(v)' <=> IsJob(v))
        /\ (worker'[v].started <=> worker[v].started) /\ worker'[v].state = worker[v].state
        /\ (v \in Live' <=> v \in Live)
        /\ v # w => worker'[v].toldBy = worker[v].toldBy
  BY <1>2 DEF SameThread, IsJob, Live, Untold
<1>6. worker[w].toldBy = 0 /\ WasShutdown(w)' /\ w \in Live
  BY <1>2, <1>4 DEF Untold, WasShutdown
<1>7. \A v \in Started : v \in Untold' <=> v \in Untold /\ v # w
  BY <1>5, <1>6 DEF Untold, WasShutdown
<1>8. \A v \in Started' \ Started :
        /\ Replaces(c) /\ v = New /\ worker'[v].index = worker[w].index /\ ~IsJob(v)' /\ v \in Untold'
        /\ worker'[v].toldBy = 0 /\ worker'[v].startedBy = c /\ worker'[v].restartNumber = restartNumber
        /\ worker'[v].state = "running" /\ ~worker'[v].started /\ v \in Live'
  BY <1>2 DEF IsJob, Untold, Live, WasShutdown
<1>9. ~IsJob(w) => \A d \in Callers \ {c} : Called(d) => Replaces(d)
  BY <1>2, <1>4, LoopAlone DEF RestartInv, OneTurn
<1>10. \A v \in Started : v \notin Live => worker[v].state = "exited"
  BY StateFacts DEF RestartInv, ThreadInv, Live, ThreadState
<1>11. \A d \in Callers \ {c} : Aside(d) /\ ~Resolved(d)
  <2> SUFFICES ASSUME NEW d \in Callers \ {c} PROVE Aside(d) /\ ~Resolved(d)
    OBVIOUS
  <2>1. ~Resolved(d)
    BY <1>4 DEF RestartInv, OneTurn
  <2>2. \A v \in Started' \ Started : worker'[v].index = Job \/ Replaces(d) \/ ~Called(d)
    BY <1>2, <1>8, <1>9
  <2>3. \A v \in Started : \/ worker'[v].toldBy = worker[v].toldBy
                           \/ worker[v].toldBy = 0 /\ worker'[v].toldBy \notin {0, d}
    BY <1>2, <1>4, <1>5, <1>6
  <2> QED
    BY <1>2, <1>3, <1>5, <1>8, <1>10, <2>1, <2>2, <2>3 DEF Aside
<1>12. JobInv'
  <2>1. (\E d \in Callers : Replaces(d) /\ ~Called(d)) =>
          workerCount' = Threads /\ \A v \in Started' : ~IsJob(v)'
    BY <1>2, <1>5, <1>8 DEF RestartInv, JobInv
  <2>2. ASSUME NEW v \in Started', IsJob(v)'
        PROVE  worker'[v].startedBy = 0 /\ (WasShutdown(v)' => ~Replaces(worker'[v].toldBy))
    <3>1. v \in Started /\ IsJob(v) /\ (v = w => ~Replaces(c))
      BY <1>2, <1>5, <1>8, <2>2
    <3> QED
      BY <1>2, <1>5, <3>1 DEF RestartInv, JobInv, SameThread, WasShutdown
  <2> QED
    BY <1>3, <2>1, <2>2 DEF JobInv
<1>13. CurrentInv'
  <2>1. ASSUME NEW v \in Untold', NEW x \in Untold', ~IsJob(v)', worker'[v].index = worker'[x].index
        PROVE  v = x
    <3>1. CASE v \in Started /\ x \in Started
      BY <1>5, <1>7, <2>1, <3>1 DEF RestartInv, CurrentInv, SameThread
    <3>2. CASE v \notin Started /\ x \notin Started
      BY <1>8, <3>2 DEF Untold, Live
    <3>3. \A y \in Untold' : y \in Started => worker'[y].index # worker[w].index \/ IsJob(w)
      BY <1>2, <1>5, <1>7 DEF RestartInv, CurrentInv, SameThread
    <3>4. CASE v \in Started /\ x \notin Started
      <4>1. worker'[x].index = worker[w].index /\ ~IsJob(w)
        BY <1>2, <1>8, <3>4 DEF Untold, Live
      <4> QED
        BY <2>1, <3>3, <3>4, <4>1
    <3>5. CASE v \notin Started /\ x \in Started
      <4>1. worker'[v].index = worker[w].index /\ ~IsJob(w)
        BY <1>2, <1>8, <3>5 DEF Untold, Live
      <4> QED
        BY <2>1, <3>3, <3>5, <4>1
    <3> QED
      BY <3>1, <3>2, <3>4, <3>5
  <2>2. ASSUME \A d \in Callers : ~Replaces(d) => ~Called(d), NEW i \in 1 .. Threads
        PROVE  \/ \E v \in Untold' : worker'[v].index = i
               \/ \E v \in Started' : worker'[v].index = i /\ Failed(v)'
    <3>1. CASE \E v \in Untold : worker[v].index = i
      <4>1. PICK v \in Untold : worker[v].index = i
        BY <3>1
      <4>2. CASE v = w
        <5>1. Replaces(c) /\ New \in Started' \ Started
          BY <1>2, <1>4, <2>2
        <5> QED
          BY <1>8, <4>1, <4>2, <5>1
      <4>3. CASE v # w
        <5>1. v \in Untold' /\ worker'[v].index = i
          BY <1>5, <1>7, <4>1, <4>3 DEF Untold, Live, SameThread
        <5> QED
          BY <5>1
      <4> QED
        BY <4>2, <4>3
    <3>2. CASE \E v \in Started : worker[v].index = i /\ Failed(v)
      <4>1. PICK v \in Started : worker[v].index = i /\ Failed(v)
        BY <3>2
      <4>2. v # w
        BY <1>2, <4>1 DEF Untold, Live, Failed
      <4>3. v \in Started' /\ worker'[v].index = i /\ Failed(v)'
        BY <1>2, <4>1, <4>2 DEF Failed, WasShutdown
      <4> QED
        BY <4>3
    <3> QED
      BY <2>2, <3>1, <3>2 DEF RestartInv, CurrentInv
  <2> QED
    BY <1>3, <2>1, <2>2 DEF CurrentInv
<1>14. ASSUME NEW v \in Started' PROVE ThreadInv(v)' /\ LastInv(v)'
  <2>1. CASE v \notin Started
    <3>1. ThreadInv(v)'
      BY <1>3, <1>4, <1>8, <2>1, StateFacts DEF ThreadInv, Called
    <3>2. LastInv(v)'
      BY <1>8, <2>1, CallFacts DEF LastInv
    <3> QED
      BY <3>1, <3>2
  <2>2. CASE v \in Started /\ v # w
    BY <1>2, <1>3, <1>5, <2>2 DEF RestartInv, ThreadInv, LastInv, IsJob
  <2>3. CASE v = w
    <3>1. ThreadInv(v)'
      BY <1>2, <1>3, <1>4, <1>5, <2>3 DEF RestartInv, ThreadInv, SameThread, Called, Live
    <3>2. ~IsJob(w) => \A d \in Callers : d < c => Replaces(d)
      <4>1. \A d \in Callers : d < c => Called(d) /\ d # c
        BY <1>4, CallFacts, StateFacts DEF Called
      <4> QED
        BY <1>9, <4>1
    <3>3. LastInv(v)'
      BY <1>2, <1>5, <2>3, <3>2 DEF LastInv
    <3> QED
      BY <3>1, <3>3
  <2> QED
    BY <2>1, <2>2, <2>3
<1>15. TodoInv(c) /\ ShapeInv(c) /\ WaitInv(c) /\ OldInv(c)
  BY DEF RestartInv
<1>16. TodoInv(c)'
  <2>1. \A v \in ToSet(Tail(s.todo)) : v \in Started /\ v \in ToSet(s.todo)
    BY <1>2, ElementSet
  <2>2. \A v \in ToSet(Tail(s.todo)) : WasShutdown(v)' \/ v \in Live'
    BY <1>2, <1>5, <1>6, <1>15, <2>1 DEF TodoInv, WasShutdown
  <2>3. \A v \in ToSet(Tail(s.todo)) : Replaces(c) => ~IsJob(v)'
    BY <1>2, <1>5, <1>15, <2>1 DEF TodoInv
  <2> QED
    BY <1>2, <2>2, <2>3 DEF TodoInv
<1>17. OldInv(c)'
  <2> SUFFICES ASSUME NEW v \in Untold'
               PROVE  /\ (Calls[c] = "http" => ~IsJob(v)') /\ worker'[v].restartNumber < c =>
                           v \in ToSet(call'[c].todo)
                      /\ ~Replaces(c) /\ ~IsJob(v)' => v \in ToSet(call'[c].todo)
    BY DEF OldInv
  <2>1. CASE v \in Started
    <3>1. v \in Untold /\ v # w
      BY <1>7, <2>1
    <3>2. (Calls[c] = "http" => ~IsJob(v)) /\ worker[v].restartNumber < c => v \in ToSet(s.todo)
      BY <1>2, <1>4, <1>15, <3>1 DEF OldInv
    <3>3. ~Replaces(c) /\ ~IsJob(v) => v \in ToSet(s.todo)
      BY <1>2, <1>4, <1>15, <3>1 DEF OldInv
    <3> QED
      BY <1>2, <1>5, <2>1, <3>1, <3>2, <3>3 DEF SameThread
  <2>2. CASE v \notin Started
    <3>1. v \in Started' \ Started
      BY <2>2 DEF Untold, Live
    <3>2. ~(worker'[v].restartNumber < c)
      BY <1>4, <1>8, <3>1, StateFacts DEF Called
    <3> QED
      BY <1>8, <3>1, <3>2
  <2> QED
    BY <2>1, <2>2
<1>18. ASSUME Replaces(c) PROVE RestartShape(c)' /\ WaitInv(c)'
  <2>1. s.limit = 1
    BY <1>2, <1>4, <1>15, <1>18 DEF ShapeInv, RestartShape
  <2>2. /\ Len(<<w>>) = 1 /\ <<w>>[1] = w /\ Len(<<New>>) = 1 /\ <<New>>[1] = New
        /\ w \in Live' /\ call'[c].at = "raceFinish"
    BY <1>2, <1>5, <1>6, <1>18
  <2>3. RestartShape(c)'
    <3>1. /\ worker'[w].toldBy = c /\ worker'[New].startedBy = c /\ ~worker'[New].started
          /\ worker'[New].index = worker'[w].index /\ call'[c].limit = 1
      BY <1>2, <1>18, <2>1 DEF SameThread
    <3>2. call'[c].awaited = <<w>> /\ call'[c].waitingToFinish = <<w>> /\ call'[c].waitingToStart = <<New>>
      BY <1>2, <1>18
    <3> QED
      BY <2>2, <3>1, <3>2 DEF RestartShape
  <2>4. \A v \in Live : worker[v].toldBy # c /\ (worker[v].startedBy = c => worker[v].started)
    BY <1>2, <1>15, <1>18 DEF WaitInv
  <2>5. WaitInv(c)'
    <3> SUFFICES ASSUME NEW v \in Live'
                 PROVE  /\ worker'[v].toldBy = c => v = w
                        /\ worker'[v].startedBy = c /\ ~worker'[v].started => v = New
      BY <1>2, <1>18, <2>2 DEF WaitInv
    <3>1. CASE v \in Started
      BY <1>5, <2>4, <3>1 DEF SameThread
    <3>2. CASE v \notin Started
      BY <1>4, <1>8, <3>2 DEF Live
    <3> QED
      BY <3>1, <3>2
  <2> QED
    BY <2>3, <2>5
<1>19. ASSUME ~Replaces(c) PROVE ShutdownShape(c)' /\ WaitInv(c)'
  <2>1. /\ s.limit = 0 /\ s.waitingToStart = <<>>
        /\ \A v \in ToSet(s.waitingToFinish \o s.awaited) : worker[v].toldBy = c
    BY <1>2, <1>4, <1>15, <1>19 DEF ShapeInv, ShutdownShape
  <2>2. PICK t, u \in Seq(Started) : t = s.waitingToFinish /\ u = s.awaited
    BY DEF CallState
  <2>3. /\ Append(t, w) \in Seq(Started) /\ ToSet(Append(t, w)) = ToSet(t) \cup {w}
        /\ ToSet(t \o u) = ToSet(t) \cup ToSet(u) /\ ToSet(t \o u) \subseteq Started
    <3>1. t \o u \in Seq(Started) /\ ToSet(t \o u) = ToSet(t) \cup ToSet(u)
      BY ConcatSet
    <3> QED
      BY <3>1, AppendSet, ElementSet
  <2>4. ToSet(Append(t, w) \o u) = ToSet(Append(t, w)) \cup ToSet(u)
    <3>1. PICK a \in Seq(Started) : a = Append(t, w)
      BY <2>3
    <3>2. ToSet(a \o u) = ToSet(a) \cup ToSet(u)
      BY ConcatSet
    <3> QED
      BY <3>1, <3>2
  <2>5. \A v \in ToSet(Append(t, w) \o u) : worker'[v].toldBy = c
    <3>1. \A v \in ToSet(t \o u) : worker'[v].toldBy = c
      BY <1>2, <1>5, <2>1, <2>2, <2>3
    <3> QED
      BY <1>2, <2>3, <2>4, <3>1
  <2>6. ShutdownShape(c)'
    BY <1>2, <1>19, <2>1, <2>2, <2>5 DEF ShutdownShape
  <2>7. \A v \in Live : /\ worker[v].toldBy = c => v \in ToSet(t)
                        /\ worker[v].startedBy = c => worker[v].started
    BY <1>2, <1>15, <1>19, <2>2 DEF WaitInv
  <2>8. WaitInv(c)'
    <3> SUFFICES ASSUME NEW v \in Live'
                 PROVE  /\ worker'[v].toldBy = c => v \in ToSet(Append(t, w))
                        /\ worker'[v].startedBy = c => worker'[v].started
      BY <1>2, <1>19, <2>2 DEF WaitInv
    <3>1. v \in Started
      BY <1>2, <1>19 DEF Live
    <3> QED
      BY <1>5, <2>3, <2>7, <3>1 DEF SameThread
  <2> QED
    BY <2>6, <2>8
<1>20. ShapeInv(c)' /\ WaitInv(c)'
  BY <1>2, <1>3, <1>15, <1>18, <1>19 DEF ShapeInv
<1> QED
  BY <1>1, <1>11, <1>12, <1>13, <1>14, <1>16, <1>17, <1>20, OthersKept DEF RestartInv
LEMMA RestartWorkerStarts ==
  ASSUME TypeInv, RestartInv, NEW w \in Started, WorkerStarts(w)
  PROVE  RestartInv'
<1>1. TypeInv' /\ restartNumber' = restartNumber /\ workerCount' = workerCount
  BY TypeWorkerStarts DEF WorkerStarts
<1>2. w \in Live /\ ~worker[w].started /\ worker \in Seq(ThreadState) /\ worker[w] \in ThreadState
  BY StateFacts DEF WorkerStarts, TypeInv
<1>3. PICK c \in 0 .. Len(Calls) : c = worker[w].startedBy
  BY <1>2 DEF ThreadState
<1>4. /\ SameThread(worker[w], worker'[w]) /\ worker'[w].started
      /\ worker'[w].state = worker[w].state /\ worker'[w].toldBy = worker[w].toldBy
      /\ \A v \in Started : v # w => worker'[v] = worker[v]
  <2> DEFINE t == [worker[w] EXCEPT !.started = TRUE]
  <2>1. worker' = [worker EXCEPT ![w] = t]
    BY <1>2 DEF WorkerStarts
  <2>2. /\ SameThread(worker[w], t) /\ t.started
        /\ t.state = worker[w].state /\ t.toldBy = worker[w].toldBy
    BY <1>2 DEF ThreadState, SameThread
  <2> HIDE DEF t
  <2>3. worker'[w] = t /\ \A v \in Started : v # w => worker'[v] = worker[v]
    BY <1>2, <2>1, StateFacts
  <2> QED
    BY <2>2, <2>3
<1>5. Started' = Started /\ Live' = Live /\ Untold' = Untold
  <2>1. Len(worker') = Len(worker) /\ worker' \in Seq(ThreadState)
    <3>1. worker' \in Seq(ThreadState)
      BY <1>1 DEF TypeInv
    <3> QED
      BY <1>2, <3>1 DEF WorkerStarts
  <2>2. Started' = Started
    BY <2>1, TypeKept
  <2>3. Live' = Live
    BY <1>4, <2>2 DEF Live
  <2> QED
    BY <1>4, <2>2, <2>3 DEF Untold, Live, WasShutdown
<1>6. \A v \in Started :
        /\ SameThread(worker[v], worker'[v]) /\ worker'[v].toldBy = worker[v].toldBy
        /\ worker'[v].state = worker[v].state /\ (IsJob(v)' <=> IsJob(v))
        /\ v # w => (worker'[v].started <=> worker[v].started)
        /\ v \notin Live => worker[v].state = "exited"
  <2>1. \A v \in Started : v \notin Live => worker[v].state = "exited"
    BY StateFacts DEF RestartInv, ThreadInv, Live, ThreadState
  <2> QED
    BY <1>4, <2>1 DEF SameThread, IsJob
<1>7. IsJob(w) => c = 0
  BY <1>3 DEF RestartInv, JobInv
<1>8. \A d \in Callers \ {c} : call'[d] = call[d]
  BY <1>3, <1>7 DEF WorkerStarts, TypeInv
<1>9. \A d \in Callers \ {c} : Aside(d) /\ ~Resolved(d)
  BY <1>1, <1>3, <1>5, <1>6, <1>8, ZenonT(60) DEF Aside, Called, WorkerStarts, EventTurn
<1>10. JobInv'
  BY <1>1, <1>5, <1>6 DEF RestartInv, JobInv, Called, SameThread, WasShutdown
<1>11. CurrentInv'
  BY <1>1, <1>5, <1>6 DEF RestartInv, CurrentInv, Called, SameThread, Failed, WasShutdown, Untold, Live
<1>12. \A v \in Started' : ThreadInv(v)' /\ LastInv(v)'
  BY <1>1, <1>2, <1>4, <1>5, <1>6 DEF RestartInv, ThreadInv, LastInv, SameThread
<1>13. ASSUME c \in Callers
       PROVE  TodoInv(c)' /\ ShapeInv(c)' /\ WaitInv(c)' /\ OldInv(c)'
  <2>1. /\ TodoInv(c) /\ ShapeInv(c) /\ WaitInv(c) /\ OldInv(c) /\ (Called(c)' <=> Called(c))
        /\ Replaces(c) /\ ~IsJob(w) /\ c # 0
    BY <1>1, <1>3, <1>7, <1>13, CallFacts DEF RestartInv, ThreadInv, Called
  <2>2. PICK s \in CallState : s = call[c]
    BY <1>13, CallFacts
  <2>3. /\ call'[c].at = s.at /\ call'[c].todo = s.todo /\ call'[c].awaited = s.awaited
        /\ call'[c].waitingToFinish = s.waitingToFinish
        /\ call'[c].waitingToStart = SplicedFrom(s.waitingToStart, w)
        /\ call'[c].number = s.number /\ call'[c].limit = s.limit
    <3>1. call'[c] = [s EXCEPT !.waitingToStart = SplicedFrom(@, w)]
      BY <1>3, <1>13, <2>1, <2>2 DEF WorkerStarts, Overlapping, IsJob, TypeInv
    <3> QED
      BY <3>1 DEF CallState
  <2>4. \/ s.at = "raceFinish" /\ s.waitingToStart = <<w>>
        \/ s.at = "raceStart" /\ s.awaited[1] = w
    BY <1>2, <1>3, <2>1, <2>2 DEF WaitInv
  <2>5. Called(c) /\ RestartShape(c) /\ s.number = c
    <3>1. Called(c)
      BY <1>13, <2>2, <2>4, CallFacts
    <3> QED
      BY <2>1, <2>2, <3>1 DEF ShapeInv
  <2>6. s.waitingToStart = <<w>>
    <3>1. CASE s.at = "raceStart"
      <4>1. Len(s.awaited) = 1 /\ s.waitingToStart = s.awaited
        BY <1>2, <2>2, <2>4, <2>5, <3>1 DEF RestartShape
      <4> QED
        BY <1>13, <2>2, <2>4, <3>1, <4>1, CallFacts
    <3> QED
      BY <2>4, <3>1
  <2>7. call'[c].waitingToStart = <<>>
    BY <2>3, <2>6, SplicedSet DEF CallState
  <2>8. TodoInv(c)'
    BY <1>5, <1>6, <1>13, <2>1, <2>2, <2>3, CallFacts DEF TodoInv, WasShutdown
  <2>9. OldInv(c)'
    BY <1>5, <1>6, <2>1, <2>2, <2>3 DEF OldInv, SameThread, Untold, Live
  <2>10. RestartShape(c)'
    <3>1. CASE s.at = "raceFinish"
      <4>1. /\ s.limit = 1 /\ Len(s.awaited) = 1 /\ worker[s.awaited[1]].toldBy = c
            /\ s.waitingToFinish = IF s.awaited[1] \in Live THEN s.awaited ELSE <<>>
        BY <2>2, <2>5, <3>1 DEF RestartShape
      <4>2. s.awaited[1] \in Started
        BY <1>13, <2>2, <4>1, CallFacts
      <4> QED
        BY <1>5, <1>6, <2>3, <2>7, <3>1, <4>1, <4>2 DEF RestartShape
    <3>2. CASE s.at = "raceStart"
      <4>1. /\ s.limit = 1 /\ Len(s.awaited) = 1 /\ s.awaited[1] = w /\ s.waitingToFinish = <<>>
        BY <2>2, <2>4, <2>5, <3>2 DEF RestartShape
      <4>2. worker'[w].startedBy = c /\ ~IsJob(w)' /\ worker'[w].started
        BY <1>3, <1>4, <1>6, <2>1 DEF SameThread
      <4> QED
        BY <2>3, <2>7, <3>2, <4>1, <4>2 DEF RestartShape
    <3> QED
      BY <2>4, <3>1, <3>2
  <2>11. WaitInv(c)'
    <3> SUFFICES ASSUME NEW v \in Live
                 PROVE  /\ worker'[v].toldBy = c => s.at = "raceFinish" /\ s.awaited[1] = v
                        /\ worker'[v].startedBy = c => worker'[v].started
      BY <1>5, <2>1, <2>3 DEF WaitInv
    <3>1. worker'[v].toldBy = c => s.at = "raceFinish" /\ s.awaited[1] = v
      BY <1>6, <2>1, <2>2 DEF WaitInv, Live
    <3>2. CASE v = w
      BY <1>4, <3>1, <3>2
    <3>3. CASE v # w
      <4>1. <<v>> # <<w>>
        BY <3>3
      <4>2. worker[v].startedBy = c => worker[v].started
        BY <2>1, <2>2, <2>4, <2>6, <3>3, <4>1 DEF WaitInv
      <4> QED
        BY <1>6, <3>1, <3>3, <4>2 DEF SameThread, Live
    <3> QED
      BY <3>2, <3>3
  <2> QED
    BY <2>1, <2>3, <2>5, <2>8, <2>9, <2>10, <2>11 DEF ShapeInv
<1> QED
  BY <1>1, <1>9, <1>10, <1>11, <1>12, <1>13, OthersKept DEF RestartInv

LEMMA RestartStartJob ==
  ASSUME TypeInv, RestartInv, Allowed = {}, StartJob
  PROVE  RestartInv'
<1>1. TypeInv' /\ restartNumber' = restartNumber /\ call' = call
  BY TypeStartJob DEF StartJob
<1>2. PICK n \in Nat : n = Len(worker) /\ Started = 1 .. n /\ New = n + 1
  BY StateFacts DEF New
<1>3. /\ worker' = Append(worker, Thread(Job, 0, 0)) /\ worker \in Seq(ThreadState)
      /\ \A c \in Callers : Replaces(c) => Called(c)
  BY CallFacts DEF StartJob, TypeInv
<1>4. /\ DOMAIN worker' = 1 .. n + 1 /\ worker'[n + 1] = Thread(Job, 0, 0)
      /\ \A v \in Started : worker'[v] = worker[v]
  BY <1>2, <1>3
<1>5. /\ Started' = Started \cup {New} /\ New \notin Started
      /\ \A v \in Started : /\ v \in Live' <=> v \in Live
                            /\ v \in Untold' <=> v \in Untold
                            /\ SameThread(worker[v], worker'[v])
                            /\ v \notin Live => worker[v].state = "exited"
  <2>1. \A v \in Started : v \notin Live => worker[v].state = "exited"
    BY StateFacts DEF RestartInv, ThreadInv, Live, ThreadState
  <2> QED
    BY <1>2, <1>4, <2>1 DEF Started, Live, Untold, WasShutdown, SameThread
<1>6. \A v \in Started' \ Started :
        /\ worker'[v].index = Job /\ IsJob(v)' /\ worker'[v].toldBy = 0 /\ worker'[v].startedBy = 0
        /\ worker'[v].restartNumber = restartNumber /\ worker'[v].state = "running" /\ v \in Live'
  BY <1>2, <1>4, <1>5 DEF Thread, IsJob, Live
<1>7. \A d \in Callers : Aside(d) /\ ~Resolved(d)
  <2> SUFFICES ASSUME NEW d \in Callers PROVE Aside(d) /\ ~Resolved(d)
    OBVIOUS
  <2>1. d # 0 /\ ~Resolved(d)
    BY CallFacts DEF StartJob, EventTurn
  <2> QED
    BY <1>1, <1>4, <1>5, <1>6, <2>1 DEF Aside, Called
<1>8. JobInv'
  <2>1. ~ \E c \in Callers : Replaces(c) /\ ~Called(c)'
    BY <1>1, <1>3 DEF Called
  <2>2. ASSUME NEW v \in Started', IsJob(v)'
        PROVE  worker'[v].startedBy = 0 /\ (WasShutdown(v)' => ~Replaces(worker'[v].toldBy))
    <3>1. CASE v \in Started
      BY <1>4, <2>2, <3>1 DEF RestartInv, JobInv, IsJob, WasShutdown
    <3>2. CASE v \notin Started
      BY <1>6, <3>2 DEF WasShutdown
    <3> QED
      BY <3>1, <3>2
  <2> QED
    BY <2>1, <2>2 DEF JobInv
<1>9. CurrentInv'
  <2>1. ASSUME NEW v \in Untold', NEW x \in Untold', ~IsJob(v)', worker'[v].index = worker'[x].index
        PROVE  v = x
    <3>1. v \in Started /\ x \in Started
      BY <1>6, <2>1 DEF Untold, Live, IsJob
    <3> QED
      BY <1>4, <1>5, <2>1, <3>1 DEF RestartInv, CurrentInv, IsJob
  <2>2. ASSUME NEW i \in 1 .. Threads, \E v \in Untold : worker[v].index = i
        PROVE  \E v \in Untold' : worker'[v].index = i
    BY <1>4, <1>5, <2>2 DEF Untold, Live
  <2>3. ASSUME NEW i \in 1 .. Threads, \E v \in Started : worker[v].index = i /\ Failed(v)
        PROVE  \E v \in Started' : worker'[v].index = i /\ Failed(v)'
    BY <1>4, <1>5, <2>3 DEF Failed, WasShutdown
  <2> QED
    BY <1>1, <2>1, <2>2, <2>3 DEF RestartInv, CurrentInv, Called
<1>10. ASSUME NEW v \in Started' PROVE ThreadInv(v)' /\ LastInv(v)'
  <2>1. CASE v \in Started
    BY <1>1, <1>4, <1>5, <2>1 DEF RestartInv, ThreadInv, LastInv, IsJob
  <2>2. CASE v \notin Started
    BY <1>1, <1>6, <2>2, StateFacts DEF ThreadInv, LastInv
  <2> QED
    BY <2>1, <2>2
<1>11. OneTurn' /\ \A d \in Callers : TodoInv(d)' /\ ShapeInv(d)' /\ WaitInv(d)' /\ OldInv(d)'
  <2>1. 0 \notin Callers
    BY StateFacts
  <2> QED
    BY <1>1, <1>7, <2>1, OthersKept
<1> QED
  BY <1>8, <1>9, <1>10, <1>11 DEF RestartInv
\* An exit ends a thread.  Only the exit of a worker that nobody told starts
\* another, and this one is not about any call.
LEMMA ExitEffect ==
  ASSUME TypeInv, RestartInv, Allowed = {}, NEW w \in Started, Exit(w)
  PROVE  /\ w \in Live /\ worker[w].started /\ worker'[w].state = "exited"
         /\ \A v \in Started :
              /\ v \in Started' /\ SameThread(worker[v], worker'[v]) /\ (IsJob(v)' <=> IsJob(v))
              /\ worker'[v].toldBy = worker[v].toldBy /\ (worker'[v].started <=> worker[v].started)
              /\ v \in Live' <=> v \in Live /\ v # w
              /\ v \notin Live' => worker'[v].state = "exited"
         /\ \A v \in Started' \ Started :
              /\ w \in Untold /\ ~IsJob(w) /\ v = New /\ worker'[v].index = worker[w].index
              /\ worker'[v].toldBy = 0 /\ worker'[v].startedBy = 0
              /\ worker'[v].restartNumber = restartNumber
              /\ worker'[v].state = "running" /\ v \in Live' /\ ~IsJob(v)'
         /\ Started' = Started => \/ w \notin Untold \/ IsJob(w)
                                  \/ worker[w].unexpectedRestarts = MAX_UNEXPECTED_RESTARTS
         /\ w \in Untold /\ ~IsJob(w) => \A c \in Callers : ~Running(c)
<1>1. PICK n \in Nat :
        /\ n = Len(worker) /\ Started = 1 .. n /\ New = n + 1
        /\ worker' \in Seq(ThreadState)
        /\ worker'[w].state = "exited" /\ SameThread(worker[w], worker'[w])
        /\ worker'[w].started = worker[w].started /\ worker'[w].toldBy = worker[w].toldBy
        /\ \A v \in Started : v # w => worker'[v] = worker[v]
        /\ NewThreads(w) = <<>> => Len(worker') = n
        /\ \A t : NewThreads(w) = <<t>> => Len(worker') = n + 1 /\ worker'[n + 1] = t
  BY ExitFacts
<1>2. w \in Live /\ worker[w].started /\ worker[w] \in ThreadState
  BY StateFacts DEF Exit
<1>3. ASSUME w \notin Untold \/ IsJob(w) PROVE NewThreads(w) = <<>>
  <2>1. WasShutdown(w) => ~(~Overlapping(w) /\ Replaces(worker[w].toldBy))
    BY DEF RestartInv, JobInv, Overlapping, IsJob
  <2>2. WasShutdown(w) \/ IsJob(w)
    BY <1>2, <1>3 DEF Untold
  <2> QED
    BY <2>1, <2>2 DEF NewThreads, IsJob
<1>4. ASSUME w \in Untold, ~IsJob(w)
      PROVE  /\ worker[w].unexpectedRestarts = MAX_UNEXPECTED_RESTARTS \/ NewThreads(w) # <<>>
             /\ \A c \in Callers : ~Running(c)
  <2>3. \A c \in Callers : ~Running(c)
    BY <1>4 DEF Exit, Untold, IsJob
  <2>1. CASE worker[w].unexpectedRestarts < MAX_UNEXPECTED_RESTARTS
    <3>1. ~WasShutdown(w) /\ worker[w].index # Job
      BY <1>4 DEF Untold, IsJob
    <3>2. NewThreads(w) = <<Thread(worker[w].index, worker[w].unexpectedRestarts + 1, 0)>>
      BY <2>1, <3>1 DEF NewThreads
    <3> QED
      BY <2>1, <3>2, <2>3
  <2>2. worker[w].unexpectedRestarts <= MAX_UNEXPECTED_RESTARTS /\ MAX_UNEXPECTED_RESTARTS \in Nat
        /\ worker[w].unexpectedRestarts \in Nat
    BY <1>2, WorkerAssumption DEF ThreadState
  <2> QED
    BY <2>1, <2>2, <2>3
<1>5. \/ Len(worker') = n /\ NewThreads(w) = <<>>
      \/ /\ Len(worker') = n + 1 /\ worker'[n + 1].state = "running" /\ worker'[n + 1].toldBy = 0
         /\ worker'[n + 1].index = worker[w].index /\ worker'[n + 1].restartNumber = restartNumber
         /\ worker'[n + 1].startedBy = 0 /\ w \in Untold /\ ~IsJob(w)
  <2>1. CASE NewThreads(w) = <<>>
    BY <1>1, <2>1
  <2>2. ASSUME NEW t \in ThreadState, NewThreads(w) = <<t>>, t.state = "running", t.toldBy = 0,
               t.index = worker[w].index, t.restartNumber = restartNumber,
               ~WasShutdown(w) => t.startedBy = 0
        PROVE  /\ Len(worker') = n + 1 /\ worker'[n + 1].state = "running" /\ worker'[n + 1].toldBy = 0
               /\ worker'[n + 1].index = worker[w].index /\ worker'[n + 1].restartNumber = restartNumber
               /\ worker'[n + 1].startedBy = 0 /\ w \in Untold /\ ~IsJob(w)
    <3>1. w \in Untold /\ ~IsJob(w)
      BY <1>3, <2>2, SMTT(30)
    <3> QED
      BY <1>1, <2>2, <3>1 DEF Untold
  <2> QED
    BY <2>1, <2>2, NewThreadsFacts
<1>6. Started = 1 .. n /\ Started' = 1 .. Len(worker') /\ (Len(worker') = n \/ Len(worker') = n + 1)
  <2>1. DOMAIN worker' = 1 .. Len(worker')
    BY <1>1
  <2> QED
    BY <1>1, <1>5, <2>1 DEF Started
<1>7. \A v \in Started : v \notin Live => worker[v].state = "exited"
  BY StateFacts DEF RestartInv, ThreadInv, Live, ThreadState
<1>8. \A v \in Started : v \in Started'
  BY <1>6
<1>9. \A v \in Started :
        /\ SameThread(worker[v], worker'[v]) /\ (IsJob(v)' <=> IsJob(v))
        /\ worker'[v].toldBy = worker[v].toldBy /\ (worker'[v].started <=> worker[v].started)
        /\ v \in Live' <=> v \in Live /\ v # w
        /\ v \notin Live' => worker'[v].state = "exited"
  BY <1>1, <1>7, <1>8 DEF SameThread, IsJob, Live
<1>10. \A v \in Started' \ Started : v = n + 1 /\ Len(worker') = n + 1
  BY <1>6
<1>11. \A v \in Started' \ Started :
         /\ w \in Untold /\ ~IsJob(w) /\ v = New /\ worker'[v].index = worker[w].index
         /\ worker'[v].toldBy = 0 /\ worker'[v].startedBy = 0
         /\ worker'[v].restartNumber = restartNumber
         /\ worker'[v].state = "running" /\ v \in Live' /\ ~IsJob(v)'
  BY <1>1, <1>5, <1>10 DEF Live, IsJob
<1>12. Started' = Started => Len(worker') = n
  BY <1>6
<1>13. Started' = Started => \/ w \notin Untold \/ IsJob(w)
                             \/ worker[w].unexpectedRestarts = MAX_UNEXPECTED_RESTARTS
  BY <1>4, <1>5, <1>12
<1> QED
  BY <1>1, <1>2, <1>4, <1>8, <1>9, <1>11, <1>13
LEMMA RestartExit ==
  ASSUME TypeInv, RestartInv, Allowed = {}, NEW w \in Started, Exit(w)
  PROVE  RestartInv'
<1>1. TypeInv' /\ restartNumber' = restartNumber /\ worker[w] \in ThreadState /\ EventTurn
  BY TypeExit, StateFacts DEF Exit
<1>2. w \in Live /\ worker[w].started
  BY ExitEffect
<1>3. \A v \in Started :
        /\ v \in Started' /\ SameThread(worker[v], worker'[v]) /\ (IsJob(v)' <=> IsJob(v))
        /\ worker'[v].toldBy = worker[v].toldBy /\ (worker'[v].started <=> worker[v].started)
        /\ v \in Live' <=> v \in Live /\ v # w
        /\ v \notin Live' => worker'[v].state = "exited"
  BY ExitEffect
<1>4. \A v \in Started' \ Started :
        /\ w \in Untold /\ ~IsJob(w) /\ v = New /\ worker'[v].index = worker[w].index
        /\ worker'[v].toldBy = 0 /\ worker'[v].startedBy = 0
        /\ worker'[v].restartNumber = restartNumber
        /\ worker'[v].state = "running" /\ v \in Live' /\ ~IsJob(v)'
  BY ExitEffect
<1>5. /\ worker'[w].state = "exited"
      /\ Started' = Started => \/ w \notin Untold \/ IsJob(w)
                               \/ worker[w].unexpectedRestarts = MAX_UNEXPECTED_RESTARTS
      /\ w \in Untold /\ ~IsJob(w) => \A c \in Callers : ~Running(c)
  BY ExitEffect
<1>6. \A v \in Started : v \in Untold' <=> v \in Untold /\ v # w
  BY <1>3 DEF Untold, WasShutdown
<1>7. PICK c \in 0 .. Len(Calls) : c = worker[w].toldBy
  BY <1>1 DEF ThreadState
<1>8. /\ c = 0 => call' = call
      /\ c # 0 => call' = [call EXCEPT ![c].waitingToFinish = SplicedFrom(@, w)]
      /\ w \in Untold <=> c = 0
  BY <1>2, <1>7 DEF Exit, WasShutdown, Untold
<1>9. \A d \in Callers : Called(d)' <=> Called(d)
  BY <1>1 DEF Called
<1>10. \A d \in Callers \ {c} : Aside(d) /\ ~Resolved(d)
  <2> SUFFICES ASSUME NEW d \in Callers \ {c} PROVE Aside(d) /\ ~Resolved(d)
    OBVIOUS
  <2>1. ~Resolved(d) /\ d # 0 /\ call'[d] = call[d]
    BY <1>1, <1>8, CallFacts DEF EventTurn, TypeInv
  <2>2. w \in Untold => w \notin ToSet(call[d].todo)
    <3> SUFFICES ASSUME w \in Untold, w \in ToSet(call[d].todo) PROVE FALSE
      OBVIOUS
    <3>1. call[d].todo # <<>>
      BY DEF ToSet
    <3>2. call[d].at \in {"loop", "raceFinish", "raceStart"} /\ (Replaces(d) => ~IsJob(w)) /\ Called(d)
      BY <3>1, CallFacts DEF RestartInv, TodoInv
    <3>3. IsJob(w)
      BY <1>5, <3>2 DEF Running
    <3>4. call[d].at = "loop"
      BY <3>2, <3>3 DEF RestartInv, ShapeInv, ShutdownShape
    <3> QED
      BY <2>1, <3>4 DEF Resolved
  <2>3. \A v \in Started' \ Started : Replaces(d) \/ ~Called(d)
    BY <1>4, <2>1, LoopAlone
  <2>4. \A v \in Started : v \in Live /\ v \notin Live' =>
           worker[v].toldBy # d /\ (WasShutdown(v) \/ v \notin ToSet(call[d].todo))
    BY <1>2, <1>3, <1>7, <2>2 DEF Untold
  <2>5. \A v \in Started' \ Started : worker'[v].startedBy # d
    BY <1>4, <2>1
  <2> QED
    BY <1>3, <1>4, <1>9, <2>1, <2>3, <2>4, <2>5 DEF Aside
<1>11. JobInv'
  <2>1. (\E d \in Callers : Replaces(d) /\ ~Called(d)) =>
          workerCount' = Threads /\ \A v \in Started' : ~IsJob(v)'
    <3> SUFFICES ASSUME NEW d \in Callers, Replaces(d), ~Called(d)
                 PROVE  workerCount' = Threads /\ \A v \in Started' : ~IsJob(v)'
      OBVIOUS
    <3>1. workerCount = Threads /\ \A v \in Started : ~IsJob(v)
      BY DEF RestartInv, JobInv
    <3>2. workerCount' = Threads
      BY <3>1 DEF Exit, IsJob
    <3> QED
      BY <1>3, <1>4, <3>1, <3>2
  <2>2. ASSUME NEW v \in Started', IsJob(v)'
        PROVE  worker'[v].startedBy = 0 /\ (WasShutdown(v)' => ~Replaces(worker'[v].toldBy))
    <3>1. v \in Started /\ IsJob(v)
      BY <1>3, <1>4, <2>2
    <3> QED
      BY <1>3, <3>1 DEF RestartInv, JobInv, SameThread, WasShutdown
  <2> QED
    BY <1>9, <2>1, <2>2 DEF JobInv
<1>12. CurrentInv'
  <2>1. ASSUME NEW v \in Untold', NEW x \in Untold', ~IsJob(v)', worker'[v].index = worker'[x].index
        PROVE  v = x
    <3>1. CASE v \in Started /\ x \in Started
      BY <1>3, <1>6, <2>1, <3>1 DEF RestartInv, CurrentInv, SameThread
    <3>2. CASE v \notin Started /\ x \notin Started
      BY <1>4, <3>2 DEF Untold, Live
    <3>3. \A y \in Untold' : y \in Started /\ w \in Untold /\ ~IsJob(w) => worker'[y].index # worker[w].index
      BY <1>3, <1>6 DEF RestartInv, CurrentInv, SameThread
    <3>4. \A y \in Untold' : y \notin Started => worker'[y].index = worker[w].index /\ w \in Untold /\ ~IsJob(w)
      BY <1>4 DEF Untold, Live
    <3> QED
      BY <2>1, <3>1, <3>2, <3>3, <3>4
  <2>2. ASSUME \A d \in Callers : ~Replaces(d) => ~Called(d), NEW i \in 1 .. Threads
        PROVE  \/ \E v \in Untold' : worker'[v].index = i
               \/ \E v \in Started' : worker'[v].index = i /\ Failed(v)'
    <3>1. ASSUME NEW v \in Untold, worker[v].index = i, v # w
          PROVE  v \in Untold' /\ worker'[v].index = i
      BY <1>3, <1>6, <3>1 DEF Untold, Live, SameThread
    <3>2. CASE w \in Untold /\ worker[w].index = i /\ Started' # Started
      <4>1. PICK v \in Started' : v \notin Started
        BY <1>3, <3>2
      <4>2. v \in Untold' /\ worker'[v].index = i
        BY <1>4, <3>2, <4>1 DEF Untold, WasShutdown
      <4> QED
        BY <4>2
    <3>3. CASE w \in Untold /\ worker[w].index = i /\ Started' = Started
      <4>1. ~IsJob(w)
        BY <3>3 DEF IsJob, Job
      <4>2. worker[w].unexpectedRestarts = MAX_UNEXPECTED_RESTARTS
        BY <1>5, <3>3, <4>1
      <4>3. worker'[w].index = i /\ Failed(w)'
        BY <1>3, <1>5, <3>3, <4>2 DEF Failed, Untold, WasShutdown, SameThread
      <4> QED
        BY <1>3, <4>3
    <3>4. CASE \E v \in Started : worker[v].index = i /\ Failed(v)
      <4>1. PICK v \in Started : worker[v].index = i /\ Failed(v)
        BY <3>4
      <4>2. v \in Started' /\ worker'[v].index = i /\ Failed(v)'
        BY <1>3, <4>1 DEF Failed, WasShutdown, SameThread, Live
      <4> QED
        BY <4>2
    <3>5. \/ \E v \in Untold : worker[v].index = i
          \/ \E v \in Started : worker[v].index = i /\ Failed(v)
      BY <2>2 DEF RestartInv, CurrentInv
    <3> QED
      BY <3>1, <3>2, <3>3, <3>4, <3>5
  <2> QED
    BY <1>9, <2>1, <2>2 DEF CurrentInv
<1>13. ASSUME NEW v \in Started' PROVE ThreadInv(v)' /\ LastInv(v)'
  <2>1. CASE v \in Started
    <3>1. ThreadInv(v) /\ LastInv(v)
      BY <2>1 DEF RestartInv
    <3>2. worker'[v].state # "lost" /\ (worker'[v].started \/ v \in Live')
      BY <1>2, <1>3, <2>1, <3>1 DEF ThreadInv, Live
    <3>3. ThreadInv(v)'
      BY <1>1, <1>3, <2>1, <3>1, <3>2 DEF ThreadInv, SameThread
    <3>4. LastInv(v)'
      BY <1>3, <2>1, <3>1 DEF LastInv
    <3> QED
      BY <3>3, <3>4
  <2>2. CASE v \notin Started
    <3>1. ThreadInv(v)'
      BY <1>1, <1>4, <2>2, StateFacts DEF ThreadInv
    <3>2. LastInv(v)'
      BY <1>4, <2>2, CallFacts DEF LastInv
    <3> QED
      BY <3>1, <3>2
  <2> QED
    BY <2>1, <2>2
<1>14. ASSUME c \in Callers
       PROVE  TodoInv(c)' /\ ShapeInv(c)' /\ WaitInv(c)' /\ OldInv(c)'
  <2>1. /\ TodoInv(c) /\ ShapeInv(c) /\ WaitInv(c) /\ OldInv(c) /\ ~Resolved(c)
        /\ c # 0 /\ worker[w].toldBy = c /\ w \notin Untold
    BY <1>1, <1>7, <1>8, <1>14, CallFacts DEF RestartInv, EventTurn
  <2>2. PICK s \in CallState : s = call[c]
    BY <1>14, CallFacts
  <2>3. /\ call'[c].at = s.at /\ call'[c].todo = s.todo /\ call'[c].awaited = s.awaited
        /\ call'[c].waitingToFinish = SplicedFrom(s.waitingToFinish, w)
        /\ call'[c].waitingToStart = s.waitingToStart
        /\ call'[c].number = s.number /\ call'[c].limit = s.limit
    <3>1. call'[c] = [s EXCEPT !.waitingToFinish = SplicedFrom(@, w)]
      BY <1>8, <1>14, <2>1, <2>2 DEF TypeInv
    <3> QED
      BY <3>1 DEF CallState
  <2>4. Started' = Started
    BY <1>3, <1>4, <2>1
  <2>5. TodoInv(c)'
    <3>1. \A v \in ToSet(s.todo) : v \in Started /\ (v = w => WasShutdown(v))
      BY <1>14, <2>1, <2>2, CallFacts DEF WasShutdown
    <3>2. \A v \in ToSet(s.todo) : WasShutdown(v)' \/ v \in Live'
      BY <1>3, <2>1, <2>2, <3>1 DEF TodoInv, WasShutdown
    <3>3. \A v \in ToSet(s.todo) : Replaces(c) => ~IsJob(v)'
      BY <1>3, <2>1, <2>2, <3>1 DEF TodoInv
    <3> QED
      BY <2>1, <2>2, <2>3, <3>2, <3>3 DEF TodoInv
  <2>6. OldInv(c)'
    <3>1. \A v \in Untold' : v \in Untold /\ v \in Started
      BY <1>6, <2>4 DEF Untold, Live
    <3> QED
      BY <1>3, <1>9, <1>14, <2>1, <2>2, <2>3, <3>1 DEF OldInv, SameThread
  <2>7. \A v \in Live' : v \in Live /\ v # w /\ v \in Started
    BY <1>3, <2>4 DEF Live
  <2>8. Called(c) /\ (Replaces(c) => RestartShape(c)) /\ (~Replaces(c) => ShutdownShape(c)) /\ s.number = c
    <3>1. Called(c)
      BY <1>2, <1>14, <2>1, CallFacts DEF WaitInv
    <3> QED
      BY <2>1, <2>2, <3>1 DEF ShapeInv
  <2>9. ASSUME Replaces(c) PROVE RestartShape(c)' /\ WaitInv(c)'
    <3>1. s.at = "raceFinish" /\ s.awaited[1] = w
      BY <1>2, <2>1, <2>2, <2>9 DEF WaitInv
    <3>2. /\ s.limit = 1 /\ Len(s.awaited) = 1 /\ s.waitingToFinish = s.awaited
          /\ \/ s.waitingToStart = <<>>
             \/ /\ Len(s.waitingToStart) = 1
                /\ worker[s.waitingToStart[1]].startedBy = c
                /\ ~worker[s.waitingToStart[1]].started
                /\ worker[s.waitingToStart[1]].index = worker[w].index
      BY <1>2, <2>2, <2>8, <2>9, <3>1 DEF RestartShape
    <3>3. SplicedFrom(s.waitingToFinish, w) = <<>>
      <4>1. s.awaited = <<w>>
        BY <1>14, <2>2, <3>1, <3>2, CallFacts
      <4> QED
        BY <3>2, <4>1, SplicedSet DEF CallState
    <3>4. Len(s.waitingToStart) = 1 => s.waitingToStart[1] \in Started
      BY <1>14, <2>2, CallFacts
    <3>5. s.waitingToStart # <<>> =>
             /\ worker'[s.waitingToStart[1]].startedBy = c
             /\ ~worker'[s.waitingToStart[1]].started
             /\ worker'[s.waitingToStart[1]].index = worker'[w].index
      BY <1>3, <3>2, <3>4 DEF SameThread
    <3>6. w \notin Live' /\ worker'[w].toldBy = c
      BY <1>3, <2>1
    <3>7. RestartShape(c)'
      BY <2>3, <3>1, <3>2, <3>3, <3>5, <3>6 DEF RestartShape
    <3>8. WaitInv(c)'
      <4> SUFFICES ASSUME NEW v \in Live'
                   PROVE  /\ worker'[v].toldBy # c
                          /\ worker'[v].startedBy = c /\ ~worker'[v].started => s.waitingToStart = <<v>>
        BY <2>3, <3>1 DEF WaitInv
      <4>1. v \in Live /\ v # w /\ v \in Started
        BY <2>7
      <4>2. worker[v].toldBy # c /\
              (worker[v].startedBy = c /\ ~worker[v].started => s.waitingToStart = <<v>>)
        BY <2>1, <2>2, <2>9, <3>1, <4>1 DEF WaitInv
      <4> QED
        BY <1>3, <4>1, <4>2 DEF SameThread
    <3> QED
      BY <3>7, <3>8
  <2>10. ASSUME ~Replaces(c) PROVE ShutdownShape(c)' /\ WaitInv(c)'
    <3>1. /\ s.at \notin {"raceFinish", "raceStart"} /\ s.limit = 0 /\ s.waitingToStart = <<>>
          /\ \A v \in ToSet(s.waitingToFinish \o s.awaited) : worker[v].toldBy = c
          /\ s.at \in {"allStart", "done"} => s.awaited = <<>>
      BY <2>2, <2>8, <2>10 DEF ShutdownShape
    <3>2. PICK t, u \in Seq(Started) : t = s.waitingToFinish /\ u = s.awaited
      BY DEF CallState
    <3>3. PICK r \in Seq(Started) : r = SplicedFrom(t, w) /\ ToSet(r) \subseteq ToSet(t)
      BY SplicedSet
    <3>4. ToSet(t \o u) = ToSet(t) \cup ToSet(u) /\ ToSet(r \o u) = ToSet(r) \cup ToSet(u)
      BY ConcatSet
    <3>5. ToSet(t) \subseteq Started /\ ToSet(u) \subseteq Started
      BY ElementSet
    <3>6. \A v \in ToSet(r \o u) : worker'[v].toldBy = c
      BY <1>3, <3>1, <3>2, <3>3, <3>4, <3>5
    <3>7. ShutdownShape(c)'
      BY <2>3, <3>1, <3>2, <3>3, <3>6 DEF ShutdownShape
    <3>8. WaitInv(c)'
      <4> SUFFICES ASSUME NEW v \in Live'
                   PROVE  /\ worker'[v].toldBy = c => s.at = "allFinish" /\ v \in ToSet(s.awaited)
                          /\ worker'[v].startedBy = c => worker'[v].started
        BY <2>3, <2>10 DEF WaitInv
      <4>1. v \in Live /\ v # w /\ v \in Started
        BY <2>7
      <4>2. s.at # "loop"
        BY <2>1, <2>2 DEF Resolved
      <4>3. worker[v].toldBy = c => s.at = "allFinish" /\ v \in ToSet(s.awaited)
        BY <2>1, <2>2, <2>10, <4>1, <4>2 DEF WaitInv
      <4>4. worker[v].startedBy = c => worker[v].started
        BY <2>1, <2>2, <3>1, <4>1 DEF WaitInv
      <4> QED
        BY <1>3, <4>1, <4>3, <4>4 DEF SameThread
    <3> QED
      BY <3>7, <3>8
  <2>11. ShapeInv(c)' /\ WaitInv(c)'
    BY <2>3, <2>8, <2>9, <2>10 DEF ShapeInv
  <2> QED
    BY <2>5, <2>6, <2>11
<1>15. OneTurn' /\ \A d \in Callers \ {c} : TodoInv(d)' /\ ShapeInv(d)' /\ WaitInv(d)' /\ OldInv(d)'
  BY <1>1, <1>10, OthersKept
<1> QED
  BY <1>11, <1>12, <1>13, <1>14, <1>15 DEF RestartInv
LEMMA RestartInvariant ==
  ASSUME MaxWorkersDown = 1, Allowed = {}
  PROVE  Spec => [](TypeInv /\ RestartInv)
<1>1. Init => TypeInv /\ RestartInv
  BY TypeAtInit, RestartAtInit
<1>2. TypeInv /\ RestartInv /\ [Next]_vars => (TypeInv /\ RestartInv)'
  <2> SUFFICES ASSUME TypeInv, RestartInv, [Next]_vars PROVE TypeInv' /\ RestartInv'
    OBVIOUS
  <2>1. ASSUME NEW c \in Callers, Call(c) \/ Skip(c) \/ ShutDown(c) \/ Continue(c)
        PROVE  TypeInv' /\ RestartInv'
    BY <2>1, TypeCall, TypeSkip, TypeShutDown, TypeContinue,
       RestartCall, RestartSkip, RestartShutDown, RestartContinue
  <2>2. ASSUME NEW w \in Started, WorkerStarts(w) \/ Exit(w)
        PROVE  TypeInv' /\ RestartInv'
    BY <2>2, TypeWorkerStarts, TypeExit, RestartWorkerStarts, RestartExit
  <2>3. CASE StartJob
    BY <2>3, TypeStartJob, RestartStartJob
  <2>4. CASE UNCHANGED vars
    <3>1. TypeInv'
      BY <2>4 DEF vars, TypeInv, CallInv, CallState, Started, Live
    <3>2. OneTurn'
      BY <2>4 DEF vars, RestartInv, OneTurn, Resolved, WhenDone, WhenStarted, WasShutdown
    <3>3. worker' = worker /\ call' = call /\ restartNumber' = restartNumber /\ workerCount' = workerCount
      BY <2>4 DEF vars
    <3>4. JobInv' /\ CurrentInv' /\ \A w \in Started' : ThreadInv(w)' /\ LastInv(w)'
      BY <3>3, ThreadsKept
    <3>5. \A d \in Callers : TodoInv(d)' /\ ShapeInv(d)' /\ WaitInv(d)' /\ OldInv(d)'
      BY <3>1, <3>3, ThreadsKept, CallKept
    <3> QED
      BY <3>1, <3>2, <3>4, <3>5 DEF RestartInv
  <2> QED
    BY <2>1, <2>2, <2>3, <2>4 DEF Next, Done
<1> QED
  BY <1>1, <1>2, PTL DEF Spec

\* The doc of maxWorkersDown, for its default with fewer than 16 threads: the
\* worker a restart told and the copy of it have the same index, and the loop goes
\* on when the first has exited and the second has started.
THEOREM LimitKept ==
  ASSUME MaxWorkersDown = 1, Allowed = {}
  PROVE  Spec => []AtMostDown
<1>1. TypeInv /\ RestartInv => AtMostDown
  <2> SUFFICES ASSUME TypeInv, RestartInv, NEW c \in Callers, Replaces(c)
               PROVE  Cardinality(DownFor(c)) <= 1
    BY DEF AtMostDown
  <2> DEFINE down == {worker[call[c].awaited[1]].index}
  <2>1. ASSUME NEW i \in DownFor(c) PROVE i \in down
    <3>1. PICK w \in Live : /\ worker[w].index = i
                            /\ \/ worker[w].toldBy = c
                               \/ worker[w].startedBy = c /\ ~worker[w].started
      BY <2>1 DEF DownFor
    <3>2. WaitInv(c) /\ (Called(c) => RestartShape(c)) /\ (Called(c) <=> call[c].at # "idle")
      BY CallFacts DEF RestartInv, ShapeInv
    <3>3. CASE worker[w].toldBy = c
      BY <3>1, <3>2, <3>3 DEF WaitInv
    <3>4. CASE call[c].at = "raceStart" /\ call[c].awaited[1] = w
      BY <3>1, <3>4
    <3>5. CASE call[c].at = "raceFinish" /\ call[c].waitingToStart = <<w>>
      <4>1. <<w>> # <<>> /\ <<w>>[1] = w
        OBVIOUS
      <4> QED
        BY <3>1, <3>2, <3>5, <4>1 DEF RestartShape
    <3> QED
      BY <3>1, <3>2, <3>3, <3>4, <3>5 DEF WaitInv
  <2>2. IsFiniteSet(down) /\ Cardinality(down) = 1
    BY FS_Singleton
  <2>3. DownFor(c) \subseteq down
    BY <2>1
  <2> HIDE DEF down
  <2> QED
    BY <2>2, <2>3, FS_Subset
<1> QED
  BY <1>1, RestartInvariant, PTL

\* After the restarts nobody runs old code: the worker a call has yet to visit is
\* in its list, and the one it visited is waited for.
THEOREM NoneLeft ==
  ASSUME MaxWorkersDown = 1, Allowed = {}
  PROVE  Spec => []NoneLeftBehind
<1>1. TypeInv /\ RestartInv => NoneLeftBehind
  <2> SUFFICES ASSUME TypeInv, RestartInv, \A c \in Callers : ~Running(c),
                      NEW c \in Callers, NEW w \in Live,
                      call[c].at = "done", Calls[c] = "http" => ~IsJob(w)
               PROVE  worker[w].restartNumber >= call[c].number
    BY DEF NoneLeftBehind, Overlapping, IsJob
  <2>1. Called(c) /\ call[c].number = c /\ OldInv(c) /\ TodoInv(c)
    BY CallFacts DEF RestartInv, ShapeInv
  <2>2. worker[w] \in ThreadState /\ c \in Nat
    BY StateFacts
  <2>3. w \in Untold
    <3>1. CASE WasShutdown(w)
      <4>1. worker[w].toldBy \in Callers
        BY <2>2, <3>1, StateFacts DEF WasShutdown, ThreadState
      <4>2. WaitInv(worker[w].toldBy) /\ ~Running(worker[w].toldBy)
        BY <4>1 DEF RestartInv
      <4> QED
        BY <4>2 DEF WaitInv, Running
    <3> QED
      BY <3>1 DEF Untold
  <2>4. w \notin ToSet(call[c].todo)
    BY <2>1 DEF TodoInv, ToSet
  <2>5. ~(worker[w].restartNumber < c)
    BY <2>1, <2>3, <2>4 DEF OldInv
  <2> QED
    BY <2>1, <2>2, <2>5 DEF ThreadState
<1> QED
  BY <1>1, RestartInvariant, PTL

\* Exits and restarts, in any order, leave each index one worker, or one that
\* failed MAX_UNEXPECTED_RESTARTS times in a row.
THEOREM Restored ==
  ASSUME MaxWorkersDown = 1, Allowed = {}
  PROVE  Spec => []WorkersRestored
<1>1. TypeInv /\ RestartInv => WorkersRestored
  <2> SUFFICES ASSUME TypeInv, RestartInv, \A c \in Callers : Calls[c] = "shutdown" => call[c].at = "idle",
                      NEW i \in 1 .. Threads,
                      NEW current, current = {w \in Live : worker[w].index = i /\ ~WasShutdown(w)}
               PROVE  \/ Cardinality(current) = 1
                      \/ /\ current = {}
                         /\ \E w \in Started : worker[w].index = i /\ Failed(w)
    BY DEF WorkersRestored, Failed
  <2>1. \A c \in Callers : ~Replaces(c) => ~Called(c)
    BY CallFacts DEF Replaces
  <2>2. \/ \E w \in Untold : worker[w].index = i
        \/ \E w \in Started : worker[w].index = i /\ Failed(w)
    BY <2>1 DEF RestartInv, CurrentInv
  <2>3. CASE current = {}
    BY <2>2, <2>3 DEF Untold
  <2>4. ASSUME NEW w \in current PROVE Cardinality(current) = 1
    <3>1. ~IsJob(w)
      BY DEF IsJob, Job
    <3>2. \A v \in current : v = w
      BY <3>1 DEF RestartInv, CurrentInv, Untold
    <3>3. current = {w}
      BY <3>2
    <3> QED
      BY <3>3, FS_Singleton
  <2> QED
    BY <2>3, <2>4
<1> QED
  BY <1>1, RestartInvariant, PTL

\* What was started before a shutdown is told by it or by a call before it, and
\* nothing but a job is started behind it.
THEOREM ShutdownLasts ==
  ASSUME MaxWorkersDown = 1, Allowed = {}
  PROVE  Spec => []ShutdownIsFinal
<1>1. TypeInv /\ RestartInv => ShutdownIsFinal
  <2> SUFFICES ASSUME TypeInv, RestartInv, NEW c \in Callers, ~Replaces(c),
                      \A d \in 1 .. c : call[d].at = "done", NEW w \in Live
               PROVE  IsJob(w) /\ worker[w].startedBy = 0
    BY DEF ShutdownIsFinal, Replaces, Overlapping, IsJob
  <2>1. c \in Nat \ {0} /\ Called(c) /\ call[c].at = "done" /\ worker[w] \in ThreadState
    BY CallFacts, StateFacts
  <2>2. IsJob(w)
    <3> SUFFICES ASSUME ~IsJob(w) PROVE FALSE
      OBVIOUS
    <3>1. CASE ~WasShutdown(w)
      <4>1. w \in ToSet(call[c].todo)
        BY <2>1, <3>1 DEF RestartInv, OldInv, Untold
      <4>2. call[c].todo = <<>>
        BY <2>1 DEF RestartInv, TodoInv
      <4> QED
        BY <4>1, <4>2 DEF ToSet
    <3>2. CASE WasShutdown(w)
      <4>1. PICK d \in Callers : d = worker[w].toldBy /\ d \in Nat \ {0}
        BY <2>1, <3>2, StateFacts DEF WasShutdown, ThreadState
      <4>2. call[d].at # "done"
        BY <4>1 DEF RestartInv, WaitInv
      <4>3. c < d
        BY <2>1, <4>1, <4>2
      <4> QED
        <5>1. LastInv(w)
          BY DEF RestartInv, Live
        <5> QED
          BY <4>1, <4>3, <5>1 DEF LastInv
    <3> QED
      BY <3>1, <3>2
  <2> QED
    BY <2>2, StateFacts DEF RestartInv, JobInv
<1> QED
  BY <1>1, RestartInvariant, PTL
=============================================================================
