--------------------------- MODULE WorkerThreads ---------------------------
(***************************************************************************)
(* The main thread and the threads it starts: restartWorkers, which        *)
(* replaces the HTTP workers a few at a time, shutdownWorkers, the restart *)
(* of a worker that exits by itself, and the threads of jobs.              *)
(*                                                                         *)
(* A promise of restartWorkers is named by the worker it is about: the one *)
(* to exit (waitingToFinish) or the one to start (waitingToStart).  The    *)
(* timeouts that end a thread which does not exit are its Exit.            *)
(***************************************************************************)
EXTENDS Naturals, Sequences, FiniteSets, SequencesExt

CONSTANTS
    Threads,                \* the number of HTTP workers
    MaxWorkers,             \* bound on the threads ever started
    MaxJobs,                \* bound on the jobs started
    MaxExits,               \* bound on the exits that nobody asked for
    Calls,                  \* the calls, in order: "http", "all", "shutdown"
    MaxWorkersDown,         \* Math.max(Math.floor(Threads / 8), 1), or more
    MAX_UNEXPECTED_RESTARTS,
    Allowed                 \* see Circumstances

\* What may happen besides: a job is started before the last restart is called;
\* a worker exits before it reports its start, or during a restart.
Circumstances == {"JobFirst", "ExitUnstarted", "ExitInRestart"}

ASSUME WorkerAssumption ==
    /\ Threads \in Nat \ {0} /\ MaxWorkers \in Nat /\ Threads <= MaxWorkers
    /\ MaxJobs \in Nat /\ MaxExits \in Nat
    /\ Calls \in Seq({"http", "all", "shutdown"})
    /\ MaxWorkersDown \in Nat \ {0} /\ MAX_UNEXPECTED_RESTARTS \in Nat
    /\ Allowed \subseteq Circumstances

VARIABLES
    worker,         \* each thread ever started
    workers,        \* the list of the main thread
    workerCount,    \* Threads, or 0 for undefined
    restarts,       \* options.unexpectedRestarts of each HTTP worker index
    restartNumber,
    jobs, exits,    \* how many there have been
    call            \* the state of each call of restartWorkers

vars == <<worker, workers, workerCount, restarts, restartNumber, jobs, exits, call>>

Callers == DOMAIN Calls
Job == 0            \* the index of the thread of a job

\* toldBy: the call that set wasShutdown; startedBy: the call it is a copy for.
\* started: CHILD_STARTED has come.  "lost" is a worker that had exited when it was
\* told, whose exit is not seen.
Thread(i, unexpectedRestarts, startedBy) ==
    [state |-> "running", started |-> FALSE, index |-> i, toldBy |-> 0, startedBy |-> startedBy,
     unexpectedRestarts |-> unexpectedRestarts, restartNumber |-> restartNumber]

StartCopy(w, c) ==
    Thread(worker[w].index, IF worker[w].index = Job THEN 0 ELSE restarts[worker[w].index], c)

NoCall == [at |-> "idle", todo |-> <<>>, waitingToFinish |-> <<>>,
           waitingToStart |-> <<>>, awaited |-> <<>>, number |-> 0, limit |-> 0]

Started == DOMAIN worker
New == Len(worker) + 1
WasShutdown(w) == worker[w].toldBy # 0
Live == {w \in Started : worker[w].state = "running"}
Overlapping(w) == worker[w].index # Job
ReplacesAlways(c) == Calls[c] # "none"  \* a mutant of the next one
Replaces(c) == Calls[c] # "shutdown"
Running(c) == call[c].at \notin {"idle", "done"}

IndexOf(list, x) == SelectInSeq(list, LAMBDA y : y = x)

\* list.splice(list.indexOf(x)): x and all that comes after it; without x,
\* indexOf is -1, and the last element goes.
SplicedFrom(list, x) ==
    SubSeq(list, 1, IF Contains(list, x) THEN IndexOf(list, x) - 1 ELSE Len(list) - 1)

TypeOK ==
    /\ worker \in Seq([state : {"running", "exited", "lost"}, started : BOOLEAN,
                       index : 0 .. Threads, toldBy : 0 .. Len(Calls),
                       startedBy : 0 .. Len(Calls),
                       unexpectedRestarts : 0 .. MAX_UNEXPECTED_RESTARTS,
                       restartNumber : 0 .. Len(Calls)])
    /\ ToSet(workers) = Live /\ IsInjective(workers)
    /\ workerCount \in {0, Threads}
    /\ restarts \in [1 .. Threads -> 0 .. MAX_UNEXPECTED_RESTARTS]
    /\ restartNumber \in 0 .. Len(Calls)
    /\ jobs \in 0 .. MaxJobs /\ exits \in 0 .. MaxExits
    /\ \A c \in Callers :
          /\ call[c].at \in {"idle", "loop", "raceFinish", "raceStart",
                             "allFinish", "allStart", "done"}
          /\ call[c].limit \in {0, MaxWorkersDown}
          /\ ToSet(call[c].todo \o call[c].waitingToFinish \o call[c].awaited
                   \o call[c].waitingToStart) \subseteq Started

\* startHTTPThreads, when its workers have started.
Init ==
    /\ restartNumber = 0
    /\ worker = [i \in 1 .. Threads |-> [Thread(i, 0, 0) EXCEPT !.started = TRUE]]
    /\ workers = [i \in 1 .. Threads |-> i]
    /\ workerCount = Threads
    /\ restarts = [i \in 1 .. Threads |-> 0]
    /\ jobs = 0 /\ exits = 0
    /\ call = [c \in Callers |-> NoCall]

-----------------------------------------------------------------------------
\* whenDone is resolved by the exit that follows the shutdown, whenStarted by
\* CHILD_STARTED, even if the worker exits later.
\* Mutants: the promise resolves at the request, or at another event.
DoneWhenTold(w) == WasShutdown(w)
StartedAtExit(w) == worker[w].state = "exited"
WhenDone(w) == worker[w].state = "exited" /\ WasShutdown(w)
WhenStarted(w) == worker[w].started

Resolved(c) ==
    LET awaited == ToSet(call[c].awaited)
    IN CASE call[c].at = "loop" -> TRUE
         [] call[c].at = "raceFinish" -> \E w \in awaited : WhenDone(w)
         [] call[c].at = "raceStart" -> \E w \in awaited : WhenStarted(w)
         [] call[c].at = "allFinish" -> \A w \in awaited : WhenDone(w)
         [] call[c].at = "allStart" -> \A w \in awaited : WhenStarted(w)
         [] OTHER -> FALSE

\* The code after an await that is over runs before the next event.
EventTurn == \A c \in Callers : ~Resolved(c)

\* restartWorkers is called, after loadRootComponents; it copies the list, and
\* Math.max(NaN, 1) is NaN, which no length reaches.
Call(c) ==
    /\ EventTurn
    /\ call[c].at = "idle"
    /\ \A d \in 1 .. c - 1 : call[d].at # "idle"
    /\ restartNumber' = restartNumber + 1
    /\ call' = [call EXCEPT ![c] =
         [NoCall EXCEPT !.at = "loop", !.todo = workers, !.number = restartNumber + 1,
                        !.limit = IF workerCount = 0 \/ ~Replaces(c) THEN 0
                                  ELSE MaxWorkersDown]]
    /\ UNCHANGED <<worker, workers, workerCount, restarts, jobs, exits>>

\* Whether the loop has to wait, with this many promises in a list.
OneMore(c, list) == call[c].limit > 0 /\ Len(list) > call[c].limit  \* a mutant
Full(c, list) == call[c].limit > 0 /\ Len(list) >= call[c].limit

\* One turn of the loop passes over a worker of another type, or one that was
\* told to shut down.
Skip(c) ==
    /\ call[c].at = "loop" /\ call[c].todo # <<>>
    /\ LET w == Head(call[c].todo)
       IN WasShutdown(w) \/ (Calls[c] = "http" /\ worker[w].index = Job)
    /\ call' = [call EXCEPT ![c].todo = Tail(@)]
    /\ UNCHANGED <<worker, workers, workerCount, restarts, restartNumber, jobs, exits>>

\* A worker is told to shut down; one that has exited does not hear of it.
Told(w, c) ==
    [worker EXCEPT ![w].toldBy = c, ![w].state = IF @ = "exited" THEN "lost" ELSE @]

\* One turn of the loop shuts a worker down.  A type that overlaps has its copy
\* started at once, and then the loop may have to wait.
ShutDown(c) ==
    /\ call[c].at = "loop" /\ call[c].todo # <<>>
    /\ LET w == Head(call[c].todo)
           finishing == Append(call[c].waitingToFinish, w)
           starting == Append(call[c].waitingToStart, New)
           rest == [call[c] EXCEPT !.todo = Tail(@), !.waitingToFinish = finishing]
       IN /\ ~WasShutdown(w)
          /\ Calls[c] = "http" => Overlapping(w)
          /\ \/ /\ Overlapping(w) /\ Replaces(c)
                /\ New <= MaxWorkers
                /\ worker' = Append(Told(w, c), StartCopy(w, c))
                /\ workers' = Append(workers, New)
                /\ workerCount' = Threads
                /\ call' = [call EXCEPT ![c] =
                     [rest EXCEPT !.waitingToStart = starting,
                        !.at = IF Full(c, finishing) THEN "raceFinish"
                               ELSE IF Full(c, starting) THEN "raceStart" ELSE "loop",
                        !.awaited = IF Full(c, finishing) THEN finishing ELSE starting]]
             \/ /\ ~(Overlapping(w) /\ Replaces(c))
                /\ worker' = Told(w, c)
                /\ call' = [call EXCEPT ![c] = rest]
                /\ UNCHANGED <<workers, workerCount>>
    /\ UNCHANGED <<restarts, restartNumber, jobs, exits>>

\* The code after each await, and after the last worker of the loop.
Continue(c) ==
    /\ Resolved(c)
    /\ LET to(at, awaited) == [call EXCEPT ![c].at = at, ![c].awaited = awaited]
           s == call[c]
       IN \/ /\ s.at = "loop" /\ s.todo = <<>>
             /\ call' = to("allFinish", s.waitingToFinish)
          \/ /\ s.at = "raceFinish" /\ Full(c, s.waitingToStart)
             /\ call' = to("raceStart", s.waitingToStart)
          \/ /\ \/ s.at = "raceFinish" /\ ~Full(c, s.waitingToStart)
                \/ s.at = "raceStart"
             /\ call' = to("loop", <<>>)
          \/ s.at = "allFinish" /\ call' = to("allStart", s.waitingToStart)
          \/ s.at = "allStart" /\ call' = to("done", <<>>)
    /\ UNCHANGED <<worker, workers, workerCount, restarts, restartNumber, jobs, exits>>

-----------------------------------------------------------------------------
\* CHILD_STARTED of a worker; the copies have a startListener.
WorkerStarts(w) ==
    /\ EventTurn
    /\ w \in Live /\ ~worker[w].started
    /\ worker' = [worker EXCEPT ![w].started = TRUE]
    /\ call' = [c \in Callers |->
          IF worker[w].startedBy # c \/ ~Overlapping(w) THEN call[c]
          ELSE [call[c] EXCEPT !.waitingToStart = SplicedFrom(@, w)]]
    /\ UNCHANGED <<workers, workerCount, restarts, restartNumber, jobs, exits>>

\* Mutants of NewThreads: the number of restarts is not limited, or a worker
\* that was told is restarted too.
RestartAlways(w) ==
    IF ~WasShutdown(w) /\ worker[w].index # Job
    THEN <<Thread(worker[w].index, worker[w].unexpectedRestarts + 1, 0)>> ELSE <<>>
RestartTold(w) ==
    IF worker[w].unexpectedRestarts < MAX_UNEXPECTED_RESTARTS
    THEN <<Thread(worker[w].index, worker[w].unexpectedRestarts + 1, 0)>> ELSE <<>>

\* What the exit of a worker starts: by the listener of startWorker when it was
\* not told, or by that of whenDone.
NewThreads(w) ==
    LET i == worker[w].index
        told == worker[w].toldBy
    IN CASE ~WasShutdown(w) /\ i # Job /\ worker[w].unexpectedRestarts < MAX_UNEXPECTED_RESTARTS
              -> <<Thread(i, worker[w].unexpectedRestarts + 1, 0)>>
         [] WasShutdown(w) /\ ~Overlapping(w) /\ Replaces(told) -> <<StartCopy(w, told)>>
         [] OTHER -> <<>>

\* The exit of a thread: it was told to, its job is done, or it fails.
Exit(w) ==
    /\ EventTurn
    /\ w \in Live
    /\ worker[w].started \/ "ExitUnstarted" \in Allowed
    /\ LET new == NewThreads(w)
           i == worker[w].index
           told == worker[w].toldBy
           failed == ~WasShutdown(w) /\ i # Job
       IN /\ failed => /\ exits < MaxExits
                       /\ "ExitInRestart" \in Allowed \/ \A c \in Callers : ~Running(c)
          /\ exits' = IF failed THEN exits + 1 ELSE exits
          /\ Len(worker) + Len(new) <= MaxWorkers
          /\ worker' = [worker EXCEPT ![w].state = "exited"] \o new
          /\ workers' = RemoveAt(workers, IndexOf(workers, w)) \o [n \in DOMAIN new |-> New]
          /\ workerCount' = CASE new = <<>> -> workerCount [] i = Job -> 0 [] OTHER -> Threads
          /\ restarts' = IF failed /\ new # <<>>
                         THEN [restarts EXCEPT ![i] = worker[w].unexpectedRestarts + 1]
                         ELSE restarts
          /\ call' = IF WasShutdown(w)
                     THEN [call EXCEPT ![told].waitingToFinish = SplicedFrom(@, w)]
                     ELSE call
    /\ UNCHANGED <<restartNumber, jobs>>

\* launchJobThread: its options have no threadCount, and workerCount takes that.
StartJob ==
    /\ EventTurn
    /\ jobs < MaxJobs
    /\ "JobFirst" \in Allowed \/ \A c \in Callers : Replaces(c) => call[c].at # "idle"
    /\ New <= MaxWorkers
    /\ jobs' = jobs + 1
    /\ worker' = Append(worker, Thread(Job, 0, 0))
    /\ workers' = Append(workers, New)
    /\ workerCount' = 0
    /\ UNCHANGED <<restarts, restartNumber, exits, call>>

Done ==
    /\ \A c \in Callers : call[c].at = "done"
    /\ UNCHANGED vars

Next ==
    \/ \E c \in Callers : Call(c) \/ Skip(c) \/ ShutDown(c) \/ Continue(c)
    \/ \E w \in Started : WorkerStarts(w) \/ Exit(w)
    \/ StartJob
    \/ Done

Spec == Init /\ [][Next]_vars

\* The loop goes on; a worker that is told exits, by terminate() at the latest;
\* a worker that is not told reports its start.
Fairness ==
    /\ \A c \in Callers : WF_vars(Skip(c) \/ ShutDown(c) \/ Continue(c))
    /\ \A w \in 1 .. MaxWorkers : WF_vars(w \in Started /\ WorkerStarts(w))
    /\ \A w \in 1 .. MaxWorkers : WF_vars(w \in Started /\ WasShutdown(w) /\ Exit(w))

FairSpec == Spec /\ Fairness

-----------------------------------------------------------------------------
\* No call has more than maxWorkersDown workers that were shut down and still
\* run, or whose copies have not started (the doc of maxWorkersDown).
DownFor(c) ==
    {i \in 1 .. Threads :
       \E w \in Live : /\ worker[w].index = i
                       /\ \/ worker[w].toldBy = c
                          \/ worker[w].startedBy = c /\ ~worker[w].started}

AtMostDown ==
    \A c \in Callers : Replaces(c) => Cardinality(DownFor(c)) <= MaxWorkersDown

\* When no restart is under way, no worker is left that was started before a
\* call that applies to it: all of them run the new code.
NoneLeftBehind ==
    (\A c \in Callers : ~Running(c)) =>
       \A c \in Callers, w \in Live :
          (call[c].at = "done" /\ (Calls[c] = "http" => Overlapping(w)))
             => worker[w].restartNumber >= call[c].number

\* Every index has one worker that is not to shut down, whatever exits and
\* restarts overlap, until it has failed too often or the server shuts down.
WorkersRestored ==
    (\A c \in Callers : Calls[c] = "shutdown" => call[c].at = "idle") =>
       \A i \in 1 .. Threads :
          LET current == {w \in Live : worker[w].index = i /\ ~WasShutdown(w)}
          IN \/ Cardinality(current) = 1
             \/ /\ current = {}
                /\ \E w \in Started : /\ worker[w].index = i /\ worker[w].state = "exited"
                                      /\ ~WasShutdown(w)
                                      /\ worker[w].unexpectedRestarts = MAX_UNEXPECTED_RESTARTS

\* Once a shutdown and the calls before it are done, the only threads are jobs
\* that were launched: no call or exit brings a worker back.
ShutdownIsFinal ==
    \A c \in Callers :
       (Calls[c] = "shutdown" /\ \A d \in 1 .. c : call[d].at = "done") =>
          \A w \in Live : ~Overlapping(w) /\ worker[w].startedBy = 0

\* Every call is done at last.
RestartCompletes == \A c \in Callers : (call[c].at = "loop") ~> (call[c].at = "done")
=============================================================================
