--------------------------- MODULE DurableSession ---------------------------
(***************************************************************************)
(* A durable MQTT session: the record that keeps, for every subscription   *)
(* of a client, the time up to which its messages are acknowledged and the *)
(* later ones acknowledged out of order; the connections that come and go; *)
(* and the catch-up from the transaction log when the client returns.      *)
(*                                                                         *)
(* Messages are published without retain (type 'message') with QoS 1, and  *)
(* are known by topic and time.  0 stands for undefined, which is earlier  *)
(* than nothing, and later than nothing.  One client; the connections of   *)
(* other clients matter only for the message ids of the thread.            *)
(***************************************************************************)
EXTENDS Naturals, Sequences, FiniteSets, SequencesExt, FiniteSetsExt

CONSTANTS
    Topics,
    WildcardTopics,    \* those that end in '#': catch-up reads the whole log
    MaxTime,           \* bound on the clock
    MaxConnections,    \* bound on the connections; the last one stays
    MaxMessageId,      \* 65500 in the code
    Allowed,           \* which of Circumstances may happen
    None

Circumstances ==
    { "resubscribe",       \* subscribe or unsubscribe in a resumed session
      "drop_subscribing",  \* the connection is lost while it subscribes
      "fast_reconnect",    \* a connection begins before the last put is stored
      "late_commit",       \* publications overlap and commit in any order
      "other_sessions" }   \* sessions of this thread use up message ids

ASSUME SessionAssumption ==
    /\ WildcardTopics \subseteq Topics
    /\ MaxTime \in Nat /\ MaxConnections \in Nat
    /\ MaxMessageId \in Nat \ {0}
    /\ Allowed \subseteq Circumstances

VARIABLES
    now,            \* the last monotonic time that was issued
    log,            \* the times of the messages of each topic as they committed
    committing,     \* publications that have a time but are not committed
    unnotified,     \* committed messages this thread has yet to be told of
    stored,         \* the session record in the store, or None
    putting,        \* the record that DurableSession.put is storing, or None
    connections,    \* number of connections so far
    open,           \* the last one is connected
    present,        \* session.sessionWasPresent
    sessionRecord,  \* session.sessionRecord
    resuming,       \* the subscriptions that resume() has yet to visit
    adding,         \* the topic whose subscribe is awaited, or None
    isNew,          \* ... by addSubscription rather than by resume
    live,           \* session.subscriptions, and what is in their queues
    awaitingAcks,   \* message id -> what was sent under it
    nextMessageId,
    acked,          \* messages the client has acknowledged (never forgotten)
    since           \* the time at which a subscription was first stored

store == <<log, committing, unnotified>>
record == <<stored, putting, sessionRecord, since>>
connection == <<connections, open, present>>
subscribing == <<resuming, adding, isNew>>
vars == <<now, store, record, connection, subscribing, live, awaitingAcks,
          nextMessageId, acked>>

Times == 1 .. MaxTime

\* JavaScript's < on numbers of which one may be undefined.
Earlier(s, t) == s # 0 /\ t # 0 /\ s < t

\* An entry of sessionRecord.subscriptions.
Absent == [on |-> FALSE, start |-> 0, acks |-> {}]
Entry == [on : BOOLEAN, start : 0 .. MaxTime, acks : SUBSET Times]
Record == [Topics -> Entry]
EmptyRecord == [t \in Topics |-> Absent]

ASSUME NoneAssumption == None \notin Topics /\ None \notin Record

\* A live subscription: listed once it is pushed on session.subscriptions; filter
\* has the times that the filter of resume() keeps from the client.
Ended == [on |-> FALSE, listed |-> FALSE, start |-> 0, queue |-> <<>>, filter |-> {}]
NoneLive == [t \in Topics |-> Ended]

\* An update on its way to the client: ts is its localTime as the subscription
\* reports it.
Event(m, ts) == [msg |-> m, ts |-> ts]

TypeOK ==
    /\ now \in 0 .. MaxTime
    /\ \A t \in Topics : ToSet(log[t]) \subseteq Times
    /\ committing \subseteq Topics \X Times
    /\ \A i \in DOMAIN unnotified : unnotified[i] \in Topics \X Times
    /\ stored \in Record \cup {None}
    /\ putting \in Record \cup {None}
    /\ connections \in 0 .. MaxConnections
    /\ open \in BOOLEAN /\ present \in BOOLEAN /\ isNew \in BOOLEAN
    /\ sessionRecord \in Record
    /\ resuming \in Record
    /\ adding \in Topics \cup {None}
    /\ DOMAIN live = Topics
    /\ DOMAIN awaitingAcks \subseteq 1 .. MaxMessageId
    /\ nextMessageId \in 1 .. MaxMessageId
    /\ acked \subseteq Topics \X Times
    /\ since \in [Topics -> 0 .. MaxTime]

Init ==
    /\ now = 0
    /\ log = [t \in Topics |-> <<>>]
    /\ committing = {} /\ unnotified = <<>>
    /\ stored = None /\ putting = None
    /\ connections = 0 /\ open = FALSE /\ present = FALSE
    /\ sessionRecord = EmptyRecord /\ resuming = EmptyRecord
    /\ adding = None /\ isNew = FALSE
    /\ live = NoneLive
    /\ awaitingAcks = <<>>
    /\ nextMessageId = 1
    /\ acked = {}
    /\ since = [t \in Topics |-> 0]

-----------------------------------------------------------------------------
\* Publications of anybody on the subscribed topics.

\* (The bound of the clock leaves a subscribe under way its time.)
BeginPublish(t) ==
    /\ now + (IF adding # None /\ isNew THEN 1 ELSE 0) < MaxTime
    /\ committing = {} \/ "late_commit" \in Allowed
    /\ now' = now + 1
    /\ committing' = committing \cup {<<t, now'>>}
    /\ UNCHANGED <<log, unnotified, record, connection, subscribing, live,
                   awaitingAcks, nextMessageId, acked>>

CommitPublish(t, m) ==
    /\ <<t, m>> \in committing
    /\ committing' = committing \ {<<t, m>>}
    /\ log' = [log EXCEPT ![t] = Append(@, m)]
    /\ unnotified' = Append(unnotified, <<t, m>>)
    /\ UNCHANGED <<now, record, connection, subscribing, live, awaitingAcks,
                   nextMessageId, acked>>

\* The listener of the subscription is called, unless the subscription has
\* already sent this message.
Notify ==
    /\ unnotified # <<>>
    /\ unnotified' = Tail(unnotified)
    /\ LET t == Head(unnotified)[1]
           m == Head(unnotified)[2]
       IN live' = IF live[t].on /\ (live[t].start = 0 \/ live[t].start < m)
                  THEN [live EXCEPT ![t].queue = Append(@, Event(m, m))]
                  ELSE live
    /\ UNCHANGED <<now, log, committing, record, connection, subscribing,
                   awaitingAcks, nextMessageId, acked>>

-----------------------------------------------------------------------------
\* Subscribing.

\* Mutant: the catch-up leaves subscription.startTime where it was.
RegisterAgain(t, entry) ==
    [on |-> TRUE, listed |-> FALSE, start |-> entry.start, filter |-> entry.acks,
     queue |-> LET new == SelectSeq(log[t], LAMBDA m : Earlier(entry.start, m))
               IN [i \in DOMAIN new |-> Event(new[i], new[i])]]

\* TableResource.subscribe with a startTime.  A record topic follows the chain
\* of previous versions back to the startTime, and moves its startTime on to
\* the last message so that it is not sent twice.  A wildcard topic reads a
\* range of the log instead, whose records carry no localTime.
Register(t, entry) ==
    LET read == {i \in DOMAIN log[t] : ~Earlier(entry.start, log[t][i])}
        chain == SubSeq(log[t], Max(read \cup {0}) + 1, Len(log[t]))
        range == SetToSortSeq({m \in ToSet(log[t]) : Earlier(entry.start, m)}, <)
        wild == t \in WildcardTopics
    IN [on |-> TRUE, listed |-> FALSE, filter |-> entry.acks,
        start |-> IF wild THEN (IF range = <<>> THEN entry.start ELSE 0)
                  ELSE IF chain = <<>> THEN entry.start ELSE Last(chain),
        queue |-> IF wild THEN [i \in DOMAIN range |-> Event(range[i], 0)]
                  ELSE [i \in DOMAIN chain |-> Event(chain[i], chain[i])]]

\* A client that was told that its session is present need not subscribe again.
MaySubscribe(t) ==
    \/ "resubscribe" \in Allowed
    \/ ~present /\ ~live[t].on

Subscribe(t) ==
    /\ open /\ adding = None
    /\ MaySubscribe(t)
    /\ now < MaxTime
    /\ adding' = t /\ isNew' = TRUE
    /\ live' = [live EXCEPT ![t] = Register(t, Absent)]
    /\ UNCHANGED <<now, store, record, connection, resuming, awaitingAcks,
                   nextMessageId, acked>>

\* One turn of the loop of resume().
ResumeNext(t) ==
    /\ open /\ adding = None
    /\ resuming[t].on
    /\ resuming' = [resuming EXCEPT ![t] = Absent]
    /\ adding' = t /\ isNew' = FALSE
    /\ live' = [live EXCEPT ![t] = Register(t, resuming[t])]
    /\ UNCHANGED <<now, store, record, connection, awaitingAcks,
                   nextMessageId, acked>>

\* saveSubscriptions, for the live subscriptions subs: the times of the last
\* catch-up (or the current time) replace what was acknowledged.
Saved(subs) ==
    [t \in Topics |->
        IF subs[t].listed
        THEN [on |-> TRUE, start |-> subs[t].start, acks |-> {}]
        ELSE Absent]

SaveSubscriptions(subs) ==
    LET stamped == [t \in Topics |->
                      IF subs[t].listed /\ subs[t].start = 0
                      THEN [subs[t] EXCEPT !.start = now + 1] ELSE subs[t]]
    IN /\ now < MaxTime
       /\ now' = now + 1
       /\ live' = stamped
       /\ sessionRecord' = Saved(stamped)
       /\ putting' = Saved(stamped)

\* The subscription is there: it joins the list, and a new one is saved.  This
\* goes on after the connection is lost.
FinishAdding ==
    /\ adding # None
    /\ adding' = None
    /\ LET subs == [live EXCEPT ![adding].listed = TRUE]
       IN \/ /\ isNew
             /\ SaveSubscriptions(subs)
          \/ /\ ~isNew
             /\ live' = subs
             /\ UNCHANGED <<now, sessionRecord, putting>>
    /\ UNCHANGED <<store, stored, since, connection, resuming, isNew,
                   awaitingAcks, nextMessageId, acked>>

Unsubscribe(t) ==
    /\ open /\ adding = None
    /\ live[t].listed
    /\ "resubscribe" \in Allowed \/ ~present
    /\ SaveSubscriptions([live EXCEPT ![t] = Ended])
    /\ since' = [since EXCEPT ![t] = 0]
    /\ UNCHANGED <<store, stored, connection, subscribing, awaitingAcks,
                   nextMessageId, acked>>

-----------------------------------------------------------------------------
\* Delivery and acknowledgement.

\* Mutant: message ids do not roll over.
EndlessMessageId == nextMessageId + 1

NextMessageId == IF nextMessageId + 1 > MaxMessageId THEN 1 ELSE nextMessageId + 1

\* The id of the next message to this client; the others took those in between.
MessageIds == IF "other_sessions" \in Allowed THEN 1 .. MaxMessageId ELSE {NextMessageId}

\* One turn of the loop over the queue of a subscription: a message that was
\* acknowledged out of order before is passed over, any other is sent.
Deliver(t) ==
    /\ open
    /\ live[t].on /\ live[t].queue # <<>>
    /\ live' = [live EXCEPT ![t].queue = Tail(@)]
    /\ LET e == Head(live[t].queue)
           sent == [topic |-> t, msg |-> e.msg, ts |-> e.ts]
       IN \/ /\ e.ts \in live[t].filter
             /\ UNCHANGED <<awaitingAcks, nextMessageId>>
          \/ /\ e.ts \notin live[t].filter
             /\ nextMessageId' \in MessageIds
             /\ awaitingAcks' = [i \in DOMAIN awaitingAcks \cup {nextMessageId'} |->
                                   IF i = nextMessageId' THEN sent ELSE awaitingAcks[i]]
    /\ UNCHANGED <<now, store, record, connection, subscribing, acked>>

\* Mutant: every acknowledgement moves startTime.
AdvanceAlways(entry, update, remaining) ==
    IF entry.on THEN [entry EXCEPT !.start = update.ts] ELSE entry

\* The entry of a topic after update was acknowledged, while remaining still
\* wait: out of order, it joins acks; otherwise startTime moves on.
Advance(entry, update, remaining) ==
    IF ~entry.on THEN entry
    ELSE IF \E r \in remaining : r.topic = update.topic /\ Earlier(r.ts, update.ts)
         THEN [entry EXCEPT !.acks = @ \cup {update.ts}]
         ELSE [entry EXCEPT !.start = update.ts]

AcknowledgeMessage(id) ==
    /\ open
    /\ id \in DOMAIN awaitingAcks
    /\ LET update == awaitingAcks[id]
           others == DOMAIN awaitingAcks \ {id}
       IN /\ awaitingAcks' = [i \in others |-> awaitingAcks[i]]
          /\ acked' = acked \cup {<<update.topic, update.msg>>}
          /\ sessionRecord' = [sessionRecord EXCEPT ![update.topic] =
                Advance(@, update, {awaitingAcks[i] : i \in others})]
    /\ putting' = sessionRecord'
    /\ UNCHANGED <<now, store, stored, since, connection, subscribing, live,
                   nextMessageId>>

\* The last put is stored; with the first record of a topic the promise begins.
StorePut ==
    /\ putting # None
    /\ stored' = putting
    /\ putting' = None
    /\ since' = [t \in Topics |->
                   IF putting[t].on /\ since[t] = 0 THEN now ELSE since[t]]
    /\ UNCHANGED <<now, store, sessionRecord, connection, subscribing, live,
                   awaitingAcks, nextMessageId, acked>>

-----------------------------------------------------------------------------
\* Connections.

\* Mutant: a session that was present is not resumed.
ConnectOnly ==
    /\ ~open /\ adding = None
    /\ connections < MaxConnections
    /\ putting = None
    /\ connections' = connections + 1
    /\ open' = TRUE
    /\ present' = (stored # None)
    /\ sessionRecord' = IF stored = None THEN EmptyRecord ELSE stored
    /\ awaitingAcks' = <<>>
    /\ UNCHANGED <<now, store, stored, putting, since, subscribing, live,
                   nextMessageId, acked>>

\* getSession and the reply to the connect packet; resume() begins.
Connect ==
    /\ ~open /\ adding = None
    /\ connections < MaxConnections
    /\ putting = None \/ "fast_reconnect" \in Allowed
    /\ connections' = connections + 1
    /\ open' = TRUE
    /\ present' = (stored # None)
    /\ sessionRecord' = IF stored = None THEN EmptyRecord ELSE stored
    /\ resuming' = sessionRecord'
    /\ live' = NoneLive
    /\ awaitingAcks' = <<>>
    /\ UNCHANGED <<now, store, stored, putting, since, adding, isNew,
                   nextMessageId, acked>>

\* disconnect(): the subscriptions end, and a subscribe under way continues.
Drop ==
    /\ open
    /\ connections < MaxConnections
    /\ adding # None /\ isNew => "drop_subscribing" \in Allowed
    /\ open' = FALSE
    /\ adding' = IF isNew THEN adding ELSE None
    /\ resuming' = EmptyRecord
    /\ live' = [t \in Topics |-> IF t = adding /\ isNew THEN live[t] ELSE Ended]
    /\ awaitingAcks' = <<>>
    /\ UNCHANGED <<now, store, record, connections, present, isNew,
                   nextMessageId, acked>>

\* The process ends: what was not stored is lost, and its log is read from
\* the end when it is back.
Crash ==
    /\ connections < MaxConnections
    /\ open' = FALSE
    /\ adding' = None /\ resuming' = EmptyRecord
    /\ live' = NoneLive
    /\ awaitingAcks' = <<>>
    /\ putting' = None /\ unnotified' = <<>> /\ committing' = {}
    /\ nextMessageId' = 1
    /\ UNCHANGED <<now, log, stored, sessionRecord, since, connections,
                   present, isNew, acked>>

\* Nothing is left to do: every message is acknowledged.
Done ==
    /\ now = MaxTime /\ connections = MaxConnections
    /\ committing = {} /\ unnotified = <<>> /\ putting = None
    /\ adding = None /\ resuming = EmptyRecord /\ awaitingAcks = <<>>
    /\ \A t \in Topics : live[t].queue = <<>>
    /\ UNCHANGED vars

Next ==
    \/ \E t \in Topics : \/ BeginPublish(t)
                         \/ Subscribe(t)
                         \/ ResumeNext(t)
                         \/ Unsubscribe(t)
                         \/ Deliver(t)
    \/ \E t \in Topics, m \in Times : CommitPublish(t, m)
    \/ \E id \in 1 .. MaxMessageId : AcknowledgeMessage(id)
    \/ Notify
    \/ FinishAdding
    \/ StorePut
    \/ Connect
    \/ Drop
    \/ Crash
    \/ Done

\* The server goes on with what it has begun; the client comes back and
\* acknowledges what it receives.
Fairness ==
    /\ WF_vars(Connect)
    /\ WF_vars(FinishAdding)
    /\ WF_vars(StorePut)
    /\ WF_vars(Notify)
    /\ \A t \in Topics : WF_vars(ResumeNext(t)) /\ WF_vars(Deliver(t))
    /\ \A t \in Topics : \A m \in Times : WF_vars(CommitPublish(t, m))
    /\ \A id \in 1 .. MaxMessageId : WF_vars(AcknowledgeMessage(id))

Spec == Init /\ [][Next]_vars
FairSpec == Spec /\ Fairness

-----------------------------------------------------------------------------
\* The messages that the client was promised and has not acknowledged.
Owed == {w \in Topics \X Times :
            /\ since[w[1]] # 0 /\ w[2] \in ToSet(log[w[1]]) /\ since[w[1]] < w[2]
            /\ w \notin acked}

(***************************************************************************)
(* UnacknowledgedIsKept: whatever is lost now (the connection, the         *)
(* process), the stored session record makes resume() send every message   *)
(* the client is still owed: its time is after the saved startTime and it  *)
(* is not among the saved acks.  acknowledge, saveSubscriptions and the    *)
(* order of their puts all write that record.                              *)
(***************************************************************************)
UnacknowledgedIsKept ==
    \A w \in Owed :
        /\ stored # None
        /\ stored[w[1]].on
        /\ Earlier(stored[w[1]].start, w[2])
        /\ w[2] \notin stored[w[1]].acks

(***************************************************************************)
(* QueuedOnce: a message waits at most once in the queue of a subscription *)
(* or for its acknowledgement: the catch-up from the log and the messages  *)
(* notified while it was under way do not overlap (subscription.startTime).*)
(***************************************************************************)
QueuedOnce ==
    \A t \in Topics :
        LET queue == live[t].queue
            sent == {i \in DOMAIN awaitingAcks : awaitingAcks[i].topic = t}
        IN /\ \A i, j \in DOMAIN queue : queue[i].msg = queue[j].msg => i = j
           /\ \A i \in sent, j \in DOMAIN queue : awaitingAcks[i].msg # queue[j].msg
           /\ \A i, j \in sent : awaitingAcks[i].msg = awaitingAcks[j].msg => i = j

\* The session implements the promise of AtLeastOnce.
Promise == INSTANCE AtLeastOnce WITH waiting <- Owed
PromiseKept == Promise!Spec
=============================================================================
