---------------------- MODULE DurableSessionProofs ----------------------
(***************************************************************************)
(* Proofs about DurableSession, for any topics, times and connections.     *)
(* Whatever Circumstances are allowed, every step is a step of             *)
(* AtLeastOnce, or none, as the client sees it.  Where no topic is a       *)
(* wildcard (its catch-up sorts a range of the log), types hold whatever   *)
(* Circumstances are allowed; where none of them occurs, but that other    *)
(* sessions may take message ids, no message is sent twice to one          *)
(* connection (SessionInv), and the stored record keeps all that is owed   *)
(* to the client (KeepInv).                                                *)
(***************************************************************************)
EXTENDS DurableSession, SequenceTheorems, WellFoundedInduction, TLAPS

Update == [msg : Times, ts : 0 .. MaxTime]
Subscription == [on : BOOLEAN, listed : BOOLEAN, start : 0 .. MaxTime, queue : Seq(Update),
                 filter : SUBSET Times]
Sending == [topic : Topics, msg : Times, ts : 0 .. MaxTime]

TypeInv ==
    /\ now \in 0 .. MaxTime
    /\ log \in [Topics -> Seq(Times)]
    /\ committing \subseteq Topics \X Times
    /\ unnotified \in Seq(Topics \X Times)
    /\ stored \in Record \cup {None} /\ putting \in Record \cup {None}
    /\ connections \in 0 .. MaxConnections
    /\ open \in BOOLEAN /\ present \in BOOLEAN /\ isNew \in BOOLEAN
    /\ sessionRecord \in Record /\ resuming \in Record
    /\ adding \in Topics \cup {None}
    /\ live \in [Topics -> Subscription]
    /\ DOMAIN awaitingAcks \subseteq 1 .. MaxMessageId
    /\ \A i \in DOMAIN awaitingAcks : awaitingAcks[i] \in Sending
    /\ nextMessageId \in 1 .. MaxMessageId
    /\ acked \subseteq Topics \X Times
    /\ since \in [Topics -> 0 .. MaxTime]

\* Publications commit one by one, in the order of their times.
TimeInv ==
    /\ \A x, y \in committing : x = y
    /\ \A x \in committing : x[2] <= now
    /\ \A t \in Topics :
          /\ \A i \in 1 .. Len(log[t]) :
                /\ log[t][i] <= now
                /\ \A j \in 1 .. Len(log[t]) : i < j => log[t][i] < log[t][j]
                /\ \A x \in committing : log[t][i] < x[2]
    /\ \A i \in 1 .. Len(unnotified) :
          /\ \A j \in 1 .. Len(unnotified) : i < j => unnotified[i][2] < unnotified[j][2]
          /\ \A x \in committing : unnotified[i][2] < x[2]
          /\ unnotified[i][2] <= now

\* Without a connection there are no subscriptions; only a session that is new
\* adds some, and only one that is not resumes them.
OpenInv ==
    /\ ~open => /\ adding = None /\ resuming = EmptyRecord
                /\ live = NoneLive /\ DOMAIN awaitingAcks = {}
    /\ adding # None => live[adding].on /\ (isNew <=> ~present)
    /\ \A t \in Topics :
          /\ resuming[t].on => present /\ ~live[t].on
          /\ live[t].listed => live[t].on
          /\ ~live[t].on => live[t].queue = <<>>

Awaiting(t) == {i \in DOMAIN awaitingAcks : awaitingAcks[i].topic = t}

\* Message m of topic t comes before all that the thread will yet be told of: what
\* the catch-up of a resumed subscription has found is not queued again.
Before(m, t) ==
    /\ m <= now
    /\ \A x \in committing : m < x[2]
    /\ \A j \in 1 .. Len(unnotified) :
          unnotified[j][1] = t /\ (present => live[t].start < unnotified[j][2]) => m < unnotified[j][2]

\* What was sent and not acknowledged, then what waits to be sent, in order.
OrderInv(t) ==
    LET queue == live[t].queue
    IN /\ \A i \in 1 .. Len(queue) :
             /\ queue[i].ts = queue[i].msg /\ Before(queue[i].msg, t)
             /\ \A j \in 1 .. Len(queue) : i < j => queue[i].msg < queue[j].msg
       /\ \A i \in Awaiting(t) :
             /\ awaitingAcks[i].ts = awaitingAcks[i].msg /\ Before(awaitingAcks[i].msg, t)
             /\ present => live[t].on
             /\ \A j \in 1 .. Len(queue) : awaitingAcks[i].msg < queue[j].msg
             /\ \A j \in Awaiting(t) : awaitingAcks[i].msg = awaitingAcks[j].msg => i = j

SessionInv ==
    /\ TypeInv /\ TimeInv /\ OpenInv
    /\ \A t \in Topics : OrderInv(t)

-----------------------------------------------------------------------------
\* The messages of a topic that are or will be in its log, were promised, and
\* are not acknowledged.
Pending(t) ==
    {m \in Times : /\ m \in ToSet(log[t]) \/ <<t, m>> \in committing \/ m > now
                   /\ since[t] < m /\ <<t, m>> \notin acked}

\* A record starts before all of them.
Keeps(r, t) == since[t] # 0 => r[t].on /\ \A m \in Pending(t) : r[t].start < m

\* The times in a record have passed, and what it passes over was acknowledged.
Past(r, t) == /\ r[t].on => 0 < r[t].start /\ r[t].start <= now
              /\ \A m \in r[t].acks : <<t, m>> \in acked

\* The records that are stored, being stored, or current keep all that is pending.
RecordInv(t) ==
    /\ stored = None => since[t] = 0
    /\ stored # None => Past(stored, t) /\ Keeps(stored, t)
    /\ putting # None => Past(putting, t) /\ Keeps(putting, t)
    /\ open => /\ Past(sessionRecord, t) /\ Keeps(sessionRecord, t)
               /\ putting # None => putting = sessionRecord
    /\ since[t] <= now /\ live[t].start <= now
    /\ resuming[t].on => resuming[t] = sessionRecord[t]

\* In a session that is new, what is promised is listed, from then on or earlier.
FreshInv(t) ==
    open /\ ~present =>
        /\ sessionRecord[t].on \/ since[t] # 0 => live[t].listed
        /\ live[t].listed => live[t].start > 0
        /\ since[t] # 0 => live[t].start <= since[t]

\* A live subscription still has to send what is pending, or has sent it.
Covered(m, t) ==
    \/ \E i \in DOMAIN awaitingAcks : awaitingAcks[i].topic = t /\ awaitingAcks[i].msg = m
    \/ \E i \in 1 .. Len(live[t].queue) : live[t].queue[i].msg = m
    \/ /\ live[t].start < m
       /\ m \in ToSet(log[t]) => \E j \in 1 .. Len(unnotified) : unnotified[j] = <<t, m>>

CoverInv(t) ==
    /\ \A m \in live[t].filter : <<t, m>> \in acked
    /\ live[t].on /\ since[t] # 0 => \A m \in Pending(t) : Covered(m, t)

KeepInv == \A t \in Topics : RecordInv(t) /\ FreshInv(t) /\ CoverInv(t)

\* No message is sent under an id under which another awaits its acknowledgement:
\* getNextMessageId does not look, and the one that waited would be forgotten.
IdsAreFree ==
    \A i \in DOMAIN awaitingAcks \cap DOMAIN awaitingAcks' : awaitingAcks'[i] = awaitingAcks[i]

-----------------------------------------------------------------------------
LEMMA Constants ==
  /\ MaxTime \in Nat /\ MaxMessageId \in Nat \ {0} /\ MaxConnections \in Nat
  /\ None \notin Topics /\ None \notin Record
  /\ Allowed \subseteq Circumstances
  BY SessionAssumption, NoneAssumption

\* Max of indices of a sequence.
LEMMA LastIndex ==
  ASSUME NEW n \in Nat, NEW S \in SUBSET (1 .. n)
  PROVE  /\ Max(S \cup {0}) \in S \cup {0}
         /\ \A i \in S : i <= Max(S \cup {0})
<1> DEFINE T == S \cup {0}
           D == {n - x : x \in T}
<1>1. T \subseteq 0 .. n /\ 0 \in T
  OBVIOUS
<1>2. D \in SUBSET Nat /\ D # {}
  <2>1. ASSUME NEW x \in T PROVE n - x \in Nat
    BY <1>1
  <2> QED
    BY <1>1, <2>1
<1>3. PICK d \in D : \A e \in D : ~(<<e, d>> \in OpToRel(<, Nat))
  BY <1>2, NatLessThanWellFounded, WFMin
<1>4. ASSUME NEW e \in D PROVE d <= e
  <2>1. ~(<<e, d>> \in {ss \in Nat \X Nat : ss[1] < ss[2]})
    BY <1>3 DEF OpToRel
  <2>2. <<e, d>> \in Nat \X Nat /\ e \in Nat /\ d \in Nat
    BY <1>2
  <2> QED
    BY <2>1, <2>2
<1>5. PICK x \in T : d = n - x
  OBVIOUS
<1>6. ASSUME NEW y \in T PROVE x >= y
  <2>1. n - x <= n - y
    BY <1>4, <1>5
  <2> QED
    BY <1>1, <2>1
<1>7. Max(T) \in T /\ \A y \in T : Max(T) >= y
  BY <1>6 DEF Max
<1>8. \A i \in S : i \in T
  OBVIOUS
<1>9. Max(T) = Max(S \cup {0})
  OBVIOUS
<1>13. T \subseteq Nat
  OBVIOUS
<1> HIDE DEF T
<1>10. Max(T) \in Nat /\ \A i \in T : i \in Nat
  BY <1>7, <1>13
<1>11. \A i \in S : i <= Max(T)
  BY <1>7, <1>8, <1>10
<1>12. Max(T) \in S \cup {0}
  BY <1>7 DEF T
<1> QED
  BY <1>9, <1>11, <1>12

\* What the catch-up of a subscription finds.
LEMMA RegisterFinds ==
  ASSUME NEW t \in Topics, t \notin WildcardTopics, NEW entry \in Entry,
         log[t] \in Seq(Times)
  PROVE  LET r == Register(t, entry)
         IN \E k \in 0 .. Len(log[t]) :
              /\ r.on = TRUE /\ r.listed = FALSE /\ r.filter = entry.acks
              /\ r.queue \in Seq(Update)
              /\ Len(r.queue) = Len(log[t]) - k
              /\ \A i \in 1 .. Len(r.queue) : r.queue[i] = [msg |-> log[t][k + i], ts |-> log[t][k + i]]
              /\ r.start = IF k = Len(log[t]) THEN entry.start ELSE log[t][Len(log[t])]
              /\ \A i \in k + 1 .. Len(log[t]) : Earlier(entry.start, log[t][i])
              /\ k > 0 => ~Earlier(entry.start, log[t][k])
<1> DEFINE n == Len(log[t])
           read == {i \in DOMAIN log[t] : ~Earlier(entry.start, log[t][i])}
           k == Max(read \cup {0})
           chain == SubSeq(log[t], k + 1, n)
           r == Register(t, entry)
<1>1. n \in Nat /\ DOMAIN log[t] = 1 .. n /\ \A i \in 1 .. n : log[t][i] \in Times
  OBVIOUS
<1>2. k \in read \cup {0} /\ \A i \in read : i <= k
  BY <1>1, LastIndex
<1>3. k \in 0 .. n
  BY <1>1, <1>2
<1>4. chain \in Seq(Times) /\ Len(chain) = n - k /\ \A i \in 1 .. n - k : chain[i] = log[t][k + i]
  <2> HIDE DEF read, k
  <2>1. k + 1 \in 1 .. n + 1 /\ n \in Nat
    BY <1>1, <1>3
  <2>2. /\ chain \in Seq(Times)
        /\ Len(chain) = IF k + 1 <= n THEN n - (k + 1) + 1 ELSE 0
        /\ \A i \in 1 .. n - (k + 1) + 1 : chain[i] = log[t][k + 1 + i - 1]
    BY <2>1, <1>1, SubSeqProperties
  <2> HIDE DEF n, chain
  <2>3. k \in Nat /\ n \in Nat /\ k <= n
    BY <1>1, <1>3
  <2>4. n - (k + 1) + 1 = n - k /\ (k + 1 <= n \/ n - k = 0)
    BY <2>3
  <2>5. Len(chain) = n - k
    BY <2>2, <2>4
  <2>6. ASSUME NEW i \in 1 .. n - k PROVE chain[i] = log[t][k + i]
    <3>1. k + 1 + i - 1 = k + i
      BY <2>3
    <3> QED
      BY <2>2, <2>4, <3>1
  <2> QED
    BY <2>2, <2>5, <2>6
<1>5. r = [on |-> TRUE, listed |-> FALSE, filter |-> entry.acks,
           start |-> IF chain = <<>> THEN entry.start ELSE Last(chain),
           queue |-> [i \in DOMAIN chain |-> Event(chain[i], chain[i])]]
  BY DEF Register
<1>8. \A i \in k + 1 .. n : Earlier(entry.start, log[t][i])
  <2> SUFFICES ASSUME NEW i \in k + 1 .. n PROVE Earlier(entry.start, log[t][i])
    OBVIOUS
  <2>1. i \in DOMAIN log[t] /\ (i \in read => i <= k)
    BY <1>1, <1>2, <1>3
  <2>2. i \notin read
    <3> HIDE DEF read, k
    <3> QED
      BY <1>3, <2>1
  <2> QED
    BY <2>1, <2>2
<1>9. k > 0 => ~Earlier(entry.start, log[t][k])
  BY <1>2
<1> HIDE DEF k, r, read, chain
<1>6. r.queue \in Seq(Update) /\ Len(r.queue) = n - k
      /\ \A i \in 1 .. n - k : r.queue[i] = [msg |-> log[t][k + i], ts |-> log[t][k + i]]
  <2>1. r.queue = [i \in 1 .. n - k |-> [msg |-> chain[i], ts |-> chain[i]]]
    BY <1>4, <1>5 DEF Event
  <2>2. \A i \in 1 .. n - k : chain[i] \in Times
    BY <1>1, <1>3, <1>4
  <2>3. \A i \in 1 .. n - k : [msg |-> chain[i], ts |-> chain[i]] \in Update
    BY <2>2, Constants DEF Update, Times
  <2>4. n - k \in Nat
    BY <1>1, <1>3
  <2> QED
    BY <1>4, <2>1, <2>3, <2>4
<1>7. r.start = IF k = n THEN entry.start ELSE log[t][n]
  <2>1. k = n <=> chain = <<>>
    BY <1>1, <1>3, <1>4
  <2>2. ASSUME k # n PROVE Last(chain) = log[t][n]
    <3>1. n - k \in 1 .. n - k /\ k + (n - k) = n
      BY <1>1, <1>3, <2>2
    <3>2. chain[n - k] = log[t][k + (n - k)]
      BY <1>4, <3>1
    <3>3. Last(chain) = chain[n - k]
      BY <1>4 DEF Last
    <3> QED
      BY <3>1, <3>2, <3>3
  <2> QED
    BY <1>5, <2>1, <2>2
<1>10. r.on = TRUE /\ r.listed = FALSE /\ r.filter = entry.acks
  BY <1>5
<1> QED
  BY <1>3, <1>6, <1>7, <1>8, <1>9, <1>10 DEF r, k

-----------------------------------------------------------------------------
\* Types.
LEMMA RegisterType ==
  ASSUME TypeInv, NEW t \in Topics, t \notin WildcardTopics, NEW entry \in Entry
  PROVE  Register(t, entry) \in Subscription
<1> DEFINE r == Register(t, entry)
<1>1. log[t] \in Seq(Times)
  BY DEF TypeInv
<1>2. PICK k \in 0 .. Len(log[t]) :
         /\ r.on = TRUE /\ r.listed = FALSE /\ r.filter = entry.acks
         /\ r.queue \in Seq(Update)
         /\ Len(r.queue) = Len(log[t]) - k
         /\ \A i \in 1 .. Len(r.queue) : r.queue[i] = [msg |-> log[t][k + i], ts |-> log[t][k + i]]
         /\ r.start = IF k = Len(log[t]) THEN entry.start ELSE log[t][Len(log[t])]
         /\ \A i \in k + 1 .. Len(log[t]) : Earlier(entry.start, log[t][i])
         /\ k > 0 => ~Earlier(entry.start, log[t][k])
  BY <1>1, RegisterFinds
<1>3. r = [on |-> r.on, listed |-> r.listed, start |-> r.start, queue |-> r.queue,
           filter |-> r.filter]
  BY DEF Register
<1>4. r.start \in 0 .. MaxTime
  <2>1. k # Len(log[t]) => log[t][Len(log[t])] \in Times
    BY <1>1, <1>2
  <2> QED
    BY <1>2, <2>1, Constants DEF Entry, Times
<1>5. r.filter \in SUBSET Times
  BY <1>2 DEF Entry
<1> HIDE DEF r
<1>6. r \in Subscription
  BY <1>2, <1>3, <1>4, <1>5 DEF Subscription
<1> QED
  BY <1>6 DEF r

LEMMA SavedType ==
  ASSUME TypeInv, NEW subs \in [Topics -> Subscription], SaveSubscriptions(subs)
  PROVE  /\ now' \in 0 .. MaxTime /\ now' = now + 1
         /\ live' \in [Topics -> Subscription]
         /\ sessionRecord' \in Record /\ putting' = sessionRecord'
         /\ \A t \in Topics :
               /\ live'[t] = IF subs[t].listed /\ subs[t].start = 0
                             THEN [subs[t] EXCEPT !.start = now + 1] ELSE subs[t]
               /\ sessionRecord'[t] = IF live'[t].listed
                                      THEN [on |-> TRUE, start |-> live'[t].start, acks |-> {}]
                                      ELSE Absent
<1> DEFINE stamped == [t \in Topics |->
                         IF subs[t].listed /\ subs[t].start = 0
                         THEN [subs[t] EXCEPT !.start = now + 1] ELSE subs[t]]
<1>1. /\ now < MaxTime /\ now' = now + 1 /\ live' = stamped
      /\ sessionRecord' = Saved(live') /\ putting' = Saved(live')
  BY DEF SaveSubscriptions
<1>2. now' \in 0 .. MaxTime
  BY <1>1, Constants DEF TypeInv
<1>3. live' \in [Topics -> Subscription]
  <2> SUFFICES ASSUME NEW t \in Topics PROVE stamped[t] \in Subscription
    BY <1>1
  <2>1. subs[t] \in Subscription
    OBVIOUS
  <2> QED
    BY <1>1, <1>2, <2>1 DEF Subscription
<1>4. ASSUME NEW t \in Topics
      PROVE  /\ live'[t] = IF subs[t].listed /\ subs[t].start = 0
                           THEN [subs[t] EXCEPT !.start = now + 1] ELSE subs[t]
             /\ sessionRecord'[t] = IF live'[t].listed
                                    THEN [on |-> TRUE, start |-> live'[t].start, acks |-> {}]
                                    ELSE Absent
             /\ sessionRecord'[t] \in Entry
  <2> HIDE DEF stamped
  <2>1. live'[t] = stamped[t] /\ sessionRecord'[t] = Saved(live')[t]
    BY <1>1
  <2>2. live'[t] \in Subscription
    BY <1>3
  <2>3. stamped[t] = IF subs[t].listed /\ subs[t].start = 0
                     THEN [subs[t] EXCEPT !.start = now + 1] ELSE subs[t]
    BY DEF stamped
  <2>4. sessionRecord'[t] = IF live'[t].listed
                            THEN [on |-> TRUE, start |-> live'[t].start, acks |-> {}]
                            ELSE Absent
    BY <2>1 DEF Saved
  <2>5. live'[t].start \in 0 .. MaxTime
    BY <2>2 DEF Subscription
  <2>6. sessionRecord'[t] \in Entry
    BY <2>4, <2>5, Constants DEF Entry, Absent
  <2> QED
    BY <2>1, <2>3, <2>4, <2>6
<1>5. sessionRecord' \in Record
  BY <1>1, <1>4 DEF Saved, Record
<1> QED
  BY <1>1, <1>2, <1>3, <1>4, <1>5

LEMMA TypeInit == Init => TypeInv
<1> SUFFICES ASSUME Init PROVE TypeInv
  OBVIOUS
<1>1. EmptyRecord \in Record
  BY Constants DEF EmptyRecord, Record, Entry, Absent
<1>2. NoneLive \in [Topics -> Subscription]
  BY Constants DEF NoneLive, Ended, Subscription
<1>3. DOMAIN awaitingAcks = {}
  BY DEF Init
<1>4. unnotified \in Seq(Topics \X Times) /\ committing \subseteq Topics \X Times
  BY DEF Init
<1>5. log \in [Topics -> Seq(Times)]
  BY DEF Init
<1>6. nextMessageId \in 1 .. MaxMessageId
  BY Constants DEF Init
<1>7. since \in [Topics -> 0 .. MaxTime] /\ now \in 0 .. MaxTime /\ connections \in 0 .. MaxConnections
  BY Constants DEF Init
<1>8. /\ stored = None /\ putting = None /\ adding = None /\ acked = {}
      /\ open = FALSE /\ present = FALSE /\ isNew = FALSE
      /\ sessionRecord = EmptyRecord /\ resuming = EmptyRecord /\ live = NoneLive
  BY DEF Init
<1> QED
  BY <1>1, <1>2, <1>3, <1>4, <1>5, <1>6, <1>7, <1>8 DEF TypeInv

\* What was sent is known by type.
LEMMA DeliverType ==
  ASSUME TypeInv, NEW t \in Topics, Deliver(t)
  PROVE  /\ live' \in [Topics -> Subscription]
         /\ nextMessageId' \in 1 .. MaxMessageId
         /\ DOMAIN awaitingAcks' \subseteq 1 .. MaxMessageId
         /\ \A i \in DOMAIN awaitingAcks' : awaitingAcks'[i] \in Sending
<1> DEFINE e == Head(live[t].queue)
           sent == [topic |-> t, msg |-> e.msg, ts |-> e.ts]
<1>1. live[t] \in Subscription /\ live[t].queue \in Seq(Update) /\ live[t].queue # <<>>
  BY DEF TypeInv, Deliver, Subscription
<1>2. e \in Update /\ Tail(live[t].queue) \in Seq(Update)
  BY <1>1
<1>3. live' = [live EXCEPT ![t].queue = Tail(@)]
  BY DEF Deliver
<1>4. live' \in [Topics -> Subscription]
  BY <1>1, <1>2, <1>3 DEF TypeInv, Subscription
<1>5. sent \in Sending
  BY <1>2 DEF Update, Sending
<1>6. \/ UNCHANGED <<awaitingAcks, nextMessageId>>
      \/ /\ nextMessageId' \in MessageIds
         /\ awaitingAcks' = [i \in DOMAIN awaitingAcks \cup {nextMessageId'} |->
                               IF i = nextMessageId' THEN sent ELSE awaitingAcks[i]]
  BY DEF Deliver
<1>7. MessageIds \subseteq 1 .. MaxMessageId
  BY Constants DEF MessageIds, NextMessageId, TypeInv
<1> HIDE DEF e, sent
<1>8. CASE UNCHANGED <<awaitingAcks, nextMessageId>>
  BY <1>4, <1>8 DEF TypeInv
<1>9. CASE /\ nextMessageId' \in MessageIds
           /\ awaitingAcks' = [i \in DOMAIN awaitingAcks \cup {nextMessageId'} |->
                                 IF i = nextMessageId' THEN sent ELSE awaitingAcks[i]]
  <2>1. DOMAIN awaitingAcks' = DOMAIN awaitingAcks \cup {nextMessageId'}
    BY <1>9
  <2>2. nextMessageId' \in 1 .. MaxMessageId
    BY <1>7, <1>9
  <2>3. \A i \in DOMAIN awaitingAcks' : awaitingAcks'[i] \in Sending
    BY <1>5, <1>9, <2>1 DEF TypeInv
  <2> QED
    BY <1>4, <2>1, <2>2, <2>3 DEF TypeInv
<1> QED
  BY <1>6, <1>8, <1>9

LEMMA AcknowledgeType ==
  ASSUME TypeInv, NEW id \in 1 .. MaxMessageId, AcknowledgeMessage(id)
  PROVE  /\ DOMAIN awaitingAcks' = DOMAIN awaitingAcks \ {id}
         /\ \A i \in DOMAIN awaitingAcks' : awaitingAcks'[i] = awaitingAcks[i]
         /\ acked' \subseteq Topics \X Times
         /\ sessionRecord' \in Record /\ putting' = sessionRecord'
<1> DEFINE update == awaitingAcks[id]
           remaining == {awaitingAcks[i] : i \in DOMAIN awaitingAcks \ {id}}
           entry == sessionRecord[update.topic]
<1>1. /\ id \in DOMAIN awaitingAcks
      /\ awaitingAcks' = [i \in DOMAIN awaitingAcks \ {id} |-> awaitingAcks[i]]
      /\ acked' = acked \cup {<<update.topic, update.msg>>}
      /\ sessionRecord' = [sessionRecord EXCEPT ![update.topic] = Advance(entry, update, remaining)]
      /\ putting' = sessionRecord'
  BY DEF AcknowledgeMessage
<1>2. update \in Sending
  BY <1>1 DEF TypeInv
<1>3. update.topic \in Topics /\ update.msg \in Times /\ update.ts \in 0 .. MaxTime
  BY <1>2 DEF Sending
<1>4. entry \in Entry
  BY <1>3 DEF TypeInv, Record
<1> HIDE DEF update, remaining, entry
<1>5. Advance(entry, update, remaining) \in Entry
  <2>1. CASE ~entry.on
    BY <1>4, <2>1 DEF Advance
  <2>2. CASE entry.on /\ \E r \in remaining : r.topic = update.topic /\ Earlier(r.ts, update.ts)
    <3>1. Advance(entry, update, remaining) = [entry EXCEPT !.acks = @ \cup {update.ts}]
      BY <2>2 DEF Advance
    <3>2. update.ts \in Times
      BY <1>3, <2>2, Constants DEF Earlier, Times
    <3> QED
      BY <1>4, <3>1, <3>2 DEF Entry
  <2>3. CASE entry.on /\ ~\E r \in remaining : r.topic = update.topic /\ Earlier(r.ts, update.ts)
    <3>1. Advance(entry, update, remaining) = [entry EXCEPT !.start = update.ts]
      BY <2>3 DEF Advance
    <3> QED
      BY <1>3, <1>4, <3>1 DEF Entry
  <2> QED
    BY <2>1, <2>2, <2>3
<1>6. sessionRecord' \in Record
  BY <1>1, <1>3, <1>5 DEF TypeInv, Record
<1> QED
  BY <1>1, <1>3, <1>6 DEF TypeInv

LEMMA TypeStep ==
  ASSUME WildcardTopics = {}, TypeInv, [Next]_vars
  PROVE  TypeInv'
<1> USE DEF store, record, connection, subscribing
<1>0. EmptyRecord \in Record /\ NoneLive \in [Topics -> Subscription] /\ Ended \in Subscription
  <2>1. Absent \in Entry
    BY Constants DEF Absent, Entry
  <2>2. Ended \in Subscription
    BY Constants DEF Ended, Subscription
  <2> QED
    BY <2>1, <2>2 DEF EmptyRecord, Record, NoneLive
<1>1. ASSUME NEW t \in Topics, BeginPublish(t) PROVE TypeInv'
  <2>1. now' = now + 1 /\ now' \in Times
    BY <1>1, Constants DEF BeginPublish, TypeInv, Times
  <2>2. committing' \subseteq Topics \X Times
    BY <1>1, <2>1 DEF BeginPublish, TypeInv
  <2>3. now' \in 0 .. MaxTime
    BY <2>1, Constants DEF Times
  <2> QED
    BY <1>1, <2>2, <2>3 DEF BeginPublish, TypeInv
<1>2. ASSUME NEW t \in Topics, NEW m \in Times, CommitPublish(t, m) PROVE TypeInv'
  <2>1. log' \in [Topics -> Seq(Times)]
    BY <1>2 DEF CommitPublish, TypeInv
  <2>2. unnotified' \in Seq(Topics \X Times) /\ committing' \subseteq Topics \X Times
    BY <1>2 DEF CommitPublish, TypeInv
  <2> QED
    BY <1>2, <2>1, <2>2 DEF CommitPublish, TypeInv
<1>3. CASE Notify
  <2> DEFINE t == Head(unnotified)[1]
             m == Head(unnotified)[2]
  <2>1. Head(unnotified) \in Topics \X Times /\ Tail(unnotified) \in Seq(Topics \X Times)
    BY SMTT(60), <1>3 DEF Notify, TypeInv
  <2>2. t \in Topics /\ m \in Times
    BY <2>1
  <2>3. live[t] \in Subscription /\ live[t].queue \in Seq(Update)
    BY <2>2 DEF TypeInv, Subscription
  <2>4. Event(m, m) \in Update
    BY <2>2, Constants DEF Event, Update, Times
  <2>5. Append(live[t].queue, Event(m, m)) \in Seq(Update)
    BY <2>3, <2>4
  <2>6. live' = [live EXCEPT ![t].queue = Append(@, Event(m, m))] \/ live' = live
    BY <1>3 DEF Notify
  <2> DEFINE queue == Append(live[t].queue, Event(m, m))
             new == [live[t] EXCEPT !.queue = queue]
  <2>7. live' = [live EXCEPT ![t] = new] \/ live' = live
    BY <2>6
  <2> HIDE DEF t, m, queue
  <2>8. new \in Subscription
    BY <2>3, <2>5 DEF Subscription, queue
  <2> HIDE DEF new
  <2>9. live' \in [Topics -> Subscription]
    BY <2>2, <2>7, <2>8 DEF TypeInv
  <2> QED
    BY <1>3, <2>1, <2>9 DEF Notify, TypeInv
<1>4. ASSUME NEW t \in Topics, Subscribe(t) PROVE TypeInv'
  <2>1. Absent \in Entry
    BY Constants DEF Absent, Entry
  <2>2. Register(t, Absent) \in Subscription
    BY <2>1, RegisterType
  <2>3. live' \in [Topics -> Subscription]
    BY <1>4, <2>2 DEF Subscribe, TypeInv
  <2> QED
    BY <1>4, <2>3 DEF Subscribe, TypeInv
<1>5. ASSUME NEW t \in Topics, ResumeNext(t) PROVE TypeInv'
  <2>1. resuming[t] \in Entry /\ Absent \in Entry
    BY Constants DEF Absent, Entry, TypeInv, Record
  <2>2. Register(t, resuming[t]) \in Subscription
    BY <2>1, RegisterType
  <2>3. live' \in [Topics -> Subscription]
    BY <1>5, <2>2 DEF ResumeNext, TypeInv
  <2>4. resuming' \in Record
    BY <1>5, <2>1 DEF ResumeNext, TypeInv, Record
  <2> QED
    BY <1>5, <2>3, <2>4 DEF ResumeNext, TypeInv
<1>6. CASE FinishAdding
  <2> DEFINE subs == [live EXCEPT ![adding].listed = TRUE]
  <2>1. subs \in [Topics -> Subscription]
    BY DEF TypeInv, Subscription
  <2>2. adding' \in Topics \cup {None}
    BY <1>6 DEF FinishAdding
  <2>3. \/ SaveSubscriptions(subs)
        \/ live' = subs /\ UNCHANGED <<now, sessionRecord, putting>>
    BY <1>6 DEF FinishAdding
  <2> HIDE DEF subs
  <2>4. /\ now' \in 0 .. MaxTime /\ live' \in [Topics -> Subscription]
        /\ sessionRecord' \in Record /\ putting' \in Record \cup {None}
    BY <2>1, <2>3, SavedType DEF TypeInv
  <2> QED
    BY <1>6, <2>2, <2>4 DEF FinishAdding, TypeInv
<1>7. ASSUME NEW t \in Topics, Unsubscribe(t) PROVE TypeInv'
  <2> DEFINE subs == [live EXCEPT ![t] = Ended]
  <2>1. subs \in [Topics -> Subscription]
    BY <1>0 DEF TypeInv
  <2>2. SaveSubscriptions(subs)
    BY <1>7 DEF Unsubscribe
  <2> HIDE DEF subs
  <2>3. /\ now' \in 0 .. MaxTime /\ live' \in [Topics -> Subscription]
        /\ sessionRecord' \in Record /\ putting' \in Record
    BY <2>1, <2>2, SavedType
  <2>4. since' \in [Topics -> 0 .. MaxTime]
    BY <1>7, Constants DEF Unsubscribe, TypeInv
  <2> QED
    BY <1>7, <2>3, <2>4 DEF Unsubscribe, TypeInv
<1>8. ASSUME NEW t \in Topics, Deliver(t) PROVE TypeInv'
  <2>1. /\ live' \in [Topics -> Subscription]
        /\ nextMessageId' \in 1 .. MaxMessageId
        /\ DOMAIN awaitingAcks' \subseteq 1 .. MaxMessageId
        /\ \A i \in DOMAIN awaitingAcks' : awaitingAcks'[i] \in Sending
    BY <1>8, DeliverType
  <2> QED
    BY <1>8, <2>1 DEF Deliver, TypeInv
<1>9. ASSUME NEW id \in 1 .. MaxMessageId, AcknowledgeMessage(id) PROVE TypeInv'
  <2>1. /\ DOMAIN awaitingAcks' = DOMAIN awaitingAcks \ {id}
        /\ \A i \in DOMAIN awaitingAcks' : awaitingAcks'[i] = awaitingAcks[i]
        /\ acked' \subseteq Topics \X Times
        /\ sessionRecord' \in Record /\ putting' = sessionRecord'
    BY <1>9, AcknowledgeType
  <2> QED
    BY <1>9, <2>1 DEF AcknowledgeMessage, TypeInv
<1>10. CASE StorePut
  <2>1. since' \in [Topics -> 0 .. MaxTime]
    BY <1>10 DEF StorePut, TypeInv
  <2> QED
    BY <1>10, <2>1 DEF StorePut, TypeInv
<1>11. CASE Connect
  <2>1. sessionRecord' \in Record /\ resuming' \in Record
    BY <1>0, <1>11 DEF Connect, TypeInv
  <2>2. DOMAIN awaitingAcks' = {}
    BY <1>11 DEF Connect
  <2>3. connections' \in 0 .. MaxConnections
    BY <1>11, Constants DEF Connect, TypeInv
  <2> QED
    BY <1>0, <1>11, <2>1, <2>2, <2>3 DEF Connect, TypeInv
<1>12. CASE Drop
  <2>1. live' \in [Topics -> Subscription]
    BY <1>0, <1>12 DEF Drop, TypeInv
  <2>2. DOMAIN awaitingAcks' = {}
    BY <1>12 DEF Drop
  <2> QED
    BY <1>0, <1>12, <2>1, <2>2 DEF Drop, TypeInv
<1>13. CASE Crash
  <2>1. DOMAIN awaitingAcks' = {} /\ nextMessageId' \in 1 .. MaxMessageId
    BY <1>13, Constants DEF Crash
  <2>2. unnotified' \in Seq(Topics \X Times) /\ committing' \subseteq Topics \X Times
    BY <1>13 DEF Crash
  <2> QED
    BY <1>0, <1>13, <2>1, <2>2 DEF Crash, TypeInv
<1>14. CASE Done \/ UNCHANGED vars
  BY <1>14 DEF Done, vars, TypeInv
<1> QED
  BY <1>1, <1>2, <1>3, <1>4, <1>5, <1>6, <1>7, <1>8, <1>9, <1>10, <1>11, <1>12, <1>13, <1>14
  DEF Next

-----------------------------------------------------------------------------
\* The order of times.
LEMMA TimeInit == Init => TimeInv
  BY DEF Init, TimeInv

\* A publication leaves the order; every other step leaves the log, and lets the clock go on.
LEMMA BeginTime ==
  ASSUME Allowed \subseteq {"other_sessions"},
         TypeInv, TimeInv, NEW t \in Topics, BeginPublish(t)
  PROVE  TimeInv'
<1>1. /\ committing = {} /\ committing' = {<<t, now'>>} /\ now' = now + 1 /\ now \in Nat
      /\ log' = log /\ unnotified' = unnotified
  BY DEF BeginPublish, TypeInv
<1>2. ASSUME NEW x \in committing' PROVE x[2] = now + 1
  BY <1>1
<1>3. \A x, y \in committing' : x = y
  BY <1>1
<1>4. ASSUME NEW u \in Topics, NEW i \in 1 .. Len(log[u])
      PROVE  /\ log[u][i] <= now' /\ log[u][i] < now + 1
             /\ \A j \in 1 .. Len(log[u]) : i < j => log[u][i] < log[u][j]
  <2>1. log[u][i] \in Times
    BY DEF TypeInv
  <2>2. log[u][i] <= now
    BY DEF TimeInv
  <2> QED
    BY <1>1, <2>1, <2>2, Constants DEF TimeInv, Times
<1>5. ASSUME NEW i \in 1 .. Len(unnotified)
      PROVE  /\ unnotified[i][2] <= now' /\ unnotified[i][2] < now + 1
             /\ \A j \in 1 .. Len(unnotified) : i < j => unnotified[i][2] < unnotified[j][2]
  <2>1. unnotified[i] \in Topics \X Times
    BY DEF TypeInv
  <2>2. unnotified[i][2] <= now /\ unnotified[i][2] \in Times
    BY <2>1 DEF TimeInv
  <2> QED
    BY <1>1, <2>2, Constants DEF TimeInv, Times
<1>6. \A x \in committing' : x[2] <= now'
  BY <1>1, <1>2
<1> QED
  BY <1>1, <1>2, <1>3, <1>4, <1>5, <1>6 DEF TimeInv

LEMMA CommitTime ==
  ASSUME TypeInv, TimeInv, NEW t \in Topics, NEW m \in Times, CommitPublish(t, m)
  PROVE  TimeInv'
<1>1. /\ <<t, m>> \in committing /\ committing' = committing \ {<<t, m>>} /\ now' = now
      /\ log' = [log EXCEPT ![t] = Append(@, m)]
      /\ unnotified' = Append(unnotified, <<t, m>>)
  BY DEF CommitPublish
<1>2. committing' = {}
  BY <1>1 DEF TimeInv
<1>3. m <= now /\ m \in Nat /\ now \in Nat
  BY <1>1, Constants DEF TimeInv, TypeInv, Times
<1>4. ASSUME NEW u \in Topics
      PROVE  \A i \in 1 .. Len(log'[u]) :
                /\ log'[u][i] <= now
                /\ \A j \in 1 .. Len(log'[u]) : i < j => log'[u][i] < log'[u][j]
  <2>1. log[u] \in Seq(Times)
    BY DEF TypeInv
  <2>2. \A i \in 1 .. Len(log[u]) : /\ log[u][i] <= now /\ log[u][i] < m
                                    /\ \A j \in 1 .. Len(log[u]) : i < j => log[u][i] < log[u][j]
    BY <1>1 DEF TimeInv
  <2>3. CASE u # t
    BY <1>1, <2>2, <2>3 DEF TypeInv
  <2>4. CASE u = t
    <3>1. log'[u] = Append(log[u], m)
      BY <1>1, <2>4 DEF TypeInv
    <3>2. /\ Len(log'[u]) = Len(log[u]) + 1 /\ Len(log[u]) \in Nat
          /\ \A i \in 1 .. Len(log[u]) : log'[u][i] = log[u][i]
          /\ log'[u][Len(log[u]) + 1] = m
      BY <2>1, <3>1
    <3> DEFINE new == log'[u]
               old == log[u]
    <3>3. \A i \in 1 .. Len(old) : old[i] <= now /\ old[i] < m
      BY <2>2
    <3>4. \A i, j \in 1 .. Len(old) : i < j => old[i] < old[j]
      BY <2>2
    <3>5. Len(new) = Len(old) + 1 /\ new[Len(old) + 1] = m /\ Len(old) \in Nat
          /\ \A i \in 1 .. Len(old) : new[i] = old[i]
      BY <3>2
    <3> HIDE DEF new, old
    <3>6. \A i \in 1 .. Len(new) : new[i] <= now
      BY <1>3, <3>3, <3>5
    <3>7. \A i, j \in 1 .. Len(new) : i < j => new[i] < new[j]
      <4> SUFFICES ASSUME NEW i \in 1 .. Len(new), NEW j \in 1 .. Len(new), i < j
                   PROVE  new[i] < new[j]
        OBVIOUS
      <4>1. i \in 1 .. Len(old) /\ new[i] = old[i]
        BY <3>5
      <4>2. j \in 1 .. Len(old) \/ j = Len(old) + 1
        BY <3>5
      <4> QED
        BY <3>3, <3>4, <3>5, <4>1, <4>2
    <3> QED
      BY <3>6, <3>7 DEF new
  <2> QED
    BY <2>3, <2>4
<1>5. /\ Len(unnotified') = Len(unnotified) + 1 /\ Len(unnotified) \in Nat
      /\ \A i \in 1 .. Len(unnotified) : unnotified'[i] = unnotified[i]
      /\ unnotified'[Len(unnotified) + 1] = <<t, m>>
  BY <1>1 DEF TypeInv
<1>6. \A i \in 1 .. Len(unnotified) :
         /\ unnotified[i][2] <= now /\ unnotified[i][2] < m
         /\ \A j \in 1 .. Len(unnotified) : i < j => unnotified[i][2] < unnotified[j][2]
  BY <1>1 DEF TimeInv
<1>7. \A i \in 1 .. Len(unnotified') :
         /\ unnotified'[i][2] <= now
         /\ \A j \in 1 .. Len(unnotified') : i < j => unnotified'[i][2] < unnotified'[j][2]
  BY <1>3, <1>5, <1>6
<1> QED
  BY <1>1, <1>2, <1>4, <1>7 DEF TimeInv

LEMMA NotifyTime ==
  ASSUME TypeInv, TimeInv, Notify
  PROVE  TimeInv'
<1>1. /\ unnotified # <<>> /\ unnotified' = Tail(unnotified)
      /\ log' = log /\ committing' = committing /\ now' = now
  BY DEF Notify
<1>2. unnotified \in Seq(Topics \X Times)
  BY DEF TypeInv
<1>3. /\ Len(unnotified') = Len(unnotified) - 1 /\ Len(unnotified) \in Nat
      /\ \A i \in 1 .. Len(unnotified') : unnotified'[i] = unnotified[i + 1]
  BY <1>1, <1>2
<1>4. \A i \in 1 .. Len(unnotified') :
         /\ unnotified'[i][2] <= now
         /\ \A x \in committing : unnotified'[i][2] < x[2]
         /\ \A j \in 1 .. Len(unnotified') : i < j => unnotified'[i][2] < unnotified'[j][2]
  BY <1>3 DEF TimeInv
<1> QED
  BY <1>1, <1>4 DEF TimeInv

LEMMA ClockTime ==
  ASSUME TypeInv, TimeInv, UNCHANGED store, now' \in Nat, now <= now'
  PROVE  TimeInv'
<1>1. log' = log /\ committing' = committing /\ unnotified' = unnotified /\ now \in Nat
  BY DEF store, TypeInv
<1>2. ASSUME NEW x \in committing PROVE x[2] <= now'
  <2>1. x[2] \in Times /\ x[2] <= now
    BY DEF TimeInv, TypeInv
  <2> QED
    BY <1>1, <2>1, Constants DEF Times
<1>3. ASSUME NEW u \in Topics, NEW i \in 1 .. Len(log[u]) PROVE log[u][i] <= now'
  <2>1. log[u][i] \in Times /\ log[u][i] <= now
    BY DEF TimeInv, TypeInv
  <2> QED
    BY <1>1, <2>1, Constants DEF Times
<1>4. ASSUME NEW i \in 1 .. Len(unnotified) PROVE unnotified[i][2] <= now'
  <2>1. unnotified[i] \in Topics \X Times
    BY DEF TypeInv
  <2>2. unnotified[i][2] \in Times /\ unnotified[i][2] <= now
    BY <2>1 DEF TimeInv
  <2> QED
    BY <1>1, <2>2, Constants DEF Times
<1> QED
  BY <1>1, <1>2, <1>3, <1>4 DEF TimeInv

LEMMA CrashTime ==
  ASSUME TypeInv, TimeInv, Crash
  PROVE  TimeInv'
<1>1. unnotified' = <<>> /\ committing' = {} /\ log' = log /\ now' = now
  BY DEF Crash
<1> QED
  BY <1>1 DEF TimeInv

LEMMA TimeStep ==
  ASSUME Allowed \subseteq {"other_sessions"},
         TypeInv, TimeInv, [Next]_vars
  PROVE  TimeInv'
<1>0. now \in Nat
  BY DEF TypeInv
<1>1. ASSUME NEW t \in Topics, BeginPublish(t) PROVE TimeInv'
  BY <1>1, BeginTime
<1>2. ASSUME NEW t \in Topics, NEW m \in Times, CommitPublish(t, m) PROVE TimeInv'
  BY <1>2, CommitTime
<1>3. CASE Notify
  BY <1>3, NotifyTime
<1>4. CASE Crash
  BY <1>4, CrashTime
<1>5. ASSUME UNCHANGED store, now' = now \/ now' = now + 1 PROVE TimeInv'
  BY <1>0, <1>5, ClockTime
<1>6. ASSUME NEW t \in Topics, Subscribe(t) \/ ResumeNext(t) \/ Unsubscribe(t) \/ Deliver(t)
      PROVE  TimeInv'
  BY <1>5, <1>6 DEF Subscribe, ResumeNext, Unsubscribe, Deliver, SaveSubscriptions
<1>7. ASSUME NEW id \in 1 .. MaxMessageId, AcknowledgeMessage(id) PROVE TimeInv'
  BY <1>5, <1>7 DEF AcknowledgeMessage
<1>8. CASE FinishAdding \/ StorePut \/ Connect \/ Drop \/ Done \/ UNCHANGED vars
  BY <1>5, <1>8 DEF FinishAdding, SaveSubscriptions, StorePut, Connect, Drop, Done, vars
<1> QED
  BY <1>1, <1>2, <1>3, <1>4, <1>6, <1>7, <1>8 DEF Next

-----------------------------------------------------------------------------
\* Connections and subscriptions.
LEMMA NoSubscription ==
  /\ \A t \in Topics : /\ NoneLive[t] = Ended /\ ~NoneLive[t].on /\ ~NoneLive[t].listed
                       /\ NoneLive[t].queue = <<>> /\ NoneLive[t].start = 0
                       /\ NoneLive[t].filter = {}
  /\ \A t \in Topics : EmptyRecord[t] = Absent /\ ~EmptyRecord[t].on /\ EmptyRecord[t].acks = {}
  BY DEF NoneLive, Ended, EmptyRecord, Absent

\* saveSubscriptions changes the times of new subscriptions only.
LEMMA SavedLive ==
  ASSUME TypeInv, NEW subs \in [Topics -> Subscription], SaveSubscriptions(subs)
  PROVE  \A t \in Topics :
            /\ live'[t].on = subs[t].on /\ live'[t].listed = subs[t].listed
            /\ live'[t].queue = subs[t].queue /\ live'[t].filter = subs[t].filter
            /\ live'[t].start = IF subs[t].listed /\ subs[t].start = 0
                                THEN now + 1 ELSE subs[t].start
<1> SUFFICES ASSUME NEW t \in Topics
             PROVE  /\ live'[t].on = subs[t].on /\ live'[t].listed = subs[t].listed
                    /\ live'[t].queue = subs[t].queue /\ live'[t].filter = subs[t].filter
                    /\ live'[t].start = IF subs[t].listed /\ subs[t].start = 0
                                        THEN now + 1 ELSE subs[t].start
  OBVIOUS
<1>1. live'[t] = IF subs[t].listed /\ subs[t].start = 0
                 THEN [subs[t] EXCEPT !.start = now + 1] ELSE subs[t]
  BY SavedType
<1>2. subs[t] \in Subscription
  OBVIOUS
<1> QED
  BY <1>1, <1>2 DEF Subscription

\* The end of addSubscription lists the topic, and stamps new subscriptions.
LEMMA FinishLive ==
  ASSUME TypeInv, FinishAdding
  PROVE  /\ adding \in Topics /\ adding' = None
         /\ now' = IF isNew THEN now + 1 ELSE now
         /\ \A t \in Topics :
               /\ live'[t].on = live[t].on /\ live'[t].queue = live[t].queue
               /\ live'[t].filter = live[t].filter
               /\ live'[t].listed = (live[t].listed \/ t = adding)
               /\ live'[t].start = IF isNew /\ live'[t].listed /\ live[t].start = 0
                                   THEN now + 1 ELSE live[t].start
<1> DEFINE subs == [live EXCEPT ![adding].listed = TRUE]
<1>1. adding \in Topics /\ adding' = None
  BY DEF FinishAdding, TypeInv
<1>2. \A t \in Topics : live[t] \in Subscription
  BY DEF TypeInv
<1>3. subs \in [Topics -> Subscription]
  BY <1>1, <1>2 DEF TypeInv, Subscription
<1>4. \A t \in Topics : /\ subs[t].on = live[t].on /\ subs[t].queue = live[t].queue
                        /\ subs[t].filter = live[t].filter /\ subs[t].start = live[t].start
                        /\ subs[t].listed = (live[t].listed \/ t = adding)
  BY <1>1, <1>2 DEF TypeInv, Subscription
<1>5. \/ isNew /\ SaveSubscriptions(subs)
      \/ ~isNew /\ live' = subs /\ UNCHANGED <<now, sessionRecord, putting>>
  BY DEF FinishAdding
<1> HIDE DEF subs
<1>6. CASE isNew /\ SaveSubscriptions(subs)
  <2>1. now' = now + 1
    BY <1>6 DEF SaveSubscriptions
  <2> QED
    BY <1>1, <1>3, <1>4, <1>6, <2>1, SavedLive
<1>7. CASE ~isNew /\ live' = subs /\ UNCHANGED <<now, sessionRecord, putting>>
  BY <1>1, <1>4, <1>7
<1> QED
  BY <1>5, <1>6, <1>7

LEMMA UnsubscribeLive ==
  ASSUME TypeInv, NEW t \in Topics, Unsubscribe(t)
  PROVE  /\ now' = now + 1
         /\ live'[t] = Ended
         /\ \A u \in Topics \ {t} :
               /\ live'[u].on = live[u].on /\ live'[u].queue = live[u].queue
               /\ live'[u].filter = live[u].filter /\ live'[u].listed = live[u].listed
               /\ live'[u].start = IF live[u].listed /\ live[u].start = 0
                                   THEN now + 1 ELSE live[u].start
<1> DEFINE subs == [live EXCEPT ![t] = Ended]
<1>1. subs \in [Topics -> Subscription]
  BY Constants DEF TypeInv, Subscription, Ended
<1>2. SaveSubscriptions(subs)
  BY DEF Unsubscribe
<1>3. subs[t] = Ended /\ \A u \in Topics \ {t} : subs[u] = live[u]
  BY DEF TypeInv
<1>4. now' = now + 1
  BY <1>2 DEF SaveSubscriptions
<1> HIDE DEF subs
<1>5. \A u \in Topics \ {t} :
         /\ live'[u].on = live[u].on /\ live'[u].queue = live[u].queue
         /\ live'[u].filter = live[u].filter /\ live'[u].listed = live[u].listed
         /\ live'[u].start = IF live[u].listed /\ live[u].start = 0
                             THEN now + 1 ELSE live[u].start
  BY <1>1, <1>2, <1>3, SavedLive
<1>6. live'[t] = Ended
  <2>1. live'[t] = IF subs[t].listed /\ subs[t].start = 0
                   THEN [subs[t] EXCEPT !.start = now + 1] ELSE subs[t]
    BY <1>1, <1>2, SavedType
  <2> QED
    BY <1>3, <2>1 DEF Ended
<1> QED
  BY <1>4, <1>5, <1>6

LEMMA OpenInit == Init => OpenInv
<1> SUFFICES ASSUME Init PROVE OpenInv
  OBVIOUS
<1>1. /\ adding = None /\ resuming = EmptyRecord /\ live = NoneLive
      /\ DOMAIN awaitingAcks = {}
  BY DEF Init
<1> QED
  BY <1>1, NoSubscription DEF OpenInv

LEMMA OpenStep ==
  ASSUME Allowed \subseteq {"other_sessions"},
         WildcardTopics = {}, TypeInv, OpenInv, [Next]_vars
  PROVE  OpenInv'
<1> USE DEF store, record, connection, subscribing
<1>1. ASSUME UNCHANGED <<connection, subscribing, live, awaitingAcks>> PROVE OpenInv'
  BY <1>1 DEF OpenInv
<1>2. ASSUME NEW t \in Topics, NEW m \in Times, CommitPublish(t, m) PROVE OpenInv'
  BY <1>1, <1>2 DEF CommitPublish
<1>3. CASE Notify
  <2> DEFINE t == Head(unnotified)[1]
             m == Head(unnotified)[2]
  <2>1. /\ UNCHANGED <<open, present, subscribing, awaitingAcks>>
        /\ \/ live' = live
           \/ live[t].on /\ live' = [live EXCEPT ![t].queue = Append(@, Event(m, m))]
    BY <1>3 DEF Notify
  <2>2. Head(unnotified) \in Topics \X Times
    BY SMTT(60), <1>3 DEF Notify, TypeInv
  <2>3. t \in Topics
    BY <2>2
  <2>4. \A u \in Topics : live[u] \in Subscription
    BY DEF TypeInv
  <2> HIDE DEF t, m
  <2>5. CASE live' = live
    BY <2>1, <2>5 DEF OpenInv
  <2>6. CASE live[t].on /\ live' = [live EXCEPT ![t].queue = Append(@, Event(m, m))]
    <3>1. \A u \in Topics : /\ live'[u].on = live[u].on /\ live'[u].listed = live[u].listed
                            /\ u # t => live'[u].queue = live[u].queue
      BY <2>3, <2>4, <2>6 DEF TypeInv, Subscription
    <3>2. open
      BY <2>3, <2>6, NoSubscription DEF OpenInv
    <3> QED
      BY <2>1, <2>3, <2>6, <3>1, <3>2 DEF OpenInv, TypeInv
  <2> QED
    BY <2>1, <2>5, <2>6
<1>4. ASSUME NEW t \in Topics, Subscribe(t) PROVE OpenInv'
  <2>1. /\ open /\ open' = open /\ present' = present /\ resuming' = resuming
        /\ ~present /\ ~live[t].on /\ adding' = t /\ isNew' = TRUE
        /\ live' = [live EXCEPT ![t] = Register(t, Absent)]
    BY <1>4 DEF Subscribe, MaySubscribe
  <2>2. live'[t].on /\ \A u \in Topics : u # t => live'[u] = live[u]
    BY <2>1 DEF Register, TypeInv
  <2> QED
    BY <2>1, <2>2 DEF OpenInv
<1>5. ASSUME NEW t \in Topics, ResumeNext(t) PROVE OpenInv'
  <2>1. /\ open /\ open' = open /\ present' = present
        /\ resuming[t].on /\ adding' = t /\ isNew' = FALSE
        /\ resuming' = [resuming EXCEPT ![t] = Absent]
        /\ live' = [live EXCEPT ![t] = Register(t, resuming[t])]
    BY <1>5 DEF ResumeNext
  <2>2. live'[t].on /\ \A u \in Topics : u # t => live'[u] = live[u]
    BY <2>1 DEF Register, TypeInv
  <2>3. ~resuming'[t].on /\ \A u \in Topics : u # t => resuming'[u] = resuming[u]
    BY <2>1 DEF Absent, TypeInv, Record
  <2>4. present
    BY <2>1 DEF OpenInv
  <2> QED
    BY <2>1, <2>2, <2>3, <2>4 DEF OpenInv
<1>6. CASE FinishAdding
  <2>1. /\ adding \in Topics /\ adding' = None
        /\ \A t \in Topics : /\ live'[t].on = live[t].on /\ live'[t].queue = live[t].queue
                             /\ live'[t].listed = (live[t].listed \/ t = adding)
    BY <1>6, FinishLive
  <2>2. open /\ open' = open /\ present' = present /\ resuming' = resuming /\ live[adding].on
    BY <1>6 DEF FinishAdding, OpenInv
  <2> QED
    BY <2>1, <2>2 DEF OpenInv
<1>7. ASSUME NEW t \in Topics, Unsubscribe(t) PROVE OpenInv'
  <2>1. /\ live'[t] = Ended
        /\ \A u \in Topics \ {t} : /\ live'[u].on = live[u].on /\ live'[u].queue = live[u].queue
                                   /\ live'[u].listed = live[u].listed
    BY <1>7, UnsubscribeLive
  <2>2. open /\ UNCHANGED <<open, present, resuming, adding, isNew>> /\ adding = None /\ ~present
    BY <1>7 DEF Unsubscribe
  <2> QED
    BY <2>1, <2>2 DEF OpenInv, Ended
<1>8. ASSUME NEW t \in Topics, Deliver(t) PROVE OpenInv'
  <2>1. /\ open /\ UNCHANGED <<open, present, resuming, adding, isNew>> /\ live[t].on
        /\ live' = [live EXCEPT ![t].queue = Tail(@)]
    BY <1>8 DEF Deliver
  <2>2. \A u \in Topics : live[u] \in Subscription
    BY DEF TypeInv
  <2>3. \A u \in Topics : /\ live'[u].on = live[u].on /\ live'[u].listed = live[u].listed
                          /\ u # t => live'[u].queue = live[u].queue
    BY <2>1, <2>2 DEF TypeInv, Subscription
  <2> QED
    BY <2>1, <2>3 DEF OpenInv, TypeInv
<1>9. ASSUME NEW id \in 1 .. MaxMessageId, AcknowledgeMessage(id) PROVE OpenInv'
  BY <1>9 DEF AcknowledgeMessage, OpenInv
<1>10. CASE Connect
  <2>1. /\ open' = TRUE /\ adding' = None /\ live' = NoneLive
        /\ present' = (stored # None)
        /\ resuming' = IF stored = None THEN EmptyRecord ELSE stored
    BY <1>10 DEF Connect
  <2> QED
    BY <2>1, NoSubscription DEF OpenInv
<1>11. CASE Drop
  <2>1. /\ ~(adding # None /\ isNew)
        /\ open' = FALSE /\ resuming' = EmptyRecord /\ awaitingAcks' = <<>>
        /\ adding' = IF isNew THEN adding ELSE None
        /\ live' = [t \in Topics |-> IF t = adding /\ isNew THEN live[t] ELSE Ended]
    BY <1>11 DEF Drop
  <2>2. adding' = None /\ live' = NoneLive /\ DOMAIN awaitingAcks' = {}
    BY <2>1, Constants DEF NoneLive
  <2> QED
    BY <2>1, <2>2, NoSubscription DEF OpenInv
<1>12. CASE Crash
  <2>1. /\ open' = FALSE /\ adding' = None /\ resuming' = EmptyRecord /\ live' = NoneLive
        /\ DOMAIN awaitingAcks' = {}
    BY <1>12 DEF Crash
  <2> QED
    BY <2>1, NoSubscription DEF OpenInv
<1>13. ASSUME NEW t \in Topics, BeginPublish(t) PROVE OpenInv'
  BY <1>1, <1>13 DEF BeginPublish
<1>14. CASE StorePut \/ Done \/ UNCHANGED vars
  BY <1>1, <1>14 DEF StorePut, Done, vars
<1> QED
  BY <1>2, <1>3, <1>4, <1>5, <1>6, <1>7, <1>8, <1>9, <1>10, <1>11, <1>12, <1>13, <1>14
  DEF Next

-----------------------------------------------------------------------------
\* The order of messages.
LEMMA UpdateType ==
  ASSUME TypeInv, NEW t \in Topics
  PROVE  /\ live[t] \in Subscription /\ live[t].queue \in Seq(Update)
         /\ Len(live[t].queue) \in Nat
         /\ \A i \in 1 .. Len(live[t].queue) : live[t].queue[i].msg \in Nat
         /\ live[t].start \in Nat
<1>1. live[t] \in Subscription
  BY DEF TypeInv
<1>2. live[t].queue \in Seq(Update) /\ live[t].start \in 0 .. MaxTime
  BY <1>1 DEF Subscription
<1>3. \A i \in 1 .. Len(live[t].queue) : live[t].queue[i] \in Update
  BY <1>2
<1>4. \A i \in 1 .. Len(live[t].queue) : live[t].queue[i].msg \in Nat
  BY <1>3, Constants DEF Update, Times
<1> QED
  BY <1>1, <1>2, <1>4, Constants

LEMMA StoreType ==
  ASSUME TypeInv
  PROVE  /\ now \in Nat
         /\ \A x \in committing : x[2] \in Nat
         /\ Len(unnotified) \in Nat
         /\ \A j \in 1 .. Len(unnotified) : unnotified[j][1] \in Topics /\ unnotified[j][2] \in Nat
         /\ \A i \in DOMAIN awaitingAcks : awaitingAcks[i].topic \in Topics /\ awaitingAcks[i].msg \in Nat
<1>1. \A j \in 1 .. Len(unnotified) : unnotified[j] \in Topics \X Times
  BY DEF TypeInv
<1>2. \A j \in 1 .. Len(unnotified) : unnotified[j][1] \in Topics /\ unnotified[j][2] \in Nat
  BY <1>1, Constants DEF Times
<1>3. \A x \in committing : x[2] \in Nat
  BY Constants DEF TypeInv, Times
<1>4. \A i \in DOMAIN awaitingAcks : awaitingAcks[i].topic \in Topics /\ awaitingAcks[i].msg \in Nat
  BY Constants DEF TypeInv, Sending, Times
<1> QED
  BY <1>2, <1>3, <1>4, Constants DEF TypeInv

LEMMA OrderInit ==
  ASSUME NEW t \in Topics, live[t].queue = <<>>, DOMAIN awaitingAcks = {}
  PROVE  OrderInv(t)
  BY DEF OrderInv, Awaiting

\* A step that leaves the order of publications, and takes from what was queued
\* or sent for a topic, or leaves it.
LEMMA OrderKept ==
  ASSUME TypeInv, TypeInv', NEW t \in Topics, OrderInv(t),
         UNCHANGED store, now <= now', present' = present,
         live'[t].queue = live[t].queue \/ live'[t].queue = <<>>,
         present => live[t].start <= live'[t].start,
         present /\ live[t].on => live'[t].on,
         \A i \in DOMAIN awaitingAcks' : awaitingAcks'[i].topic = t =>
              i \in DOMAIN awaitingAcks /\ awaitingAcks'[i] = awaitingAcks[i]
  PROVE  OrderInv(t)'
<1>1. committing' = committing /\ unnotified' = unnotified
  BY DEF store
<1>2. ASSUME NEW m \in Nat, Before(m, t) PROVE Before(m, t)'
  <2>0. live'[t] \in Subscription /\ now' \in 0 .. MaxTime
    BY DEF TypeInv
  <2>1. now \in Nat /\ now' \in Nat /\ live[t].start \in Nat /\ live'[t].start \in Nat
    BY <2>0, UpdateType, StoreType, Constants DEF Subscription
  <2> QED
    BY <1>1, <1>2, <2>1, StoreType DEF Before
<1>3. Awaiting(t)' \subseteq Awaiting(t) /\ \A i \in Awaiting(t)' : awaitingAcks'[i] = awaitingAcks[i]
  BY DEF Awaiting
<1>4. \A i \in Awaiting(t) : awaitingAcks[i].msg \in Nat
  BY StoreType DEF Awaiting
<1>5. \A i \in 1 .. Len(live[t].queue) : live[t].queue[i].msg \in Nat
  BY UpdateType
<1>6. CASE live'[t].queue = live[t].queue
  BY <1>2, <1>3, <1>4, <1>5, <1>6 DEF OrderInv
<1>7. CASE live'[t].queue = <<>>
  BY <1>2, <1>3, <1>4, <1>7 DEF OrderInv
<1> QED
  BY <1>6, <1>7

LEMMA BeginOrder ==
  ASSUME Allowed \subseteq {"other_sessions"},
         TypeInv, NEW t \in Topics, OrderInv(t), NEW u \in Topics, BeginPublish(u)
  PROVE  OrderInv(t)'
<1>1. /\ committing' = {<<u, now'>>} /\ now' = now + 1 /\ now \in Nat
      /\ UNCHANGED <<unnotified, live, awaitingAcks, present>>
  BY DEF BeginPublish, TypeInv, connection
<1>2. ASSUME NEW m \in Nat, Before(m, t) PROVE Before(m, t)'
  <2>1. \A x \in committing' : x[2] = now + 1
    BY <1>1
  <2> QED
    BY <1>1, <1>2, <2>1 DEF Before
<1>3. Awaiting(t)' = Awaiting(t)
  BY <1>1 DEF Awaiting
<1>4. \A i \in Awaiting(t) : awaitingAcks[i].msg \in Nat
  BY StoreType DEF Awaiting
<1>5. \A i \in 1 .. Len(live[t].queue) : live[t].queue[i].msg \in Nat
  BY UpdateType
<1> QED
  BY <1>1, <1>2, <1>3, <1>4, <1>5 DEF OrderInv

LEMMA CommitOrder ==
  ASSUME TypeInv, TimeInv, NEW t \in Topics, OrderInv(t),
         NEW u \in Topics, NEW p \in Times, CommitPublish(u, p)
  PROVE  OrderInv(t)'
<1>1. /\ <<u, p>> \in committing /\ committing' \subseteq committing
      /\ unnotified' = Append(unnotified, <<u, p>>)
      /\ UNCHANGED <<now, live, awaitingAcks, present>>
  BY DEF CommitPublish, connection
<1>2. /\ Len(unnotified') = Len(unnotified) + 1 /\ Len(unnotified) \in Nat
      /\ \A j \in 1 .. Len(unnotified) : unnotified'[j] = unnotified[j]
      /\ unnotified'[Len(unnotified) + 1] = <<u, p>>
  BY <1>1 DEF TypeInv
<1>3. ASSUME NEW m \in Nat, Before(m, t) PROVE Before(m, t)'
  <2>1. m < p
    BY <1>1, <1>3 DEF Before
  <2>2. ASSUME NEW j \in 1 .. Len(unnotified'),
               unnotified'[j][1] = t, present => live[t].start < unnotified'[j][2]
        PROVE  m < unnotified'[j][2]
    <3>1. CASE j \in 1 .. Len(unnotified)
      <4>1. unnotified'[j] = unnotified[j]
        BY <1>2, <3>1
      <4> QED
        BY <1>3, <2>2, <3>1, <4>1 DEF Before
    <3>2. CASE j = Len(unnotified) + 1
      BY <1>2, <2>1, <3>2
    <3> QED
      BY <1>2, <3>1, <3>2
  <2> QED
    BY <1>1, <1>3, <2>2 DEF Before
<1>4. Awaiting(t)' = Awaiting(t)
  BY <1>1 DEF Awaiting
<1>5. \A i \in Awaiting(t) : awaitingAcks[i].msg \in Nat
  BY StoreType DEF Awaiting
<1>6. \A i \in 1 .. Len(live[t].queue) : live[t].queue[i].msg \in Nat
  BY UpdateType
<1> QED
  BY <1>1, <1>3, <1>4, <1>5, <1>6 DEF OrderInv

\* What a step of notifyFromTransactionData does to a subscription.
LEMMA NotifyLive ==
  ASSUME TypeInv, Notify
  PROVE  \E u \in Topics, p \in Times :
            /\ Len(unnotified) > 0 /\ unnotified[1] = <<u, p>>
            /\ Len(unnotified') = Len(unnotified) - 1
            /\ \A j \in 1 .. Len(unnotified') : unnotified'[j] = unnotified[j + 1]
            /\ \A t \in Topics :
                  /\ live'[t].on = live[t].on /\ live'[t].start = live[t].start
                  /\ live'[t].listed = live[t].listed /\ live'[t].filter = live[t].filter
                  /\ live'[t].queue = IF t = u /\ live[t].on /\ live[t].start < p
                                      THEN Append(live[t].queue, [msg |-> p, ts |-> p])
                                      ELSE live[t].queue
<1> DEFINE u == Head(unnotified)[1]
           p == Head(unnotified)[2]
<1>1. unnotified \in Seq(Topics \X Times) /\ unnotified # <<>> /\ unnotified' = Tail(unnotified)
  BY DEF Notify, TypeInv
<1>2. /\ Head(unnotified) = unnotified[1] /\ Head(unnotified) \in Topics \X Times
      /\ Len(unnotified) > 0 /\ Len(unnotified') = Len(unnotified) - 1
      /\ \A j \in 1 .. Len(unnotified') : unnotified'[j] = unnotified[j + 1]
  BY <1>1
<1>3. u \in Topics /\ p \in Times /\ unnotified[1] = <<u, p>>
  BY <1>2
<1>4. live' = IF live[u].on /\ (live[u].start = 0 \/ live[u].start < p)
              THEN [live EXCEPT ![u].queue = Append(@, Event(p, p))] ELSE live
  BY DEF Notify
<1> HIDE DEF u, p
<1>5. live[u].start \in Nat /\ p \in Nat /\ p > 0
  BY <1>3, UpdateType, Constants DEF Times
<1>6. live' = IF live[u].on /\ live[u].start < p
              THEN [live EXCEPT ![u].queue = Append(@, [msg |-> p, ts |-> p])] ELSE live
  BY <1>4, <1>5 DEF Event
<1>7. ASSUME NEW t \in Topics
      PROVE  /\ live'[t].on = live[t].on /\ live'[t].start = live[t].start
             /\ live'[t].listed = live[t].listed /\ live'[t].filter = live[t].filter
             /\ live'[t].queue = IF t = u /\ live[t].on /\ live[t].start < p
                                 THEN Append(live[t].queue, [msg |-> p, ts |-> p])
                                 ELSE live[t].queue
  <2>1. live[t] \in Subscription
    BY DEF TypeInv
  <2>2. live'[t] = IF t = u /\ live[t].on /\ live[t].start < p
                   THEN [live[t] EXCEPT !.queue = Append(@, [msg |-> p, ts |-> p])] ELSE live[t]
    BY <1>3, <1>6 DEF TypeInv
  <2> QED
    BY <2>1, <2>2 DEF Subscription
<1> QED
  BY <1>2, <1>3, <1>7

LEMMA NotifyOrder ==
  ASSUME TypeInv, TimeInv, NEW t \in Topics, OrderInv(t), Notify
  PROVE  OrderInv(t)'
<1>1. PICK u \in Topics, p \in Times :
         /\ Len(unnotified) > 0 /\ unnotified[1] = <<u, p>>
         /\ Len(unnotified') = Len(unnotified) - 1
         /\ \A j \in 1 .. Len(unnotified') : unnotified'[j] = unnotified[j + 1]
         /\ \A v \in Topics :
               /\ live'[v].on = live[v].on /\ live'[v].start = live[v].start
               /\ live'[v].listed = live[v].listed /\ live'[v].filter = live[v].filter
               /\ live'[v].queue = IF v = u /\ live[v].on /\ live[v].start < p
                                   THEN Append(live[v].queue, [msg |-> p, ts |-> p])
                                   ELSE live[v].queue
  BY NotifyLive
<1>2. UNCHANGED <<now, committing, awaitingAcks, present>>
  BY DEF Notify, connection
<1>3. Len(unnotified) \in Nat /\ p \in Nat
  BY StoreType, Constants DEF Times
<1> DEFINE Later(m) == /\ m <= now'
                       /\ \A x \in committing' : m < x[2]
                       /\ \A j \in 1 .. Len(unnotified') :
                             unnotified'[j][1] = t /\ (present' => live'[t].start < unnotified'[j][2])
                                => m < unnotified'[j][2]
<1>4. ASSUME NEW m \in Nat, Before(m, t) PROVE Later(m)
  <2>1. ASSUME NEW j \in 1 .. Len(unnotified'),
               unnotified'[j][1] = t, present => live[t].start < unnotified'[j][2]
        PROVE  m < unnotified'[j][2]
    <3>1. j + 1 \in 1 .. Len(unnotified) /\ unnotified'[j] = unnotified[j + 1]
      BY <1>1, <1>3
    <3> QED
      BY <1>4, <2>1, <3>1 DEF Before
  <2>2. live'[t].start = live[t].start
    BY <1>1
  <2> QED
    BY <1>2, <1>4, <2>1, <2>2 DEF Before
<1> HIDE DEF Later
<1>5. Awaiting(t)' = Awaiting(t)
  BY <1>2 DEF Awaiting
<1>6. \A i \in Awaiting(t) : awaitingAcks[i].msg \in Nat
  BY StoreType DEF Awaiting
<1>7. /\ live[t].queue \in Seq(Update) /\ Len(live[t].queue) \in Nat
      /\ \A i \in 1 .. Len(live[t].queue) : live[t].queue[i].msg \in Nat
  BY UpdateType
<1>8. live'[t].on = live[t].on /\ live'[t].start = live[t].start
  BY <1>1
<1>9. CASE live'[t].queue = live[t].queue
  <2>1. \A i \in 1 .. Len(live[t].queue) :
           /\ live[t].queue[i].ts = live[t].queue[i].msg /\ Later(live[t].queue[i].msg)
           /\ \A j \in 1 .. Len(live[t].queue) : i < j => live[t].queue[i].msg < live[t].queue[j].msg
    BY <1>4, <1>7 DEF OrderInv
  <2>2. \A i \in Awaiting(t) :
           /\ awaitingAcks[i].ts = awaitingAcks[i].msg /\ Later(awaitingAcks[i].msg)
           /\ present => live[t].on
           /\ \A j \in 1 .. Len(live[t].queue) : awaitingAcks[i].msg < live[t].queue[j].msg
           /\ \A j \in Awaiting(t) : awaitingAcks[i].msg = awaitingAcks[j].msg => i = j
    BY <1>4, <1>6 DEF OrderInv
  <2> QED
    BY <1>2, <1>5, <1>8, <1>9, <2>1, <2>2 DEF OrderInv, Before, Later
<1>10. CASE t = u /\ live[t].start < p /\ live'[t].queue = Append(live[t].queue, [msg |-> p, ts |-> p])
  <2> DEFINE old == live[t].queue
             new == live'[t].queue
  <2>1. Later(p)
    <3>1. unnotified[1][2] = p /\ unnotified[1][1] = t /\ 1 \in 1 .. Len(unnotified)
      BY <1>1, <1>3, <1>10
    <3>2. p <= now /\ \A x \in committing : p < x[2]
      BY <3>1 DEF TimeInv
    <3>3. ASSUME NEW j \in 1 .. Len(unnotified') PROVE p < unnotified'[j][2]
      <4>1. j + 1 \in 1 .. Len(unnotified) /\ 1 < j + 1 /\ unnotified'[j] = unnotified[j + 1]
        BY <1>1, <1>3
      <4> QED
        BY <3>1, <4>1 DEF TimeInv
    <3> QED
      BY <1>2, <3>2, <3>3 DEF Later
  <2>2. \A m \in Nat : Before(m, t) => m < p
    <3>1. unnotified[1][2] = p /\ unnotified[1][1] = t /\ 1 \in 1 .. Len(unnotified)
      BY <1>1, <1>3, <1>10
    <3> QED
      BY <1>10, <3>1 DEF Before
  <2>3. /\ Len(new) = Len(old) + 1
        /\ \A i \in 1 .. Len(old) : new[i] = old[i]
        /\ new[Len(old) + 1] = [msg |-> p, ts |-> p]
    BY <1>7, <1>10
  <2>4. \A i \in 1 .. Len(old) : old[i].ts = old[i].msg /\ Before(old[i].msg, t)
    BY DEF OrderInv
  <2>5. \A i, j \in 1 .. Len(old) : i < j => old[i].msg < old[j].msg
    BY DEF OrderInv
  <2>6. \A i \in 1 .. Len(old) : old[i].msg \in Nat /\ Len(old) \in Nat
    BY <1>7
  <2>7. \A i \in Awaiting(t) :
           /\ awaitingAcks[i].ts = awaitingAcks[i].msg /\ Before(awaitingAcks[i].msg, t)
           /\ present => live[t].on
           /\ \A j \in 1 .. Len(old) : awaitingAcks[i].msg < old[j].msg
           /\ \A j \in Awaiting(t) : awaitingAcks[i].msg = awaitingAcks[j].msg => i = j
    BY DEF OrderInv
  <2> HIDE DEF old
  <2>8. ASSUME NEW i \in 1 .. Len(new)
        PROVE  /\ new[i].ts = new[i].msg /\ Later(new[i].msg)
               /\ \A j \in 1 .. Len(new) : i < j => new[i].msg < new[j].msg
    <3>1. Len(old) \in Nat
      BY <1>7 DEF old
    <3>2. CASE i \in 1 .. Len(old)
      <4>1. new[i] = old[i] /\ new[i].msg \in Nat /\ new[i].ts = new[i].msg
        BY <2>3, <2>4, <2>6, <3>2
      <4>2. Before(old[i].msg, t)
        BY <2>4, <3>2
      <4>3. Later(old[i].msg)
        BY <1>4, <2>6, <3>2, <4>2
      <4>4. ASSUME NEW j \in 1 .. Len(new), i < j PROVE new[i].msg < new[j].msg
        <5>1. j \in 1 .. Len(old) \/ j = Len(old) + 1
          BY <2>3, <3>1
        <5> QED
          BY SMTT(60), <2>2, <2>3, <2>5, <2>6, <3>2, <4>1, <4>2, <4>4, <5>1
      <4> QED
        BY <4>1, <4>3, <4>4
    <3>3. CASE i = Len(old) + 1
      BY <2>1, <2>3, <3>1, <3>3
    <3> QED
      BY <2>3, <3>1, <3>2, <3>3
  <2>9. ASSUME NEW i \in Awaiting(t), NEW j \in 1 .. Len(new)
        PROVE  awaitingAcks[i].msg < new[j].msg
    <3>1. Len(old) \in Nat
      BY <1>7 DEF old
    <3>2. j \in 1 .. Len(old) \/ j = Len(old) + 1
      BY <2>3, <3>1
    <3> QED
      BY <1>6, <2>2, <2>3, <2>7, <3>2
  <2>10. \A i \in Awaiting(t) : Later(awaitingAcks[i].msg)
    BY <1>4, <1>6, <2>7
  <2>11. \A i \in 1 .. Len(new) :
            /\ new[i].ts = new[i].msg /\ Later(new[i].msg)
            /\ \A j \in 1 .. Len(new) : i < j => new[i].msg < new[j].msg
    BY <2>8
  <2> QED
    BY <1>2, <1>5, <1>8, <2>7, <2>9, <2>10, <2>11 DEF OrderInv, Before, Later
<1> QED
  BY <1>1, <1>9, <1>10

\* What a resumed subscription catches up with.
LEMMA ResumeOrder ==
  ASSUME WildcardTopics = {}, TypeInv, TimeInv, OpenInv, NEW t \in Topics, OrderInv(t), ResumeNext(t)
  PROVE  OrderInv(t)'
<1> DEFINE n == Len(log[t])
           r == Register(t, resuming[t])
<1>1. /\ resuming[t].on /\ live' = [live EXCEPT ![t] = r]
      /\ UNCHANGED <<now, committing, unnotified, awaitingAcks, present>>
  BY DEF ResumeNext, store, connection
<1>2. resuming[t] \in Entry /\ log[t] \in Seq(Times)
  BY DEF TypeInv, Record
<1>3. live'[t] = r
  BY <1>1 DEF TypeInv
<1>4. PICK k \in 0 .. Len(log[t]) :
         /\ r.on = TRUE /\ r.listed = FALSE /\ r.filter = resuming[t].acks
         /\ r.queue \in Seq(Update)
         /\ Len(r.queue) = Len(log[t]) - k
         /\ \A i \in 1 .. Len(r.queue) : r.queue[i] = [msg |-> log[t][k + i], ts |-> log[t][k + i]]
         /\ r.start = IF k = Len(log[t]) THEN resuming[t].start ELSE log[t][Len(log[t])]
         /\ \A i \in k + 1 .. Len(log[t]) : Earlier(resuming[t].start, log[t][i])
         /\ k > 0 => ~Earlier(resuming[t].start, log[t][k])
  BY <1>2, RegisterFinds
<1>5. Awaiting(t) = {}
  BY <1>1 DEF OrderInv, OpenInv
<1>6. Awaiting(t)' = {}
  BY <1>1, <1>5 DEF Awaiting
<1>7. n \in Nat /\ k \in Nat /\ k <= n /\ \A i \in 1 .. n : log[t][i] \in Nat
  BY <1>2, <1>4, Constants DEF Times
<1>8. \A i \in 1 .. n : /\ log[t][i] <= now
                        /\ \A j \in 1 .. n : i < j => log[t][i] < log[t][j]
                        /\ \A x \in committing : log[t][i] < x[2]
  BY DEF TimeInv
<1> HIDE DEF r
<1>9. ASSUME NEW i \in 1 .. Len(r.queue)
      PROVE  /\ r.queue[i].ts = r.queue[i].msg
             /\ r.queue[i].msg <= now
             /\ \A x \in committing : r.queue[i].msg < x[2]
             /\ \A j \in 1 .. Len(unnotified) :
                   r.start < unnotified[j][2] => r.queue[i].msg < unnotified[j][2]
             /\ \A j \in 1 .. Len(r.queue) : i < j => r.queue[i].msg < r.queue[j].msg
  <2>0. i \in 1 .. n - k /\ r.queue[i].msg = log[t][k + i] /\ r.queue[i].ts = log[t][k + i]
    <3>1. r.queue[i] = [msg |-> log[t][k + i], ts |-> log[t][k + i]]
      BY <1>4
    <3>2. i \in 1 .. n - k
      BY <1>4
    <3> QED
      BY <3>1, <3>2
  <2> HIDE DEF n
  <2>1. k + i \in 1 .. n /\ r.queue[i].msg = log[t][k + i] /\ r.queue[i].ts = log[t][k + i]
    BY <1>7, <2>0
  <2>2. k # n /\ n \in 1 .. n
    BY <1>7, <2>0
  <2>6. r.start = log[t][n]
    BY <1>4, <2>2 DEF n
  <2>3. log[t][k + i] <= log[t][n] /\ r.start = log[t][n]
    <3>1. k + i = n \/ k + i < n
      BY <1>7, <2>1
    <3> QED
      BY <1>7, <1>8, <2>1, <2>2, <2>6, <3>1
  <2>4. ASSUME NEW j \in 1 .. Len(r.queue), i < j PROVE r.queue[i].msg < r.queue[j].msg
    <3>0. j \in 1 .. n - k /\ r.queue[j].msg = log[t][k + j]
      <4>1. r.queue[j] = [msg |-> log[t][k + j], ts |-> log[t][k + j]]
        BY <1>4
      <4>2. j \in 1 .. n - k
        BY <1>4 DEF n
      <4> QED
        BY <4>1, <4>2
    <3>1. k + j \in 1 .. n /\ k + i < k + j /\ r.queue[j].msg = log[t][k + j]
      <4>1. n \in Nat /\ k \in Nat /\ i \in Nat /\ j \in 1 .. n - k
        BY <1>7, <2>0, <3>0
      <4>2. k + j \in 1 .. n /\ k + i < k + j
        BY <2>4, <4>1
      <4> QED
        BY <3>0, <4>2
    <3> QED
      BY <1>8, <2>1, <3>1
  <2>5. ASSUME NEW j \in 1 .. Len(unnotified), r.start < unnotified[j][2]
        PROVE  r.queue[i].msg < unnotified[j][2]
    <3>1. unnotified[j][2] \in Nat /\ log[t][n] \in Nat /\ log[t][k + i] \in Nat
      BY <1>7, <2>1, <2>2, StoreType
    <3>2. log[t][n] < unnotified[j][2]
      BY <2>5, <2>6
    <3>3. ASSUME NEW a \in Nat, NEW b \in Nat, NEW c \in Nat, a <= b, b < c PROVE a < c
      BY <3>3
    <3>4. log[t][k + i] < unnotified[j][2]
      BY <2>3, <3>1, <3>2, <3>3
    <3> QED
      BY <2>1, <3>4
  <2> QED
    BY <1>8, <2>1, <2>4, <2>5
<1>10. present
  BY <1>1 DEF OpenInv
<1> QED
  BY <1>1, <1>3, <1>6, <1>9, <1>10 DEF OrderInv, Before

\* What a step of the loop over a queue does to what awaits its acknowledgement.
LEMMA DeliverLive ==
  ASSUME TypeInv, NEW t \in Topics, Deliver(t)
  PROVE  LET e == live[t].queue[1]
         IN /\ Len(live[t].queue) > 0 /\ e \in Update
            /\ Len(live'[t].queue) = Len(live[t].queue) - 1
            /\ \A j \in 1 .. Len(live'[t].queue) : live'[t].queue[j] = live[t].queue[j + 1]
            /\ \A u \in Topics :
                  /\ live'[u].on = live[u].on /\ live'[u].start = live[u].start
                  /\ live'[u].listed = live[u].listed /\ live'[u].filter = live[u].filter
                  /\ u # t => live'[u].queue = live[u].queue
            /\ \/ e.ts \in live[t].filter /\ awaitingAcks' = awaitingAcks
               \/ /\ e.ts \notin live[t].filter
                  /\ DOMAIN awaitingAcks' = DOMAIN awaitingAcks \cup {nextMessageId'}
                  /\ \A i \in DOMAIN awaitingAcks' :
                        awaitingAcks'[i] = IF i = nextMessageId'
                                           THEN [topic |-> t, msg |-> e.msg, ts |-> e.ts]
                                           ELSE awaitingAcks[i]
<1> DEFINE queue == live[t].queue
           e == queue[1]
<1>1. queue # <<>> /\ live' = [live EXCEPT ![t].queue = Tail(@)]
  BY DEF Deliver
<1>2. queue \in Seq(Update)
  BY UpdateType
<1>3. /\ Len(queue) > 0 /\ e \in Update /\ Head(queue) = e
      /\ Len(Tail(queue)) = Len(queue) - 1
      /\ \A j \in 1 .. Len(Tail(queue)) : Tail(queue)[j] = queue[j + 1]
  BY <1>1, <1>2
<1>4. ASSUME NEW u \in Topics
      PROVE  /\ live'[u].on = live[u].on /\ live'[u].start = live[u].start
             /\ live'[u].listed = live[u].listed /\ live'[u].filter = live[u].filter
             /\ live'[u].queue = IF u = t THEN Tail(queue) ELSE live[u].queue
  <2>1. live[u] \in Subscription
    BY DEF TypeInv
  <2>2. live'[u] = IF u = t THEN [live[u] EXCEPT !.queue = Tail(@)] ELSE live[u]
    BY <1>1 DEF TypeInv
  <2> QED
    BY <2>1, <2>2 DEF Subscription
<1>5. \/ e.ts \in live[t].filter /\ awaitingAcks' = awaitingAcks
      \/ /\ e.ts \notin live[t].filter
         /\ awaitingAcks' = [i \in DOMAIN awaitingAcks \cup {nextMessageId'} |->
                               IF i = nextMessageId' THEN [topic |-> t, msg |-> e.msg, ts |-> e.ts]
                               ELSE awaitingAcks[i]]
  BY <1>3 DEF Deliver
<1>6. live'[t].queue = Tail(queue)
  BY <1>4
<1> HIDE DEF queue, e
<1>7. \/ e.ts \in live[t].filter /\ awaitingAcks' = awaitingAcks
      \/ /\ e.ts \notin live[t].filter
         /\ DOMAIN awaitingAcks' = DOMAIN awaitingAcks \cup {nextMessageId'}
         /\ \A i \in DOMAIN awaitingAcks' :
               awaitingAcks'[i] = IF i = nextMessageId'
                                  THEN [topic |-> t, msg |-> e.msg, ts |-> e.ts]
                                  ELSE awaitingAcks[i]
  BY <1>5
<1> QED
  BY <1>3, <1>4, <1>6, <1>7 DEF queue, e

LEMMA DeliverOrder ==
  ASSUME TypeInv, NEW t \in Topics, OrderInv(t), Deliver(t)
  PROVE  OrderInv(t)'
<1> DEFINE old == live[t].queue
           new == live'[t].queue
           e == old[1]
<1>1. /\ Len(old) > 0 /\ e \in Update
      /\ Len(new) = Len(old) - 1
      /\ \A j \in 1 .. Len(new) : new[j] = old[j + 1]
      /\ \A u \in Topics :
            /\ live'[u].on = live[u].on /\ live'[u].start = live[u].start
            /\ live'[u].listed = live[u].listed /\ live'[u].filter = live[u].filter
            /\ u # t => live'[u].queue = live[u].queue
      /\ \/ e.ts \in live[t].filter /\ awaitingAcks' = awaitingAcks
         \/ /\ e.ts \notin live[t].filter
            /\ DOMAIN awaitingAcks' = DOMAIN awaitingAcks \cup {nextMessageId'}
            /\ \A i \in DOMAIN awaitingAcks' :
                  awaitingAcks'[i] = IF i = nextMessageId'
                                     THEN [topic |-> t, msg |-> e.msg, ts |-> e.ts]
                                     ELSE awaitingAcks[i]
  BY DeliverLive
<1>2. UNCHANGED <<now, committing, unnotified, present>> /\ live[t].on
  BY DEF Deliver, store, connection
<1>3. live'[t].on = live[t].on /\ live'[t].start = live[t].start
  BY <1>1
<1>4. Len(old) \in Nat /\ \A i \in 1 .. Len(old) : old[i].msg \in Nat
  BY UpdateType
<1> DEFINE Later(m) == /\ m <= now
                       /\ \A x \in committing : m < x[2]
                       /\ \A j \in 1 .. Len(unnotified) :
                             unnotified[j][1] = t /\ (present => live[t].start < unnotified[j][2])
                                => m < unnotified[j][2]
<1>5. \A i \in 1 .. Len(old) : /\ old[i].ts = old[i].msg /\ Later(old[i].msg)
                               /\ \A j \in 1 .. Len(old) : i < j => old[i].msg < old[j].msg
  BY DEF OrderInv, Before
<1>6. \A i \in Awaiting(t) :
         /\ awaitingAcks[i].ts = awaitingAcks[i].msg /\ Later(awaitingAcks[i].msg)
         /\ \A j \in 1 .. Len(old) : awaitingAcks[i].msg < old[j].msg
         /\ \A j \in Awaiting(t) : awaitingAcks[i].msg = awaitingAcks[j].msg => i = j
         /\ awaitingAcks[i].msg \in Nat
  BY StoreType DEF OrderInv, Before, Awaiting
<1> HIDE DEF old, new, e, Later
<1>7. ASSUME NEW i \in 1 .. Len(new)
      PROVE  /\ new[i].ts = new[i].msg /\ Later(new[i].msg)
             /\ \A j \in 1 .. Len(new) : i < j => new[i].msg < new[j].msg
             /\ e.msg < new[i].msg
             /\ i + 1 \in 1 .. Len(old) /\ new[i] = old[i + 1]
  <2>1. i + 1 \in 1 .. Len(old) /\ new[i] = old[i + 1]
    BY <1>1, <1>4
  <2>2. ASSUME NEW j \in 1 .. Len(new), i < j PROVE new[i].msg < new[j].msg
    <3>1. j + 1 \in 1 .. Len(old) /\ new[j] = old[j + 1] /\ i + 1 < j + 1
      BY <1>1, <1>4, <2>2
    <3> QED
      BY <1>5, <2>1, <3>1
  <2>3. 1 \in 1 .. Len(old) /\ 1 < i + 1
    BY <1>1, <1>4
  <2> QED
    BY <1>5, <2>1, <2>2, <2>3 DEF e
<1>8. e.ts = e.msg /\ Later(e.msg) /\ e.msg \in Nat /\ \A i \in Awaiting(t) : awaitingAcks[i].msg < e.msg
  <2>1. 1 \in 1 .. Len(old)
    BY <1>1, <1>4
  <2> QED
    BY <1>4, <1>5, <1>6, <2>1 DEF e
<1>9. \A i \in Awaiting(t)' :
         \/ i \in Awaiting(t) /\ awaitingAcks'[i] = awaitingAcks[i]
         \/ i = nextMessageId' /\ awaitingAcks'[i] = [topic |-> t, msg |-> e.msg, ts |-> e.ts]
  BY <1>1 DEF Awaiting
<1>10. ASSUME NEW i \in Awaiting(t)'
       PROVE  /\ awaitingAcks'[i].ts = awaitingAcks'[i].msg /\ Later(awaitingAcks'[i].msg)
              /\ \A j \in 1 .. Len(new) : awaitingAcks'[i].msg < new[j].msg
              /\ \A j \in Awaiting(t)' : awaitingAcks'[i].msg = awaitingAcks'[j].msg => i = j
  <2>1. CASE i \in Awaiting(t) /\ awaitingAcks'[i] = awaitingAcks[i]
    <3>1. \A j \in Awaiting(t)' : awaitingAcks'[i].msg = awaitingAcks'[j].msg => i = j
      BY <1>6, <1>8, <1>9, <2>1
    <3> QED
      BY <1>6, <1>7, <2>1, <3>1
  <2>2. CASE i = nextMessageId' /\ awaitingAcks'[i] = [topic |-> t, msg |-> e.msg, ts |-> e.ts]
    <3>1. awaitingAcks'[i].msg = e.msg /\ awaitingAcks'[i].ts = e.ts
      BY <2>2
    <3>2. \A j \in Awaiting(t)' : awaitingAcks'[i].msg = awaitingAcks'[j].msg => i = j
      BY <1>6, <1>8, <1>9, <2>2, <3>1
    <3> QED
      BY <1>7, <1>8, <3>1, <3>2
  <2> QED
    BY <1>9, <2>1, <2>2
<1>11. \A i \in 1 .. Len(new) : /\ new[i].ts = new[i].msg /\ Later(new[i].msg)
                                /\ \A j \in 1 .. Len(new) : i < j => new[i].msg < new[j].msg
  BY <1>7
<1> QED
  BY <1>2, <1>3, <1>10, <1>11 DEF OrderInv, Before, Later, new

LEMMA DeliverAside ==
  ASSUME TypeInv, TypeInv', NEW t \in Topics, OrderInv(t), NEW u \in Topics, u # t, Deliver(u)
  PROVE  OrderInv(t)'
<1>1. /\ live'[t].on = live[t].on /\ live'[t].start = live[t].start
      /\ live'[t].queue = live[t].queue
      /\ \A i \in DOMAIN awaitingAcks' : awaitingAcks'[i].topic = t =>
            i \in DOMAIN awaitingAcks /\ awaitingAcks'[i] = awaitingAcks[i]
  BY DeliverLive
<1>2. UNCHANGED store /\ now' = now /\ present' = present
  BY DEF Deliver, connection
<1>3. now \in Nat /\ live[t].start \in Nat
  BY StoreType, UpdateType
<1>4. now <= now' /\ live[t].start <= live'[t].start
  BY <1>1, <1>2, <1>3
<1> QED
  BY <1>1, <1>2, <1>4, OrderKept

LEMMA OrderStep ==
  ASSUME Allowed \subseteq {"other_sessions"},
         WildcardTopics = {}, SessionInv, TypeInv', OpenInv', [Next]_vars,
         NEW t \in Topics
  PROVE  OrderInv(t)'
<1> USE DEF store, record, connection, subscribing
<1>0. TypeInv /\ TimeInv /\ OpenInv /\ OrderInv(t) /\ now \in Nat /\ now' \in Nat
  <2>1. TypeInv /\ TimeInv /\ OpenInv /\ OrderInv(t)
    BY DEF SessionInv
  <2>2. now \in 0 .. MaxTime /\ now' \in 0 .. MaxTime
    BY <2>1 DEF TypeInv
  <2> QED
    BY <2>1, <2>2, Constants
<1>1. live[t].start \in Nat
  BY <1>0, UpdateType
<1>2. ASSUME UNCHANGED <<committing, unnotified, log, present, live>>, now <= now',
             \A i \in DOMAIN awaitingAcks' : i \in DOMAIN awaitingAcks /\ awaitingAcks'[i] = awaitingAcks[i]
      PROVE  OrderInv(t)'
  <2>1. /\ live[t].start <= live'[t].start /\ live'[t].queue = live[t].queue
        /\ live[t].on => live'[t].on
    BY <1>1, <1>2
  <2> QED
    BY <1>0, <1>2, <2>1, OrderKept
<1>3. ASSUME NEW u \in Topics, BeginPublish(u) PROVE OrderInv(t)'
  BY <1>0, <1>3, BeginOrder
<1>4. ASSUME NEW u \in Topics, NEW m \in Times, CommitPublish(u, m) PROVE OrderInv(t)'
  BY <1>0, <1>4, CommitOrder
<1>5. CASE Notify
  BY <1>0, <1>5, NotifyOrder
<1>6. ASSUME NEW u \in Topics, Subscribe(u) PROVE OrderInv(t)'
  <2>1. /\ ~present /\ present' = present /\ now' = now /\ awaitingAcks' = awaitingAcks
        /\ UNCHANGED store
        /\ live' = [live EXCEPT ![u] = Register(u, Absent)]
    BY <1>6 DEF Subscribe, MaySubscribe
  <2>2. Absent \in Entry /\ Absent.start = 0
    BY Constants DEF Absent, Entry
  <2>3. Register(u, Absent).queue = <<>>
    <3>1. log[u] \in Seq(Times)
      BY <1>0 DEF TypeInv
    <3> DEFINE r == Register(u, Absent)
    <3>2. PICK k \in 0 .. Len(log[u]) :
             /\ r.on = TRUE /\ r.listed = FALSE /\ r.filter = Absent.acks
             /\ r.queue \in Seq(Update)
             /\ Len(r.queue) = Len(log[u]) - k
             /\ \A i \in 1 .. Len(r.queue) : r.queue[i] = [msg |-> log[u][k + i], ts |-> log[u][k + i]]
             /\ r.start = IF k = Len(log[u]) THEN Absent.start ELSE log[u][Len(log[u])]
             /\ \A i \in k + 1 .. Len(log[u]) : Earlier(Absent.start, log[u][i])
             /\ k > 0 => ~Earlier(Absent.start, log[u][k])
      BY <2>2, <3>1, RegisterFinds
    <3> HIDE DEF r
    <3>3. Len(log[u]) \in Nat
      BY <3>1
    <3>4. k = Len(log[u])
      <4> SUFFICES ASSUME k # Len(log[u]) PROVE FALSE
        OBVIOUS
      <4>1. k + 1 \in k + 1 .. Len(log[u])
        BY <3>2, <3>3
      <4>2. Earlier(Absent.start, log[u][k + 1])
        BY <3>2, <4>1
      <4> QED
        BY <2>2, <4>2 DEF Earlier
    <3>5. Len(r.queue) = 0
      BY <3>2, <3>3, <3>4
    <3>6. r.queue = <<>>
      BY <3>2, <3>5
    <3> QED
      BY <3>6 DEF r
  <2>4. live'[t].queue = live[t].queue \/ live'[t].queue = <<>>
    BY <1>0, <2>1, <2>3 DEF TypeInv
  <2> QED
    BY <1>0, <2>1, <2>4, OrderKept
<1>7. ASSUME NEW u \in Topics, ResumeNext(u) PROVE OrderInv(t)'
  <2>1. CASE u = t
    BY <1>0, <1>7, <2>1, ResumeOrder
  <2>2. CASE u # t
    <3>1. /\ present' = present /\ now' = now /\ awaitingAcks' = awaitingAcks /\ UNCHANGED store
          /\ live'[t] = live[t]
      BY <1>0, <1>7, <2>2 DEF ResumeNext, TypeInv
    <3>2. live[t].start <= live'[t].start /\ now <= now'
      BY <1>0, <1>1, <3>1
    <3> QED
      BY <1>0, <3>1, <3>2, OrderKept
  <2> QED
    BY <2>1, <2>2
<1>8. CASE FinishAdding
  <2>1. /\ present' = present /\ awaitingAcks' = awaitingAcks /\ UNCHANGED store
    BY <1>8 DEF FinishAdding
  <2>2. /\ adding # None
        /\ now' = IF isNew THEN now + 1 ELSE now
        /\ live'[t].on = live[t].on /\ live'[t].queue = live[t].queue
        /\ live'[t].start = IF isNew /\ live'[t].listed /\ live[t].start = 0
                            THEN now + 1 ELSE live[t].start
    BY <1>0, <1>8, FinishLive DEF FinishAdding
  <2>3. present => ~isNew
    BY <1>0, <2>2 DEF OpenInv
  <2>4. now <= now' /\ (present => live[t].start <= live'[t].start)
    BY <1>0, <1>1, <2>2, <2>3
  <2> QED
    BY <1>0, <2>1, <2>2, <2>4, OrderKept
<1>9. ASSUME NEW u \in Topics, Unsubscribe(u) PROVE OrderInv(t)'
  <2>1. /\ ~present /\ present' = present /\ awaitingAcks' = awaitingAcks /\ UNCHANGED store
    BY <1>9 DEF Unsubscribe
  <2>2. now' = now + 1 /\ (live'[t].queue = live[t].queue \/ live'[t].queue = <<>>)
    <3>1. /\ now' = now + 1
          /\ live'[u] = Ended
          /\ \A v \in Topics \ {u} : live'[v].queue = live[v].queue
      BY <1>0, <1>9, UnsubscribeLive
    <3> QED
      BY <3>1 DEF Ended
  <2>3. now <= now'
    BY <1>0, <2>2
  <2> QED
    BY <1>0, <2>1, <2>2, <2>3, OrderKept
<1>10. ASSUME NEW u \in Topics, Deliver(u) PROVE OrderInv(t)'
  BY <1>0, <1>10, DeliverOrder, DeliverAside
<1>11. ASSUME NEW id \in 1 .. MaxMessageId, AcknowledgeMessage(id) PROVE OrderInv(t)'
  <2>1. \A i \in DOMAIN awaitingAcks' : i \in DOMAIN awaitingAcks /\ awaitingAcks'[i] = awaitingAcks[i]
    BY <1>0, <1>11, AcknowledgeType
  <2>2. UNCHANGED <<committing, unnotified, log, present, live>> /\ now <= now'
    BY <1>0, <1>11 DEF AcknowledgeMessage
  <2> QED
    BY <1>2, <2>1, <2>2
<1>12. CASE Connect \/ Crash
  <2>1. live' = NoneLive /\ DOMAIN awaitingAcks' = {}
    BY <1>12 DEF Connect, Crash
  <2> QED
    BY <2>1, NoSubscription DEF OrderInv, Awaiting
<1>13. CASE Drop
  <2>1. live' = NoneLive /\ DOMAIN awaitingAcks' = {}
    BY <1>13 DEF Drop, OpenInv
  <2> QED
    BY <2>1, NoSubscription DEF OrderInv, Awaiting
<1>14. CASE StorePut \/ Done \/ UNCHANGED vars
  <2>1. UNCHANGED <<committing, unnotified, log, present, live, awaitingAcks, now>>
    BY <1>14 DEF StorePut, Done, vars
  <2> QED
    BY <1>0, <1>2, <2>1
<1> QED
  BY <1>3, <1>4, <1>5, <1>6, <1>7, <1>8, <1>9, <1>10, <1>11, <1>12, <1>13, <1>14
  DEF Next

LEMMA SessionInit == Init => SessionInv
<1> SUFFICES ASSUME Init PROVE SessionInv
  OBVIOUS
<1>1. live = NoneLive /\ DOMAIN awaitingAcks = {}
  BY DEF Init
<1>2. \A t \in Topics : OrderInv(t)
  BY <1>1, NoSubscription, OrderInit
<1> QED
  BY <1>2, TypeInit, TimeInit, OpenInit DEF SessionInv

LEMMA SessionStep ==
  ASSUME Allowed \subseteq {"other_sessions"},
         WildcardTopics = {}
  PROVE  SessionInv /\ [Next]_vars => SessionInv'
<1> SUFFICES ASSUME SessionInv, [Next]_vars PROVE SessionInv'
  OBVIOUS
<1>1. TypeInv /\ TimeInv /\ OpenInv
  BY DEF SessionInv
<1>2. TypeInv' /\ TimeInv' /\ OpenInv'
  BY <1>1, TypeStep, TimeStep, OpenStep
<1>3. \A t \in Topics : OrderInv(t)'
  BY <1>2, OrderStep
<1> QED
  BY <1>2, <1>3 DEF SessionInv

(***************************************************************************)
(* TypeOK: whatever Circumstances are allowed, the session record, the     *)
(* subscriptions and what awaits acknowledgement keep their types, and     *)
(* message ids their bound.                                                *)
(***************************************************************************)
THEOREM TypeCorrect ==
  ASSUME WildcardTopics = {}
  PROVE  Spec => []TypeOK
<1>1. Init => TypeInv
  BY TypeInit
<1>2. TypeInv /\ [Next]_vars => TypeInv'
  BY TypeStep
<1>3. TypeInv => TypeOK
  <2> SUFFICES ASSUME TypeInv PROVE TypeOK
    OBVIOUS
  <2>1. ASSUME NEW t \in Topics PROVE ToSet(log[t]) \subseteq Times
    <3>1. log[t] \in Seq(Times)
      BY DEF TypeInv
    <3> QED
      BY <3>1 DEF ToSet
  <2>2. \A i \in DOMAIN unnotified : unnotified[i] \in Topics \X Times
    BY DEF TypeInv
  <2>3. DOMAIN live = Topics
    BY DEF TypeInv
  <2> QED
    BY <2>1, <2>2, <2>3 DEF TypeInv, TypeOK
<1> QED
  BY <1>1, <1>2, <1>3, PTL DEF Spec

(***************************************************************************)
(* QueuedOnce: within one connection no message is queued or awaited       *)
(* twice: what the catch-up of a resumed subscription finds in the log and *)
(* what the thread is told of meanwhile do not overlap.                    *)
(***************************************************************************)
THEOREM SentOnce ==
  ASSUME Allowed \subseteq {"other_sessions"},
         WildcardTopics = {}
  PROVE  Spec => []QueuedOnce
<1>1. SessionInv => QueuedOnce
  <2> SUFFICES ASSUME SessionInv, NEW t \in Topics
               PROVE  LET queue == live[t].queue
                          sent == {i \in DOMAIN awaitingAcks : awaitingAcks[i].topic = t}
                      IN /\ \A i, j \in DOMAIN queue : queue[i].msg = queue[j].msg => i = j
                         /\ \A i \in sent, j \in DOMAIN queue : awaitingAcks[i].msg # queue[j].msg
                         /\ \A i, j \in sent : awaitingAcks[i].msg = awaitingAcks[j].msg => i = j
    BY DEF QueuedOnce
  <2> DEFINE queue == live[t].queue
  <2>1. TypeInv /\ OrderInv(t)
    BY DEF SessionInv
  <2>2. /\ DOMAIN queue = 1 .. Len(queue) /\ Len(queue) \in Nat
        /\ \A i \in 1 .. Len(queue) : queue[i].msg \in Nat
    BY <2>1, UpdateType
  <2>3. \A i, j \in 1 .. Len(queue) : i < j => queue[i].msg < queue[j].msg
    BY <2>1 DEF OrderInv
  <2>4. \A i \in Awaiting(t) :
           /\ awaitingAcks[i].msg \in Nat
           /\ \A j \in 1 .. Len(queue) : awaitingAcks[i].msg < queue[j].msg
           /\ \A j \in Awaiting(t) : awaitingAcks[i].msg = awaitingAcks[j].msg => i = j
    BY <2>1, StoreType DEF OrderInv, Awaiting
  <2> HIDE DEF queue
  <2>5. \A i, j \in 1 .. Len(queue) : queue[i].msg = queue[j].msg => i = j
    <3> SUFFICES ASSUME NEW i \in 1 .. Len(queue), NEW j \in 1 .. Len(queue),
                        queue[i].msg = queue[j].msg, i # j
                 PROVE  FALSE
      OBVIOUS
    <3>1. i < j \/ j < i
      BY <2>2
    <3> QED
      BY <2>2, <2>3, <3>1
  <2>6. \A i \in Awaiting(t), j \in 1 .. Len(queue) : awaitingAcks[i].msg # queue[j].msg
    BY <2>2, <2>4
  <2> QED
    BY <2>2, <2>4, <2>5, <2>6 DEF Awaiting, queue
<1>2. Init => SessionInv
  BY SessionInit
<1>3. SessionInv /\ [Next]_vars => SessionInv'
  BY SessionStep
<1> QED
  BY <1>1, <1>2, <1>3, PTL DEF Spec

-----------------------------------------------------------------------------
\* What is pending, and the records.
LEMMA StoreMoves ==
  ASSUME TypeInv, [Next]_vars
  PROVE  /\ now <= now' /\ acked \subseteq acked'
         /\ \A t \in Topics, m \in Times :
               /\ m \in ToSet(log'[t]) => m \in ToSet(log[t]) \/ <<t, m>> \in committing
               /\ <<t, m>> \in committing' => <<t, m>> \in committing \/ m > now
<1> USE DEF store, record, connection, subscribing
<1>1. now \in Nat
  BY StoreType
<1>2. ASSUME log' = log, committing' \subseteq committing, now' = now \/ now' = now + 1,
             acked \subseteq acked'
      PROVE  /\ now <= now' /\ acked \subseteq acked'
             /\ \A t \in Topics, m \in Times :
                   /\ m \in ToSet(log'[t]) => m \in ToSet(log[t]) \/ <<t, m>> \in committing
                   /\ <<t, m>> \in committing' => <<t, m>> \in committing \/ m > now
  BY <1>1, <1>2
<1>3. ASSUME NEW u \in Topics, BeginPublish(u)
      PROVE  /\ now <= now' /\ acked \subseteq acked'
             /\ \A t \in Topics, m \in Times :
                   /\ m \in ToSet(log'[t]) => m \in ToSet(log[t]) \/ <<t, m>> \in committing
                   /\ <<t, m>> \in committing' => <<t, m>> \in committing \/ m > now
  <2>1. /\ now' = now + 1 /\ committing' = committing \cup {<<u, now + 1>>}
        /\ log' = log /\ acked' = acked
    BY <1>3 DEF BeginPublish
  <2>2. \A m \in Times : m = now + 1 => m > now
    BY <1>1
  <2> QED
    BY <1>1, <2>1, <2>2
<1>4. ASSUME NEW u \in Topics, NEW p \in Times, CommitPublish(u, p)
      PROVE  /\ now <= now' /\ acked \subseteq acked'
             /\ \A t \in Topics, m \in Times :
                   /\ m \in ToSet(log'[t]) => m \in ToSet(log[t]) \/ <<t, m>> \in committing
                   /\ <<t, m>> \in committing' => <<t, m>> \in committing \/ m > now
  <2>1. /\ now' = now /\ committing' \subseteq committing /\ <<u, p>> \in committing
        /\ log' = [log EXCEPT ![u] = Append(@, p)] /\ acked' = acked
    BY <1>4 DEF CommitPublish
  <2>2. ASSUME NEW t \in Topics, NEW m \in Times, m \in ToSet(log'[t])
        PROVE  m \in ToSet(log[t]) \/ <<t, m>> \in committing
    <3>1. log[t] \in Seq(Times)
      BY DEF TypeInv
    <3>2. log'[t] = IF t = u THEN Append(log[t], p) ELSE log[t]
      BY <2>1 DEF TypeInv
    <3> QED
      BY SMTT(60), <2>1, <2>2, <3>1, <3>2 DEF ToSet
  <2> QED
    BY <1>1, <2>1, <2>2
<1>5. ASSUME NEW t \in Topics, Subscribe(t) \/ ResumeNext(t) \/ Unsubscribe(t) \/ Deliver(t)
      PROVE  /\ log' = log /\ committing' = committing /\ acked' = acked
             /\ now' = now \/ now' = now + 1
  BY <1>5 DEF Subscribe, ResumeNext, Unsubscribe, SaveSubscriptions, Deliver
<1>6. ASSUME NEW id \in 1 .. MaxMessageId, AcknowledgeMessage(id)
      PROVE  log' = log /\ committing' = committing /\ now' = now /\ acked \subseteq acked'
  BY <1>6 DEF AcknowledgeMessage
<1>7. CASE Notify \/ StorePut \/ Connect \/ Drop \/ Crash \/ Done \/ UNCHANGED vars
  <2>1. log' = log /\ committing' \subseteq committing /\ acked' = acked /\ now' = now
    BY <1>7 DEF Notify, StorePut, Connect, Drop, Crash, Done, vars
  <2> QED
    BY <1>2, <2>1
<1>8. CASE FinishAdding
  <2>1. log' = log /\ committing' = committing /\ acked' = acked
    BY <1>8 DEF FinishAdding
  <2>2. now' = now \/ now' = now + 1
    BY <1>8, FinishLive
  <2> QED
    BY <1>2, <2>1, <2>2
<1> QED
  BY <1>2, <1>3, <1>4, <1>5, <1>6, <1>7, <1>8 DEF Next

LEMMA PendingShrinks ==
  ASSUME TypeInv, TypeInv', [Next]_vars, NEW t \in Topics, since[t] <= since'[t]
  PROVE  Pending(t)' \subseteq Pending(t)
<1> SUFFICES ASSUME NEW m \in Pending(t)' PROVE m \in Pending(t)
  OBVIOUS
<1>1. /\ m \in Times /\ since'[t] < m /\ <<t, m>> \notin acked'
      /\ m \in ToSet(log'[t]) \/ <<t, m>> \in committing' \/ m > now'
  BY DEF Pending
<1>2. since[t] \in 0 .. MaxTime /\ since'[t] \in 0 .. MaxTime /\ now' \in 0 .. MaxTime
  BY DEF TypeInv
<1>3. since[t] \in Nat /\ since'[t] \in Nat /\ now \in Nat /\ now' \in Nat /\ m \in Nat
  BY <1>1, <1>2, StoreType, Constants DEF Times
<1>4. /\ now <= now' /\ <<t, m>> \notin acked
      /\ m \in ToSet(log'[t]) => m \in ToSet(log[t]) \/ <<t, m>> \in committing
      /\ <<t, m>> \in committing' => <<t, m>> \in committing \/ m > now
  BY <1>1, StoreMoves
<1>5. since[t] < m /\ (m > now' => m > now)
  BY <1>1, <1>3, <1>4
<1> QED
  BY <1>1, <1>4, <1>5 DEF Pending

\* The numbers of a record and a subscription.
LEMMA RecordType ==
  ASSUME TypeInv, NEW t \in Topics
  PROVE  /\ now \in Nat /\ since[t] \in Nat /\ live[t].start \in Nat
         /\ sessionRecord[t] \in Entry /\ resuming[t] \in Entry
         /\ stored # None => stored[t] \in Entry
         /\ putting # None => putting[t] \in Entry
         /\ \A e \in Entry : e.start \in Nat /\ e.acks \subseteq Times
         /\ Pending(t) \subseteq Nat
<1>1. since[t] \in 0 .. MaxTime
  BY DEF TypeInv
<1>2. sessionRecord[t] \in Entry /\ resuming[t] \in Entry
  BY DEF TypeInv, Record
<1>3. (stored # None => stored[t] \in Entry) /\ (putting # None => putting[t] \in Entry)
  BY DEF TypeInv, Record
<1>4. \A e \in Entry : e.start \in Nat /\ e.acks \subseteq Times
  BY Constants DEF Entry
<1>5. Pending(t) \subseteq Nat
  BY Constants DEF Pending, Times
<1> QED
  BY <1>1, <1>2, <1>3, <1>4, <1>5, StoreType, UpdateType, Constants

\* A step that changes no record keeps what the records promise.
LEMMA RecordKept ==
  ASSUME TypeInv, TypeInv', [Next]_vars, NEW t \in Topics, RecordInv(t),
         UNCHANGED <<stored, since>>, putting' = putting \/ putting' = None,
         open' => open /\ sessionRecord' = sessionRecord,
         live'[t].start <= now',
         resuming'[t].on => resuming'[t] = sessionRecord'[t]
  PROVE  RecordInv(t)'
<1>1. /\ since[t] \in Nat /\ now \in Nat
      /\ stored # None => stored[t].start \in Nat
      /\ putting # None => putting[t].start \in Nat
      /\ sessionRecord[t].start \in Nat
  BY RecordType
<1>2. since'[t] = since[t] /\ since[t] <= since'[t]
  BY <1>1
<1>3. Pending(t)' \subseteq Pending(t)
  BY <1>2, PendingShrinks
<1>4. acked \subseteq acked' /\ now <= now'
  BY StoreMoves
<1>5. now' \in 0 .. MaxTime
  BY DEF TypeInv
<1>6. now' \in Nat
  BY <1>5, Constants
<1>7. ASSUME stored' # None
      PROVE  /\ stored'[t].on => 0 < stored'[t].start /\ stored'[t].start <= now'
             /\ \A m \in stored'[t].acks : <<t, m>> \in acked'
             /\ since'[t] # 0 => stored'[t].on /\ \A m \in Pending(t)' : stored'[t].start < m
  <2>1. stored' = stored /\ Past(stored, t) /\ Keeps(stored, t)
    BY <1>7 DEF RecordInv
  <2>2. stored[t].on => 0 < stored[t].start /\ stored[t].start <= now'
    BY <1>1, <1>4, <1>6, <1>7, <2>1 DEF Past
  <2> QED
    BY <1>2, <1>3, <1>4, <2>1, <2>2 DEF Past, Keeps
<1>8. ASSUME putting' # None
      PROVE  /\ putting'[t].on => 0 < putting'[t].start /\ putting'[t].start <= now'
             /\ \A m \in putting'[t].acks : <<t, m>> \in acked'
             /\ since'[t] # 0 => putting'[t].on /\ \A m \in Pending(t)' : putting'[t].start < m
  <2>1. putting' = putting /\ Past(putting, t) /\ Keeps(putting, t)
    BY <1>8 DEF RecordInv
  <2>2. putting[t].on => 0 < putting[t].start /\ putting[t].start <= now'
    BY <1>1, <1>4, <1>6, <1>8, <2>1 DEF Past
  <2> QED
    BY <1>2, <1>3, <1>4, <2>1, <2>2 DEF Past, Keeps
<1>9. ASSUME open'
      PROVE  /\ sessionRecord'[t].on => 0 < sessionRecord'[t].start /\ sessionRecord'[t].start <= now'
             /\ \A m \in sessionRecord'[t].acks : <<t, m>> \in acked'
             /\ since'[t] # 0 => sessionRecord'[t].on
                                 /\ \A m \in Pending(t)' : sessionRecord'[t].start < m
             /\ putting' # None => putting' = sessionRecord'
  <2>1. /\ sessionRecord' = sessionRecord /\ Past(sessionRecord, t) /\ Keeps(sessionRecord, t)
        /\ putting' # None => putting' = sessionRecord'
    BY <1>9 DEF RecordInv
  <2>2. sessionRecord[t].on => 0 < sessionRecord[t].start /\ sessionRecord[t].start <= now'
    BY <1>1, <1>4, <1>6, <2>1 DEF Past
  <2> QED
    BY <1>2, <1>3, <1>4, <2>1, <2>2 DEF Past, Keeps
<1>10. since'[t] <= now' /\ (stored' = None => since'[t] = 0)
  BY <1>1, <1>2, <1>4, <1>6 DEF RecordInv
<1> QED
  BY <1>7, <1>8, <1>9, <1>10 DEF RecordInv, Past, Keeps

\* A record that saveSubscriptions writes in a new session.
LEMMA SavedKeeps ==
  ASSUME TypeInv, TypeInv', [Next]_vars, NEW t \in Topics, RecordInv(t),
         stored' = stored, putting' = sessionRecord',
         sessionRecord'[t] = IF live'[t].listed
                             THEN [on |-> TRUE, start |-> live'[t].start, acks |-> {}]
                             ELSE Absent,
         live'[t].listed => 0 < live'[t].start,
         live'[t].start <= now',
         since'[t] # 0 => since'[t] = since[t] /\ live'[t].listed /\ live'[t].start <= since[t],
         ~resuming'[t].on
  PROVE  RecordInv(t)' /\ FreshInv(t)'
<1>1. /\ since[t] \in Nat /\ now \in Nat
      /\ stored # None => stored[t].start \in Nat
  BY RecordType
<1>2. acked \subseteq acked' /\ now <= now'
  BY StoreMoves
<1>3. now' \in 0 .. MaxTime /\ live'[t] \in Subscription /\ since'[t] \in 0 .. MaxTime
  BY DEF TypeInv
<1>4. now' \in Nat /\ live'[t].start \in Nat /\ since'[t] \in Nat
  BY <1>3, Constants DEF Subscription
<1>5. since'[t] # 0 => Pending(t)' \subseteq Pending(t)
  BY <1>1, PendingShrinks
<1>6. ASSUME stored' # None
      PROVE  /\ stored'[t].on => 0 < stored'[t].start /\ stored'[t].start <= now'
             /\ \A m \in stored'[t].acks : <<t, m>> \in acked'
             /\ since'[t] # 0 => stored'[t].on /\ \A m \in Pending(t)' : stored'[t].start < m
  <2>1. stored' = stored /\ Past(stored, t) /\ Keeps(stored, t)
    BY <1>6 DEF RecordInv
  <2>2. stored[t].on => 0 < stored[t].start /\ stored[t].start <= now'
    BY <1>1, <1>2, <1>4, <1>6, <2>1 DEF Past
  <2> QED
    BY <1>2, <1>5, <2>1, <2>2 DEF Past, Keeps
<1>7. /\ sessionRecord'[t].on = live'[t].listed /\ sessionRecord'[t].acks = {}
      /\ live'[t].listed => sessionRecord'[t].start = live'[t].start
  <2>1. live'[t].listed \in BOOLEAN
    BY <1>3 DEF Subscription
  <2>2. CASE live'[t].listed = TRUE
    <3>1. sessionRecord'[t] = [on |-> TRUE, start |-> live'[t].start, acks |-> {}]
      BY <2>2
    <3>2. /\ sessionRecord'[t].on = TRUE /\ sessionRecord'[t].acks = {}
          /\ sessionRecord'[t].start = live'[t].start
      BY ONLY <3>1
    <3> QED
      BY ONLY <2>2, <3>2
  <2>3. CASE live'[t].listed = FALSE
    <3>1. sessionRecord'[t] = [on |-> FALSE, start |-> 0, acks |-> {}]
      BY <2>3 DEF Absent
    <3>2. sessionRecord'[t].on = FALSE /\ sessionRecord'[t].acks = {}
      BY ONLY <3>1
    <3> QED
      BY ONLY <2>3, <3>2
  <2> QED
    BY <2>1, <2>2, <2>3
<1>8. ASSUME since'[t] # 0, NEW m \in Pending(t)' PROVE live'[t].start < m
  <2>1. m \in Times /\ since'[t] < m
    BY DEF Pending
  <2>2. m \in Nat
    BY <2>1, Constants DEF Times
  <2> QED
    BY <1>1, <1>4, <1>8, <2>1, <2>2
<1>9. /\ sessionRecord'[t].on => 0 < sessionRecord'[t].start /\ sessionRecord'[t].start <= now'
      /\ \A m \in sessionRecord'[t].acks : <<t, m>> \in acked'
      /\ since'[t] # 0 => /\ sessionRecord'[t].on
                          /\ \A m \in Pending(t)' : sessionRecord'[t].start < m
  BY <1>7, <1>8
<1>10. since'[t] <= now' /\ (stored' = None => since'[t] = 0)
  BY <1>1, <1>2, <1>4 DEF RecordInv
<1>11. RecordInv(t)'
  BY <1>6, <1>9, <1>10 DEF RecordInv, Past, Keeps
<1>12. FreshInv(t)'
  BY <1>7 DEF FreshInv
<1> QED
  BY <1>11, <1>12

LEMMA FinishKeeps ==
  ASSUME Allowed \subseteq {"other_sessions"},
         TypeInv, TypeInv', OpenInv, NEW t \in Topics,
         RecordInv(t), FreshInv(t), FinishAdding
  PROVE  RecordInv(t)' /\ FreshInv(t)'
<1>0. [Next]_vars
  BY DEF Next
<1>1. /\ adding \in Topics /\ open
      /\ now' = IF isNew THEN now + 1 ELSE now
      /\ live'[t].listed = (live[t].listed \/ t = adding)
      /\ live'[t].start = IF isNew /\ live'[t].listed /\ live[t].start = 0
                          THEN now + 1 ELSE live[t].start
  BY FinishLive DEF FinishAdding, OpenInv
<1>2. /\ UNCHANGED <<stored, since, open, present, resuming>>
      /\ isNew <=> ~present
      /\ resuming[t].on => present
  BY DEF FinishAdding, OpenInv, connection
<1>3. now \in Nat /\ live[t].start \in Nat /\ since[t] \in Nat
  BY RecordType
<1>4. live'[t].start <= now'
  <2>1. live[t].start <= now
    BY DEF RecordInv
  <2> QED
    BY <1>1, <1>3, <2>1
<1>5. CASE ~isNew
  <2>1. UNCHANGED <<putting, sessionRecord>>
    BY <1>5 DEF FinishAdding, SaveSubscriptions
  <2>2. RecordInv(t)'
    <3>1. resuming'[t].on => resuming'[t] = sessionRecord'[t]
      BY <1>2, <2>1 DEF RecordInv
    <3> QED
      BY <1>0, <1>2, <1>4, <2>1, <3>1, RecordKept
  <2>3. FreshInv(t)'
    BY <1>2, <1>5 DEF FreshInv
  <2> QED
    BY <2>2, <2>3
<1>6. CASE isNew
  <2> DEFINE subs == [live EXCEPT ![adding].listed = TRUE]
  <2>1. subs \in [Topics -> Subscription]
    <3>1. \A u \in Topics : live[u] \in Subscription
      BY DEF TypeInv
    <3> QED
      BY <1>1, <3>1 DEF TypeInv, Subscription
  <2>2. SaveSubscriptions(subs)
    BY <1>6 DEF FinishAdding
  <2> HIDE DEF subs
  <2>3. /\ putting' = sessionRecord'
        /\ sessionRecord'[t] = IF live'[t].listed
                               THEN [on |-> TRUE, start |-> live'[t].start, acks |-> {}]
                               ELSE Absent
    BY <2>1, <2>2, SavedType
  <2>4. live'[t].listed => 0 < live'[t].start
    BY <1>1, <1>3, <1>6
  <2>5. since'[t] # 0 => since'[t] = since[t] /\ live'[t].listed /\ live'[t].start <= since[t]
    <3>1. since[t] # 0 => live[t].listed /\ live[t].start > 0 /\ live[t].start <= since[t]
      BY <1>1, <1>2, <1>6 DEF FreshInv
    <3>2. since'[t] = since[t]
      BY <1>2
    <3>3. live[t].start > 0 => live'[t].start = live[t].start
      BY <1>1, <1>3
    <3>4. live[t].listed => live'[t].listed
      BY <1>1
    <3> QED
      BY <3>1, <3>2, <3>3, <3>4
  <2> QED
    BY <1>0, <1>2, <1>4, <1>6, <2>3, <2>4, <2>5, SavedKeeps
<1> QED
  BY <1>5, <1>6

LEMMA UnsubscribeKeeps ==
  ASSUME Allowed \subseteq {"other_sessions"},
         TypeInv, TypeInv', OpenInv, NEW t \in Topics,
         RecordInv(t), FreshInv(t), NEW u \in Topics, Unsubscribe(u)
  PROVE  RecordInv(t)' /\ FreshInv(t)'
<1>0. [Next]_vars
  BY DEF Next
<1>1. /\ open /\ ~present /\ resuming' = resuming /\ stored' = stored
      /\ since' = [since EXCEPT ![u] = 0]
  BY DEF Unsubscribe, subscribing
<1>2. /\ now' = now + 1
      /\ t = u => live'[t] = Ended
      /\ t # u => /\ live'[t].listed = live[t].listed
                  /\ live'[t].start = IF live[t].listed /\ live[t].start = 0
                                      THEN now + 1 ELSE live[t].start
  BY UnsubscribeLive
<1>3. now \in Nat /\ live[t].start \in Nat /\ since[t] \in Nat
  BY RecordType
<1>4. Ended.start = 0 /\ Ended.listed = FALSE
  BY DEF Ended
<1>5. live'[t].start <= now'
  <2>1. live[t].start <= now
    BY DEF RecordInv
  <2> QED
    BY <1>2, <1>3, <1>4, <2>1
<1> DEFINE subs == [live EXCEPT ![u] = Ended]
<1>6. subs \in [Topics -> Subscription]
  BY Constants DEF TypeInv, Subscription, Ended
<1>7. SaveSubscriptions(subs)
  BY DEF Unsubscribe
<1> HIDE DEF subs
<1>8. /\ putting' = sessionRecord'
      /\ sessionRecord'[t] = IF live'[t].listed
                             THEN [on |-> TRUE, start |-> live'[t].start, acks |-> {}]
                             ELSE Absent
  BY <1>6, <1>7, SavedType
<1>9. live'[t].listed => 0 < live'[t].start
  <2>1. CASE t = u
    <3>1. live'[t] = Ended
      BY <1>2, <2>1
    <3> QED
      BY <1>4, <3>1
  <2>2. CASE t # u
    <3>1. /\ live'[t].listed = live[t].listed
          /\ live'[t].start = IF live[t].listed /\ live[t].start = 0
                              THEN now + 1 ELSE live[t].start
      BY <1>2, <2>2
    <3>2. live[t].listed => 0 < live'[t].start
      BY <1>3, <3>1
    <3> QED
      BY <3>1, <3>2
  <2> QED
    BY <2>1, <2>2
<1>10. since'[t] # 0 => since'[t] = since[t] /\ live'[t].listed /\ live'[t].start <= since[t]
  <2>1. since[t] # 0 => live[t].listed /\ live[t].start > 0 /\ live[t].start <= since[t]
    BY <1>1 DEF FreshInv
  <2>2. since'[t] = IF t = u THEN 0 ELSE since[t]
    BY <1>1 DEF TypeInv
  <2> QED
    BY <1>2, <1>3, <2>1, <2>2
<1>11. ~resuming'[t].on
  BY <1>1 DEF OpenInv
<1> QED
  BY <1>0, <1>1, <1>5, <1>8, <1>9, <1>10, <1>11, SavedKeeps

\* What acknowledge does to the record.
LEMMA AcknowledgeMoves ==
  ASSUME TypeInv, NEW id \in 1 .. MaxMessageId, AcknowledgeMessage(id)
  PROVE  LET u == awaitingAcks[id].topic
             m == awaitingAcks[id].ts
             old == sessionRecord[u]
             new == sessionRecord'[u]
         IN /\ u \in Topics /\ m \in Nat
            /\ \A t \in Topics : t # u => sessionRecord'[t] = sessionRecord[t]
            /\ new.on = old.on
            /\ \/ new = old /\ ~old.on
               \/ new.start = old.start /\ new.acks = old.acks \cup {m}
               \/ /\ new.start = m /\ new.acks = old.acks
                  /\ \A i \in DOMAIN awaitingAcks \ {id} :
                        awaitingAcks[i].topic = u => ~Earlier(awaitingAcks[i].ts, m)
<1> DEFINE update == awaitingAcks[id]
           remaining == {awaitingAcks[i] : i \in DOMAIN awaitingAcks \ {id}}
           old == sessionRecord[update.topic]
           new == sessionRecord'[update.topic]
<1>1. /\ id \in DOMAIN awaitingAcks
      /\ sessionRecord' = [sessionRecord EXCEPT ![update.topic] = Advance(old, update, remaining)]
  BY DEF AcknowledgeMessage
<1>2. update \in Sending
  BY <1>1 DEF TypeInv
<1>3. update.topic \in Topics /\ update.ts \in Nat
  BY <1>2, Constants DEF Sending
<1>4. old \in Entry
  BY <1>3 DEF TypeInv, Record
<1>5. new = Advance(old, update, remaining)
      /\ \A t \in Topics : t # update.topic => sessionRecord'[t] = sessionRecord[t]
  BY <1>1, <1>3 DEF TypeInv, Record
<1>6. (~\E r \in remaining : r.topic = update.topic /\ Earlier(r.ts, update.ts)) =>
         \A i \in DOMAIN awaitingAcks \ {id} :
            awaitingAcks[i].topic = update.topic => ~Earlier(awaitingAcks[i].ts, update.ts)
  OBVIOUS
<1> HIDE DEF update, remaining, old, new
<1>7. CASE ~old.on
  BY <1>3, <1>5, <1>7 DEF Advance, update, old, new
<1>8. CASE old.on /\ \E r \in remaining : r.topic = update.topic /\ Earlier(r.ts, update.ts)
  <2>1. new = [old EXCEPT !.acks = @ \cup {update.ts}]
    BY <1>5, <1>8 DEF Advance
  <2>2. new.on = old.on /\ new.start = old.start /\ new.acks = old.acks \cup {update.ts}
    BY <1>4, <2>1 DEF Entry
  <2> QED
    BY <1>3, <1>5, <2>2 DEF update, old, new
<1>9. CASE old.on /\ ~\E r \in remaining : r.topic = update.topic /\ Earlier(r.ts, update.ts)
  <2>1. new = [old EXCEPT !.start = update.ts]
    BY <1>5, <1>9 DEF Advance
  <2>2. new.on = old.on /\ new.start = update.ts /\ new.acks = old.acks
    BY <1>4, <2>1 DEF Entry
  <2> QED
    BY <1>3, <1>5, <1>6, <1>9, <2>2 DEF update, old, new
<1> QED
  BY <1>7, <1>8, <1>9

\* What is pending comes after a message that is acknowledged before any other.
LEMMA FirstAcknowledged ==
  ASSUME TypeInv, OpenInv, NEW t \in Topics, OrderInv(t), FreshInv(t), CoverInv(t),
         open, since[t] # 0,
         NEW id \in DOMAIN awaitingAcks, awaitingAcks[id].topic = t,
         \A i \in DOMAIN awaitingAcks \ {id} :
            awaitingAcks[i].topic = t => ~Earlier(awaitingAcks[i].ts, awaitingAcks[id].ts),
         NEW m \in Pending(t), m # awaitingAcks[id].msg
  PROVE  awaitingAcks[id].msg < m
<1> DEFINE a == awaitingAcks[id].msg
<1>1. id \in Awaiting(t)
  BY DEF Awaiting
<1>2. /\ awaitingAcks[id].ts = a /\ Before(a, t)
      /\ present => live[t].on
      /\ \A j \in 1 .. Len(live[t].queue) : a < live[t].queue[j].msg
  BY <1>1 DEF OrderInv
<1>3. live[t].on
  BY <1>2 DEF FreshInv, OpenInv
<1>4. Covered(m, t)
  BY <1>3 DEF CoverInv
<1>5. a \in Nat /\ m \in Nat /\ now \in Nat /\ m # 0 /\ a # 0
  <2>1. awaitingAcks[id] \in Sending /\ m \in Times
    BY DEF TypeInv, Pending
  <2> QED
    BY <2>1, StoreType, Constants DEF Sending, Times
<1>6. CASE \E i \in DOMAIN awaitingAcks : awaitingAcks[i].topic = t /\ awaitingAcks[i].msg = m
  <2>1. PICK i \in DOMAIN awaitingAcks : awaitingAcks[i].topic = t /\ awaitingAcks[i].msg = m
    BY <1>6
  <2>2. awaitingAcks[i].ts = m
    BY <2>1 DEF OrderInv, Awaiting
  <2>3. ~Earlier(m, a)
    BY <1>2, <2>1, <2>2
  <2> QED
    BY <1>5, <2>3 DEF Earlier
<1>7. CASE \E i \in 1 .. Len(live[t].queue) : live[t].queue[i].msg = m
  BY <1>2, <1>7
<1>8. CASE /\ live[t].start < m
           /\ m \in ToSet(log[t]) => \E j \in 1 .. Len(unnotified) : unnotified[j] = <<t, m>>
  <2>1. m \in ToSet(log[t]) \/ <<t, m>> \in committing \/ m > now
    BY DEF Pending
  <2>2. CASE m > now
    BY <1>2, <1>5, <2>2 DEF Before
  <2>3. CASE <<t, m>> \in committing
    BY <1>2, <2>3 DEF Before
  <2>4. CASE m \in ToSet(log[t])
    <3>1. PICK j \in 1 .. Len(unnotified) : unnotified[j] = <<t, m>>
      BY <1>8, <2>4
    <3>2. unnotified[j][1] = t /\ unnotified[j][2] = m
      BY <3>1
    <3> QED
      BY <1>2, <1>8, <3>2 DEF Before
  <2> QED
    BY <2>1, <2>2, <2>3, <2>4
<1> QED
  BY <1>4, <1>6, <1>7, <1>8 DEF Covered

LEMMA AcknowledgeKeeps ==
  ASSUME TypeInv, TypeInv', OpenInv, NEW t \in Topics, OrderInv(t),
         RecordInv(t), FreshInv(t), CoverInv(t),
         NEW id \in 1 .. MaxMessageId, AcknowledgeMessage(id)
  PROVE  RecordInv(t)' /\ FreshInv(t)'
<1> DEFINE u == awaitingAcks[id].topic
           old == sessionRecord[t]
           new == sessionRecord'[t]
<1>0. [Next]_vars
  BY DEF Next
<1>1. /\ open /\ id \in DOMAIN awaitingAcks
      /\ acked' = acked \cup {<<u, awaitingAcks[id].msg>>}
      /\ putting' = sessionRecord'
      /\ UNCHANGED <<now, stored, since, open, present, resuming, live>>
  BY DEF AcknowledgeMessage, connection, subscribing
<1>2. /\ now \in Nat /\ since[t] \in Nat
      /\ stored # None => stored[t].start \in Nat
  BY RecordType
<1>3. Pending(t)' \subseteq Pending(t)
  BY <1>0, <1>1, <1>2, PendingShrinks
<1>4. /\ Past(sessionRecord, t) /\ Keeps(sessionRecord, t)
      /\ resuming[t].on => resuming[t] = sessionRecord[t]
  BY <1>1 DEF RecordInv
<1>5. /\ new.on = old.on
      /\ new.on => 0 < new.start /\ new.start <= now
      /\ \A m \in new.acks : <<t, m>> \in acked'
      /\ since[t] # 0 => \A m \in Pending(t)' : new.start < m
      /\ u = t => ~resuming[t].on
      /\ u # t => new = old
  <2>1. CASE u # t
    <3>1. new = old
      BY <2>1, AcknowledgeMoves
    <3> QED
      BY <1>1, <1>3, <1>4, <2>1, <3>1 DEF Past, Keeps
  <2>2. CASE u = t
    <3> DEFINE a == awaitingAcks[id].msg
    <3>1. id \in Awaiting(t)
      BY <1>1, <2>2 DEF Awaiting
    <3>2. awaitingAcks[id].ts = a /\ Before(a, t) /\ (present => live[t].on)
      BY <3>1 DEF OrderInv
    <3>3. awaitingAcks[id] \in Sending
      BY <1>1 DEF TypeInv
    <3>4. a \in Nat /\ 0 < a /\ a <= now
      BY <3>2, <3>3, Constants DEF Before, Sending, Times
    <3>5. ~resuming[t].on
      BY <3>2 DEF OpenInv
    <3>6. <<t, a>> \in acked' /\ acked \subseteq acked'
      BY <1>1, <2>2
    <3>7. \A m \in Pending(t)' : m # a
      BY <3>6 DEF Pending
    <3> HIDE DEF u
    <3>8. /\ new.on = old.on
          /\ \/ new = old /\ ~old.on
             \/ new.start = old.start /\ new.acks = old.acks \cup {a}
             \/ /\ new.start = a /\ new.acks = old.acks
                /\ \A i \in DOMAIN awaitingAcks \ {id} :
                      awaitingAcks[i].topic = t =>
                         ~Earlier(awaitingAcks[i].ts, awaitingAcks[id].ts)
      BY <2>2, <3>2, AcknowledgeMoves DEF u
    <3> HIDE DEF old, new, a
    <3>9. CASE new = old /\ ~old.on
      BY <1>3, <1>4, <2>2, <3>5, <3>6, <3>9 DEF Past, Keeps, old
    <3>10. CASE new.start = old.start /\ new.acks = old.acks \cup {a}
      BY <1>3, <1>4, <2>2, <3>5, <3>6, <3>8, <3>10 DEF Past, Keeps, old
    <3>11. CASE /\ new.start = a /\ new.acks = old.acks
                /\ \A i \in DOMAIN awaitingAcks \ {id} :
                      awaitingAcks[i].topic = t =>
                         ~Earlier(awaitingAcks[i].ts, awaitingAcks[id].ts)
      <4>1. ASSUME since[t] # 0, NEW m \in Pending(t)' PROVE a < m
        <5>1. m \in Pending(t) /\ m # awaitingAcks[id].msg
          BY <1>3, <3>7, <4>1 DEF a
        <5>2. awaitingAcks[id].topic = t
          BY <2>2 DEF u
        <5>3. awaitingAcks[id].msg < m
          BY <1>1, <3>11, <4>1, <5>1, <5>2, FirstAcknowledged
        <5> QED
          BY <5>3 DEF a
      <4>2. new.on => 0 < new.start /\ new.start <= now
        BY <3>4, <3>11
      <4>3. \A m \in new.acks : <<t, m>> \in acked'
        BY <1>4, <3>6, <3>11 DEF Past, old
      <4> QED
        BY <2>2, <3>5, <3>8, <3>11, <4>1, <4>2, <4>3
    <3> QED
      BY <3>8, <3>9, <3>10, <3>11
  <2> QED
    BY <2>1, <2>2
<1> HIDE DEF u
<1>6. ASSUME stored' # None
      PROVE  /\ stored'[t].on => 0 < stored'[t].start /\ stored'[t].start <= now'
             /\ \A m \in stored'[t].acks : <<t, m>> \in acked'
             /\ since'[t] # 0 => stored'[t].on /\ \A m \in Pending(t)' : stored'[t].start < m
  <2>1. stored' = stored /\ Past(stored, t) /\ Keeps(stored, t)
    BY <1>1, <1>6 DEF RecordInv
  <2> QED
    BY <1>1, <1>3, <2>1 DEF Past, Keeps
<1>7. /\ new.on => 0 < new.start /\ new.start <= now'
      /\ \A m \in new.acks : <<t, m>> \in acked'
      /\ since'[t] # 0 => new.on /\ \A m \in Pending(t)' : new.start < m
  BY <1>1, <1>4, <1>5 DEF Keeps
<1>8. /\ since'[t] <= now' /\ live'[t].start <= now'
      /\ stored' = None => since'[t] = 0
      /\ resuming'[t].on => resuming'[t] = sessionRecord'[t]
  BY <1>1, <1>4, <1>5 DEF RecordInv
<1>9. RecordInv(t)'
  BY <1>1, <1>6, <1>7, <1>8 DEF RecordInv, Past, Keeps
<1>10. FreshInv(t)'
  BY <1>1, <1>5 DEF FreshInv
<1> QED
  BY <1>9, <1>10

\* The promise of a subscription begins when its first record is stored.
LEMMA StoreKeeps ==
  ASSUME TypeInv, TypeInv', NEW t \in Topics, RecordInv(t), FreshInv(t), StorePut
  PROVE  RecordInv(t)' /\ FreshInv(t)'
<1>0. [Next]_vars
  BY DEF Next
<1>1. /\ putting # None /\ stored' = putting /\ putting' = None
      /\ since'[t] = IF putting[t].on /\ since[t] = 0 THEN now ELSE since[t]
      /\ UNCHANGED <<now, sessionRecord, open, present, resuming, live, acked>>
  BY DEF StorePut, connection, subscribing
<1>2. /\ now \in Nat /\ since[t] \in Nat /\ putting[t].start \in Nat
      /\ sessionRecord[t].start \in Nat /\ live[t].start \in Nat
  BY <1>1, RecordType
<1>3. since[t] <= since'[t] /\ since'[t] <= now
  BY <1>1, <1>2 DEF RecordInv
<1>4. Pending(t)' \subseteq Pending(t)
  BY <1>0, <1>3, PendingShrinks
<1>5. Past(putting, t) /\ Keeps(putting, t)
  BY <1>1 DEF RecordInv
<1>6. since'[t] # 0 => putting[t].on /\ \A m \in Pending(t)' : putting[t].start < m
  <2>1. CASE since[t] # 0
    BY <1>4, <1>5, <2>1 DEF Keeps
  <2>2. CASE since[t] = 0
    <3> SUFFICES ASSUME since'[t] # 0
                 PROVE  putting[t].on /\ \A m \in Pending(t)' : putting[t].start < m
      OBVIOUS
    <3>1. putting[t].on /\ since'[t] = now
      BY <1>1, <2>2
    <3>2. putting[t].start <= now
      BY <1>5, <3>1 DEF Past
    <3>3. ASSUME NEW m \in Pending(t)' PROVE putting[t].start < m
      <4>1. m \in Times /\ since'[t] < m
        BY DEF Pending
      <4>2. m \in Nat
        BY <4>1, Constants DEF Times
      <4> QED
        BY <1>2, <3>1, <3>2, <4>1, <4>2
    <3> QED
      BY <3>1, <3>3
  <2> QED
    BY <2>1, <2>2
<1>7. open => Past(sessionRecord, t) /\ putting = sessionRecord
  BY <1>1 DEF RecordInv
<1>8. live[t].start <= now /\ (resuming[t].on => resuming[t] = sessionRecord[t])
  BY DEF RecordInv
<1>9. /\ stored'[t].on => 0 < stored'[t].start /\ stored'[t].start <= now'
      /\ \A m \in stored'[t].acks : <<t, m>> \in acked'
      /\ since'[t] # 0 => stored'[t].on /\ \A m \in Pending(t)' : stored'[t].start < m
  BY <1>1, <1>5, <1>6 DEF Past
<1>10. open' => stored' = sessionRecord'
  BY <1>1, <1>7
<1>11. RecordInv(t)'
  BY <1>1, <1>3, <1>8, <1>9, <1>10 DEF RecordInv, Past, Keeps
<1>12. FreshInv(t)'
  <2> SUFFICES ASSUME open, ~present
               PROVE  /\ sessionRecord[t].on \/ since'[t] # 0 => live[t].listed
                      /\ live[t].listed => live[t].start > 0
                      /\ since'[t] # 0 => live[t].start <= since'[t]
    BY <1>1 DEF FreshInv
  <2>1. /\ sessionRecord[t].on \/ since[t] # 0 => live[t].listed
        /\ live[t].listed => live[t].start > 0
        /\ since[t] # 0 => live[t].start <= since[t]
    BY DEF FreshInv
  <2>2. putting = sessionRecord
    BY <1>7
  <2>3. CASE putting[t].on /\ since[t] = 0
    BY <1>1, <1>8, <2>1, <2>2, <2>3
  <2>4. CASE ~(putting[t].on /\ since[t] = 0)
    BY <1>1, <2>1, <2>4
  <2> QED
    BY <2>3, <2>4
<1> QED
  BY <1>11, <1>12

LEMMA ConnectKeeps ==
  ASSUME Allowed \subseteq {"other_sessions"},
         TypeInv, TypeInv', NEW t \in Topics, RecordInv(t), Connect
  PROVE  RecordInv(t)' /\ FreshInv(t)'
<1>0. [Next]_vars
  BY DEF Next
<1>1. /\ putting = None /\ putting' = None
      /\ present' = (stored # None)
      /\ sessionRecord' = IF stored = None THEN EmptyRecord ELSE stored
      /\ resuming' = sessionRecord' /\ live' = NoneLive
      /\ UNCHANGED <<now, stored, since, acked>>
  BY DEF Connect
<1>2. now \in Nat /\ since[t] \in Nat
  BY RecordType
<1>3. Pending(t)' \subseteq Pending(t)
  BY <1>0, <1>1, <1>2, PendingShrinks
<1>4. live'[t].start = 0
  BY <1>1, NoSubscription
<1>5. since'[t] <= now' /\ live'[t].start <= now' /\ (stored' = None => since'[t] = 0)
  BY <1>1, <1>2, <1>4 DEF RecordInv
<1>6. ASSUME stored' # None
      PROVE  /\ stored'[t].on => 0 < stored'[t].start /\ stored'[t].start <= now'
             /\ \A m \in stored'[t].acks : <<t, m>> \in acked'
             /\ since'[t] # 0 => stored'[t].on /\ \A m \in Pending(t)' : stored'[t].start < m
  <2>1. stored' = stored /\ Past(stored, t) /\ Keeps(stored, t)
    BY <1>1, <1>6 DEF RecordInv
  <2> QED
    BY <1>1, <1>3, <2>1 DEF Past, Keeps
<1>7. CASE stored # None
  <2>1. sessionRecord' = stored' /\ stored' # None
    BY <1>1, <1>7
  <2>2. RecordInv(t)'
    BY <1>1, <1>5, <1>6, <2>1 DEF RecordInv, Past, Keeps
  <2> QED
    BY <1>1, <1>7, <2>2 DEF FreshInv
<1>8. CASE stored = None
  <2>1. sessionRecord' = EmptyRecord /\ stored' = None /\ since'[t] = 0
    BY <1>1, <1>5, <1>8
  <2>2. ~sessionRecord'[t].on /\ sessionRecord'[t].acks = {} /\ ~live'[t].listed
    BY <1>1, <2>1, NoSubscription
  <2>3. RecordInv(t)'
    BY <1>1, <1>5, <2>1, <2>2 DEF RecordInv, Past, Keeps
  <2>4. FreshInv(t)'
    BY <2>1, <2>2 DEF FreshInv
  <2> QED
    BY <2>3, <2>4
<1> QED
  BY <1>7, <1>8

LEMMA CatchUpStart ==
  ASSUME WildcardTopics = {}, TypeInv, TimeInv, NEW t \in Topics, NEW entry \in Entry,
         entry.start <= now
  PROVE  Register(t, entry).start <= now /\ Register(t, entry).listed = FALSE
<1> DEFINE r == Register(t, entry)
<1>1. log[t] \in Seq(Times)
  BY DEF TypeInv
<1>2. PICK k \in 0 .. Len(log[t]) :
         /\ r.on = TRUE /\ r.listed = FALSE /\ r.filter = entry.acks
         /\ r.queue \in Seq(Update)
         /\ Len(r.queue) = Len(log[t]) - k
         /\ \A i \in 1 .. Len(r.queue) : r.queue[i] = [msg |-> log[t][k + i], ts |-> log[t][k + i]]
         /\ r.start = IF k = Len(log[t]) THEN entry.start ELSE log[t][Len(log[t])]
         /\ \A i \in k + 1 .. Len(log[t]) : Earlier(entry.start, log[t][i])
         /\ k > 0 => ~Earlier(entry.start, log[t][k])
  BY <1>1, RegisterFinds
<1> HIDE DEF r
<1>3. k # Len(log[t]) => Len(log[t]) \in 1 .. Len(log[t])
  BY <1>1, <1>2
<1>4. \A i \in 1 .. Len(log[t]) : log[t][i] <= now
  BY DEF TimeInv
<1>5. r.start <= now /\ r.listed = FALSE
  BY <1>2, <1>3, <1>4
<1> QED
  BY <1>5 DEF r

LEMMA RecordStep ==
  ASSUME Allowed \subseteq {"other_sessions"},
         WildcardTopics = {}, SessionInv, SessionInv', [Next]_vars,
         NEW t \in Topics, RecordInv(t), FreshInv(t), CoverInv(t)
  PROVE  RecordInv(t)' /\ FreshInv(t)'
<1> USE DEF store, record, connection, subscribing
<1>1. TypeInv /\ TimeInv /\ OpenInv /\ OrderInv(t)
  BY DEF SessionInv
<1>2. TypeInv'
  BY DEF SessionInv
<1>3. now \in Nat /\ now <= now' /\ live[t].start \in Nat /\ live[t].start <= now
  BY <1>1, RecordType, StoreMoves DEF RecordInv
<1>4. now' \in Nat
  <2>1. now' \in 0 .. MaxTime
    BY <1>2 DEF TypeInv
  <2> QED
    BY <2>1, Constants
<1>5. ASSUME UNCHANGED <<record, open, present, resuming>>,
             live'[t].start = live[t].start, live'[t].listed = live[t].listed
      PROVE  RecordInv(t)' /\ FreshInv(t)'
  <2>1. live'[t].start <= now'
    BY <1>3, <1>4, <1>5
  <2>2. resuming'[t].on => resuming'[t] = sessionRecord'[t]
    BY <1>5 DEF RecordInv
  <2>3. RecordInv(t)'
    BY <1>1, <1>2, <1>5, <2>1, <2>2, RecordKept
  <2> QED
    BY <1>5, <2>3 DEF FreshInv
<1>6. ASSUME NEW u \in Topics, BeginPublish(u) PROVE RecordInv(t)' /\ FreshInv(t)'
  BY <1>5, <1>6 DEF BeginPublish
<1>7. ASSUME NEW u \in Topics, NEW m \in Times, CommitPublish(u, m)
      PROVE  RecordInv(t)' /\ FreshInv(t)'
  BY <1>5, <1>7 DEF CommitPublish
<1>8. CASE Notify
  <2>1. live'[t].start = live[t].start /\ live'[t].listed = live[t].listed
    BY <1>1, <1>8, NotifyLive
  <2> QED
    BY <1>5, <1>8, <2>1 DEF Notify
<1>9. ASSUME NEW u \in Topics, Subscribe(u) PROVE RecordInv(t)' /\ FreshInv(t)'
  <2>1. /\ ~present /\ ~live[u].on
        /\ UNCHANGED <<record, open, present, resuming, now>>
        /\ live' = [live EXCEPT ![u] = Register(u, Absent)]
    BY <1>9 DEF Subscribe, MaySubscribe
  <2>2. CASE u # t
    <3>1. live'[t] = live[t]
      BY <1>1, <2>1, <2>2 DEF TypeInv
    <3> QED
      BY <1>5, <2>1, <3>1
  <2>3. CASE u = t
    <3>1. live'[t] = Register(t, Absent)
      BY <1>1, <2>1, <2>3 DEF TypeInv
    <3>2. Absent \in Entry /\ Absent.start <= now
      BY <1>3, Constants DEF Absent, Entry
    <3>3. live'[t].start <= now' /\ ~live'[t].listed
      BY <1>1, <2>1, <3>1, <3>2, CatchUpStart
    <3>4. ~live[t].listed
      BY <1>1, <2>1, <2>3 DEF OpenInv
    <3>5. resuming'[t].on => resuming'[t] = sessionRecord'[t]
      BY <2>1 DEF RecordInv
    <3>6. RecordInv(t)'
      BY <1>1, <1>2, <2>1, <3>3, <3>5, RecordKept
    <3>7. FreshInv(t)'
      BY <2>1, <3>3, <3>4 DEF FreshInv
    <3> QED
      BY <3>6, <3>7
  <2> QED
    BY <2>2, <2>3
<1>10. ASSUME NEW u \in Topics, ResumeNext(u) PROVE RecordInv(t)' /\ FreshInv(t)'
  <2>1. /\ open /\ resuming[u].on
        /\ UNCHANGED <<record, open, present, now>>
        /\ resuming' = [resuming EXCEPT ![u] = Absent]
        /\ live' = [live EXCEPT ![u] = Register(u, resuming[u])]
    BY <1>10 DEF ResumeNext
  <2>2. present
    BY <1>1, <2>1 DEF OpenInv
  <2>3. resuming'[t] = IF u = t THEN Absent ELSE resuming[t]
    BY <1>1, <2>1 DEF TypeInv, Record
  <2>4. resuming'[t].on => resuming'[t] = sessionRecord'[t]
    BY <2>1, <2>3 DEF RecordInv, Absent
  <2>5. live'[t].start <= now'
    <3>1. CASE u # t
      <4>1. live'[t] = live[t]
        BY <1>1, <2>1, <3>1 DEF TypeInv
      <4> QED
        BY <1>3, <2>1, <4>1
    <3>2. CASE u = t
      <4>1. resuming[t] \in Entry /\ live'[t] = Register(t, resuming[t])
        BY <1>1, <2>1, <3>2 DEF TypeInv, Record
      <4>2. resuming[t].start <= now
        BY <2>1, <3>2 DEF RecordInv, Past
      <4> QED
        BY <1>1, <2>1, <4>1, <4>2, CatchUpStart
    <3> QED
      BY <3>1, <3>2
  <2>6. RecordInv(t)'
    BY <1>1, <1>2, <2>1, <2>4, <2>5, RecordKept
  <2> QED
    BY <2>1, <2>2, <2>6 DEF FreshInv
<1>11. CASE FinishAdding
  BY <1>1, <1>2, <1>11, FinishKeeps
<1>12. ASSUME NEW u \in Topics, Unsubscribe(u) PROVE RecordInv(t)' /\ FreshInv(t)'
  BY <1>1, <1>2, <1>12, UnsubscribeKeeps
<1>13. ASSUME NEW u \in Topics, Deliver(u) PROVE RecordInv(t)' /\ FreshInv(t)'
  <2>1. live'[t].start = live[t].start /\ live'[t].listed = live[t].listed
    BY <1>1, <1>13, DeliverLive
  <2> QED
    BY <1>5, <1>13, <2>1 DEF Deliver
<1>14. ASSUME NEW id \in 1 .. MaxMessageId, AcknowledgeMessage(id)
       PROVE  RecordInv(t)' /\ FreshInv(t)'
  BY <1>1, <1>2, <1>14, AcknowledgeKeeps
<1>15. CASE StorePut
  BY <1>1, <1>2, <1>15, StoreKeeps
<1>16. CASE Connect
  BY <1>1, <1>2, <1>16, ConnectKeeps
<1>17. CASE Drop \/ Crash
  <2>1. /\ UNCHANGED <<stored, since>>
        /\ putting' = putting \/ putting' = None
        /\ open' = FALSE /\ resuming' = EmptyRecord
    BY <1>17 DEF Drop, Crash
  <2>2. live'[t].start <= now'
    <3>1. live' = NoneLive
      BY <1>17, Constants DEF Drop, Crash, NoneLive
    <3> QED
      BY <1>4, <3>1, NoSubscription
  <2>3. ~resuming'[t].on
    BY <2>1, NoSubscription
  <2>4. RecordInv(t)'
    BY <1>1, <1>2, <2>1, <2>2, <2>3, RecordKept
  <2> QED
    BY <2>1, <2>4 DEF FreshInv
<1>18. CASE Done \/ UNCHANGED vars
  BY <1>5, <1>18 DEF Done, vars
<1> QED
  BY <1>6, <1>7, <1>8, <1>9, <1>10, <1>11, <1>12, <1>13, <1>14, <1>15, <1>16, <1>17, <1>18
  DEF Next

-----------------------------------------------------------------------------
\* A live subscription covers what is pending.
LEMMA CoverKept ==
  ASSUME TypeInv, TypeInv', [Next]_vars, NEW t \in Topics, CoverInv(t),
         live'[t].on /\ since'[t] # 0 => live[t].on /\ since'[t] = since[t],
         \A m \in live'[t].filter : m \in live[t].filter,
         live'[t].on /\ since'[t] # 0 =>
            \A m \in Pending(t)' : m \in Pending(t) /\ Covered(m, t) => Covered(m, t)'
  PROVE  CoverInv(t)'
<1>1. acked \subseteq acked'
  BY StoreMoves
<1>2. \A m \in live'[t].filter : <<t, m>> \in acked'
  BY <1>1 DEF CoverInv
<1>3. since[t] \in Nat
  BY RecordType
<1>4. ASSUME live'[t].on, since'[t] # 0, NEW m \in Pending(t)' PROVE Covered(m, t)'
  <2>1. live[t].on /\ since'[t] = since[t]
    BY <1>4
  <2>2. m \in Pending(t)
    BY <1>3, <1>4, <2>1, PendingShrinks
  <2>3. Covered(m, t)
    BY <1>4, <2>1, <2>2 DEF CoverInv
  <2> QED
    BY <1>4, <2>2, <2>3
<1> QED
  BY <1>2, <1>4 DEF CoverInv

LEMMA CoveredKept ==
  ASSUME NEW t \in Topics, UNCHANGED <<log, unnotified, awaitingAcks>>,
         live'[t].queue = live[t].queue, live'[t].start = live[t].start
  PROVE  \A m : Covered(m, t) => Covered(m, t)'
  BY DEF Covered

LEMMA CommitCover ==
  ASSUME TypeInv, TypeInv', NEW t \in Topics, CoverInv(t),
         NEW u \in Topics, NEW p \in Times, CommitPublish(u, p)
  PROVE  CoverInv(t)'
<1>0. [Next]_vars
  BY DEF Next
<1>1. /\ log' = [log EXCEPT ![u] = Append(@, p)]
      /\ unnotified' = Append(unnotified, <<u, p>>)
      /\ UNCHANGED <<live, since, awaitingAcks>>
  BY DEF CommitPublish, record
<1>2. /\ Len(unnotified') = Len(unnotified) + 1 /\ Len(unnotified) \in Nat
      /\ \A j \in 1 .. Len(unnotified) : unnotified'[j] = unnotified[j]
      /\ unnotified'[Len(unnotified) + 1] = <<u, p>>
  BY SMTT(60), <1>1 DEF TypeInv
<1>3. ASSUME NEW m, m \in ToSet(log'[t]) PROVE m \in ToSet(log[t]) \/ <<t, m>> = <<u, p>>
  <2>1. log[t] \in Seq(Times)
    BY DEF TypeInv
  <2>2. log'[t] = IF t = u THEN Append(log[t], p) ELSE log[t]
    BY <1>1 DEF TypeInv
  <2> QED
    BY <1>3, <2>1, <2>2 DEF ToSet
<1>4. ASSUME NEW m, Covered(m, t) PROVE Covered(m, t)'
  <2>1. ASSUME m \in ToSet(log[t]) => \E j \in 1 .. Len(unnotified) : unnotified[j] = <<t, m>>
        PROVE  m \in ToSet(log'[t]) => \E j \in 1 .. Len(unnotified') : unnotified'[j] = <<t, m>>
    <3>1. Len(unnotified) + 1 \in 1 .. Len(unnotified')
      BY <1>2
    <3>2. \A j \in 1 .. Len(unnotified) : j \in 1 .. Len(unnotified')
      BY <1>2
    <3> QED
      BY <1>2, <1>3, <2>1, <3>1, <3>2
  <2> QED
    BY <1>1, <1>4, <2>1 DEF Covered
<1> QED
  BY <1>0, <1>1, <1>4, CoverKept

LEMMA NotifyCover ==
  ASSUME TypeInv, TypeInv', NEW t \in Topics, CoverInv(t), Notify
  PROVE  CoverInv(t)'
<1>0. [Next]_vars
  BY DEF Next
<1>1. PICK u \in Topics, p \in Times :
         /\ Len(unnotified) > 0 /\ unnotified[1] = <<u, p>>
         /\ Len(unnotified') = Len(unnotified) - 1
         /\ \A j \in 1 .. Len(unnotified') : unnotified'[j] = unnotified[j + 1]
         /\ \A v \in Topics :
               /\ live'[v].on = live[v].on /\ live'[v].start = live[v].start
               /\ live'[v].listed = live[v].listed /\ live'[v].filter = live[v].filter
               /\ live'[v].queue = IF v = u /\ live[v].on /\ live[v].start < p
                                   THEN Append(live[v].queue, [msg |-> p, ts |-> p])
                                   ELSE live[v].queue
  BY NotifyLive
<1>2. UNCHANGED <<log, since, awaitingAcks>>
  BY DEF Notify, record
<1>3. live[t].queue \in Seq(Update) /\ Len(live[t].queue) \in Nat /\ Len(unnotified) \in Nat
  BY UpdateType, StoreType
<1>4. [msg |-> p, ts |-> p] \in Update
  BY Constants DEF Update, Times
<1>5. \A i \in 1 .. Len(live[t].queue) : i \in 1 .. Len(live'[t].queue)
                                         /\ live'[t].queue[i] = live[t].queue[i]
  <2>1. CASE t = u /\ live[t].on /\ live[t].start < p
    <3>1. live'[t].queue = Append(live[t].queue, [msg |-> p, ts |-> p])
      BY <1>1, <2>1
    <3> QED
      BY <1>3, <1>4, <3>1
  <2>2. CASE ~(t = u /\ live[t].on /\ live[t].start < p)
    BY <1>1, <2>2
  <2> QED
    BY <2>1, <2>2
<1>6. ASSUME live[t].on, NEW m, Covered(m, t) PROVE Covered(m, t)'
  <2>1. CASE \E i \in DOMAIN awaitingAcks : awaitingAcks[i].topic = t /\ awaitingAcks[i].msg = m
    BY <1>2, <2>1 DEF Covered
  <2>2. CASE \E i \in 1 .. Len(live[t].queue) : live[t].queue[i].msg = m
    BY <1>5, <2>2 DEF Covered
  <2>3. CASE /\ live[t].start < m
             /\ m \in ToSet(log[t]) => \E j \in 1 .. Len(unnotified) : unnotified[j] = <<t, m>>
    <3>1. CASE u = t /\ p = m
      <4>1. live'[t].queue = Append(live[t].queue, [msg |-> p, ts |-> p])
        BY <1>1, <1>6, <2>3, <3>1
      <4>2. /\ Len(live[t].queue) + 1 \in 1 .. Len(live'[t].queue)
            /\ live'[t].queue[Len(live[t].queue) + 1] = [msg |-> p, ts |-> p]
        BY <1>3, <1>4, <4>1
      <4>3. live'[t].queue[Len(live[t].queue) + 1].msg = m
        BY <3>1, <4>2
      <4> QED
        BY <4>2, <4>3 DEF Covered
    <3>2. CASE ~(u = t /\ p = m)
      <4>1. ASSUME NEW j \in 1 .. Len(unnotified), unnotified[j] = <<t, m>>
            PROVE  \E i \in 1 .. Len(unnotified') : unnotified'[i] = <<t, m>>
        <5>1. j # 1
          BY <1>1, <3>2, <4>1
        <5>2. j - 1 \in 1 .. Len(unnotified') /\ (j - 1) + 1 = j
          BY <1>1, <1>3, <5>1
        <5>3. unnotified'[j - 1] = unnotified[j]
          BY <1>1, <5>2
        <5> QED
          BY <4>1, <5>2, <5>3
      <4>2. live'[t].start = live[t].start
        BY <1>1
      <4> QED
        BY <1>2, <2>3, <4>1, <4>2 DEF Covered
    <3> QED
      BY <3>1, <3>2
  <2> QED
    BY <1>6, <2>1, <2>2, <2>3 DEF Covered
<1>7. live'[t].on = live[t].on /\ live'[t].filter = live[t].filter
  BY <1>1
<1> QED
  BY <1>0, <1>2, <1>6, <1>7, CoverKept

LEMMA ResumeCover ==
  ASSUME WildcardTopics = {}, TypeInv, TypeInv', TimeInv, NEW t \in Topics, RecordInv(t),
         ResumeNext(t)
  PROVE  CoverInv(t)'
<1> DEFINE n == Len(log[t])
           from == resuming[t].start
           r == Register(t, resuming[t])
<1>0. [Next]_vars
  BY DEF Next
<1>1. /\ open /\ resuming[t].on /\ live' = [live EXCEPT ![t] = r]
      /\ UNCHANGED <<log, since, acked>>
  BY DEF ResumeNext, store, record
<1>2. resuming[t] \in Entry /\ log[t] \in Seq(Times) /\ since[t] \in Nat /\ now \in Nat
  BY RecordType DEF TypeInv
<1>3. live'[t] = r
  BY <1>1 DEF TypeInv
<1>4. PICK k \in 0 .. Len(log[t]) :
         /\ r.on = TRUE /\ r.listed = FALSE /\ r.filter = resuming[t].acks
         /\ r.queue \in Seq(Update)
         /\ Len(r.queue) = Len(log[t]) - k
         /\ \A i \in 1 .. Len(r.queue) : r.queue[i] = [msg |-> log[t][k + i], ts |-> log[t][k + i]]
         /\ r.start = IF k = Len(log[t]) THEN resuming[t].start ELSE log[t][Len(log[t])]
         /\ \A i \in k + 1 .. Len(log[t]) : Earlier(resuming[t].start, log[t][i])
         /\ k > 0 => ~Earlier(resuming[t].start, log[t][k])
  BY <1>2, RegisterFinds
<1>5. /\ 0 < from /\ from \in Nat
      /\ \A m \in resuming[t].acks : <<t, m>> \in acked
      /\ since[t] # 0 => \A m \in Pending(t) : from < m
  <2>1. resuming[t] = sessionRecord[t] /\ Past(sessionRecord, t) /\ Keeps(sessionRecord, t)
    BY <1>1 DEF RecordInv
  <2> QED
    BY <1>1, <1>2, <2>1, RecordType DEF Past, Keeps
<1>6. n \in Nat /\ k \in Nat /\ k <= n
      /\ \A i \in 1 .. n : log[t][i] \in Nat /\ log[t][i] # 0
  <2>1. n \in Nat /\ \A i \in 1 .. n : log[t][i] \in Times
    BY <1>2
  <2>2. \A i \in 1 .. n : log[t][i] \in Nat /\ log[t][i] # 0
    BY <2>1, Constants DEF Times
  <2> QED
    BY <1>4, <2>1, <2>2
<1>7. \A i \in 1 .. n : /\ log[t][i] <= now
                        /\ \A j \in 1 .. n : i < j => log[t][i] < log[t][j]
                        /\ \A x \in committing : log[t][i] < x[2]
  BY DEF TimeInv
<1>8. \A m \in live'[t].filter : <<t, m>> \in acked'
  BY <1>1, <1>3, <1>4, <1>5
<1>9. Pending(t)' \subseteq Pending(t)
  BY <1>0, <1>1, <1>2, PendingShrinks
<1> HIDE DEF r, n, from
<1>10. ASSUME since[t] # 0, NEW m \in Pending(t) PROVE Covered(m, t)'
  <2>1. /\ m \in Nat /\ from < m
        /\ m \in ToSet(log[t]) \/ <<t, m>> \in committing \/ m > now
    <3>1. m \in Times /\ (m \in ToSet(log[t]) \/ <<t, m>> \in committing \/ m > now)
      BY DEF Pending
    <3> QED
      BY <1>5, <1>10, <3>1, Constants DEF Times
  <2>2. CASE m \in ToSet(log[t])
    <3>1. PICK i \in 1 .. n : log[t][i] = m
      BY <1>2, <2>2 DEF ToSet, n
    <3>2. i > k
      <4> SUFFICES ASSUME i <= k PROVE FALSE
        BY <1>6
      <4>1. k \in 1 .. n /\ k > 0
        BY <1>6
      <4>2. ~Earlier(from, log[t][k])
        BY <1>4, <4>1 DEF from
      <4>3. log[t][k] <= from
        BY <1>5, <1>6, <4>1, <4>2 DEF Earlier
      <4>4. log[t][i] <= log[t][k]
        <5>1. CASE i = k
          BY <1>6, <5>1
        <5>2. CASE i < k
          BY <1>6, <1>7, <4>1, <5>2
        <5> QED
          BY <1>6, <5>1, <5>2
      <4>5. log[t][k] \in Nat
        BY <1>6, <4>1
      <4> QED
        BY <1>5, <2>1, <3>1, <4>3, <4>4, <4>5
    <3>3. i - k \in 1 .. n - k /\ k + (i - k) = i
      BY <1>6, <3>2
    <3>4. Len(r.queue) = n - k
      BY <1>4 DEF n
    <3>5. r.queue[i - k] = [msg |-> log[t][i], ts |-> log[t][i]]
      BY <1>4, <3>3, <3>4
    <3>6. r.queue[i - k].msg = m
      BY <3>1, <3>5
    <3> QED
      BY <1>3, <3>3, <3>4, <3>6 DEF Covered
  <2>3. CASE m \notin ToSet(log[t])
    <3>1. r.start < m
      <4>1. CASE k = n
        BY <1>4, <2>1, <4>1 DEF n, from
      <4>2. CASE k # n
        <5>1. n \in 1 .. n /\ r.start = log[t][n]
          BY <1>4, <1>6, <4>2 DEF n
        <5>2. CASE <<t, m>> \in committing
          BY <1>7, <5>1, <5>2
        <5>3. CASE m > now
          BY <1>2, <1>6, <1>7, <2>1, <5>1, <5>3
        <5> QED
          BY <2>1, <2>3, <5>2, <5>3
      <4> QED
        BY <4>1, <4>2
    <3> QED
      BY <1>1, <1>3, <2>3, <3>1 DEF Covered
  <2> QED
    BY <2>2, <2>3
<1> QED
  BY <1>1, <1>8, <1>9, <1>10 DEF CoverInv

LEMMA DeliverCover ==
  ASSUME TypeInv, TypeInv', NEW t \in Topics, OrderInv(t), CoverInv(t),
         NEW u \in Topics, Deliver(u), IdsAreFree
  PROVE  CoverInv(t)'
<1> DEFINE e == live[u].queue[1]
<1>0. [Next]_vars
  BY DEF Next
<1>1. /\ Len(live[u].queue) > 0
      /\ Len(live'[u].queue) = Len(live[u].queue) - 1
      /\ \A j \in 1 .. Len(live'[u].queue) : live'[u].queue[j] = live[u].queue[j + 1]
      /\ live'[t].on = live[t].on /\ live'[t].start = live[t].start
      /\ live'[t].filter = live[t].filter
      /\ u # t => live'[t].queue = live[t].queue
      /\ \/ e.ts \in live[u].filter /\ awaitingAcks' = awaitingAcks
         \/ /\ DOMAIN awaitingAcks' = DOMAIN awaitingAcks \cup {nextMessageId'}
            /\ \A i \in DOMAIN awaitingAcks' :
                  awaitingAcks'[i] = IF i = nextMessageId'
                                     THEN [topic |-> u, msg |-> e.msg, ts |-> e.ts]
                                     ELSE awaitingAcks[i]
  BY DeliverLive
<1>2. UNCHANGED <<log, unnotified, since, acked>>
  BY DEF Deliver, store, record
<1>3. Len(live[u].queue) \in Nat
  BY UpdateType
<1> HIDE DEF e
<1>4. \A i \in DOMAIN awaitingAcks : i \in DOMAIN awaitingAcks' /\ awaitingAcks'[i] = awaitingAcks[i]
  <2>1. \A i \in DOMAIN awaitingAcks : i \in DOMAIN awaitingAcks'
    BY <1>1
  <2> QED
    BY <2>1 DEF IdsAreFree
<1>5. ASSUME live[t].on, NEW m, m \in Pending(t), Covered(m, t) PROVE Covered(m, t)'
  <2>1. CASE \E i \in DOMAIN awaitingAcks : awaitingAcks[i].topic = t /\ awaitingAcks[i].msg = m
    BY <1>4, <2>1 DEF Covered
  <2>2. CASE \E i \in 1 .. Len(live[t].queue) : live[t].queue[i].msg = m
    <3>1. PICK i \in 1 .. Len(live[t].queue) : live[t].queue[i].msg = m
      BY <2>2
    <3>2. CASE u # t
      <4>1. live'[t].queue = live[t].queue
        BY <1>1, <3>2
      <4> QED
        BY <3>1, <4>1 DEF Covered
    <3>3. CASE u = t /\ i # 1
      <4>1. i - 1 \in 1 .. Len(live'[t].queue) /\ (i - 1) + 1 = i
        BY <1>1, <1>3, <3>1, <3>3
      <4>2. live'[t].queue[i - 1] = live[t].queue[i]
        BY <1>1, <3>3, <4>1
      <4> QED
        BY <3>1, <4>1, <4>2 DEF Covered
    <3>4. CASE u = t /\ i = 1
      <4>1. e.msg = m
        BY <3>1, <3>4 DEF e
      <4>2. e.ts = m
        BY <3>1, <3>4, <4>1 DEF OrderInv, e
      <4>3. e.ts \notin live[t].filter
        BY <1>5, <4>2 DEF CoverInv, Pending
      <4>4. /\ nextMessageId' \in DOMAIN awaitingAcks'
            /\ awaitingAcks'[nextMessageId'] = [topic |-> u, msg |-> e.msg, ts |-> e.ts]
        BY <1>1, <3>4, <4>3
      <4>5. awaitingAcks'[nextMessageId'].topic = t /\ awaitingAcks'[nextMessageId'].msg = m
        BY <3>4, <4>1, <4>4
      <4> QED
        BY <4>4, <4>5 DEF Covered
    <3> QED
      BY <3>2, <3>3, <3>4
  <2>3. CASE /\ live[t].start < m
             /\ m \in ToSet(log[t]) => \E j \in 1 .. Len(unnotified) : unnotified[j] = <<t, m>>
    <3>1. live'[t].start = live[t].start
      BY <1>1
    <3> QED
      BY <1>2, <2>3, <3>1 DEF Covered
  <2> QED
    BY <1>5, <2>1, <2>2, <2>3 DEF Covered
<1> QED
  BY <1>0, <1>1, <1>2, <1>5, CoverKept

LEMMA AcknowledgeCover ==
  ASSUME TypeInv, TypeInv', NEW t \in Topics, CoverInv(t),
         NEW id \in 1 .. MaxMessageId, AcknowledgeMessage(id)
  PROVE  CoverInv(t)'
<1>0. [Next]_vars
  BY DEF Next
<1>1. /\ id \in DOMAIN awaitingAcks
      /\ acked' = acked \cup {<<awaitingAcks[id].topic, awaitingAcks[id].msg>>}
      /\ UNCHANGED <<live, since, log, unnotified>>
  BY DEF AcknowledgeMessage, store
<1>2. /\ DOMAIN awaitingAcks' = DOMAIN awaitingAcks \ {id}
      /\ \A i \in DOMAIN awaitingAcks' : awaitingAcks'[i] = awaitingAcks[i]
  BY AcknowledgeType
<1>3. ASSUME NEW m \in Pending(t)', Covered(m, t) PROVE Covered(m, t)'
  <2>1. CASE \E i \in DOMAIN awaitingAcks : awaitingAcks[i].topic = t /\ awaitingAcks[i].msg = m
    <3>1. PICK i \in DOMAIN awaitingAcks : awaitingAcks[i].topic = t /\ awaitingAcks[i].msg = m
      BY <2>1
    <3>2. <<t, m>> \notin acked'
      BY DEF Pending
    <3>3. i # id
      BY <1>1, <3>1, <3>2
    <3> QED
      BY <1>2, <3>1, <3>3 DEF Covered
  <2>2. CASE \E i \in 1 .. Len(live[t].queue) : live[t].queue[i].msg = m
    BY <1>1, <2>2 DEF Covered
  <2>3. CASE /\ live[t].start < m
             /\ m \in ToSet(log[t]) => \E j \in 1 .. Len(unnotified) : unnotified[j] = <<t, m>>
    BY <1>1, <2>3 DEF Covered
  <2> QED
    BY <1>3, <2>1, <2>2, <2>3 DEF Covered
<1> QED
  BY <1>0, <1>1, <1>3, CoverKept

LEMMA StoreCover ==
  ASSUME TypeInv, TypeInv', TimeInv, NEW t \in Topics, RecordInv(t), CoverInv(t), StorePut
  PROVE  CoverInv(t)'
<1>0. [Next]_vars
  BY DEF Next
<1>1. /\ since'[t] = IF putting[t].on /\ since[t] = 0 THEN now ELSE since[t]
      /\ UNCHANGED <<now, log, committing, unnotified, live, awaitingAcks, acked>>
  BY DEF StorePut, store
<1>2. \A m : Covered(m, t) => Covered(m, t)'
  BY <1>1, CoveredKept
<1>3. CASE since'[t] = since[t]
  BY <1>0, <1>1, <1>2, <1>3, CoverKept
<1>4. CASE since'[t] = now
  <2>1. ASSUME NEW m \in Pending(t)' PROVE Covered(m, t)'
    <3>1. m \in Nat /\ now < m
      <4>1. m \in Times /\ since'[t] < m
        BY DEF Pending
      <4> QED
        BY <1>4, <4>1, Constants DEF Times
    <3>2. now \in Nat /\ live[t].start \in Nat /\ live[t].start <= now
      BY RecordType DEF RecordInv
    <3>3. m \notin ToSet(log[t])
      <4>1. log[t] \in Seq(Times) /\ \A i \in 1 .. Len(log[t]) : log[t][i] <= now
        BY DEF TypeInv, TimeInv
      <4>2. \A i \in 1 .. Len(log[t]) : log[t][i] # m
        <5>1. ASSUME NEW i \in 1 .. Len(log[t]), log[t][i] = m PROVE FALSE
          <6>1. m <= now
            BY <4>1, <5>1
          <6> QED
            BY <3>1, <3>2, <6>1
        <5> QED
          BY <5>1
      <4> QED
        BY <4>1, <4>2 DEF ToSet
    <3>4. live[t].start < m
      BY <3>1, <3>2
    <3> QED
      BY <1>1, <3>3, <3>4 DEF Covered
  <2>2. \A m \in live'[t].filter : <<t, m>> \in acked'
    BY <1>1 DEF CoverInv
  <2> QED
    BY <2>1, <2>2 DEF CoverInv
<1> QED
  BY <1>1, <1>3, <1>4

LEMMA CoverStep ==
  ASSUME Allowed \subseteq {"other_sessions"},
         WildcardTopics = {}, SessionInv, SessionInv', [Next]_vars, IdsAreFree,
         NEW t \in Topics, RecordInv(t), FreshInv(t), CoverInv(t)
  PROVE  CoverInv(t)'
<1> USE DEF store, record, connection, subscribing
<1>1. TypeInv /\ TimeInv /\ OpenInv /\ OrderInv(t)
  BY DEF SessionInv
<1>2. TypeInv'
  BY DEF SessionInv
<1>3. ASSUME UNCHANGED <<log, unnotified, awaitingAcks>>, since'[t] = 0 \/ since'[t] = since[t],
             live'[t].on = live[t].on, live'[t].filter = live[t].filter,
             live'[t].queue = live[t].queue,
             live'[t].on /\ since'[t] # 0 => live'[t].start = live[t].start
      PROVE  CoverInv(t)'
  <2>1. live'[t].on /\ since'[t] # 0 => \A m : Covered(m, t) => Covered(m, t)'
    BY <1>3, CoveredKept
  <2> QED
    BY <1>1, <1>2, <1>3, <2>1, CoverKept
<1>4. ASSUME live'[t].filter = {}, live'[t].on => since'[t] = 0 PROVE CoverInv(t)'
  BY <1>4 DEF CoverInv
<1>5. ASSUME NEW u \in Topics, BeginPublish(u) PROVE CoverInv(t)'
  BY <1>3, <1>5 DEF BeginPublish
<1>6. ASSUME NEW u \in Topics, NEW m \in Times, CommitPublish(u, m) PROVE CoverInv(t)'
  BY <1>1, <1>2, <1>6, CommitCover
<1>7. CASE Notify
  BY <1>1, <1>2, <1>7, NotifyCover
<1>8. ASSUME NEW u \in Topics, Subscribe(u) PROVE CoverInv(t)'
  <2>1. /\ open /\ ~present /\ ~live[u].on
        /\ UNCHANGED <<since, log, unnotified, awaitingAcks>>
        /\ live' = [live EXCEPT ![u] = Register(u, Absent)]
    BY <1>8 DEF Subscribe, MaySubscribe
  <2>2. CASE u # t
    <3>1. live'[t] = live[t]
      BY <1>1, <2>1, <2>2 DEF TypeInv
    <3> QED
      BY <1>3, <2>1, <3>1
  <2>3. CASE u = t
    <3>1. live'[t] = Register(t, Absent)
      BY <1>1, <2>1, <2>3 DEF TypeInv
    <3>2. live'[t].filter = {}
      BY <3>1 DEF Register, Absent
    <3>3. since'[t] = 0
      BY <1>1, <2>1, <2>3 DEF OpenInv, FreshInv
    <3> QED
      BY <1>4, <3>2, <3>3
  <2> QED
    BY <2>2, <2>3
<1>9. ASSUME NEW u \in Topics, ResumeNext(u) PROVE CoverInv(t)'
  <2>1. CASE u # t
    <3>1. UNCHANGED <<since, log, unnotified, awaitingAcks>> /\ live'[t] = live[t]
      BY <1>1, <1>9, <2>1 DEF ResumeNext, TypeInv
    <3> QED
      BY <1>3, <3>1
  <2>2. CASE u = t
    BY <1>1, <1>2, <1>9, <2>2, ResumeCover
  <2> QED
    BY <2>1, <2>2
<1>10. CASE FinishAdding
  <2>1. /\ adding \in Topics /\ open
        /\ UNCHANGED <<since, log, unnotified, awaitingAcks>>
        /\ isNew <=> ~present
        /\ live'[t].on = live[t].on /\ live'[t].queue = live[t].queue
        /\ live'[t].filter = live[t].filter
        /\ live'[t].start = IF isNew /\ live'[t].listed /\ live[t].start = 0
                            THEN now + 1 ELSE live[t].start
    BY <1>1, <1>10, FinishLive DEF FinishAdding, OpenInv
  <2>2. isNew /\ since[t] # 0 => live[t].start > 0
    BY <2>1 DEF FreshInv
  <2>3. live[t].start \in Nat
    BY <1>1, RecordType
  <2>4. since'[t] # 0 => live'[t].start = live[t].start
    BY <2>1, <2>2, <2>3
  <2> QED
    BY <1>3, <2>1, <2>4
<1>11. ASSUME NEW u \in Topics, Unsubscribe(u) PROVE CoverInv(t)'
  <2>1. /\ open /\ ~present /\ since' = [since EXCEPT ![u] = 0]
        /\ UNCHANGED <<log, unnotified, awaitingAcks>>
    BY <1>11 DEF Unsubscribe
  <2>2. /\ t = u => live'[t] = Ended
        /\ t # u => /\ live'[t].on = live[t].on /\ live'[t].queue = live[t].queue
                    /\ live'[t].filter = live[t].filter
                    /\ live'[t].start = IF live[t].listed /\ live[t].start = 0
                                        THEN now + 1 ELSE live[t].start
    BY <1>1, <1>11, UnsubscribeLive
  <2>3. CASE t = u
    BY <1>4, <2>2, <2>3 DEF Ended
  <2>4. CASE t # u
    <3>1. since'[t] = since[t]
      BY <1>1, <2>1, <2>4 DEF TypeInv
    <3>2. since[t] # 0 => live[t].start > 0
      BY <2>1 DEF FreshInv
    <3>3. live[t].start \in Nat
      BY <1>1, RecordType
    <3>4. since'[t] # 0 => live'[t].start = live[t].start
      BY <2>2, <2>4, <3>1, <3>2, <3>3
    <3> QED
      BY <1>3, <2>1, <2>2, <2>4, <3>1, <3>4
  <2> QED
    BY <2>3, <2>4
<1>12. ASSUME NEW u \in Topics, Deliver(u) PROVE CoverInv(t)'
  BY <1>1, <1>2, <1>12, DeliverCover
<1>13. ASSUME NEW id \in 1 .. MaxMessageId, AcknowledgeMessage(id) PROVE CoverInv(t)'
  BY <1>1, <1>2, <1>13, AcknowledgeCover
<1>14. CASE StorePut
  BY <1>1, <1>2, <1>14, StoreCover
<1>15. CASE Connect \/ Drop \/ Crash
  <2>1. live' = NoneLive
    BY <1>15, Constants DEF Connect, Drop, Crash, NoneLive
  <2> QED
    BY <1>4, <2>1, NoSubscription
<1>16. CASE Done \/ UNCHANGED vars
  BY <1>3, <1>16 DEF Done, vars
<1> QED
  BY <1>5, <1>6, <1>7, <1>8, <1>9, <1>10, <1>11, <1>12, <1>13, <1>14, <1>15, <1>16 DEF Next

LEMMA KeepInit == Init => KeepInv
<1> SUFFICES ASSUME Init, NEW t \in Topics PROVE RecordInv(t) /\ FreshInv(t) /\ CoverInv(t)
  BY DEF KeepInv
<1>1. /\ stored = None /\ putting = None /\ open = FALSE /\ since[t] = 0 /\ now = 0
      /\ live = NoneLive /\ resuming = EmptyRecord
  BY DEF Init
<1>2. /\ live[t].start = 0 /\ ~live[t].on /\ live[t].filter = {} /\ ~resuming[t].on
  BY <1>1, NoSubscription
<1> QED
  BY <1>1, <1>2 DEF RecordInv, FreshInv, CoverInv

LEMMA KeepStep ==
  ASSUME Allowed \subseteq {"other_sessions"},
         WildcardTopics = {}
  PROVE  SessionInv /\ SessionInv' /\ KeepInv /\ [Next]_vars /\ [IdsAreFree]_vars => KeepInv'
<1> SUFFICES ASSUME SessionInv, SessionInv', KeepInv, [Next]_vars, [IdsAreFree]_vars,
                    NEW t \in Topics
             PROVE  RecordInv(t)' /\ FreshInv(t)' /\ CoverInv(t)'
  BY DEF KeepInv
<1>1. RecordInv(t) /\ FreshInv(t) /\ CoverInv(t)
  BY DEF KeepInv
<1>2. IdsAreFree
  BY DEF IdsAreFree, vars
<1> QED
  BY <1>1, <1>2, RecordStep, CoverStep

(***************************************************************************)
(* UnacknowledgedIsKept, where none of the Circumstances occurs but other  *)
(* sessions, and no message is sent under an id that is still in use:      *)
(* whenever the connection or the process is lost, the session record in   *)
(* the store makes resume() send every message the client is still owed.   *)
(***************************************************************************)
THEOREM UnacknowledgedKept ==
  ASSUME Allowed \subseteq {"other_sessions"},
         WildcardTopics = {}
  PROVE  Spec /\ [][IdsAreFree]_vars => []UnacknowledgedIsKept
<1>1. SessionInv /\ KeepInv => UnacknowledgedIsKept
  <2> SUFFICES ASSUME SessionInv, KeepInv, NEW w \in Owed
               PROVE  /\ stored # None
                      /\ stored[w[1]].on
                      /\ Earlier(stored[w[1]].start, w[2])
                      /\ w[2] \notin stored[w[1]].acks
    BY DEF UnacknowledgedIsKept
  <2> DEFINE t == w[1]
             m == w[2]
  <2>1. /\ t \in Topics /\ m \in Times /\ since[t] # 0 /\ m \in ToSet(log[t]) /\ since[t] < m
        /\ <<t, m>> \notin acked
    BY DEF Owed
  <2> HIDE DEF t, m
  <2>2. TypeInv /\ RecordInv(t)
    BY <2>1 DEF SessionInv, KeepInv
  <2>3. m \in Pending(t)
    BY <2>1 DEF Pending
  <2>4. stored # None /\ Past(stored, t) /\ Keeps(stored, t)
    BY <2>1, <2>2 DEF RecordInv
  <2>5. stored[t].on /\ 0 < stored[t].start /\ stored[t].start < m /\ m \notin stored[t].acks
    BY <2>1, <2>3, <2>4 DEF Past, Keeps
  <2>6. stored[t].start \in Nat /\ m \in Nat
    BY <2>1, <2>2, <2>4, RecordType, Constants DEF Times
  <2>7. Earlier(stored[t].start, m)
    BY <2>5, <2>6 DEF Earlier
  <2> QED
    BY <2>4, <2>5, <2>7 DEF t, m
<1>2. Init => SessionInv /\ KeepInv
  BY SessionInit, KeepInit
<1>3. SessionInv /\ [Next]_vars => SessionInv'
  BY SessionStep
<1>4. SessionInv /\ SessionInv' /\ KeepInv /\ [Next]_vars /\ [IdsAreFree]_vars => KeepInv'
  BY KeepStep
<1> QED
  BY <1>1, <1>2, <1>3, <1>4, PTL DEF Spec

-----------------------------------------------------------------------------
\* What the mapping needs to know of the state.
LogInv ==
    /\ now \in Nat
    /\ committing \subseteq Topics \X Nat
    /\ log \in [Topics -> Seq(Nat)]
    /\ since \in [Topics -> Nat]

LEMMA LogInvInit == Init => LogInv
  BY DEF Init, LogInv

LEMMA LogInvStep == LogInv /\ [Next]_vars => LogInv'
<1> SUFFICES ASSUME LogInv, [Next]_vars PROVE LogInv'
  OBVIOUS
<1> USE DEF LogInv, store, record, connection, subscribing
<1>1. ASSUME NEW t \in Topics, BeginPublish(t) PROVE LogInv'
  BY <1>1 DEF BeginPublish
<1>2. ASSUME NEW t \in Topics, NEW m \in Times, CommitPublish(t, m) PROVE LogInv'
  BY <1>2 DEF CommitPublish
<1>3. CASE Notify
  BY <1>3 DEF Notify
<1>4. ASSUME NEW t \in Topics, Subscribe(t) \/ ResumeNext(t) \/ Deliver(t) PROVE LogInv'
  BY <1>4 DEF Subscribe, ResumeNext, Deliver
<1>5. CASE FinishAdding
  BY <1>5 DEF FinishAdding, SaveSubscriptions
<1>6. ASSUME NEW t \in Topics, Unsubscribe(t) PROVE LogInv'
  BY <1>6 DEF Unsubscribe, SaveSubscriptions
<1>7. ASSUME NEW id \in 1 .. MaxMessageId, AcknowledgeMessage(id) PROVE LogInv'
  BY <1>7 DEF AcknowledgeMessage
<1>8. CASE StorePut
  BY <1>8 DEF StorePut
<1>9. CASE Connect \/ Drop \/ Crash
  BY <1>9 DEF Connect, Drop, Crash
<1>10. CASE Done \/ UNCHANGED vars
  BY <1>10 DEF Done, vars
<1> QED
  BY <1>1, <1>2, <1>3, <1>4, <1>5, <1>6, <1>7, <1>8, <1>9, <1>10 DEF Next

-----------------------------------------------------------------------------
\* A step that leaves since, the log and what is acknowledged as they are leaves
\* what is owed.
LEMMA OwedUnchanged == UNCHANGED <<since, log, acked>> => Owed' = Owed
  BY DEF Owed

\* A message that commits is owed, or is not, and takes nothing away.
LEMMA CommitKeeps ==
  ASSUME LogInv, NEW t \in Topics, NEW m \in Times, CommitPublish(t, m)
  PROVE  Owed \subseteq Owed'
<1>1. /\ log' = [log EXCEPT ![t] = Append(@, m)]
      /\ since' = since /\ acked' = acked
  BY DEF CommitPublish, record
<1>2. m \in Nat
  BY SessionAssumption DEF Times
<1>3. ASSUME NEW u \in Topics PROVE ToSet(log[u]) \subseteq ToSet(log'[u])
  <2>1. log[u] \in Seq(Nat)
    BY DEF LogInv
  <2>2. CASE u = t
    <3>1. log'[u] = Append(log[u], m)
      BY <1>1, <2>2 DEF LogInv
    <3>2. /\ Len(log'[u]) = Len(log[u]) + 1 /\ Len(log[u]) \in Nat
          /\ DOMAIN log[u] = 1 .. Len(log[u]) /\ DOMAIN log'[u] = 1 .. Len(log'[u])
          /\ \A i \in DOMAIN log[u] : log'[u][i] = log[u][i]
      BY <1>2, <2>1, <3>1
    <3>3. \A i \in DOMAIN log[u] : i \in DOMAIN log'[u]
      BY <3>2
    <3> QED
      BY <3>2, <3>3 DEF ToSet
  <2>3. CASE u # t
    BY <1>1, <2>3 DEF LogInv
  <2> QED
    BY <2>2, <2>3
<1> QED
  BY <1>1, <1>3 DEF Owed

\* A promise that begins when a record is stored takes nothing away either.
LEMMA StoreOwes ==
  ASSUME LogInv, StorePut
  PROVE  Owed \subseteq Owed'
<1>1. /\ \A t \in Topics : since[t] # 0 => since'[t] = since[t]
      /\ log' = log /\ acked' = acked
  BY DEF StorePut, store
<1> QED
  BY <1>1 DEF Owed

\* Only the client ends a promise, by unsubscribing.
LEMMA UnsubscribeWithdraws ==
  ASSUME LogInv, NEW t \in Topics, Unsubscribe(t)
  PROVE  Promise!Withdraw(t)
<1>1. /\ since' = [since EXCEPT ![t] = 0]
      /\ log' = log /\ acked' = acked
  BY DEF Unsubscribe, store
<1>2. \A u \in Topics : since'[u] = IF u = t THEN 0 ELSE since[u]
  BY <1>1 DEF LogInv
<1>3. ASSUME NEW w \in Topics \X Times PROVE w \in Owed' <=> w \in Owed /\ w[1] # t
  BY <1>1, <1>2 DEF Owed
<1>4. Owed \subseteq Topics \X Times /\ Owed' \subseteq Topics \X Times
  BY DEF Owed
<1> QED
  BY <1>3, <1>4 DEF Promise!Withdraw

\* An acknowledgement takes away the message it is about, if that is owed.
LEMMA AcknowledgeTakesOne ==
  ASSUME NEW id \in 1 .. MaxMessageId, AcknowledgeMessage(id)
  PROVE  \/ \E m \in Promise!Messages : Promise!Acknowledge(m)
         \/ Owed' = Owed
<1> DEFINE message == <<awaitingAcks[id].topic, awaitingAcks[id].msg>>
<1>1. acked' = acked \cup {message} /\ since' = since /\ log' = log
  BY DEF AcknowledgeMessage, store
<1>2. Owed' = Owed \ {message}
  BY <1>1 DEF Owed
<1>3. CASE message \in Owed
  <2>1. message \in Promise!Messages
    BY <1>3 DEF Owed, Promise!Messages
  <2> QED
    BY <1>2, <1>3, <2>1 DEF Promise!Acknowledge
<1>4. CASE message \notin Owed
  BY <1>2, <1>4
<1> QED
  BY <1>3, <1>4

-----------------------------------------------------------------------------
LEMMA PromiseInit == Init => Promise!Init
  BY DEF Init, Owed, Promise!Init

LEMMA PromiseStep == LogInv /\ [Next]_vars => [Promise!Next]_Owed
<1> SUFFICES ASSUME LogInv, [Next]_vars PROVE Promise!Next \/ Owed' = Owed
  OBVIOUS
<1>1. Owed' \subseteq Promise!Messages
  BY DEF Owed, Promise!Messages
<1>2. ASSUME Owed \subseteq Owed' PROVE Promise!Next
  BY <1>1, <1>2 DEF Promise!Publish, Promise!Next
<1>3. ASSUME NEW t \in Topics, NEW m \in Times, CommitPublish(t, m) PROVE Promise!Next
  BY <1>2, <1>3, CommitKeeps
<1>4. CASE StorePut
  BY <1>2, <1>4, StoreOwes
<1>5. ASSUME NEW t \in Topics, Unsubscribe(t) PROVE Promise!Next
  BY <1>5, UnsubscribeWithdraws DEF Promise!Next
<1>6. ASSUME NEW id \in 1 .. MaxMessageId, AcknowledgeMessage(id)
      PROVE  Promise!Next \/ Owed' = Owed
  BY <1>6, AcknowledgeTakesOne DEF Promise!Next
<1>7. ASSUME NEW t \in Topics,
             BeginPublish(t) \/ Subscribe(t) \/ ResumeNext(t) \/ Deliver(t)
      PROVE  Owed' = Owed
  BY <1>7, OwedUnchanged DEF BeginPublish, Subscribe, ResumeNext, Deliver, store, record
<1>8. CASE Notify \/ FinishAdding \/ Connect \/ Drop \/ Crash
  BY <1>8, OwedUnchanged DEF Notify, FinishAdding, SaveSubscriptions, Connect, Drop, Crash,
                             store, record
<1>9. CASE Done \/ UNCHANGED vars
  BY <1>9, OwedUnchanged DEF Done, vars, store, record
<1> QED
  BY <1>3, <1>4, <1>5, <1>6, <1>7, <1>8, <1>9 DEF Next

(***************************************************************************)
(* The safety part of PromiseKept: what the client is owed is taken away   *)
(* by nothing but its own acknowledgement of that very message or its own  *)
(* unsubscribe; not by the subscriptions that are saved anew, the end of a *)
(* connection, a resume or a crash, whichever Circumstances are allowed.   *)
(***************************************************************************)
THEOREM PromiseIsSafe == Spec => Promise!Init /\ [][Promise!Next]_Owed
<1>1. Init => LogInv /\ Promise!Init
  BY LogInvInit, PromiseInit
<1>2. LogInv /\ [Next]_vars => LogInv' /\ [Promise!Next]_Owed
  BY LogInvStep, PromiseStep
<1> QED
  BY <1>1, <1>2, PTL DEF Spec
=============================================================================
