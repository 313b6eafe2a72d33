------------------------- MODULE ProxyRuntimeProofs -------------------------
(***************************************************************************)
(* The event loop around the relays, for every number of clients, limit,   *)
(* timeout and descriptor table: its tables agree, an event never reaches  *)
(* a connection it was not reported for, the timerfd covers the heap, no   *)
(* connection outstays its limits, and the counters balance.               *)
(***************************************************************************)
EXTENDS ProxyRuntime, FiniteSetTheorems, WellFoundedInduction, SequenceTheorems, TLAPS

ConnectionRecords ==
  [connecting : BOOLEAN, last_activity : 0 .. now, born : 0 .. now,
   scheduled_wake : SUBSET Times, client_fd : Fds, upstream_fd : Fds]

TimerEvents ==
  [deadline : Times, connection : 1 .. Clients, kind : {"pump", "connect", "idle"}]

\* An id or a token handed out is below the next one; nobody is accepted who has
\* not arrived.
Counters ==
  /\ now \in 0 .. MaxTime /\ fd_limit \in Nat
  /\ backlog \in Nat /\ arrived \in 0 .. Clients
  /\ next_connection_id \in Nat \ {0} /\ next_connection_id - 1 + backlog <= arrived
  /\ next_token \in Nat /\ next_token > TimerToken

LoopTypes ==
  /\ pc \in {"wait", "batch", "accept", "timers", "arm", "shutdown", "stopped"}
  /\ signals \subseteq Signals /\ stopping \in BOOLEAN

ConnectionsTyped ==
  /\ Live \subseteq 1 .. next_connection_id - 1
  /\ \A id \in Live : connections[id] \in ConnectionRecords

SocketsOf(id) == {connections[id].client_fd, connections[id].upstream_fd}

\* No descriptor serves two sockets.
DescriptorsApart ==
  /\ \A id \in Live : connections[id].client_fd # connections[id].upstream_fd
  /\ \A i, j \in Live : i # j => SocketsOf(i) \cap SocketsOf(j) = {}
  /\ Cardinality(UsedFds) = 2 * Cardinality(Live)

\* A token is bound to one side of a live connection, and each side to one token.
TokensBound ==
  /\ \A t \in DOMAIN bindings : /\ t \in Nat /\ t > TimerToken /\ t < next_token
                                /\ bindings[t].connection \in Live
  /\ \A id \in Live : \A side \in {"Client", "Upstream"} :
        \E t \in DOMAIN bindings : \A u \in DOMAIN bindings :
           bindings[u] = [connection |-> id, side |-> side] <=> u = t

\* An event not handled yet has a token that was handed out before; if the token
\* is still bound, it is bound to the connection of the event.
EventsKnown ==
  \A e \in batch :
    /\ e.token \in Nat /\ e.token < next_token
    /\ e.token \in DOMAIN bindings => bindings[e.token].connection = e.about

CountsBalance ==
  closes \in [Finals -> Nat] /\ Balances(Metrics) /\ Balances(exported)

TableInv ==
  /\ Counters /\ ConnectionsTyped /\ DescriptorsApart /\ TokensBound /\ EventsKnown
  /\ CountsBalance

IsHeap(heap) ==
  /\ heap \in Seq(TimerEvents)
  /\ \A i, j \in 1 .. Len(heap) : i <= j => heap[i].deadline <= heap[j].deadline

\* An entry of kind idle, and one of kind connect while connecting, is never late.
Covered(entries, id, c) ==
  /\ IdleTimeout > 0 =>
       \E e \in entries : /\ e.connection = id /\ e.kind = "idle"
                          /\ e.deadline <= c.last_activity + IdleTimeout
  /\ ConnectTimeout > 0 /\ c.connecting =>
       \E e \in entries : /\ e.connection = id /\ e.kind = "connect"
                          /\ e.deadline <= c.born + ConnectTimeout

\* No entry is early; what is entered for a connection carries its id.
Genuine(e) ==
  /\ e.connection < next_connection_id
  /\ e.kind = "idle" => IdleTimeout > 0
  /\ e.kind = "connect" /\ e.connection \in Live
       => e.deadline >= connections[e.connection].born + ConnectTimeout

HeapInv ==
  /\ IsHeap(timers)
  /\ \A id \in Live : Covered(Range(timers), id, connections[id])
  /\ \A e \in Range(timers) : Genuine(e)

\* What last_armed_deadline_ remembers is armed; when the loop waits it is the
\* earliest deadline.
Armed ==
  /\ timerfd \subseteq Times /\ last_armed_deadline \subseteq timerfd
  /\ pc = "wait" => NextDeadline = last_armed_deadline

Inv == TableInv /\ HeapInv /\ LoopTypes /\ Armed
-----------------------------------------------------------------------------
(* Times and the heap.                                                     *)

LEMMA LeastNatural ==
  ASSUME NEW S \in SUBSET Nat, S # {}
  PROVE  \E x \in S : \A y \in S : x <= y
<1>1. PICK x \in S : \A y \in S : ~ (<<y, x>> \in OpToRel(<, Nat))
  BY NatLessThanWellFounded, WFMin
<1>2. \A y \in S : ~(y < x)
  BY <1>1 DEF OpToRel
<1> QED BY <1>2

LEMMA TimesReach ==
  /\ Times \subseteq Nat
  /\ \A t \in 0 .. MaxTime : /\ t + ConnectTimeout \in Times /\ t + IdleTimeout \in Times
                             /\ \A k \in WakeDelays : t + k \in Times
<1> DEFINE longest == CHOOSE m \in WakeDelays : \A k \in WakeDelays : k <= m
<1>1. WakeDelays # {} => /\ longest \in WakeDelays
                         /\ \A k \in WakeDelays : k <= longest
  BY RuntimeAssumption
<1>2. WakeDelays # {} => longest \in Nat /\ \A k \in WakeDelays : k \in Nat
  BY <1>1, RuntimeAssumption
<1>3. Times = 0 .. MaxTime + ConnectTimeout + IdleTimeout
                     + (IF WakeDelays = {} THEN 0 ELSE longest)
  BY DEF Times
<1> HIDE DEF longest
<1>4. CASE WakeDelays = {}
  BY <1>3, <1>4, RuntimeAssumption
<1>5. CASE WakeDelays # {}
  <2>1. PICK m \in Nat : m = longest
    BY <1>2, <1>5
  <2>2. \A k \in WakeDelays : k \in Nat /\ k <= m
    BY <1>1, <1>2, <1>5, <2>1
  <2>3. Times = 0 .. MaxTime + ConnectTimeout + IdleTimeout + m
    BY <1>3, <1>5, <2>1
  <2>4. MaxTime \in Nat /\ ConnectTimeout \in Nat /\ IdleTimeout \in Nat
    BY RuntimeAssumption
  <2>5. \A t \in 0 .. MaxTime : t + ConnectTimeout \in Times /\ t + IdleTimeout \in Times
    BY <2>3, <2>4
  <2>6. ASSUME NEW t \in 0 .. MaxTime, NEW k \in WakeDelays PROVE t + k \in Times
    BY <2>2, <2>3, <2>4
  <2> QED BY <2>3, <2>4, <2>5, <2>6
<1> QED BY <1>4, <1>5

\* What InsertAt returns.
LEMMA Inserted ==
  ASSUME NEW T, NEW s \in Seq(T), NEW i \in 1 .. Len(s) + 1, NEW e \in T
  PROVE  /\ InsertAt(s, i, e) \in Seq(T) /\ Len(InsertAt(s, i, e)) = Len(s) + 1
         /\ \A j \in 1 .. Len(s) + 1 :
               InsertAt(s, i, e)[j] = IF j < i THEN s[j] ELSE IF j = i THEN e ELSE s[j - 1]
<1> DEFINE a == SubSeq(s, 1, i - 1)
           c == SubSeq(s, i, Len(s))
           n == Len(s)
<1>1. n \in Nat /\ i \in Nat /\ i >= 1 /\ i <= n + 1 /\ \A j \in 1 .. n : s[j] \in T
  BY LenProperties, ElementOfSeq
<1>2. a \in Seq(T) /\ Len(a) = i - 1 /\ \A j \in 1 .. i - 1 : a[j] = s[j]
  <2>1. \A j \in 1 .. i - 1 : s[j] \in T
    BY <1>1
  <2>2. PICK m \in Int : m = i - 1
    BY <1>1
  <2> QED BY <1>1, <2>1, <2>2, SubSeqProperties
<1>3. c \in Seq(T) /\ Len(c) = n - i + 1 /\ \A j \in 1 .. n - i + 1 : c[j] = s[i + j - 1]
  <2>1. \A j \in i .. n : s[j] \in T
    BY <1>1
  <2>2. /\ SubSeq(s, i, n) \in Seq(T)
        /\ Len(SubSeq(s, i, n)) = IF i <= n THEN n - i + 1 ELSE 0
        /\ \A j \in 1 .. n - i + 1 : SubSeq(s, i, n)[j] = s[i + j - 1]
    BY <1>1, <2>1, SubSeqProperties
  <2> QED BY <1>1, <2>2
<1>4. <<e>> \in Seq(T) /\ Len(<<e>>) = 1 /\ <<e>>[1] = e
  OBVIOUS
<1> HIDE DEF a, c, n
<1>5. PICK b \in Seq(T) : b = <<e>> /\ Len(b) = 1 /\ b[1] = e
  BY <1>4
<1>6. PICK ab \in Seq(T) : /\ ab = a \o b /\ Len(ab) = Len(a) + Len(b)
                           /\ \A j \in 1 .. Len(a) + Len(b) :
                                 ab[j] = IF j <= Len(a) THEN a[j] ELSE b[j - Len(a)]
  <2>1. /\ a \o b \in Seq(T) /\ Len(a \o b) = Len(a) + Len(b)
        /\ \A j \in 1 .. Len(a) + Len(b) :
              (a \o b)[j] = IF j <= Len(a) THEN a[j] ELSE b[j - Len(a)]
    BY <1>2, ConcatProperties
  <2> QED BY <2>1, Zenon
<1>7. PICK q \in Seq(T) : /\ q = ab \o c /\ Len(q) = Len(ab) + Len(c)
                          /\ \A j \in 1 .. Len(ab) + Len(c) :
                                q[j] = IF j <= Len(ab) THEN ab[j] ELSE c[j - Len(ab)]
  <2>1. /\ ab \o c \in Seq(T) /\ Len(ab \o c) = Len(ab) + Len(c)
        /\ \A j \in 1 .. Len(ab) + Len(c) :
              (ab \o c)[j] = IF j <= Len(ab) THEN ab[j] ELSE c[j - Len(ab)]
    BY <1>3, ConcatProperties
  <2> QED BY <2>1, Zenon
<1>8. InsertAt(s, i, e) = q
  <2>1. InsertAt(s, i, e) = (a \o <<e>>) \o c
    BY DEF InsertAt, a, c, n
  <2>2. (a \o <<e>>) \o c = (a \o b) \o c
    BY <1>5, Zenon
  <2>3. (a \o b) \o c = ab \o c
    BY <1>6, Zenon
  <2> QED BY <1>7, <2>1, <2>2, <2>3, Zenon
<1>9. Len(ab) = i /\ ab[i] = e /\ (\A j \in 1 .. i - 1 : ab[j] = s[j]) /\ Len(q) = n + 1
  <2>1. /\ Len(b) = 1 /\ b[1] = e /\ Len(ab) = Len(a) + Len(b)
        /\ \A j \in 1 .. Len(a) + Len(b) : ab[j] = IF j <= Len(a) THEN a[j] ELSE b[j - Len(a)]
        /\ Len(q) = Len(ab) + Len(c)
    BY <1>5, <1>6, <1>7, Zenon
  <2>2. Len(a) = i - 1 /\ Len(c) = n - i + 1
    BY <1>2, <1>3
  <2>3. Len(ab) = i /\ Len(q) = n + 1
    BY <1>1, <2>1, <2>2
  <2>4. ab[i] = e
    <3>1. i \in 1 .. Len(a) + Len(b) /\ ~(i <= Len(a)) /\ i - Len(a) = 1
      BY <1>1, <2>1, <2>2
    <3> QED BY <2>1, <3>1
  <2>5. ASSUME NEW j \in 1 .. i - 1 PROVE ab[j] = s[j]
    <3>1. j \in 1 .. Len(a) + Len(b) /\ j <= Len(a)
      BY <1>1, <2>1, <2>2
    <3> QED BY <1>2, <2>1, <3>1
  <2> QED BY <2>3, <2>4, <2>5
<1>10. ASSUME NEW j \in 1 .. n + 1
       PROVE  q[j] = IF j < i THEN s[j] ELSE IF j = i THEN e ELSE s[j - 1]
  <2>1. q[j] = IF j <= i THEN ab[j] ELSE c[j - i]
    <3>1. /\ Len(q) = Len(ab) + Len(c)
          /\ \A k \in 1 .. Len(ab) + Len(c) :
                q[k] = IF k <= Len(ab) THEN ab[k] ELSE c[k - Len(ab)]
      BY <1>7, Zenon
    <3> QED BY <1>1, <1>3, <1>9, <3>1
  <2>2. CASE j <= i
    BY <1>1, <1>9, <2>1, <2>2
  <2>3. CASE j > i
    <3>1. j - i \in 1 .. n - i + 1 /\ i + (j - i) - 1 = j - 1
      BY <1>1, <2>3
    <3> QED BY <1>1, <1>3, <2>1, <2>3, <3>1
  <2> QED BY <1>1, <2>2, <2>3
<1> QED BY <1>8, <1>9, <1>10 DEF n

\* The place of a new entry: what is not later is a prefix of the heap.
LEMMA NotLaterPrefix ==
  ASSUME NEW heap, IsHeap(heap), NEW deadline \in Nat
  PROVE  \E k \in 0 .. Len(heap) : /\ Cardinality(NotLater(heap, deadline)) = k
                                   /\ NotLater(heap, deadline) = 1 .. k
<1> DEFINE n == Len(heap)
           S == NotLater(heap, deadline)
           C == {i \in 1 .. n + 1 : i \notin S}
<1>1. n \in Nat /\ \A i \in 1 .. n : heap[i].deadline \in Nat
  <2>1. heap \in Seq(TimerEvents)
    BY DEF IsHeap
  <2>2. n \in Nat /\ \A i \in 1 .. n : heap[i] \in TimerEvents
    BY <2>1, LenProperties, ElementOfSeq
  <2> QED BY <2>2, TimesReach DEF TimerEvents
<1>2. S = {i \in 1 .. n : heap[i].deadline <= deadline}
  BY DEF NotLater
<1>3. n + 1 \in C
  BY <1>1, <1>2
<1>4. C \in SUBSET Nat
  BY <1>1
<1>5. PICK m \in C : \A y \in C : m <= y
  BY <1>3, <1>4, LeastNatural
<1>6. m \in 1 .. n + 1 /\ m - 1 \in 0 .. n
  BY <1>1, <1>5
<1>7. ASSUME NEW i \in S PROVE i \in 1 .. m - 1
  <2> SUFFICES ASSUME i >= m PROVE FALSE
    BY <1>1, <1>2, <1>6
  <2>1. m \in 1 .. n /\ i \in 1 .. n /\ heap[i].deadline <= deadline /\ m <= i
    BY <1>1, <1>2, <1>6
  <2>2. heap[m].deadline <= heap[i].deadline
    BY <2>1 DEF IsHeap
  <2>3. m \in S
    BY <1>1, <1>2, <2>1, <2>2
  <2> QED BY <1>5, <2>3
<1>8. ASSUME NEW i \in 1 .. m - 1 PROVE i \in S
  BY <1>1, <1>5, <1>6
<1> HIDE DEF S, C, n
<1>9. S = 1 .. m - 1
  BY <1>7, <1>8
<1>10. Cardinality(S) = m - 1
  BY <1>1, <1>6, <1>9, FS_Interval
<1> QED BY <1>6, <1>9, <1>10 DEF S, n

\* TimerQueue::schedule adds one entry and keeps the order.
LEMMA ScheduledEntry ==
  ASSUME NEW heap, IsHeap(heap), NEW deadline \in Times, NEW id \in 1 .. Clients,
         NEW kind \in {"pump", "connect", "idle"}
  PROVE  /\ IsHeap(Scheduled(heap, deadline, id, kind))
         /\ Range(Scheduled(heap, deadline, id, kind))
              = Range(heap) \cup {TimerEvent(deadline, id, kind)}
<1> DEFINE n == Len(heap)
           e == TimerEvent(deadline, id, kind)
           q == Scheduled(heap, deadline, id, kind)
<1>1. heap \in Seq(TimerEvents) /\ n \in Nat /\ DOMAIN heap = 1 .. n
      /\ \A i \in 1 .. n : heap[i] \in TimerEvents
  BY LenProperties, ElementOfSeq DEF IsHeap
<1>2. e \in TimerEvents /\ deadline \in Nat /\ e.deadline = deadline
  BY TimesReach DEF TimerEvent, TimerEvents
<1>3. PICK k \in 0 .. n : /\ Cardinality(NotLater(heap, deadline)) = k
                          /\ NotLater(heap, deadline) = 1 .. k
  BY <1>2, NotLaterPrefix
<1>4. k + 1 \in 1 .. n + 1 /\ q = InsertAt(heap, k + 1, e)
  BY <1>1, <1>3 DEF Scheduled
<1> HIDE DEF e, q, n
<1>5. /\ q \in Seq(TimerEvents) /\ Len(q) = n + 1
      /\ \A j \in 1 .. n + 1 :
            q[j] = IF j < k + 1 THEN heap[j] ELSE IF j = k + 1 THEN e ELSE heap[j - 1]
  <2>1. PICK i \in 1 .. n + 1 : i = k + 1
    BY <1>4
  <2> QED BY <1>1, <1>2, <1>4, <2>1, Inserted DEF n
<1>6. /\ \A i \in 1 .. k : heap[i].deadline <= deadline
      /\ \A i \in 1 .. n : i > k => ~(heap[i].deadline <= deadline)
      /\ \A i \in 1 .. n : heap[i].deadline \in Nat
  <2>1. 1 .. k = {i \in 1 .. n : heap[i].deadline <= deadline}
    BY <1>3 DEF NotLater, n
  <2>2. \A i \in 1 .. n : heap[i].deadline \in Nat
    BY <1>1, TimesReach DEF TimerEvents
  <2> QED BY <1>1, <1>3, <2>1, <2>2
<1>7. ASSUME NEW i \in 1 .. n + 1, NEW j \in 1 .. n + 1, i <= j
      PROVE  q[i].deadline <= q[j].deadline
  <2>1. \A a, b \in 1 .. n : a <= b => heap[a].deadline <= heap[b].deadline
    BY DEF IsHeap, n
  <2>2. CASE i < k + 1
    <3>1. q[i] = heap[i] /\ i \in 1 .. n /\ i \in 1 .. k
      BY <1>1, <1>3, <1>5, <2>2
    <3>2. CASE j < k + 1
      BY <1>1, <1>3, <1>5, <1>7, <2>1, <3>1, <3>2
    <3>3. CASE j = k + 1
      BY <1>2, <1>5, <1>6, <3>1, <3>3
    <3>4. CASE j > k + 1
      <4>1. q[j] = heap[j - 1] /\ j - 1 \in 1 .. n /\ i <= j - 1
        BY <1>1, <1>3, <1>5, <1>7, <2>2, <3>4
      <4> QED BY <2>1, <3>1, <4>1
    <3> QED BY <1>3, <3>2, <3>3, <3>4
  <2>3. CASE i = k + 1
    <3>1. q[i] = e
      BY <1>5, <2>3
    <3>2. CASE j = k + 1
      BY <1>2, <2>3, <3>1, <3>2
    <3>3. CASE j > k + 1
      <4>1. q[j] = heap[j - 1] /\ j - 1 \in 1 .. n /\ j - 1 > k
        BY <1>1, <1>3, <1>5, <3>3
      <4>2. heap[j - 1].deadline \in Nat /\ ~(heap[j - 1].deadline <= deadline)
        BY <1>6, <4>1
      <4> QED BY <1>2, <3>1, <4>1, <4>2
    <3> QED BY <1>3, <1>7, <2>3, <3>2, <3>3
  <2>4. CASE i > k + 1
    <3>1. /\ q[i] = heap[i - 1] /\ i - 1 \in 1 .. n
          /\ q[j] = heap[j - 1] /\ j - 1 \in 1 .. n /\ i - 1 <= j - 1
      BY <1>1, <1>3, <1>5, <1>7, <2>4
    <3> QED BY <2>1, <3>1
  <2> QED BY <1>3, <2>2, <2>3, <2>4
<1>8. DOMAIN q = 1 .. n + 1
  BY <1>5, LenProperties
<1>9. Range(q) = Range(heap) \cup {e}
  <2>1. ASSUME NEW j \in 1 .. n + 1 PROVE q[j] \in Range(heap) \cup {e}
    <3>1. CASE j < k + 1
      BY <1>1, <1>3, <1>5, <3>1 DEF Range
    <3>2. CASE j = k + 1
      BY <1>5, <3>2
    <3>3. CASE j > k + 1
      <4>1. q[j] = heap[j - 1] /\ j - 1 \in 1 .. n
        BY <1>1, <1>3, <1>5, <3>3
      <4> QED BY <1>1, <4>1 DEF Range
    <3> QED BY <1>3, <3>1, <3>2, <3>3
  <2>2. e \in Range(q)
    BY <1>4, <1>5, <1>8 DEF Range
  <2>3. ASSUME NEW j \in 1 .. n PROVE heap[j] \in Range(q)
    <3>1. CASE j <= k
      <4>1. j \in 1 .. n + 1 /\ q[j] = heap[j]
        BY <1>1, <1>3, <1>5, <3>1
      <4> QED BY <1>8, <4>1 DEF Range
    <3>2. CASE j > k
      <4>1. j + 1 \in 1 .. n + 1 /\ q[j + 1] = heap[j]
        BY <1>1, <1>3, <1>5, <3>2
      <4> QED BY <1>8, <4>1 DEF Range
    <3> QED BY <1>3, <3>1, <3>2
  <2> QED BY <1>1, <1>8, <2>1, <2>2, <2>3 DEF Range
<1>10. IsHeap(q)
  BY <1>5, <1>7 DEF IsHeap
<1> QED BY <1>9, <1>10 DEF q, e

\* pop_due removes the earliest entry.
LEMMA PoppedEntry ==
  ASSUME NEW heap, IsHeap(heap), heap # <<>>
  PROVE  /\ Head(heap) \in TimerEvents /\ IsHeap(Tail(heap))
         /\ Range(heap) = {Head(heap)} \cup Range(Tail(heap))
         /\ \A e \in Range(heap) : Head(heap).deadline <= e.deadline
<1> DEFINE n == Len(heap)
           rest == Tail(heap)
<1>1. heap \in Seq(TimerEvents) /\ n \in Nat \ {0} /\ DOMAIN heap = 1 .. n
  BY LenProperties, EmptySeq DEF IsHeap
<1>2. /\ Head(heap) \in TimerEvents /\ rest \in Seq(TimerEvents) /\ Len(rest) = n - 1
      /\ \A i \in 1 .. n - 1 : rest[i] = heap[i + 1]
      /\ DOMAIN rest = 1 .. n - 1
  <2>1. /\ Head(heap) \in TimerEvents /\ rest \in Seq(TimerEvents) /\ Len(rest) = n - 1
        /\ \A i \in 1 .. Len(rest) : rest[i] = heap[i + 1]
    BY <1>1, HeadTailProperties
  <2>2. DOMAIN rest = 1 .. Len(rest)
    BY <2>1, LenProperties
  <2> QED BY <2>1, <2>2
<1>3. Head(heap) = heap[1]
  BY <1>1
<1>4. \A i, j \in 1 .. n : i <= j => heap[i].deadline <= heap[j].deadline
  BY DEF IsHeap
<1> HIDE DEF n, rest
<1>5. IsHeap(rest)
  <2> SUFFICES ASSUME NEW i \in 1 .. n - 1, NEW j \in 1 .. n - 1, i <= j
               PROVE  rest[i].deadline <= rest[j].deadline
    BY <1>2 DEF IsHeap
  <2>1. i + 1 \in 1 .. n /\ j + 1 \in 1 .. n /\ i + 1 <= j + 1
    BY <1>1
  <2> QED BY <1>2, <1>4, <2>1
<1>6. \A e \in Range(heap) : Head(heap).deadline <= e.deadline
  <2> SUFFICES ASSUME NEW i \in 1 .. n PROVE heap[1].deadline <= heap[i].deadline
    BY <1>1, <1>3 DEF Range
  <2> QED BY <1>1, <1>4
<1>7. Range(heap) = {heap[1]} \cup Range(rest)
  <2>1. ASSUME NEW i \in 1 .. n PROVE heap[i] \in {heap[1]} \cup Range(rest)
    <3>1. CASE i = 1
      BY <3>1
    <3>2. CASE i # 1
      <4>1. i - 1 \in 1 .. n - 1 /\ rest[i - 1] = heap[i]
        BY <1>1, <1>2, <3>2
      <4> QED BY <1>2, <4>1 DEF Range
    <3> QED BY <3>1, <3>2
  <2>2. ASSUME NEW i \in 1 .. n - 1 PROVE rest[i] \in Range(heap)
    <3>1. i + 1 \in 1 .. n /\ rest[i] = heap[i + 1]
      BY <1>1, <1>2
    <3> QED BY <1>1, <3>1 DEF Range
  <2>3. heap[1] \in Range(heap)
    BY <1>1 DEF Range
  <2> QED BY <1>1, <1>2, <2>1, <2>2, <2>3 DEF Range
<1> QED BY <1>2, <1>3, <1>5, <1>6, <1>7 DEF rest
-----------------------------------------------------------------------------
(* The tables.                                                             *)

LEMMA TablesFinite ==
  ASSUME TableInv
  PROVE  /\ IsFiniteSet(Live) /\ Cardinality(Live) \in Nat
         /\ UsedFds \subseteq Fds /\ IsFiniteSet(UsedFds) /\ IsFiniteSet(FreeFds)
         /\ \A id \in Live : SocketsOf(id) \subseteq UsedFds
<1>1. next_connection_id \in Nat /\ Live \subseteq 1 .. next_connection_id - 1 /\ fd_limit \in Nat
  BY DEF TableInv, Counters, ConnectionsTyped
<1>2. IsFiniteSet(Live) /\ Cardinality(Live) \in Nat
  <2>1. PICK n \in Int : n = next_connection_id - 1
    BY <1>1
  <2>2. IsFiniteSet(1 .. n)
    BY FS_Interval
  <2> QED BY <1>1, <2>1, <2>2, FS_Subset, FS_CardinalityType
<1>3. UsedFds \subseteq Fds /\ \A id \in Live : SocketsOf(id) \subseteq UsedFds
  BY DEF TableInv, ConnectionsTyped, ConnectionRecords, UsedFds, SocketsOf
<1>4. IsFiniteSet(Fds)
  BY <1>1, FS_Interval DEF Fds
<1> QED BY <1>2, <1>3, <1>4, FS_Subset DEF FreeFds

LEMMA InitTables == Init => TableInv /\ LoopTypes /\ Armed /\ HeapInv
<1> SUFFICES ASSUME Init PROVE TableInv /\ LoopTypes /\ Armed /\ HeapInv
  OBVIOUS
<1>1. Live = {} /\ DOMAIN bindings = {} /\ UsedFds = {} /\ Cardinality({}) = 0
  BY FS_EmptySet DEF Init, Live, UsedFds
<1>2. Counters
  BY RuntimeAssumption DEF Init, Counters, TimerToken
<1>3. ConnectionsTyped /\ TokensBound /\ EventsKnown
  BY <1>1 DEF Init, ConnectionsTyped, TokensBound, EventsKnown
<1>4. DescriptorsApart
  BY <1>1 DEF DescriptorsApart
<1>5. CountsBalance
  BY <1>1 DEF Init, CountsBalance, Balances, Metrics, Finals
<1>6. LoopTypes /\ Armed
  BY DEF Init, LoopTypes, Armed, NextDeadline
<1>7. HeapInv
  <2>1. timers = <<>> /\ Len(timers) = 0 /\ timers \in Seq(TimerEvents) /\ Range(timers) = {}
    BY EmptySeq DEF Init, Range
  <2> QED BY <1>1, <2>1 DEF HeapInv, IsHeap
<1> QED BY <1>2, <1>3, <1>4, <1>5, <1>6, <1>7 DEF TableInv

\* Steps that leave the tables alone: time, arrivals, events, the metrics file.
LEMMA TablesKept ==
  ASSUME TableInv, UNCHANGED <<tables, closes, fd_limit>>, exported' \in {Metrics, exported},
         now' \in now .. MaxTime, backlog' \in Nat, arrived' \in 0 .. Clients,
         next_connection_id - 1 + backlog' <= arrived',
         \A e \in batch' : /\ e.token \in Nat /\ e.token < next_token
                           /\ e.token \in DOMAIN bindings => bindings[e.token].connection = e.about
  PROVE  TableInv'
<1>1. UNCHANGED <<connections, bindings, next_connection_id, next_token, closes, fd_limit>>
  BY DEF tables
<1>2. Counters'
  <2>1. now' \in 0 .. MaxTime
    BY RuntimeAssumption DEF TableInv, Counters
  <2>2. TimerToken' = TimerToken
    BY DEF TimerToken
  <2> QED BY <1>1, <2>1, <2>2 DEF TableInv, Counters
<1>3. ConnectionsTyped'
  BY <1>1 DEF TableInv, ConnectionsTyped, ConnectionRecords, Live, Fds, Counters
<1>4. DescriptorsApart'
  BY <1>1 DEF TableInv, DescriptorsApart, UsedFds, Live, SocketsOf
<1>5. TokensBound' /\ EventsKnown'
  BY <1>1 DEF TableInv, TokensBound, EventsKnown, Live
<1>6. CountsBalance'
  <2>1. Metrics' = Metrics
    BY <1>1 DEF Metrics, Live
  <2>2. Balances(Metrics') /\ Balances(exported')
    BY <2>1 DEF TableInv, CountsBalance
  <2> QED BY <2>2 DEF TableInv, CountsBalance, Balances
<1> QED BY <1>2, <1>3, <1>4, <1>5, <1>6 DEF TableInv

\* close_connection: both descriptors and both tokens are given back, and one
\* counter counts it.
LEMMA CloseKeepsTables ==
  ASSUME TableInv, NEW id \in Live, NEW final \in Finals, CloseConnection(id, final),
         UNCHANGED <<next_connection_id, next_token, exported, now, backlog, arrived, fd_limit>>,
         batch' \subseteq batch
  PROVE  TableInv'
<1>1. /\ Live' = Live \ {id}
      /\ \A i \in Live' : connections'[i] = connections[i]
      /\ DOMAIN bindings' = {t \in DOMAIN bindings : bindings[t].connection # id}
      /\ \A t \in DOMAIN bindings' : bindings'[t] = bindings[t]
  BY DEF CloseConnection, Restrict, Live
<1>2. Counters'
  BY DEF TableInv, Counters
<1>3. ConnectionsTyped'
  BY <1>1 DEF TableInv, ConnectionsTyped, ConnectionRecords, Fds
<1> DEFINE c == connections[id].client_fd
           u == connections[id].upstream_fd
<1>4. Cardinality(Live') = Cardinality(Live) - 1
  BY <1>1, TablesFinite, FS_RemoveElement
<1>5. UsedFds' = (UsedFds \ {c}) \ {u}
  <2>1. UsedFds' = UNION {{connections[i].client_fd, connections[i].upstream_fd} : i \in Live \ {id}}
    BY <1>1 DEF UsedFds
  <2>2. ASSUME NEW i \in Live, i # id
        PROVE  /\ connections[i].client_fd \notin {c, u}
               /\ connections[i].upstream_fd \notin {c, u}
    BY <2>2 DEF TableInv, DescriptorsApart, SocketsOf
  <2>3. ASSUME NEW x PROVE x \in UsedFds' <=> x \in UsedFds /\ x # c /\ x # u
    <3>1. x \in UsedFds <=> \E i \in Live : x \in {connections[i].client_fd, connections[i].upstream_fd}
      BY DEF UsedFds
    <3>2. x \in UsedFds' <=> \E i \in Live \ {id} :
                                x \in {connections[i].client_fd, connections[i].upstream_fd}
      BY <2>1
    <3> QED BY <2>2, <3>1, <3>2
  <2> QED BY <2>3
<1>6. Cardinality(UsedFds') = Cardinality(UsedFds) - 2
  <2>1. c \in UsedFds /\ u \in UsedFds /\ c # u
    BY DEF UsedFds, TableInv, DescriptorsApart
  <2>2. IsFiniteSet(UsedFds \ {c}) /\ Cardinality(UsedFds \ {c}) = Cardinality(UsedFds) - 1
    BY <2>1, TablesFinite, FS_RemoveElement
  <2>3. u \in UsedFds \ {c}
    BY <2>1
  <2>4. Cardinality((UsedFds \ {c}) \ {u}) = Cardinality(UsedFds \ {c}) - 1
    BY <2>2, <2>3, FS_RemoveElement
  <2>5. Cardinality(UsedFds) \in Nat
    BY TablesFinite, FS_CardinalityType
  <2> QED BY <1>5, <2>2, <2>4, <2>5
<1>7. DescriptorsApart'
  <2>1. Cardinality(UsedFds') = 2 * Cardinality(Live')
    BY <1>4, <1>6, TablesFinite DEF TableInv, DescriptorsApart
  <2>2. \A i \in Live' : i \in Live /\ SocketsOf(i)' = SocketsOf(i)
    BY <1>1 DEF SocketsOf
  <2> QED BY <1>1, <2>1, <2>2 DEF TableInv, DescriptorsApart
<1>8. TokensBound'
  <2>1. \A t \in DOMAIN bindings' : /\ t \in Nat /\ t > TimerToken /\ t < next_token'
                                    /\ bindings'[t].connection \in Live'
    BY <1>1 DEF TableInv, TokensBound
  <2>2. ASSUME NEW i \in Live', NEW side \in {"Client", "Upstream"}
        PROVE  \E t \in DOMAIN bindings' : \A v \in DOMAIN bindings' :
                  bindings'[v] = [connection |-> i, side |-> side] <=> v = t
    <3>1. i \in Live /\ i # id
      BY <1>1
    <3>2. PICK t \in DOMAIN bindings : \A v \in DOMAIN bindings :
                  bindings[v] = [connection |-> i, side |-> side] <=> v = t
      BY <3>1 DEF TableInv, TokensBound
    <3>3. bindings[t].connection = i
      BY <3>2
    <3>4. t \in DOMAIN bindings'
      BY <1>1, <3>1, <3>3
    <3> QED BY <1>1, <3>2, <3>4
  <2> QED BY <2>1, <2>2 DEF TokensBound
<1>9. EventsKnown'
  BY <1>1 DEF TableInv, EventsKnown
<1>10. CountsBalance'
  <2>1. closes' \in [Finals -> Nat] /\ closes' = [closes EXCEPT ![final] = @ + 1]
    BY DEF CloseConnection, TableInv, CountsBalance
  <2>2. /\ Metrics.accepted = next_connection_id - 1 /\ Metrics'.accepted = next_connection_id - 1
        /\ Metrics.active = Cardinality(Live) /\ Metrics'.active = Cardinality(Live')
        /\ Metrics.closes = closes /\ Metrics'.closes = closes'
    BY DEF Metrics
  <2>3. Balances(Metrics)'
    BY <1>4, <2>1, <2>2, TablesFinite DEF TableInv, CountsBalance, Balances, Finals
  <2>4. Balances(exported)'
    BY DEF TableInv, CountsBalance, Balances
  <2> QED BY <2>1, <2>3, <2>4 DEF CountsBalance
<1> QED BY <1>2, <1>3, <1>7, <1>8, <1>9, <1>10 DEF TableInv

\* A pump changes nothing of a connection that the tables depend on.
LEMMA PumpKeepsTables ==
  ASSUME TableInv, NEW id \in Live, NEW c \in ConnectionRecords,
         c.client_fd = connections[id].client_fd, c.upstream_fd = connections[id].upstream_fd,
         connections' = [connections EXCEPT ![id] = c],
         UNCHANGED <<bindings, closes, next_connection_id, next_token, exported, now, backlog,
                     arrived, fd_limit>>,
         batch' \subseteq batch
  PROVE  TableInv'
<1>1. /\ Live' = Live
      /\ \A i \in Live : connections'[i] = IF i = id THEN c ELSE connections[i]
  BY DEF Live
<1>2. Counters' /\ EventsKnown'
  BY DEF TableInv, Counters, EventsKnown
<1>3. ConnectionsTyped'
  BY <1>1 DEF TableInv, ConnectionsTyped, ConnectionRecords, Fds
<1>4. \A i \in Live : /\ connections'[i].client_fd = connections[i].client_fd
                      /\ connections'[i].upstream_fd = connections[i].upstream_fd
  BY <1>1
<1>5. UsedFds' = UsedFds
  BY <1>1, <1>4 DEF UsedFds
<1>6. DescriptorsApart'
  BY <1>1, <1>4, <1>5 DEF TableInv, DescriptorsApart, SocketsOf
<1>7. TokensBound'
  BY <1>1 DEF TableInv, TokensBound
<1>8. CountsBalance'
  <2>1. Metrics' = Metrics
    BY <1>1 DEF Metrics
  <2> QED BY <2>1 DEF TableInv, CountsBalance, Balances
<1> QED BY <1>2, <1>3, <1>6, <1>7, <1>8 DEF TableInv

LEMMA LowestFree ==
  ASSUME NEW S \in SUBSET Nat, S # {}
  PROVE  Lowest(S) \in S
  BY LeastNatural DEF Lowest

\* Two descriptors are free, so accept4 and socket give two that differ.
LEMMA TwoDescriptors ==
  ASSUME TableInv, Cardinality(FreeFds) >= 2
  PROVE  LET c == Lowest(FreeFds)
             u == Lowest(FreeFds \ {c})
         IN  c \in FreeFds /\ u \in FreeFds /\ c # u
<1> DEFINE c == Lowest(FreeFds)
<1>1. IsFiniteSet(FreeFds) /\ FreeFds \in SUBSET Nat /\ Cardinality(FreeFds) \in Nat
  BY TablesFinite, FS_CardinalityType DEF FreeFds, Fds, TableInv, Counters
<1>2. FreeFds # {}
  BY FS_EmptySet
<1>3. c \in FreeFds
  BY <1>1, <1>2, LowestFree
<1> HIDE DEF c
<1>4. IsFiniteSet(FreeFds \ {c}) /\ Cardinality(FreeFds \ {c}) = Cardinality(FreeFds) - 1
  BY <1>1, <1>3, FS_RemoveElement
<1>5. FreeFds \ {c} # {}
  BY <1>1, <1>4, FS_EmptySet
<1>6. Lowest(FreeFds \ {c}) \in FreeFds \ {c}
  BY <1>1, <1>5, LowestFree
<1> QED BY <1>3, <1>6 DEF c

\* accept_ready: a new connection has an id, two tokens and two descriptors that
\* nobody has.
LEMMA AcceptKeepsTables ==
  ASSUME TableInv, NEW connecting \in BOOLEAN, AcceptConnection(connecting)
  PROVE  /\ TableInv'
         /\ Live' = Live \cup {next_connection_id} /\ next_connection_id \notin Live
         /\ \A i \in Live : connections'[i] = connections[i]
         /\ connections'[next_connection_id].connecting = connecting
         /\ connections'[next_connection_id].last_activity = now
         /\ connections'[next_connection_id].born = now
<1> DEFINE id == next_connection_id
           c == Lowest(FreeFds)
           u == Lowest(FreeFds \ {c})
           new == [connecting |-> connecting, last_activity |-> now, scheduled_wake |-> {},
                   client_fd |-> c, upstream_fd |-> u, born |-> now]
           t1 == next_token
           t2 == next_token + 1
<1>1. /\ id \in Nat \ {0} /\ next_token \in Nat /\ next_token > TimerToken /\ now \in 0 .. MaxTime
      /\ backlog \in Nat /\ arrived \in 0 .. Clients /\ id - 1 + backlog <= arrived
      /\ fd_limit \in Nat
  BY DEF TableInv, Counters
<1>2. id \notin Live /\ \A i \in Live : i \in Nat
  BY <1>1 DEF TableInv, ConnectionsTyped
<1>3. c \in FreeFds /\ u \in FreeFds /\ c # u
  BY TwoDescriptors DEF AcceptConnection
<1>4. /\ backlog > 0 /\ backlog' = backlog - 1
      /\ next_connection_id' = id + 1 /\ next_token' = next_token + 2
      /\ UNCHANGED <<closes, exported, batch, now, arrived, fd_limit>>
  BY DEF AcceptConnection
<1>5. connections' = [i \in Live \cup {id} |-> IF i = id THEN new ELSE connections[i]]
  BY DEF AcceptConnection
<1>6. bindings' = [t \in {t1, t2} \cup DOMAIN bindings |->
                     IF t \in {t1, t2}
                     THEN [connection |-> id, side |-> IF t = t1 THEN "Client" ELSE "Upstream"]
                     ELSE bindings[t]]
  BY DEF AcceptConnection, Tokens
<1> HIDE DEF c, u
<1>7. /\ Live' = Live \cup {id}
      /\ connections'[id] = new /\ \A i \in Live : connections'[i] = connections[i]
  BY <1>2, <1>5 DEF Live
<1>8. Counters'
  BY <1>1, <1>4 DEF Counters, TimerToken
<1>9. ConnectionsTyped'
  <2>1. new \in ConnectionRecords
    BY <1>1, <1>3 DEF ConnectionRecords, FreeFds
  <2>2. ConnectionRecords' = ConnectionRecords
    BY <1>4 DEF ConnectionRecords, Fds
  <2>3. Live' \subseteq 1 .. next_connection_id' - 1
    BY <1>1, <1>4, <1>7 DEF TableInv, ConnectionsTyped
  <2> QED BY <1>7, <2>1, <2>2, <2>3 DEF TableInv, ConnectionsTyped
<1>10. DescriptorsApart'
  <2>1. c \notin UsedFds /\ u \notin UsedFds
    BY <1>3 DEF FreeFds
  <2>2. UsedFds' = (UsedFds \cup {c}) \cup {u}
    <3>1. UsedFds' = UNION {{connections'[i].client_fd, connections'[i].upstream_fd} :
                              i \in Live \cup {id}}
      BY <1>7 DEF UsedFds
    <3>2. ASSUME NEW x PROVE x \in UsedFds' <=> x \in UsedFds \/ x = c \/ x = u
      <4>1. x \in UsedFds <=>
              \E i \in Live : x \in {connections[i].client_fd, connections[i].upstream_fd}
        BY DEF UsedFds
      <4>2. x \in UsedFds' <=> \E i \in Live \cup {id} :
                                 x \in {connections'[i].client_fd, connections'[i].upstream_fd}
        BY <3>1
      <4>3. connections'[id].client_fd = c /\ connections'[id].upstream_fd = u
        BY <1>7
      <4> QED BY <1>7, <4>1, <4>2, <4>3
    <3> QED BY <3>2
  <2>3. Cardinality(UsedFds') = Cardinality(UsedFds) + 2
    <3>1. IsFiniteSet(UsedFds) /\ Cardinality(UsedFds) \in Nat
      BY TablesFinite, FS_CardinalityType
    <3>2. IsFiniteSet(UsedFds \cup {c}) /\ Cardinality(UsedFds \cup {c}) = Cardinality(UsedFds) + 1
      BY <2>1, <3>1, FS_AddElement
    <3>3. u \notin UsedFds \cup {c}
      BY <1>3, <2>1
    <3>4. Cardinality((UsedFds \cup {c}) \cup {u}) = Cardinality(UsedFds \cup {c}) + 1
      BY <3>2, <3>3, FS_AddElement
    <3> QED BY <2>2, <3>1, <3>2, <3>4
  <2>4. Cardinality(Live') = Cardinality(Live) + 1
    BY <1>2, <1>7, TablesFinite, FS_AddElement
  <2>5. Cardinality(UsedFds') = 2 * Cardinality(Live')
    BY <2>3, <2>4, TablesFinite DEF TableInv, DescriptorsApart
  <2>6. /\ \A i \in Live : SocketsOf(i)' = SocketsOf(i) /\ SocketsOf(i) \subseteq UsedFds
        /\ \A i : i = id => SocketsOf(i)' = {c, u}
    <3>1. \A i \in Live : SocketsOf(i) \subseteq UsedFds
      BY TablesFinite
    <3>2. \A i \in Live : SocketsOf(i)' = SocketsOf(i)
      BY <1>7 DEF SocketsOf
    <3>3. connections'[id].client_fd = c /\ connections'[id].upstream_fd = u
      BY <1>7
    <3>4. \A i : SocketsOf(i)' = {connections'[i].client_fd, connections'[i].upstream_fd}
      BY DEF SocketsOf
    <3> QED BY <3>1, <3>2, <3>3, <3>4
  <2>7. \A i \in Live' : connections'[i].client_fd # connections'[i].upstream_fd
    BY <1>3, <1>7 DEF TableInv, DescriptorsApart
  <2>8. ASSUME NEW i \in Live', NEW j \in Live', i # j
        PROVE  (SocketsOf(i) \cap SocketsOf(j))' = {}
    <3>1. CASE i \in Live /\ j \in Live
      BY <2>6, <2>8, <3>1 DEF TableInv, DescriptorsApart
    <3>2. CASE i = id \/ j = id
      BY <1>7, <2>1, <2>6, <2>8, <3>2
    <3> QED BY <1>7, <3>1, <3>2
  <2> QED BY <2>5, <2>7, <2>8 DEF DescriptorsApart
<1>11. t1 \notin DOMAIN bindings /\ t2 \notin DOMAIN bindings /\ t1 # t2
       /\ \A t \in DOMAIN bindings : t \in Nat
  BY <1>1 DEF TableInv, TokensBound
<1>12. /\ DOMAIN bindings' = {t1, t2} \cup DOMAIN bindings
       /\ \A t \in DOMAIN bindings : bindings'[t] = bindings[t]
       /\ bindings'[t1] = [connection |-> id, side |-> "Client"]
       /\ bindings'[t2] = [connection |-> id, side |-> "Upstream"]
  BY <1>6, <1>11
<1>13. TokensBound'
  <2>1. ASSUME NEW t \in DOMAIN bindings'
        PROVE  /\ t \in Nat /\ t > TimerToken /\ t < next_token'
               /\ bindings'[t].connection \in Live'
    <3>1. CASE t \in DOMAIN bindings
      BY <1>1, <1>4, <1>7, <1>12, <3>1 DEF TableInv, TokensBound, TimerToken
    <3>2. CASE t \in {t1, t2}
      BY <1>1, <1>4, <1>7, <1>12, <3>2 DEF TimerToken
    <3> QED BY <1>12, <3>1, <3>2
  <2>2. ASSUME NEW i \in Live', NEW side \in {"Client", "Upstream"}
        PROVE  \E t \in DOMAIN bindings' : \A v \in DOMAIN bindings' :
                  bindings'[v] = [connection |-> i, side |-> side] <=> v = t
    <3>1. CASE i \in Live
      <4>1. PICK t \in DOMAIN bindings : \A v \in DOMAIN bindings :
                  bindings[v] = [connection |-> i, side |-> side] <=> v = t
        BY <3>1 DEF TableInv, TokensBound
      <4>2. i # id /\ bindings'[t1] # [connection |-> i, side |-> side]
            /\ bindings'[t2] # [connection |-> i, side |-> side]
        BY <1>2, <1>12, <3>1
      <4> QED BY <1>11, <1>12, <4>1, <4>2
    <3>2. CASE i = id
      <4>1. ASSUME NEW v \in DOMAIN bindings
            PROVE  bindings'[v] # [connection |-> id, side |-> side]
        <5>1. bindings[v].connection # id
          BY <1>2 DEF TableInv, TokensBound
        <5> QED BY <1>12, <5>1
      <4>2. CASE side = "Client"
        BY <1>11, <1>12, <3>2, <4>1, <4>2
      <4>3. CASE side = "Upstream"
        BY <1>11, <1>12, <3>2, <4>1, <4>3
      <4> QED BY <4>2, <4>3
    <3> QED BY <1>7, <3>1, <3>2
  <2> QED BY <2>1, <2>2 DEF TokensBound, TimerToken
<1>14. EventsKnown'
  <2> SUFFICES ASSUME NEW e \in batch
               PROVE  /\ e.token \in Nat /\ e.token < next_token'
                      /\ e.token \in DOMAIN bindings' => bindings'[e.token].connection = e.about
    BY <1>4 DEF EventsKnown
  <2>1. /\ e.token \in Nat /\ e.token < next_token
        /\ e.token \in DOMAIN bindings => bindings[e.token].connection = e.about
    BY DEF TableInv, EventsKnown
  <2>2. e.token \notin {t1, t2}
    BY <1>1, <2>1
  <2> QED BY <1>1, <1>4, <1>12, <2>1, <2>2
<1>15. CountsBalance'
  <2>1. Cardinality(Live') = Cardinality(Live) + 1
    BY <1>2, <1>7, TablesFinite, FS_AddElement
  <2>2. /\ Metrics.accepted = id - 1 /\ Metrics'.accepted = id
        /\ Metrics.active = Cardinality(Live) /\ Metrics'.active = Cardinality(Live')
        /\ Metrics.closes = closes /\ Metrics'.closes = closes
    BY <1>1, <1>4 DEF Metrics
  <2>3. Balances(Metrics)'
    BY <1>1, <2>1, <2>2, TablesFinite DEF TableInv, CountsBalance, Balances, Finals
  <2>4. Balances(exported)' /\ closes' \in [Finals -> Nat]
    BY <1>4 DEF TableInv, CountsBalance, Balances
  <2> QED BY <2>3, <2>4 DEF CountsBalance
<1>16. TableInv'
  BY <1>8, <1>9, <1>10, <1>13, <1>14, <1>15 DEF TableInv
<1> QED BY <1>2, <1>7, <1>16
-----------------------------------------------------------------------------
(* The entries of the heap.                                                *)

LEMMA EntriesTyped ==
  ASSUME NEW heap, IsHeap(heap), NEW e \in Range(heap)
  PROVE  e \in TimerEvents /\ e.deadline \in Nat /\ e.connection \in Nat
<1>1. e \in TimerEvents
  BY LenProperties, ElementOfSeq DEF IsHeap, Range
<1>2. e.deadline \in Times /\ e.connection \in 1 .. Clients
  BY <1>1 DEF TimerEvents
<1>3. e.deadline \in Nat
  BY <1>2, TimesReach
<1>4. e.connection \in Nat
  BY <1>2, RuntimeAssumption
<1> QED BY <1>1, <1>3, <1>4

\* Entries may go that nobody needs any more, and pump entries may come, while
\* connections are closed, become active or finish connecting.
LEMMA HeapKept ==
  ASSUME TableInv, HeapInv, IsHeap(timers'), next_connection_id' = next_connection_id,
         Live' \subseteq Live, now \in Nat,
         \A i \in Live' :
            /\ connections'[i].last_activity \in connections[i].last_activity .. now
            /\ connections'[i].born = connections[i].born
            /\ connections'[i].connecting => connections[i].connecting,
         \A e \in Range(timers) :
            \/ e \in Range(timers') \/ e.kind = "pump" \/ e.connection \notin Live'
            \/ e.kind = "connect" /\ ~connections'[e.connection].connecting,
         \A e \in Range(timers') :
            e \in Range(timers) \/ (e.kind = "pump" /\ e.connection < next_connection_id)
  PROVE  HeapInv'
<1>1. ASSUME NEW id \in Live' PROVE Covered(Range(timers'), id, connections'[id])
  <2>0. /\ Covered(Range(timers), id, connections[id]) /\ id \in Live
        /\ connections[id].last_activity \in Nat /\ IdleTimeout \in Nat /\ ConnectTimeout \in Nat
    BY RuntimeAssumption DEF HeapInv, TableInv, ConnectionsTyped, ConnectionRecords
  <2>1. ASSUME IdleTimeout > 0
        PROVE  \E e \in Range(timers') : /\ e.connection = id /\ e.kind = "idle"
                                         /\ e.deadline <= connections'[id].last_activity + IdleTimeout
    <3>1. PICK e \in Range(timers) : /\ e.connection = id /\ e.kind = "idle"
                                     /\ e.deadline <= connections[id].last_activity + IdleTimeout
      BY <2>0, <2>1 DEF Covered
    <3>2. e.deadline \in Nat
      BY EntriesTyped DEF HeapInv
    <3>3. e \in Range(timers')
      BY <3>1
    <3>4. connections'[id].last_activity \in Nat
          /\ connections[id].last_activity <= connections'[id].last_activity
      BY <2>0
    <3>5. e.deadline <= connections'[id].last_activity + IdleTimeout
      BY <2>0, <3>1, <3>2, <3>4
    <3> QED BY <3>1, <3>3, <3>5
  <2>2. ASSUME ConnectTimeout > 0, connections'[id].connecting
        PROVE  \E e \in Range(timers') : /\ e.connection = id /\ e.kind = "connect"
                                         /\ e.deadline <= connections'[id].born + ConnectTimeout
    <3>1. PICK e \in Range(timers) : /\ e.connection = id /\ e.kind = "connect"
                                     /\ e.deadline <= connections[id].born + ConnectTimeout
      BY <2>0, <2>2 DEF Covered
    <3>2. e \in Range(timers')
      BY <2>2, <3>1
    <3> QED BY <3>1, <3>2
  <2> QED BY <2>1, <2>2 DEF Covered
<1>2. ASSUME NEW e \in Range(timers') PROVE Genuine(e)'
  <2>1. CASE e \in Range(timers)
    <3>1. Genuine(e)
      BY <2>1 DEF HeapInv
    <3> QED BY <3>1 DEF Genuine
  <2>2. CASE e.kind = "pump" /\ e.connection < next_connection_id
    BY <2>2 DEF Genuine
  <2> QED BY <2>1, <2>2
<1>3. Range(timers)' = Range(timers')
  BY DEF Range
<1>4. \A id \in Live' : Covered(Range(timers), id, connections[id])'
  BY <1>1, <1>3 DEF Covered
<1>5. IsHeap(timers)'
  BY DEF IsHeap, TimerEvents, Times
<1> QED BY <1>2, <1>3, <1>4, <1>5 DEF HeapInv

\* close_connection leaves the heap to find out later.
LEMMA CloseKeepsHeap ==
  ASSUME TableInv, HeapInv, NEW id \in Live, NEW final \in Finals, CloseConnection(id, final),
         IsHeap(timers'), next_connection_id' = next_connection_id,
         Range(timers') \subseteq Range(timers),
         \A e \in Range(timers) : e \in Range(timers') \/ e.connection = id
  PROVE  HeapInv'
<1>1. Live' = Live \ {id} /\ \A i \in Live' : connections'[i] = connections[i]
  BY DEF CloseConnection, Restrict, Live
<1>2. \A i \in Live : connections[i].last_activity \in Nat /\ connections[i].last_activity <= now
  BY DEF TableInv, ConnectionsTyped, ConnectionRecords, Counters
<1>3. now \in Nat
  BY DEF TableInv, Counters
<1>4. \A i \in Live' :
         /\ connections'[i].last_activity \in connections[i].last_activity .. now
         /\ connections'[i].born = connections[i].born
         /\ connections'[i].connecting => connections[i].connecting
  BY <1>1, <1>2, <1>3
<1> QED BY <1>1, <1>3, <1>4, HeapKept

\* pump_connection: activity moves on, and a wake may be added to the heap.
LEMMA PumpKeeps ==
  ASSUME TableInv, HeapInv, NEW id \in Live, NEW before \in ConnectionRecords, NEW heap,
         before.client_fd = connections[id].client_fd,
         before.upstream_fd = connections[id].upstream_fd,
         before.born = connections[id].born,
         before.last_activity = connections[id].last_activity,
         before.connecting => connections[id].connecting,
         IsHeap(heap), Range(heap) \subseteq Range(timers),
         \A e \in Range(timers) : e \in Range(heap) \/ e.kind = "pump",
         PumpConnection(id, before, heap),
         UNCHANGED <<next_connection_id, next_token, exported, now, backlog, arrived, fd_limit>>,
         batch' \subseteq batch
  PROVE  TableInv' /\ HeapInv'
<1>1. PICK activity \in {before.last_activity, now},
           wake \in {{}} \cup (IF before.connecting THEN {} ELSE {{now + k} : k \in WakeDelays}) :
        LET schedule == wake # {} /\ \A w \in wake, s \in before.scheduled_wake : w < s
        IN  /\ connections' = [connections EXCEPT ![id] =
                 [before EXCEPT !.last_activity = activity,
                                !.scheduled_wake = IF schedule THEN wake ELSE @]]
            /\ timers' = IF schedule
                         THEN Scheduled(heap, CHOOSE w \in wake : TRUE, id, "pump") ELSE heap
            /\ UNCHANGED <<bindings, closes>>
  BY DEF PumpConnection
<1> DEFINE schedule == wake # {} /\ \A w \in wake, s \in before.scheduled_wake : w < s
           c == [before EXCEPT !.last_activity = activity,
                               !.scheduled_wake = IF schedule THEN wake ELSE @]
<1>2. now \in 0 .. MaxTime /\ now \in Nat /\ MaxTime \in Nat
  BY RuntimeAssumption DEF TableInv, Counters
<1>3. wake \subseteq Times
  BY <1>2, TimesReach
<1>4. before.last_activity \in 0 .. now
  BY DEF ConnectionRecords
<1>5. /\ c \in ConnectionRecords
      /\ c.client_fd = before.client_fd /\ c.upstream_fd = before.upstream_fd
      /\ c.born = before.born /\ c.last_activity = activity
  <2>1. activity \in 0 .. now
    BY <1>2, <1>4
  <2>2. PICK wakes \in SUBSET Times : wakes = IF schedule THEN wake ELSE before.scheduled_wake
    BY <1>3 DEF ConnectionRecords
  <2>3. c = [before EXCEPT !.last_activity = activity, !.scheduled_wake = wakes]
    BY <2>2
  <2> HIDE DEF c, schedule
  <2> QED BY <2>1, <2>3 DEF ConnectionRecords
<1>6. c.connecting = before.connecting
  BY Zenon DEF ConnectionRecords
<1>7. connections' = [connections EXCEPT ![id] = c] /\ UNCHANGED <<bindings, closes>>
  BY <1>1
<1>8. timers' = IF schedule THEN Scheduled(heap, CHOOSE w \in wake : TRUE, id, "pump") ELSE heap
  BY <1>1
<1> HIDE DEF c, schedule
<1>9. TableInv'
  BY <1>5, <1>7, PumpKeepsTables
<1>10. id \in 1 .. Clients /\ id < next_connection_id
  BY RuntimeAssumption DEF TableInv, ConnectionsTyped, Counters
<1>11. /\ IsHeap(timers') /\ Range(heap) \subseteq Range(timers')
       /\ \A e \in Range(timers') : \/ e \in Range(heap)
                                    \/ e.kind = "pump" /\ e.connection < next_connection_id
  <2>1. CASE schedule
    <3>1. PICK w \in wake : w = CHOOSE x \in wake : TRUE
      BY <2>1 DEF schedule
    <3>2. w \in Times /\ timers' = Scheduled(heap, w, id, "pump")
      BY <1>3, <1>8, <2>1, <3>1
    <3>3. IsHeap(timers') /\ Range(timers') = Range(heap) \cup {TimerEvent(w, id, "pump")}
      BY <1>10, <3>2, ScheduledEntry
    <3>4. TimerEvent(w, id, "pump").kind = "pump" /\ TimerEvent(w, id, "pump").connection = id
      BY DEF TimerEvent
    <3> QED BY <1>10, <3>3, <3>4
  <2>2. CASE ~schedule
    BY <1>8, <2>2
  <2> QED BY <2>1, <2>2
<1>12. Live' = Live
  BY <1>7 DEF Live
<1>13. ASSUME NEW i \in Live'
       PROVE  /\ connections'[i].last_activity \in connections[i].last_activity .. now
              /\ connections'[i].born = connections[i].born
              /\ connections'[i].connecting => connections[i].connecting
  <2>1. connections[i].last_activity \in 0 .. now
    BY <1>12 DEF TableInv, ConnectionsTyped, ConnectionRecords
  <2>2. CASE i = id
    <3>1. connections'[i] = c
      BY <1>7, <2>2 DEF Live
    <3>2. activity \in connections[i].last_activity .. now
      BY <1>2, <1>4, <2>1, <2>2
    <3> QED BY <1>5, <1>6, <2>2, <3>1, <3>2
  <2>3. CASE i # id
    <3>1. connections'[i] = connections[i]
      BY <1>7, <1>12, <2>3 DEF Live
    <3> QED BY <1>2, <2>1, <3>1
  <2> QED BY <2>2, <2>3
<1>14. HeapInv'
  BY <1>2, <1>11, <1>12, <1>13, HeapKept
<1> QED BY <1>9, <1>14

LEMMA HeapSame ==
  ASSUME HeapInv, UNCHANGED <<timers, connections, next_connection_id>>
  PROVE  HeapInv'
<1>1. IsHeap(timers)' /\ Range(timers)' = Range(timers) /\ Live' = Live
  BY DEF HeapInv, IsHeap, TimerEvents, Times, Range, Live
<1>2. \A id \in Live : Covered(Range(timers), id, connections[id])'
  BY <1>1 DEF HeapInv, Covered
<1>3. \A e \in Range(timers) : Genuine(e)'
  BY <1>1 DEF HeapInv, Genuine
<1> QED BY <1>1, <1>2, <1>3 DEF HeapInv

\* A new connection gets its connect and idle entries.
LEMMA AcceptKeepsHeap ==
  ASSUME TableInv, HeapInv, NEW connecting \in BOOLEAN, AcceptConnection(connecting)
  PROVE  HeapInv'
<1> DEFINE id == next_connection_id
           heap == IF connecting /\ ConnectTimeout > 0
                   THEN Scheduled(timers, now + ConnectTimeout, id, "connect") ELSE timers
           ce == TimerEvent(now + ConnectTimeout, id, "connect")
           ie == TimerEvent(now + IdleTimeout, id, "idle")
<1>1. /\ id \in Nat \ {0} /\ id \in 1 .. Clients /\ now \in 0 .. MaxTime /\ now \in Nat
      /\ next_connection_id' = id + 1
  BY RuntimeAssumption DEF AcceptConnection, TableInv, Counters
<1>2. /\ Live' = Live \cup {id} /\ id \notin Live
      /\ \A i \in Live : connections'[i] = connections[i]
      /\ connections'[id].connecting = connecting
      /\ connections'[id].last_activity = now /\ connections'[id].born = now
  BY AcceptKeepsTables
<1>3. timers' = IF IdleTimeout > 0 THEN Scheduled(heap, now + IdleTimeout, id, "idle") ELSE heap
  BY DEF AcceptConnection
<1>4. /\ IsHeap(heap) /\ Range(timers) \subseteq Range(heap)
      /\ Range(heap) \subseteq Range(timers) \cup {ce}
      /\ connecting /\ ConnectTimeout > 0 => ce \in Range(heap)
  <2>1. CASE connecting /\ ConnectTimeout > 0
    <3>1. now + ConnectTimeout \in Times /\ IsHeap(timers)
      BY <1>1, TimesReach DEF HeapInv
    <3>2. heap = Scheduled(timers, now + ConnectTimeout, id, "connect")
      BY <2>1
    <3>3. IsHeap(heap) /\ Range(heap) = Range(timers) \cup {ce}
      BY <1>1, <3>1, <3>2, ScheduledEntry
    <3> QED BY <3>3
  <2>2. CASE ~(connecting /\ ConnectTimeout > 0)
    BY <2>2 DEF HeapInv
  <2> QED BY <2>1, <2>2
<1> HIDE DEF heap
<1>5. /\ IsHeap(timers') /\ Range(heap) \subseteq Range(timers')
      /\ Range(timers') \subseteq Range(heap) \cup (IF IdleTimeout > 0 THEN {ie} ELSE {})
      /\ IdleTimeout > 0 => ie \in Range(timers')
  <2>1. CASE IdleTimeout > 0
    <3>1. now + IdleTimeout \in Times
      BY <1>1, TimesReach
    <3>2. IsHeap(timers') /\ Range(timers') = Range(heap) \cup {ie}
      BY <1>1, <1>3, <1>4, <2>1, <3>1, ScheduledEntry
    <3> QED BY <2>1, <3>2
  <2>2. CASE ~(IdleTimeout > 0)
    BY <1>3, <1>4, <2>2
  <2> QED BY <2>1, <2>2
<1>6. /\ ce.connection = id /\ ce.kind = "connect" /\ ce.deadline = now + ConnectTimeout
      /\ ie.connection = id /\ ie.kind = "idle" /\ ie.deadline = now + IdleTimeout
  BY DEF TimerEvent
<1> HIDE DEF ce, ie
<1>7. ASSUME NEW i \in Live' PROVE Covered(Range(timers'), i, connections'[i])
  <2>1. CASE i \in Live
    <3>1. Covered(Range(timers), i, connections[i]) /\ Range(timers) \subseteq Range(timers')
      BY <1>4, <1>5, <2>1 DEF HeapInv
    <3> QED BY <1>2, <2>1, <3>1 DEF Covered
  <2>2. CASE i = id
    <3>1. ce.deadline <= now + ConnectTimeout /\ ie.deadline <= now + IdleTimeout
      BY <1>1, <1>6, RuntimeAssumption
    <3>2. IdleTimeout > 0 => ie \in Range(timers')
      BY <1>5
    <3>3. connecting /\ ConnectTimeout > 0 => ce \in Range(timers')
      BY <1>4, <1>5
    <3> QED BY <1>2, <1>6, <2>2, <3>1, <3>2, <3>3 DEF Covered
  <2> QED BY <1>2, <2>1, <2>2
<1>8. ASSUME NEW e \in Range(timers') PROVE Genuine(e)'
  <2>1. CASE e \in Range(timers)
    <3>1. Genuine(e) /\ e.connection \in Nat /\ e.connection < id
      BY <2>1, EntriesTyped DEF HeapInv, Genuine
    <3>2. e.connection # id /\ e.connection < id + 1
      BY <1>1, <3>1
    <3>3. e.connection \in Live' => /\ e.connection \in Live
                                    /\ connections'[e.connection] = connections[e.connection]
      BY <1>2, <3>2
    <3> QED BY <1>1, <3>1, <3>2, <3>3 DEF Genuine
  <2>2. CASE e = ce
    <3>1. e.deadline >= connections'[id].born + ConnectTimeout /\ id < id + 1
      BY <1>1, <1>2, <1>6, <2>2, RuntimeAssumption
    <3> QED BY <1>1, <1>6, <2>2, <3>1 DEF Genuine
  <2>3. CASE e = ie /\ IdleTimeout > 0
    <3>1. id < id + 1
      BY <1>1
    <3> QED BY <1>1, <1>6, <2>3, <3>1 DEF Genuine
  <2> QED BY <1>4, <1>5, <2>1, <2>2, <2>3
<1>9. Range(timers)' = Range(timers') /\ IsHeap(timers)'
  BY <1>5 DEF Range, IsHeap, TimerEvents, Times
<1>10. \A i \in Live' : Covered(Range(timers), i, connections[i])'
  BY <1>7, <1>9 DEF Covered
<1> QED BY <1>8, <1>9, <1>10 DEF HeapInv
-----------------------------------------------------------------------------
(* Every step keeps the invariant.                                         *)

LEMMA SocketReadyKeeps ==
  ASSUME TableInv, HeapInv, SocketReady
  PROVE  TableInv' /\ HeapInv'
<1>1. PICK e \in batch :
         /\ batch' \subseteq batch
         /\ IF e.token \in DOMAIN bindings
            THEN SocketResult(bindings[e.token].connection, bindings[e.token].side)
            ELSE UNCHANGED <<connections, bindings, closes, timers>>
  BY DEF SocketReady, Handle
<1>2. UNCHANGED <<next_connection_id, next_token, exported, now, backlog, arrived, fd_limit>>
  BY DEF SocketReady, outside
<1>3. CASE e.token \notin DOMAIN bindings
  <2>1. UNCHANGED <<tables, closes, fd_limit>> /\ exported' \in {Metrics, exported}
    BY <1>1, <1>2, <1>3 DEF tables
  <2>2. now' \in now .. MaxTime /\ backlog' \in Nat /\ arrived' \in 0 .. Clients
        /\ next_connection_id - 1 + backlog' <= arrived'
    BY <1>2 DEF TableInv, Counters
  <2>3. TableInv'
    BY <1>1, <2>1, <2>2, TablesKept DEF TableInv, EventsKnown
  <2> QED BY <1>1, <1>2, <1>3, <2>3, HeapSame
<1>4. CASE e.token \in DOMAIN bindings
  <2> DEFINE id == bindings[e.token].connection
  <2>1. PICK i \in Live : i = id
    BY <1>4 DEF TableInv, TokensBound
  <2>2. connections[i] \in ConnectionRecords /\ IsHeap(timers)
    BY DEF TableInv, ConnectionsTyped, HeapInv
  <2>3. ASSUME NEW final \in Finals, CloseConnection(i, final), UNCHANGED timers
        PROVE  TableInv' /\ HeapInv'
    BY <1>1, <1>2, <2>2, <2>3, CloseKeepsTables, CloseKeepsHeap
  <2>4. CASE PumpConnection(i, connections[i], timers)
    BY <1>1, <1>2, <2>2, <2>4, PumpKeeps
  <2>5. CASE PumpConnection(i, [connections[i] EXCEPT !.connecting = FALSE], timers)
    <3> DEFINE before == [connections[i] EXCEPT !.connecting = FALSE]
    <3>1. /\ before \in ConnectionRecords
          /\ before.client_fd = connections[i].client_fd
          /\ before.upstream_fd = connections[i].upstream_fd
          /\ before.born = connections[i].born
          /\ before.last_activity = connections[i].last_activity
      BY <2>2 DEF ConnectionRecords
    <3>2. before.connecting = FALSE
      BY <2>2, Zenon DEF ConnectionRecords
    <3>3. PumpConnection(i, before, timers)
      BY <2>5
    <3> HIDE DEF before
    <3> QED BY <1>1, <1>2, <2>2, <3>1, <3>2, <3>3, PumpKeeps
  <2>6. SocketResult(i, bindings[e.token].side)
    BY <1>1, <1>4, <2>1
  <2> QED BY <2>3, <2>4, <2>5, <2>6 DEF SocketResult, Finals
<1> QED BY <1>3, <1>4

\* An idle entry found early is entered again for when the connection is due.
LEMMA RescheduleKeepsHeap ==
  ASSUME TableInv, HeapInv, timers # <<>>, NEW id \in Live, Head(timers).connection = id,
         Head(timers).kind = "idle",
         timers' = Scheduled(Tail(timers), connections[id].last_activity + IdleTimeout, id, "idle"),
         UNCHANGED <<connections, next_connection_id>>
  PROVE  HeapInv'
<1> DEFINE entry == Head(timers)
           rest == Tail(timers)
           due == connections[id].last_activity + IdleTimeout
           new == TimerEvent(due, id, "idle")
<1>1. /\ entry \in TimerEvents /\ IsHeap(rest) /\ Range(timers) = {entry} \cup Range(rest)
      /\ entry \in Range(timers)
  BY PoppedEntry DEF HeapInv
<1>2. Genuine(entry)
  BY <1>1 DEF HeapInv
<1>3. /\ id \in 1 .. Clients /\ connections[id].last_activity \in 0 .. MaxTime
      /\ connections[id].last_activity \in Nat
  BY RuntimeAssumption
     DEF TableInv, ConnectionsTyped, ConnectionRecords, Counters
<1>4. due \in Times /\ due \in Nat
  BY <1>3, TimesReach, RuntimeAssumption
<1> HIDE DEF due
<1>5. IsHeap(timers') /\ Range(timers') = Range(rest) \cup {new}
  BY <1>1, <1>3, <1>4, ScheduledEntry DEF due
<1>6. new.connection = id /\ new.kind = "idle" /\ new.deadline = due
  BY DEF TimerEvent
<1> HIDE DEF new, rest, entry
<1>7. Live' = Live
  BY DEF Live
<1>8. ASSUME NEW i \in Live PROVE Covered(Range(timers'), i, connections[i])
  <2>1. Covered(Range(timers), i, connections[i])
    BY DEF HeapInv
  <2>2. \A e \in Range(timers) : e \in Range(timers') \/ (e.connection = id /\ e.kind = "idle")
    BY <1>1, <1>5 DEF entry
  <2>3. CASE i = id
    <3>1. new \in Range(timers') /\ new.deadline <= connections[i].last_activity + IdleTimeout
      BY <1>4, <1>5, <1>6, <2>3 DEF due
    <3> QED BY <1>6, <2>1, <2>2, <2>3, <3>1 DEF Covered
  <2>4. CASE i # id
    BY <2>1, <2>2, <2>4 DEF Covered
  <2> QED BY <2>3, <2>4
<1>9. ASSUME NEW e \in Range(timers') PROVE Genuine(e)'
  <2>1. CASE e \in Range(timers)
    BY <1>7, <2>1 DEF HeapInv, Genuine
  <2>2. CASE e = new
    BY <1>2, <1>6, <1>7, <2>2 DEF Genuine, entry
  <2> QED BY <1>1, <1>5, <2>1, <2>2
<1>10. Range(timers)' = Range(timers') /\ IsHeap(timers)'
  BY <1>5 DEF Range, IsHeap, TimerEvents, Times
<1>11. \A i \in Live' : Covered(Range(timers), i, connections[i])'
  BY <1>7, <1>8, <1>10 DEF Covered
<1> QED BY <1>9, <1>10, <1>11 DEF HeapInv

LEMMA ProcessTimerKeeps ==
  ASSUME TableInv, HeapInv, ProcessTimer
  PROVE  TableInv' /\ HeapInv'
<1> DEFINE entry == Head(timers)
           rest == Tail(timers)
           id == entry.connection
<1>1. timers # <<>>
  BY DEF ProcessTimer
<1>2. /\ entry \in TimerEvents /\ IsHeap(rest) /\ Range(timers) = {entry} \cup Range(rest)
      /\ Range(rest) \subseteq Range(timers)
  BY <1>1, PoppedEntry DEF HeapInv
<1>3. /\ UNCHANGED <<next_connection_id, next_token, exported, now, backlog, arrived, fd_limit>>
      /\ batch' \subseteq batch
  BY DEF ProcessTimer, outside
<1>4. now \in Nat
  BY DEF TableInv, Counters
<1>5. ASSUME UNCHANGED <<connections, bindings, closes>> PROVE TableInv'
  <2>1. UNCHANGED <<tables, closes, fd_limit>> /\ exported' \in {Metrics, exported}
    BY <1>3, <1>5 DEF tables
  <2>2. now' \in now .. MaxTime /\ backlog' \in Nat /\ arrived' \in 0 .. Clients
        /\ next_connection_id - 1 + backlog' <= arrived'
    BY <1>3 DEF TableInv, Counters
  <2> QED BY <1>3, <2>1, <2>2, TablesKept DEF TableInv, EventsKnown
<1>6. ASSUME UNCHANGED <<connections, bindings, closes>>, timers' = rest,
             \/ id \notin Live
             \/ id \in Live /\ entry.kind = "connect" /\ ~connections[id].connecting
      PROVE  HeapInv'
  <2>1. Live' = Live
    BY <1>6 DEF Live
  <2>2. \A i \in Live' :
           /\ connections'[i].last_activity \in connections[i].last_activity .. now
           /\ connections'[i].born = connections[i].born
           /\ connections'[i].connecting => connections[i].connecting
    BY <1>4, <1>6, <2>1 DEF TableInv, ConnectionsTyped, ConnectionRecords
  <2>3. \A e \in Range(timers) :
           \/ e \in Range(timers') \/ e.kind = "pump" \/ e.connection \notin Live'
           \/ e.kind = "connect" /\ ~connections'[e.connection].connecting
    BY <1>2, <1>6, <2>1
  <2>4. \A e \in Range(timers') : e \in Range(timers)
    BY <1>2, <1>6
  <2> QED BY <1>2, <1>3, <1>4, <1>6, <2>1, <2>2, <2>3, <2>4, HeapKept
<1>7. ASSUME id \in Live, timers' = rest, NEW final \in Finals, CloseConnection(id, final)
      PROVE  TableInv' /\ HeapInv'
  <2>1. PICK i \in Live : i = id
    BY <1>7
  <2>2. CloseConnection(i, final) /\ \A e \in Range(timers) : e \in Range(timers') \/ e.connection = i
    BY <1>2, <1>7, <2>1
  <2> QED BY <1>2, <1>3, <1>7, <2>2, CloseKeepsTables, CloseKeepsHeap
<1>8. ASSUME id \in Live, entry.kind = "pump",
             PumpConnection(id,
               [connections[id] EXCEPT !.scheduled_wake = {w \in @ : w > now}], rest)
      PROVE  TableInv' /\ HeapInv'
  <2>1. PICK i \in Live : i = id
    BY <1>8
  <2>2. connections[i] \in ConnectionRecords
    BY DEF TableInv, ConnectionsTyped
  <2>3. PICK wakes \in SUBSET Times : wakes = {w \in connections[i].scheduled_wake : w > now}
    BY <2>2 DEF ConnectionRecords
  <2>4. PumpConnection(i, [connections[i] EXCEPT !.scheduled_wake = wakes], rest)
    BY <1>8, <2>1, <2>3
  <2> DEFINE before == [connections[i] EXCEPT !.scheduled_wake = wakes]
  <2>5. /\ before \in ConnectionRecords
        /\ before.client_fd = connections[i].client_fd
        /\ before.upstream_fd = connections[i].upstream_fd
        /\ before.born = connections[i].born
        /\ before.last_activity = connections[i].last_activity
    BY <2>2 DEF ConnectionRecords
  <2>6. before.connecting = connections[i].connecting
    BY <2>2, Zenon DEF ConnectionRecords
  <2>7. \A e \in Range(timers) : e \in Range(rest) \/ e.kind = "pump"
    BY <1>2, <1>8
  <2> HIDE DEF before, rest
  <2> QED BY <1>2, <1>3, <2>4, <2>5, <2>6, <2>7, PumpKeeps DEF before
<1>9. ASSUME id \in Live, entry.kind = "idle", UNCHANGED <<connections, bindings, closes>>,
             timers' = Scheduled(rest, connections[id].last_activity + IdleTimeout, id, "idle")
      PROVE  HeapInv'
  BY <1>1, <1>3, <1>9, RescheduleKeepsHeap
<1>10. \/ /\ id \notin Live
          /\ timers' = rest /\ UNCHANGED <<connections, bindings, closes>>
       \/ /\ id \in Live /\ timers' = rest
          /\ \E final \in Finals : CloseConnection(id, final)
       \/ /\ id \in Live /\ entry.kind = "pump"
          /\ PumpConnection(id,
                 [connections[id] EXCEPT !.scheduled_wake = {w \in @ : w > now}], rest)
       \/ /\ id \in Live /\ entry.kind = "connect" /\ ~connections[id].connecting
          /\ timers' = rest /\ UNCHANGED <<connections, bindings, closes>>
       \/ /\ id \in Live /\ entry.kind = "idle"
          /\ timers' = Scheduled(rest, connections[id].last_activity + IdleTimeout, id, "idle")
          /\ UNCHANGED <<connections, bindings, closes>>
  BY DEF ProcessTimer, ConnectExpired, Finals
<1> HIDE DEF entry, rest, id
<1> QED BY <1>5, <1>6, <1>7, <1>8, <1>9, <1>10

\* What a batch may hold: the loop's own tokens are never bound.
LEMMA EventsFromEpoll ==
  ASSUME TableInv, NEW e \in OwnEvents \cup SocketEvents
  PROVE  /\ e.token \in Nat /\ e.token < next_token
         /\ e.token \in DOMAIN bindings => bindings[e.token].connection = e.about
<1>0. /\ \A t \in DOMAIN bindings : t \in Nat /\ t > 3 /\ t < next_token
      /\ next_token \in Nat /\ next_token > 3
  BY DEF TableInv, TokensBound, Counters, TimerToken
<1>1. CASE e \in OwnEvents
  <2>1. e.token \in {1, 2, 3}
    BY <1>1 DEF OwnEvents, ListenerToken, SignalToken, TimerToken
  <2> QED BY <1>0, <2>1
<1>2. CASE e \in SocketEvents
  <2>1. PICK t \in DOMAIN bindings : e.token = t /\ e.about = bindings[t].connection
    BY <1>2 DEF SocketEvents
  <2> QED BY <1>0, <2>1
<1> QED BY <1>1, <1>2

LEMMA TablesStep == Inv /\ [Next]_vars => TableInv' /\ HeapInv'
<1> SUFFICES ASSUME Inv, [Next]_vars PROVE TableInv' /\ HeapInv'
  OBVIOUS
<1>0. /\ TableInv /\ HeapInv /\ now \in 0 .. MaxTime /\ MaxTime \in Nat /\ backlog \in Nat
      /\ arrived \in 0 .. Clients /\ next_connection_id \in Nat
      /\ next_connection_id - 1 + backlog <= arrived /\ Clients \in Nat
  BY RuntimeAssumption DEF Inv, TableInv, Counters
<1>1. ASSUME UNCHANGED <<tables, timers, closes, fd_limit>>, exported' \in {Metrics, exported},
             now' \in now .. MaxTime, backlog' \in Nat, arrived' \in 0 .. Clients,
             next_connection_id - 1 + backlog' <= arrived',
             batch' \subseteq batch \cup OwnEvents \cup SocketEvents
      PROVE  TableInv' /\ HeapInv'
  <2>1. \A e \in batch' : /\ e.token \in Nat /\ e.token < next_token
                          /\ e.token \in DOMAIN bindings => bindings[e.token].connection = e.about
    <3>1. \A e \in batch : /\ e.token \in Nat /\ e.token < next_token
                           /\ e.token \in DOMAIN bindings
                                => bindings[e.token].connection = e.about
      BY <1>0 DEF TableInv, EventsKnown
    <3> QED BY <1>0, <1>1, <3>1, EventsFromEpoll
  <2>2. TableInv'
    BY <1>0, <1>1, <2>1, TablesKept
  <2>3. HeapInv'
    BY <1>0, <1>1, HeapSame DEF tables
  <2> QED BY <2>2, <2>3
<1>2. ASSUME UNCHANGED <<tables, timers, closes, now, backlog, arrived, fd_limit>>,
             exported' \in {Metrics, exported},
             batch' \subseteq batch \cup OwnEvents \cup SocketEvents
      PROVE  TableInv' /\ HeapInv'
  BY <1>0, <1>1, <1>2
<1>3. CASE EpollWait \/ BatchDone \/ ArmTimerFd \/ ListenerReady \/ TimerReady \/ TimersDone
  BY <1>2, <1>3 DEF EpollWait, BatchDone, ArmTimerFd, ListenerReady, TimerReady, TimersDone,
                    Handle, outside
<1>4. CASE SignalReady \/ Stop
  BY <1>2, <1>4 DEF SignalReady, Stop, WriteMetricsFile, Handle, outside
<1>5. CASE AcceptEnds \/ AcceptRejected
  <2>1. /\ UNCHANGED <<tables, timers, closes, exported, now, arrived, batch, fd_limit>>
        /\ backlog' = backlog \/ (backlog > 0 /\ backlog' = backlog - 1)
    BY <1>5 DEF AcceptEnds, AcceptRejected
  <2>2. /\ backlog' \in Nat /\ arrived' \in 0 .. Clients /\ now' \in now .. MaxTime
        /\ next_connection_id - 1 + backlog' <= arrived'
    BY <1>0, <2>1
  <2> QED BY <1>0, <1>1, <2>1, <2>2
<1>6. ASSUME NEW connecting \in BOOLEAN, AcceptConnection(connecting)
      PROVE  TableInv' /\ HeapInv'
  BY <1>0, <1>6, AcceptKeepsTables, AcceptKeepsHeap
<1>7. CASE SocketReady
  BY <1>0, <1>7, SocketReadyKeeps
<1>8. CASE ProcessTimer
  BY <1>0, <1>8, ProcessTimerKeeps
<1>9. CASE ShutdownClose
  <2>1. PICK id \in Live : CloseConnection(id, "fully_closed")
    BY <1>9 DEF ShutdownClose
  <2>2. /\ UNCHANGED <<next_connection_id, next_token, exported, now, backlog, arrived, fd_limit>>
        /\ UNCHANGED <<timers, batch>>
    BY <1>9 DEF ShutdownClose, outside
  <2>3. "fully_closed" \in Finals /\ IsHeap(timers')
    BY <1>0, <2>2 DEF Finals, HeapInv
  <2> QED BY <1>0, <2>1, <2>2, <2>3, CloseKeepsTables, CloseKeepsHeap
<1>10. CASE ClientArrives
  <2>1. /\ UNCHANGED <<tables, timers, closes, exported, now, batch, fd_limit>>
        /\ arrived < Clients /\ arrived' = arrived + 1 /\ backlog' = backlog + 1
    BY <1>10 DEF ClientArrives
  <2>2. backlog' \in Nat /\ arrived' \in 0 .. Clients
        /\ next_connection_id - 1 + backlog' <= arrived'
    BY <1>0, <2>1
  <2> QED BY <1>0, <1>1, <2>1, <2>2
<1>11. CASE SignalArrives
  BY <1>2, <1>11 DEF SignalArrives
<1>12. CASE Tick
  <2>1. UNCHANGED <<tables, timers, closes, exported, batch, backlog, arrived, fd_limit>>
        /\ now < MaxTime /\ now' = now + 1
    BY <1>12 DEF Tick, outside
  <2>2. now' \in now .. MaxTime
    BY <1>0, <2>1
  <2> QED BY <1>0, <1>1, <2>1, <2>2
<1>13. CASE UNCHANGED vars
  BY <1>2, <1>13 DEF vars, outside
<1> QED BY <1>3, <1>4, <1>5, <1>6, <1>7, <1>8, <1>9, <1>10, <1>11, <1>12, <1>13 DEF Next, Loop

LEMMA LoopStep == Inv /\ [Next]_vars => LoopTypes' /\ Armed'
<1> SUFFICES ASSUME Inv, [Next]_vars PROVE LoopTypes' /\ Armed'
  OBVIOUS
<1>0. LoopTypes /\ Armed
  BY DEF Inv
<1>1. ASSUME UNCHANGED <<timerfd, last_armed_deadline>>, pc' # "wait" \/ UNCHANGED <<pc, timers>>
      PROVE  Armed'
  BY <1>0, <1>1 DEF Armed, NextDeadline, Times
<1>2. NextDeadline \subseteq Times
  <2>1. timers # <<>> => Head(timers) \in TimerEvents
    BY PoppedEntry DEF Inv, HeapInv
  <2> QED BY <2>1 DEF NextDeadline, TimerEvents
<1>3. CASE ArmTimerFd
  <2>1. LoopTypes'
    BY <1>0, <1>3 DEF ArmTimerFd, LoopTypes, outside
  <2>2. /\ last_armed_deadline' = NextDeadline
        /\ timerfd' = NextDeadline \/ (timerfd' = timerfd /\ NextDeadline = last_armed_deadline)
        /\ NextDeadline' = NextDeadline
    BY <1>3 DEF ArmTimerFd, NextDeadline
  <2>3. Times' = Times
    BY DEF Times
  <2> QED BY <1>0, <1>2, <2>1, <2>2, <2>3 DEF Armed
<1>4. CASE TimerReady
  <2>1. LoopTypes'
    BY <1>0, <1>4 DEF TimerReady, LoopTypes, outside
  <2>2. timerfd' \subseteq timerfd /\ last_armed_deadline' = {} /\ pc' = "timers"
    BY <1>4 DEF TimerReady
  <2>3. Times' = Times
    BY DEF Times
  <2> QED BY <1>0, <2>1, <2>2, <2>3 DEF Armed
<1>5. CASE EpollWait \/ BatchDone \/ ListenerReady \/ TimersDone \/ AcceptEnds \/ AcceptRejected
           \/ (\E connecting \in BOOLEAN : AcceptConnection(connecting))
  <2>1. LoopTypes'
    BY <1>0, <1>5 DEF EpollWait, BatchDone, ListenerReady, TimersDone, AcceptEnds, AcceptRejected,
                      AcceptConnection, Handle, LoopTypes, outside
  <2>2. Armed'
    BY <1>1, <1>5 DEF EpollWait, BatchDone, ListenerReady, TimersDone, AcceptEnds, AcceptRejected,
                      AcceptConnection, Handle
  <2> QED BY <2>1, <2>2
<1>6. CASE SignalReady
  <2>1. signals' \subseteq signals /\ stopping' \in BOOLEAN /\ pc' = pc
    BY <1>6 DEF SignalReady
  <2> QED BY <1>0, <1>1, <1>6, <2>1 DEF SignalReady, LoopTypes
<1>7. CASE SocketReady
  <2>1. pc = "batch" /\ UNCHANGED <<pc, stopping, signals, timerfd, last_armed_deadline>>
    BY <1>7 DEF SocketReady, Handle, outside
  <2> QED BY <1>0, <1>1, <2>1 DEF LoopTypes
<1>8. CASE ProcessTimer
  <2>1. pc = "timers" /\ UNCHANGED <<pc, stopping, signals, timerfd, last_armed_deadline>>
    BY <1>8 DEF ProcessTimer, outside
  <2> QED BY <1>0, <1>1, <2>1 DEF LoopTypes
<1>9. CASE ShutdownClose \/ Stop \/ Tick \/ ClientArrives
  <2>1. /\ UNCHANGED <<stopping, signals, timerfd, last_armed_deadline>>
        /\ pc' = "stopped" \/ UNCHANGED <<pc, timers>>
    BY <1>9 DEF ShutdownClose, Stop, Tick, ClientArrives, outside
  <2> QED BY <1>0, <1>1, <2>1 DEF LoopTypes
<1>10. CASE SignalArrives
  <2>1. signals' \subseteq Signals /\ UNCHANGED <<pc, timers, stopping, timerfd, last_armed_deadline>>
    BY <1>0, <1>10 DEF SignalArrives, LoopTypes
  <2> QED BY <1>0, <1>1, <2>1 DEF LoopTypes
<1>11. CASE UNCHANGED vars
  BY <1>0, <1>1, <1>11 DEF vars, outside, LoopTypes
<1> QED BY <1>3, <1>4, <1>5, <1>6, <1>7, <1>8, <1>9, <1>10, <1>11 DEF Next, Loop

LEMMA Invariance == Spec => []Inv
<1>1. Init => Inv
  BY InitTables DEF Inv
<1>2. Inv /\ [Next]_vars => Inv'
  BY TablesStep, LoopStep DEF Inv
<1> QED BY <1>1, <1>2, PTL DEF Spec
-----------------------------------------------------------------------------
\* Types: no counter, deadline, token or descriptor leaves its range.
THEOREM RuntimeTypeCorrect == Spec => []TypeOK
<1>1. Inv => TypeOK
  <2> SUFFICES ASSUME Inv PROVE TypeOK
    OBVIOUS
  <2>1. /\ next_connection_id \in Nat \ {0} /\ Clients \in Nat
        /\ next_connection_id - 1 <= Clients
    BY RuntimeAssumption DEF Inv, TableInv, Counters
  <2>2. Live \subseteq 1 .. Clients
    BY <2>1 DEF Inv, TableInv, ConnectionsTyped
  <2>3. closes \in [Finals -> 0 .. Clients]
    <3>1. /\ closes \in [Finals -> Nat] /\ Cardinality(Live) \in Nat
          /\ next_connection_id - 1 = Cardinality(Live) + closes["fully_closed"] + closes["reset"]
                                        + closes["failed"] + closes["timed_out"]
      BY TablesFinite DEF Inv, TableInv, CountsBalance, Balances, Metrics
    <3>2. \A f \in Finals : closes[f] \in 0 .. Clients
      BY <2>1, <3>1 DEF Finals
    <3> QED BY <3>1, <3>2
  <2>4. \A id \in Live :
          connections[id] \in [connecting : BOOLEAN, last_activity : 0 .. now, born : 0 .. now,
                               scheduled_wake : SUBSET Times, client_fd : Fds, upstream_fd : Fds]
    BY DEF Inv, TableInv, ConnectionsTyped, ConnectionRecords
  <2>5. timers \in Seq([deadline : Times, connection : 1 .. Clients,
                        kind : {"pump", "connect", "idle"}])
    BY DEF Inv, HeapInv, IsHeap, TimerEvents
  <2>6. \A t \in DOMAIN bindings : t > TimerToken /\ t < next_token
    BY DEF Inv, TableInv, TokensBound
  <2>7. timerfd \subseteq Times /\ last_armed_deadline \subseteq Times
    BY DEF Inv, Armed
  <2> QED BY <2>2, <2>3, <2>4, <2>5, <2>6, <2>7 DEF TypeOK, Inv, LoopTypes
<1> QED BY <1>1, Invariance, PTL

\* A stale event is harmless: it never reaches a connection other than the one
\* it was reported for, whatever was closed and accepted earlier in the batch.
THEOREM EventsFindTheirSocket == Spec => []EventsReachTheirSocket
<1>1. Inv => EventsReachTheirSocket
  BY DEF Inv, TableInv, EventsKnown, TokensBound, EventsReachTheirSocket
<1> QED BY <1>1, Invariance, PTL

\* The connection table, the token table and the descriptors always agree.
THEOREM TablesStayInAgreement == Spec => []TablesAgree
<1>1. Inv => TablesAgree
  <2> SUFFICES ASSUME Inv PROVE TablesAgree
    OBVIOUS
  <2>1. ASSUME NEW id \in Live, NEW side \in {"Client", "Upstream"}
        PROVE  Cardinality({t \in DOMAIN bindings :
                              bindings[t] = [connection |-> id, side |-> side]}) = 1
    <3>1. PICK t \in DOMAIN bindings : \A u \in DOMAIN bindings :
                 bindings[u] = [connection |-> id, side |-> side] <=> u = t
      BY DEF Inv, TableInv, TokensBound
    <3>2. {u \in DOMAIN bindings : bindings[u] = [connection |-> id, side |-> side]} = {t}
      BY <3>1
    <3> QED BY <3>2, FS_Singleton
  <2>2. \A t \in DOMAIN bindings : bindings[t].connection \in Live
    BY DEF Inv, TableInv, TokensBound
  <2>3. Cardinality(UsedFds) = 2 * Cardinality(Live)
    BY DEF Inv, TableInv, DescriptorsApart
  <2> QED BY <2>1, <2>2, <2>3 DEF TablesAgree
<1> QED BY <1>1, Invariance, PTL

\* The limit, as part of an inductive invariant: a step adds one connection below
\* the limit, or none.
Limited == Cardinality(Live) <= MaxConnections

LEMMA LimitedStep == Inv /\ Limited /\ [Next]_vars => Limited'
<1> SUFFICES ASSUME Inv, Limited, [Next]_vars PROVE Limited'
  OBVIOUS
<1>0. IsFiniteSet(Live) /\ Cardinality(Live) \in Nat /\ MaxConnections \in Nat
  BY TablesFinite, RuntimeAssumption DEF Inv
<1>1. ASSUME Live' \subseteq Live PROVE Limited'
  <2>1. Cardinality(Live') \in Nat /\ Cardinality(Live') <= Cardinality(Live)
    BY <1>0, <1>1, FS_Subset, FS_CardinalityType
  <2> QED BY <1>0, <2>1 DEF Limited
<1>2. ASSUME connections' = connections PROVE Limited'
  BY <1>1, <1>2 DEF Live
<1>3. ASSUME NEW id, NEW final, CloseConnection(id, final) PROVE Limited'
  <2>1. Live' \subseteq Live
    BY <1>3 DEF CloseConnection, Restrict, Live
  <2> QED BY <1>1, <2>1
<1>4. ASSUME NEW id, NEW before, NEW heap, PumpConnection(id, before, heap) PROVE Limited'
  <2>1. Live' \subseteq Live
    BY <1>4 DEF PumpConnection, Live
  <2> QED BY <1>1, <2>1
<1>5. ASSUME NEW connecting \in BOOLEAN, AcceptConnection(connecting) PROVE Limited'
  <2>1. Live' = Live \cup {next_connection_id} /\ ~AtLimit
    BY <1>5 DEF AcceptConnection, Live
  <2>2. Cardinality(Live') <= Cardinality(Live) + 1 /\ Cardinality(Live') \in Nat
    BY <1>0, <2>1, FS_AddElement
  <2> QED BY <1>0, <2>1, <2>2 DEF Limited, AtLimit
<1>6. CASE \/ EpollWait \/ BatchDone \/ ArmTimerFd \/ SignalReady
           \/ ListenerReady \/ AcceptEnds \/ AcceptRejected \/ TimerReady \/ TimersDone
           \/ Stop \/ ClientArrives \/ SignalArrives \/ Tick \/ UNCHANGED vars
  <2>1. connections' = connections
    BY <1>6 DEF EpollWait, BatchDone, ArmTimerFd, SignalReady, ListenerReady, AcceptEnds,
                AcceptRejected, TimerReady, TimersDone, Stop, ClientArrives, SignalArrives, Tick,
                vars, tables
  <2> QED BY <1>2, <2>1
<1>7. CASE SocketReady
  BY <1>2, <1>3, <1>4, <1>7 DEF SocketReady, SocketResult
<1>8. CASE ProcessTimer
  BY <1>2, <1>3, <1>4, <1>8 DEF ProcessTimer
<1>9. CASE ShutdownClose
  BY <1>3, <1>9 DEF ShutdownClose
<1> QED BY <1>5, <1>6, <1>7, <1>8, <1>9 DEF Next, Loop

\* However clients come and go, the connection limit holds, and every connection
\* accepted is active or was counted as closed exactly once, in memory and in the
\* metrics file.
THEOREM AdmissionStaysAccounted == Spec => []AdmissionAccounted
<1>1. Init => Limited
  <2>1. ASSUME Init PROVE Live = {}
    BY <2>1 DEF Init, Live
  <2> QED BY <2>1, FS_EmptySet, RuntimeAssumption DEF Limited
<1>2. Spec => [](Inv /\ Limited)
  BY <1>1, Invariance, LimitedStep, PTL DEF Spec
<1>3. Inv /\ Limited => AdmissionAccounted
  BY DEF Inv, TableInv, CountsBalance, Limited, AdmissionAccounted
<1> QED BY <1>2, <1>3, PTL

\* arm_timer_fd's shortcut is safe: whenever the loop waits, the timerfd fires in
\* time for the earliest entry of the heap.
THEOREM TimerfdKeepsUp == Spec => []TimerfdCoversHeap
<1>1. Inv => TimerfdCoversHeap
  <2> SUFFICES ASSUME Inv, pc = "wait", timers # <<>>
               PROVE  \E d \in timerfd : d <= Head(timers).deadline
    BY DEF TimerfdCoversHeap
  <2>1. Head(timers).deadline \in timerfd
    BY DEF Inv, Armed, NextDeadline
  <2>2. Head(timers).deadline \in Nat
    <3>1. Head(timers) \in TimerEvents
      BY PoppedEntry DEF Inv, HeapInv
    <3> QED BY <3>1, TimesReach DEF TimerEvents
  <2> QED BY <2>1, <2>2
<1> QED BY <1>1, Invariance, PTL

\* Timeouts are enforced: when the loop waits and no timer is due, nobody has been
\* connecting or idle for longer than allowed.
THEOREM NobodyEverOverstays == Spec => []NobodyOverstays
<1>1. Inv => NobodyOverstays
  <2> SUFFICES ASSUME Inv, pc = "wait", ~TimerReadable, NEW id \in Live
               PROVE  /\ IdleTimeout > 0 => now < connections[id].last_activity + IdleTimeout
                      /\ ConnectTimeout > 0 /\ connections[id].connecting
                           => now < connections[id].born + ConnectTimeout
    BY DEF NobodyOverstays
  <2>1. /\ now \in Nat /\ IdleTimeout \in Nat /\ ConnectTimeout \in Nat
        /\ connections[id].last_activity \in Nat /\ connections[id].born \in Nat
    BY RuntimeAssumption DEF Inv, TableInv, Counters, ConnectionsTyped, ConnectionRecords
  <2>2. ASSUME NEW e \in Range(timers) PROVE now < e.deadline /\ e.deadline \in Nat
    <3>1. timers # <<>>
      BY DEF Range
    <3>2. /\ Head(timers) \in TimerEvents /\ Head(timers).deadline <= e.deadline
          /\ e.deadline \in Nat
      BY <3>1, PoppedEntry, EntriesTyped DEF Inv, HeapInv
    <3>3. Head(timers).deadline \in timerfd
      BY <3>1 DEF Inv, Armed, NextDeadline
    <3>4. ~(Head(timers).deadline <= now)
      BY <3>3 DEF TimerReadable
    <3>5. Head(timers).deadline \in Nat
      BY <3>2, TimesReach DEF TimerEvents
    <3> QED BY <2>1, <3>2, <3>4, <3>5
  <2>3. Covered(Range(timers), id, connections[id])
    BY DEF Inv, HeapInv
  <2>4. ASSUME IdleTimeout > 0 PROVE now < connections[id].last_activity + IdleTimeout
    BY <2>1, <2>2, <2>3, <2>4 DEF Covered
  <2>5. ASSUME ConnectTimeout > 0, connections[id].connecting
        PROVE  now < connections[id].born + ConnectTimeout
    BY <2>1, <2>2, <2>3, <2>5 DEF Covered
  <2> QED BY <2>4, <2>5
<1> QED BY <1>1, Invariance, PTL

\* What TimeoutsAreEarned says of a step.
TimeoutStep ==
  closes'["timed_out"] > closes["timed_out"] =>
    \A id \in Live \ DOMAIN connections' :
      \/ connections[id].connecting /\ now >= connections[id].born + ConnectTimeout
      \/ IdleTimeout > 0 /\ now >= connections[id].last_activity + IdleTimeout

\* A close for another reason is not counted as a timeout.
LEMMA OtherCloses ==
  ASSUME Inv, closes' = closes \/ (\E id \in Live, final \in Finals \ {"timed_out"} :
                                      CloseConnection(id, final))
  PROVE  TimeoutStep
<1>1. closes'["timed_out"] = closes["timed_out"] /\ closes["timed_out"] \in Nat
  <2>1. closes \in [Finals -> Nat]
    BY DEF Inv, TableInv, CountsBalance
  <2>2. CASE closes' = closes
    BY <2>1, <2>2 DEF Finals
  <2>3. ASSUME NEW id \in Live, NEW final \in Finals \ {"timed_out"}, CloseConnection(id, final)
        PROVE  closes'["timed_out"] = closes["timed_out"] /\ closes["timed_out"] \in Nat
    BY <2>1, <2>3 DEF CloseConnection, Finals
  <2> QED BY <2>2, <2>3
<1> QED BY <1>1 DEF TimeoutStep

LEMMA TimeoutsOnlyWhenDue == Inv /\ [Next]_vars => [TimeoutStep]_vars
<1> SUFFICES ASSUME Inv, [Next]_vars PROVE TimeoutStep
  OBVIOUS
<1>1. CASE \/ EpollWait \/ BatchDone \/ ArmTimerFd \/ SignalReady
           \/ ListenerReady \/ AcceptEnds \/ AcceptRejected
           \/ (\E connecting \in BOOLEAN : AcceptConnection(connecting))
           \/ TimerReady \/ TimersDone \/ Stop
           \/ ClientArrives \/ SignalArrives \/ Tick \/ UNCHANGED vars
  <2>1. closes' = closes
    BY <1>1 DEF EpollWait, BatchDone, ArmTimerFd, SignalReady, ListenerReady, AcceptEnds,
                AcceptRejected, AcceptConnection, TimerReady, TimersDone, Stop, ClientArrives,
                SignalArrives, Tick, vars
  <2> QED BY <2>1, OtherCloses
<1>2. CASE ShutdownClose
  BY <1>2, OtherCloses DEF ShutdownClose, Finals
<1>3. CASE SocketReady
  <2>1. PICK e \in batch :
           IF e.token \in DOMAIN bindings
           THEN SocketResult(bindings[e.token].connection, bindings[e.token].side)
           ELSE UNCHANGED <<connections, bindings, closes, timers>>
    BY <1>3 DEF SocketReady
  <2>2. CASE e.token \in DOMAIN bindings
    <3>1. PICK i \in Live : i = bindings[e.token].connection
      BY <2>2 DEF Inv, TableInv, TokensBound
    <3>2. SocketResult(i, bindings[e.token].side)
      BY <2>1, <2>2, <3>1
    <3> QED BY <3>2, OtherCloses DEF SocketResult, PumpConnection, Finals
  <2>3. CASE e.token \notin DOMAIN bindings
    BY <2>1, <2>3, OtherCloses
  <2> QED BY <2>2, <2>3
<1>4. CASE ProcessTimer
  <2> DEFINE entry == Head(timers)
             id == entry.connection
  <2>1. /\ timers # <<>> /\ entry.deadline <= now
    BY <1>4 DEF ProcessTimer
  <2>2. /\ entry \in Range(timers) /\ entry.deadline \in Nat /\ now \in Nat
        /\ IdleTimeout \in Nat /\ ConnectTimeout \in Nat
    <3>1. entry \in Range(timers)
      BY <2>1, PoppedEntry DEF Inv, HeapInv
    <3> QED BY <3>1, EntriesTyped, RuntimeAssumption DEF Inv, HeapInv, TableInv, Counters
  <2>3. Genuine(entry)
    BY <2>2 DEF Inv, HeapInv
  <2>4. ASSUME id \in Live, CloseConnection(id, "timed_out"),
               \/ connections[id].connecting /\ now >= connections[id].born + ConnectTimeout
               \/ IdleTimeout > 0 /\ now >= connections[id].last_activity + IdleTimeout
        PROVE  TimeoutStep
    <3>1. Live \ DOMAIN connections' \subseteq {id}
      BY <2>4 DEF CloseConnection, Restrict
    <3> QED BY <2>4, <3>1 DEF TimeoutStep
  <2>5. ASSUME id \in Live, entry.kind = "connect", ConnectExpired(id),
               CloseConnection(id, "timed_out")
        PROVE  TimeoutStep
    <3>1. entry.deadline >= connections[id].born + ConnectTimeout /\ connections[id].connecting
      BY <2>3, <2>5 DEF Genuine, ConnectExpired
    <3>2. connections[id].born \in Nat
      <4>1. \A i \in Live : connections[i].born \in Nat
        BY DEF Inv, TableInv, ConnectionsTyped, ConnectionRecords, Counters
      <4> QED BY <2>5, <4>1
    <3>3. now >= connections[id].born + ConnectTimeout
      BY <2>1, <2>2, <3>1, <3>2
    <3> QED BY <2>4, <2>5, <3>1, <3>3
  <2>6. ASSUME id \in Live, entry.kind = "idle", IdleExpired(id), CloseConnection(id, "timed_out")
        PROVE  TimeoutStep
    BY <2>3, <2>4, <2>6 DEF Genuine, IdleExpired
  <2>7. CASE \/ closes' = closes
             \/ id \in Live /\ \E final \in {"reset", "failed", "fully_closed"} :
                                  CloseConnection(id, final)
    BY <2>7, OtherCloses DEF Finals
  <2>8. \/ closes' = closes
        \/ id \in Live /\ \E final \in {"reset", "failed", "fully_closed"} :
                             CloseConnection(id, final)
        \/ /\ id \in Live /\ entry.kind = "connect" /\ ConnectExpired(id)
           /\ CloseConnection(id, "timed_out")
        \/ /\ id \in Live /\ entry.kind = "idle" /\ IdleExpired(id)
           /\ CloseConnection(id, "timed_out")
    BY <1>4 DEF ProcessTimer, PumpConnection
  <2> HIDE DEF entry, id
  <2> QED BY <2>5, <2>6, <2>7, <2>8
<1> QED BY <1>1, <1>2, <1>3, <1>4 DEF Next, Loop

\* A connection is closed as timed out only for what it was at that moment:
\* connecting for too long, or without traffic for too long.
THEOREM TimeoutsHold == Spec => TimeoutsAreEarned
<1>1. Spec => [][TimeoutStep]_vars
  BY Invariance, TimeoutsOnlyWhenDue, PTL DEF Spec
<1> QED BY <1>1 DEF TimeoutsAreEarned, TimeoutStep
=============================================================================
