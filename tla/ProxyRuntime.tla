---------------------------- MODULE ProxyRuntime ----------------------------
(***************************************************************************)
(* netfault::ProxyRuntime (proxy.cpp) around the relays: the event loop    *)
(* over listener, signalfd, timerfd and sockets, the connection and token  *)
(* tables, the timer heap with connect, idle and pump entries, the arming  *)
(* of the timerfd, admission and shutdown.                                 *)
(*                                                                         *)
(* What a relay does with its bytes is module Relay; here an event on one  *)
(* of its sockets ends in any result its handlers may return.              *)
(***************************************************************************)
EXTENDS Integers, Sequences, FiniteSets, SequencesExt, Functions

CONSTANTS
  MaxConnections,   \* max_connections
  ConnectTimeout,   \* connect_timeout (0: disabled)
  IdleTimeout,      \* idle_timeout (0: disabled)
  WakeDelays,       \* bound: how far ahead a relay asks to be woken
  FdLimits,         \* external: how many descriptors the process may have for sockets
  Clients,          \* bound: clients that ever connect
  Signals,          \* the signals that are sent, of "SIGUSR1" and "SIGTERM"
  MaxTime           \* bound: the clock stops here

ASSUME RuntimeAssumption ==
  /\ MaxConnections \in Nat \ {0}
  /\ ConnectTimeout \in Nat /\ IdleTimeout \in Nat
  /\ WakeDelays \subseteq Nat \ {0}
  /\ WakeDelays # {} => \E longest \in WakeDelays : \A k \in WakeDelays : k <= longest
  /\ FdLimits \subseteq Nat /\ Clients \in Nat /\ MaxTime \in Nat
  /\ Signals \subseteq {"SIGUSR1", "SIGTERM"}

VARIABLES
  connections,          \* connections_, by id
  bindings,             \* bindings_: token -> connection id and side
  next_connection_id, next_token,
  timers,               \* timer_queue_: entries by (deadline, sequence)
  last_armed_deadline,  \* an optional time: a set with at most one element
  closes,               \* closes_fully_closed_, _reset_, _failed_, _timed_out_
  exported,             \* the last metrics document written
  pc, batch, stopping,  \* the loop: its step, the events not handled yet
  now,
  backlog,              \* external: clients waiting to be accepted
  arrived,              \* external: clients that have connected so far
  signals,              \* external: pending on the signalfd
  fd_limit,             \* external: the descriptors of this process
  timerfd               \* external: what it is armed for; readable when past

tables == <<connections, bindings, next_connection_id, next_token>>
outside == <<backlog, arrived, signals, fd_limit>>
vars == <<tables, timers, last_armed_deadline, closes, exported, pc, batch, stopping, now,
          outside, timerfd>>

\* kListenerToken, kSignalToken, kTimerToken; sockets count from 4.
ListenerToken == 1
SignalToken == 2
TimerToken == 3

Finals == {"fully_closed", "reset", "failed", "timed_out"}
Live == DOMAIN connections
Metrics == [active |-> Cardinality(Live), accepted |-> next_connection_id - 1,
            closes |-> closes]

Init ==
  /\ connections = <<>> /\ bindings = <<>>
  /\ next_connection_id = 1 /\ next_token = 4
  /\ timers = <<>> /\ last_armed_deadline = {}
  /\ closes = [f \in Finals |-> 0]
  /\ exported = [active |-> 0, accepted |-> 0, closes |-> [f \in Finals |-> 0]]
  /\ pc = "wait" /\ batch = {} /\ stopping = FALSE
  /\ now = 0
  /\ backlog = 0 /\ arrived = 0 /\ signals = {} /\ timerfd = {}
  /\ fd_limit \in FdLimits

\* write_metrics_file: the document is replaced whole, or, when a system call
\* fails or no file is configured, not at all.
WriteMetricsFile == exported' \in {Metrics, exported}
-----------------------------------------------------------------------------
(* TimerQueue: a heap on (deadline, sequence), here the sorted sequence.   *)

TimerEvent(deadline, id, kind) ==
  [deadline |-> deadline, connection |-> id, kind |-> kind]

\* Later: a new entry has the highest sequence, so it pops after its equals.
NotLater(heap, deadline) == {i \in 1 .. Len(heap) : heap[i].deadline <= deadline}

\* Mutant: the newest entry goes to the front, whatever its deadline.
ScheduledFirst(heap, deadline, id, kind) == <<TimerEvent(deadline, id, kind)>> \o heap

\* TimerQueue::schedule
Scheduled(heap, deadline, id, kind) ==
  InsertAt(heap, Cardinality(NotLater(heap, deadline)) + 1, TimerEvent(deadline, id, kind))

\* TimerQueue::next_deadline
NextDeadline == IF timers = <<>> THEN {} ELSE {Head(timers).deadline}
-----------------------------------------------------------------------------
(* The outside: clients, signals, the clock.                               *)

ClientArrives ==
  /\ arrived < Clients /\ pc # "stopped"
  /\ arrived' = arrived + 1 /\ backlog' = backlog + 1
  /\ UNCHANGED <<tables, timers, last_armed_deadline, closes, exported, pc, batch, stopping,
                 now, signals, fd_limit, timerfd>>

SignalArrives ==
  /\ pc # "stopped"
  /\ \E s \in Signals \ signals : signals' = signals \cup {s}
  /\ UNCHANGED <<tables, timers, last_armed_deadline, closes, exported, pc, batch, stopping,
                 now, backlog, arrived, fd_limit, timerfd>>

\* Each handler reads the clock once: it does not move inside one.
Tick ==
  /\ pc \in {"wait", "batch", "accept", "arm"} /\ now < MaxTime
  /\ now' = now + 1
  /\ UNCHANGED <<tables, timers, last_armed_deadline, closes, exported, pc, batch, stopping,
                 outside, timerfd>>

TimerReadable == \E d \in timerfd : d <= now
-----------------------------------------------------------------------------
(* ProxyRuntime::run                                                       *)

\* Which sockets are ready is up to the peers; an event remembers, for the
\* properties only, the connection whose socket it was reported for.
SocketEvents == {[token |-> t, about |-> bindings[t].connection] : t \in DOMAIN bindings}
OwnEvents ==
  {[token |-> t, about |-> 0] :
     t \in (IF backlog > 0 THEN {ListenerToken} ELSE {})
           \cup (IF signals # {} THEN {SignalToken} ELSE {})
           \cup (IF TimerReadable THEN {TimerToken} ELSE {})}

EpollWait ==
  /\ pc = "wait"
  /\ batch' \in SUBSET (OwnEvents \cup SocketEvents) \ {{}}
  /\ pc' = "batch"
  /\ UNCHANGED <<tables, timers, last_armed_deadline, closes, exported, stopping, now,
                 outside, timerfd>>

BatchDone ==
  /\ pc = "batch" /\ (batch = {} \/ stopping)
  /\ pc' = "arm" /\ batch' = {}
  /\ UNCHANGED <<tables, timers, last_armed_deadline, closes, exported, stopping, now,
                 outside, timerfd>>

Handle(token) ==
  /\ pc = "batch" /\ ~stopping
  /\ \E e \in batch : e.token = token /\ batch' = batch \ {e}

\* Mutant: once armed, the timerfd is left alone until it fires.
ArmTimerFdWhenIdle ==
  /\ pc = "arm"
  /\ IF last_armed_deadline # {}
     THEN UNCHANGED <<timerfd, last_armed_deadline>>
     ELSE timerfd' = NextDeadline /\ last_armed_deadline' = NextDeadline
  /\ pc' = IF stopping THEN "shutdown" ELSE "wait"
  /\ UNCHANGED <<tables, timers, closes, exported, batch, stopping, now, outside>>

\* Mutant: the loop goes on after a termination signal.
ArmTimerFdKeepsRunning ==
  /\ pc = "arm" /\ pc' = "wait"
  /\ timerfd' = NextDeadline /\ last_armed_deadline' = NextDeadline
  /\ UNCHANGED <<tables, timers, closes, exported, batch, stopping, now, outside>>

\* arm_timer_fd at the end of the batch; then the next round, or the end.
ArmTimerFd ==
  /\ pc = "arm"
  /\ IF NextDeadline = last_armed_deadline
     THEN UNCHANGED <<timerfd, last_armed_deadline>>
     ELSE timerfd' = NextDeadline /\ last_armed_deadline' = NextDeadline
  /\ pc' = IF stopping THEN "shutdown" ELSE "wait"
  /\ UNCHANGED <<tables, timers, closes, exported, batch, stopping, now, outside>>

\* One read of the signalfd takes one signal, the one with the lowest number.
SignalReady ==
  /\ Handle(SignalToken)
  /\ LET s == IF "SIGUSR1" \in signals THEN "SIGUSR1" ELSE "SIGTERM"
     IN  /\ signals' = signals \ {s}
         /\ stopping' = (s = "SIGTERM")
         /\ IF s = "SIGUSR1" THEN WriteMetricsFile ELSE UNCHANGED exported
  /\ UNCHANGED <<tables, timers, last_armed_deadline, closes, pc, now, backlog, arrived,
                 fd_limit, timerfd>>
-----------------------------------------------------------------------------
(* accept_ready: one step per accept4, until it has nothing more to give.  *)

ListenerReady ==
  /\ Handle(ListenerToken)
  /\ pc' = "accept"
  /\ UNCHANGED <<tables, timers, last_armed_deadline, closes, exported, stopping, now,
                 outside, timerfd>>

Fds == 1 .. fd_limit
UsedFds == UNION {{connections[id].client_fd, connections[id].upstream_fd} : id \in Live}
FreeFds == Fds \ UsedFds
Lowest(S) == CHOOSE x \in S : \A y \in S : x <= y

\* EAGAIN; or an error that leaves the client in the backlog (EMFILE) or that
\* takes it out (ECONNABORTED).
AcceptEnds ==
  /\ pc = "accept"
  /\ \/ (backlog = 0 \/ FreeFds = {}) /\ UNCHANGED backlog
     \/ backlog > 0 /\ backlog' = backlog - 1
  /\ pc' = "batch"
  /\ UNCHANGED <<tables, timers, last_armed_deadline, closes, exported, batch, stopping,
                 now, arrived, signals, fd_limit, timerfd>>

\* Mutant: the comparison is off by one.
AtLimitLate == Cardinality(Live) > MaxConnections

\* accept_ready's test of max_connections, made after the client is accepted.
AtLimit == Cardinality(Live) >= MaxConnections

\* Mutant: at the connection limit the client is left in the backlog.
AcceptRejectedDeferred ==
  /\ pc = "accept" /\ backlog > 0 /\ FreeFds # {}
  /\ backlog' = IF AtLimit THEN backlog ELSE backlog - 1
  /\ pc' = IF AtLimit THEN "batch" ELSE pc
  /\ UNCHANGED <<tables, timers, last_armed_deadline, closes, exported, batch, stopping,
                 now, arrived, signals, fd_limit, timerfd>>

\* The client is closed again: too many connections, no descriptor for the
\* upstream socket, or connect() fails at once.
AcceptRejected ==
  /\ pc = "accept" /\ backlog > 0 /\ FreeFds # {}
  /\ backlog' = backlog - 1
  /\ UNCHANGED <<tables, timers, last_armed_deadline, closes, exported, pc, batch, stopping,
                 now, arrived, signals, fd_limit, timerfd>>

\* Mutant: a socket is known to epoll by its descriptor.
TokensByFd(client_fd, upstream_fd) == <<client_fd + 3, upstream_fd + 3>>

\* Mutant: tokens are taken after the increment.
TokensPreIncrement(client_fd, upstream_fd) == <<next_token + 1, next_token + 2>>

\* next_token_++ for each socket: a token is never used twice.
Tokens(client_fd, upstream_fd) == <<next_token, next_token + 1>>

AcceptConnection(connecting) ==
  LET id          == next_connection_id
      client_fd   == Lowest(FreeFds)
      upstream_fd == Lowest(FreeFds \ {client_fd})
      tokens      == Tokens(client_fd, upstream_fd)
      connection  == [connecting |-> connecting, last_activity |-> now,
                      scheduled_wake |-> {}, client_fd |-> client_fd,
                      upstream_fd |-> upstream_fd, born |-> now]
      bound       == [t \in {tokens[1], tokens[2]} |->
                        [connection |-> id,
                         side |-> IF t = tokens[1] THEN "Client" ELSE "Upstream"]]
      connect     == IF connecting /\ ConnectTimeout > 0
                     THEN Scheduled(timers, now + ConnectTimeout, id, "connect")
                     ELSE timers
  IN  /\ pc = "accept" /\ backlog > 0
      /\ ~AtLimit /\ Cardinality(FreeFds) >= 2
      /\ backlog' = backlog - 1
      /\ connections' = [c \in Live \cup {id} |-> IF c = id THEN connection ELSE connections[c]]
      /\ bindings' = [t \in DOMAIN bound \cup DOMAIN bindings |->
                        IF t \in DOMAIN bound THEN bound[t] ELSE bindings[t]]
      /\ next_connection_id' = id + 1 /\ next_token' = next_token + 2
      /\ timers' = IF IdleTimeout > 0
                   THEN Scheduled(connect, now + IdleTimeout, id, "idle") ELSE connect
      /\ UNCHANGED <<last_armed_deadline, closes, exported, pc, batch, stopping, now,
                     arrived, signals, fd_limit, timerfd>>
-----------------------------------------------------------------------------
(* close_connection and what a relay's handlers may end in.                *)

\* Mutant: the tokens of a closed connection stay bound.
CloseConnectionKeepsTokens(id, final) ==
  /\ connections' = Restrict(connections, Live \ {id})
  /\ closes' = [closes EXCEPT ![final] = @ + 1]
  /\ UNCHANGED bindings

\* Mutant: a timeout is not counted.
CloseConnectionUncounted(id, final) ==
  /\ connections' = Restrict(connections, Live \ {id})
  /\ bindings' = Restrict(bindings, {t \in DOMAIN bindings : bindings[t].connection # id})
  /\ closes' = [closes EXCEPT ![final] = IF final = "timed_out" THEN @ ELSE @ + 1]

CloseConnection(id, final) ==
  /\ connections' = Restrict(connections, Live \ {id})
  /\ bindings' = Restrict(bindings, {t \in DOMAIN bindings : bindings[t].connection # id})
  /\ closes' = [closes EXCEPT ![final] = @ + 1]

\* A pump that leaves the connection open: bytes may have moved, and the relay
\* may ask to be woken (never while connecting: nothing can be sent yet).
\* schedule_relay_wake enters only a wake earlier than the one scheduled.
PumpConnection(id, before, heap) ==
  \E activity \in {before.last_activity, now} :
  \E wake \in {{}} \cup (IF before.connecting THEN {} ELSE {{now + k} : k \in WakeDelays}) :
     LET schedule == wake # {} /\ \A w \in wake, s \in before.scheduled_wake : w < s
     IN  /\ connections' = [connections EXCEPT ![id] =
              [before EXCEPT !.last_activity = activity,
                             !.scheduled_wake = IF schedule THEN wake ELSE @]]
         /\ timers' = IF schedule
                      THEN Scheduled(heap, CHOOSE w \in wake : TRUE, id, "pump") ELSE heap
         /\ UNCHANGED <<bindings, closes>>

\* The results of socket_ready for a bound token.
SocketResult(id, side) ==
  LET before == connections[id]
  IN  \/ /\ UNCHANGED timers
         /\ \E final \in {"reset", "failed"} : CloseConnection(id, final)
      \/ /\ UNCHANGED timers
         /\ side = "Upstream" \/ ~before.connecting
         /\ CloseConnection(id, "fully_closed")
      \/ PumpConnection(id, before, timers)
      \/ /\ side = "Upstream" /\ before.connecting
         /\ PumpConnection(id, [before EXCEPT !.connecting = FALSE], timers)

SocketReady ==
  /\ \E e \in batch :
        /\ e.token > TimerToken /\ Handle(e.token)
        /\ IF e.token \in DOMAIN bindings
           THEN SocketResult(bindings[e.token].connection, bindings[e.token].side)
           ELSE UNCHANGED <<connections, bindings, closes, timers>>
  /\ UNCHANGED <<next_connection_id, next_token, last_armed_deadline, exported, pc,
                 stopping, now, outside, timerfd>>
-----------------------------------------------------------------------------
(* The timerfd: drain_timer_fd, then process_due_timers, one entry a step. *)

TimerReady ==
  /\ Handle(TimerToken)
  /\ timerfd' = IF TimerReadable THEN {} ELSE timerfd
  /\ last_armed_deadline' = {}
  /\ pc' = "timers"
  /\ UNCHANGED <<tables, timers, closes, exported, stopping, now, outside>>

\* Mutant: an idle entry closes the connection without looking at its activity.
IdleExpiredStale(id) == TRUE

IdleExpired(id) == now >= connections[id].last_activity + IdleTimeout

\* Mutant: the test is inverted.
ConnectExpiredInverted(id) == ~connections[id].connecting

ConnectExpired(id) == connections[id].connecting

\* An entry for a closed connection is discarded; the others act.
ProcessTimer ==
  LET entry == Head(timers)
      rest  == Tail(timers)
      id    == entry.connection
  IN  /\ pc = "timers" /\ timers # <<>> /\ entry.deadline <= now
      /\ \/ /\ id \notin Live
            /\ timers' = rest /\ UNCHANGED <<connections, bindings, closes>>
         \/ /\ id \in Live /\ entry.kind = "pump"
            /\ \/ /\ timers' = rest
                  /\ \E final \in {"reset", "failed", "fully_closed"} :
                        CloseConnection(id, final)
               \/ PumpConnection(id,
                    [connections[id] EXCEPT !.scheduled_wake = {w \in @ : w > now}], rest)
         \/ /\ id \in Live /\ entry.kind = "connect"
            /\ timers' = rest
            /\ IF ConnectExpired(id) THEN CloseConnection(id, "timed_out")
               ELSE UNCHANGED <<connections, bindings, closes>>
         \/ /\ id \in Live /\ entry.kind = "idle"
            /\ IF IdleExpired(id)
               THEN timers' = rest /\ CloseConnection(id, "timed_out")
               ELSE /\ timers' = Scheduled(rest, connections[id].last_activity + IdleTimeout,
                                           id, "idle")
                    /\ UNCHANGED <<connections, bindings, closes>>
      /\ UNCHANGED <<next_connection_id, next_token, last_armed_deadline, exported, pc,
                     batch, stopping, now, outside, timerfd>>

TimersDone ==
  /\ pc = "timers"
  /\ \A d \in NextDeadline : d > now
  /\ pc' = "batch"
  /\ UNCHANGED <<tables, timers, last_armed_deadline, closes, exported, batch, stopping,
                 now, outside, timerfd>>
-----------------------------------------------------------------------------
(* The end of run: close what is left, write the metrics.                  *)

ShutdownClose ==
  /\ pc = "shutdown"
  /\ \E id \in Live : CloseConnection(id, "fully_closed")
  /\ UNCHANGED <<next_connection_id, next_token, timers, last_armed_deadline, exported, pc,
                 batch, stopping, now, outside, timerfd>>

Stop ==
  /\ pc = "shutdown" /\ Live = {}
  /\ WriteMetricsFile
  /\ pc' = "stopped"
  /\ UNCHANGED <<tables, timers, last_armed_deadline, closes, batch, stopping, now,
                 outside, timerfd>>
-----------------------------------------------------------------------------
Loop ==
  \/ EpollWait \/ BatchDone \/ ArmTimerFd \/ SignalReady
  \/ ListenerReady \/ AcceptEnds \/ AcceptRejected
  \/ \E connecting \in BOOLEAN : AcceptConnection(connecting)
  \/ SocketReady \/ TimerReady \/ ProcessTimer \/ TimersDone
  \/ ShutdownClose \/ Stop

Next == Loop \/ ClientArrives \/ SignalArrives \/ Tick

Spec == Init /\ [][Next]_vars

\* The process runs and time passes.  epoll queues ready descriptors in turn, so
\* a listener, signalfd or timerfd that stays ready is reported sooner or later.
Reports(token) == EpollWait /\ \E e \in batch' : e.token = token

Fairness ==
  /\ WF_vars(Loop) /\ WF_vars(Tick)
  /\ \A token \in {ListenerToken, SignalToken, TimerToken} : SF_vars(Reports(token))

FairSpec == Spec /\ Fairness
-----------------------------------------------------------------------------
Times == 0 .. MaxTime + ConnectTimeout + IdleTimeout
           + (IF WakeDelays = {} THEN 0 ELSE CHOOSE m \in WakeDelays : \A k \in WakeDelays : k <= m)

\* The types; a bound token lies between the loop's own and the next one.
TypeOK ==
  /\ Live \subseteq 1 .. Clients
  /\ \A id \in Live :
        connections[id] \in [connecting : BOOLEAN, last_activity : 0 .. now, born : 0 .. now,
                             scheduled_wake : SUBSET Times, client_fd : Fds, upstream_fd : Fds]
  /\ \A t \in DOMAIN bindings : t > TimerToken /\ t < next_token
  /\ timers \in Seq([deadline : Times, connection : 1 .. Clients,
                     kind : {"pump", "connect", "idle"}])
  /\ closes \in [Finals -> 0 .. Clients]
  /\ timerfd \subseteq Times /\ last_armed_deadline \subseteq Times
  /\ pc \in {"wait", "batch", "accept", "timers", "arm", "shutdown", "stopped"}
  /\ signals \subseteq Signals /\ stopping \in BOOLEAN

\* docs/milestone-0-design.md:53, "a harmless stale lookup": an event of a batch
\* never reaches another connection than the one it was reported for, though
\* that one may be closed, and its descriptors reused, before the event's turn.
EventsReachTheirSocket ==
  \A e \in batch : e.token \in DOMAIN bindings =>
    /\ bindings[e.token].connection = e.about
    /\ e.about \in Live

\* Both sockets of every connection are bound, and nothing else is; no two
\* connections share a descriptor.
TablesAgree ==
  /\ \A id \in Live : \A side \in {"Client", "Upstream"} :
        Cardinality({t \in DOMAIN bindings : bindings[t] = [connection |-> id, side |-> side]}) = 1
  /\ \A t \in DOMAIN bindings : bindings[t].connection \in Live
  /\ Cardinality(UsedFds) = 2 * Cardinality(Live)

\* Whenever the loop waits, the timerfd fires in time for the earliest entry.
TimerfdCoversHeap ==
  pc = "wait" /\ timers # <<>> => \E d \in timerfd : d <= Head(timers).deadline

\* No connection outstays its limits: when the loop waits and no timer is due,
\* nobody has been connecting for ConnectTimeout or idle for IdleTimeout.
NobodyOverstays ==
  pc = "wait" /\ ~TimerReadable =>
    \A id \in Live :
      /\ IdleTimeout > 0 => now < connections[id].last_activity + IdleTimeout
      /\ ConnectTimeout > 0 /\ connections[id].connecting
           => now < connections[id].born + ConnectTimeout

\* A connection is closed as timed out only for what it was: connecting for too
\* long, or without traffic for too long, at the moment it is closed.
TimeoutsAreEarned ==
  [][closes'["timed_out"] > closes["timed_out"] =>
       \A id \in Live \ DOMAIN connections' :
         \/ connections[id].connecting /\ now >= connections[id].born + ConnectTimeout
         \/ IdleTimeout > 0 /\ now >= connections[id].last_activity + IdleTimeout]_vars

Balances(m) ==
  m.accepted = m.active + m.closes["fully_closed"] + m.closes["reset"]
                        + m.closes["failed"] + m.closes["timed_out"]

\* Every connection ever accepted is accounted for: however accepts and closes mix
\* within a batch, at most MaxConnections are active (accept_ready), and each other
\* one was counted as closed exactly once, in the counters (close_connection) as in
\* the document last written.
AdmissionAccounted ==
  /\ Cardinality(Live) <= MaxConnections
  /\ Balances(Metrics) /\ Balances(exported)

Connecting(id) == id \in Live /\ connections[id].connecting

\* With a connect timeout, connecting always ends, busy as the loop may be with
\* other sockets (for connections whose deadline the bounded clock reaches).
ConnectingEnds ==
  \A id \in 1 .. Clients :
    (Connecting(id) /\ connections[id].born + ConnectTimeout <= MaxTime) ~> ~Connecting(id)

\* No client is left waiting while there is a descriptor for it: it is accepted or,
\* at the connection limit too, closed; a failing accept4 (EMFILE) only defers it.
ClientsAnswered == []<>(backlog = 0 \/ FreeFds = {} \/ pc = "stopped")

\* A termination signal stops the proxy, whatever the peers do, once requests for
\* metrics cease: one signal is read a round, and SIGUSR1 has the lower number.
StopsOnSignal ==
  <>[]("SIGUSR1" \notin signals) => (("SIGTERM" \in signals) ~> (pc = "stopped"))
=============================================================================
