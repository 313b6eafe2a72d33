# A formal model of NetFault Lab

NetFault Lab is a TCP proxy that injects faults: latency, jitter, a rate limit,
half-closes and resets. One thread runs an epoll loop over a listener, a
signalfd, a timerfd and two sockets per connection. This directory holds TLA+
models of that program, TLC configurations that check them on small instances,
and TLAPS proofs that hold for every value of the parameters. Paths below are
relative to the repository; `relay.cpp` is `src/common/relay.cpp`, `proxy.cpp`
is `src/proxy/proxy.cpp`, headers are in `include/netfault/`.

## 1. Inventory

| Component | State | Operations | What makes it correct | Module |
|---|---|---|---|---|
| Byte queue (`byte_queue.hpp`) | ring storage, head, size | spans, `commit_write`, `consume` | bounded FIFO wherever the ring wraps | ByteQueue, DelayedQueue |
| Delay line (`delay_line.hpp`) | segments of equal eligibility, last eligibility | `on_commit`, `releasable`, `on_consume`, `next_eligible` | no byte early, none reordered, wake time exact | DelayLine, DelayedQueue |
| Token bucket (`token_bucket.hpp`) | tokens, carried remainder, time of last refill | `available`, `consume`, `eligible_at` | never above burst + rate x time, no accumulated rounding | TokenBucketOps, TokenBucket |
| Backpressure (`backpressure.hpp`) | paused flag, counters, paused time | `observe`, `paused_duration` | reads paused exactly between the watermarks; counters and time exact | Backpressure (in DelayedQueue), Relay (`Observe`) |
| Relay (`relay.cpp`) | open flags of both sides, two directions, byte counts | `handle_readable`, `flush`, `propagate_half_closes`, `desired_interest`, `next_wake`, `fully_drained` | no byte lost; EOF faithful; never waits for nothing | Relay |
| Timer queue (`timer_queue.hpp`) | heap of (deadline, sequence) | `schedule`, `pop_due`, `next_deadline` | order of deadlines, ties first come first served | in ProxyRuntime |
| Proxy runtime (`proxy.cpp`) | connection and token tables, timers, armed deadline, close counters | event dispatch, accept, connect completion, timeouts, close, shutdown | events reach their own socket, timers never missed, bounded admission, clean stop | ProxyRuntime, Relay |
| Fault plan (`fault_plan.hpp`) | parameters | `validate` | - | constants of Relay |
| Fault RNG (`fault_rng.hpp`) | 64-bit state | mixing, seeds | reproducible | not modelled |
| Metrics file (`proxy.cpp`, `write_metrics_file`) | file and temporary file | open, write, rename | readers never see half a document | MetricsFile; one step in ProxyRuntime |
| Socket I/O (`socket_io.cpp`) | - | `receive`, `send`, `shutdown_write` | each kernel answer becomes one status | in Relay (`Receive`, `Send`) |
| Connection state (`connection_state.hpp`) | derived from three flags | `derive_connection_state` | the reported state only moves forward | in Relay (`ConnectionState`) |
| Test server (`server/main.cpp`) | stop flag, worker slots | accept, reap, serve, stop | stops, and keeps no finished thread | TestBench |
| Benchmark client (`client/main.cpp`) | one connection's result | send, receive, verify | success only for a complete exchange; always ends | TestBench |
| Logger, command line, endpoints | - | I/O | - | not modelled |

**How they interact.** `ProxyRuntime::run` owns everything. epoll reports a
token; the token table gives connection and side; `socket_ready` calls the
connection's `Relay`, which reads into a direction's queue (stamping the delay
line), and `pump_connection` flushes both directions as far as sockets, delay
line and bucket allow, forwards ends of stream, then writes the new interest
masks to epoll and schedules a `Pump` timer if time alone blocks progress.
Timers are kept in one heap and one timerfd, armed at the end of each batch.
Connect and idle timeouts share that heap. Client and server are programs of
their own; the proxy lies on the path between them.

**What is hard here.** Nothing runs in parallel inside the proxy, but peers,
kernel and clock act between any two system calls (client and server do have
threads, which block in system calls with timeouts). An event of a batch may be
handled after the state it describes is gone. An interest mask or a scheduled
wake is a cached decision: if it goes stale a connection hangs, or the loop
spins. Deadlines of two directions share one recorded wake. Byte budgets,
watermarks and integer refills have boundaries that tests only sample.
`PROJECT.json` lists each such hazard with its line and the properties that
would catch it.

## 2. Modules

* **TokenBucketOps** - the arithmetic of the bucket as operators on a record,
  with `std::uint64_t` products modulo `WordSize`. Used by TokenBucket and Relay.
* **TokenBucket** - a bucket under arbitrary calls and clock, with a history
  variable `window` that opens at any moment and counts what is consumed since.
  **FluidBucket** is its specification: an ideal bucket that earns `Rate` units
  per instant up to the cap. The mapping is `credit = tokens * 10^9 + carry`.
* **ByteQueue**, **DelayLine**, **Backpressure** - the data structures of a
  direction as the relay calls them. **DelayedQueue** composes them the way
  `handle_readable` and `flush` do; **DelayedFifo** is what ring and segments
  promise: one FIFO of bytes that each have a time. Relay relies on this form: it
  counts bytes and keeps a time per byte.
* **Relay** - one connection: the relay, the part of the runtime that drives it,
  and two kernel sockets with their peers. A direction is named by its source.
* **ProxyRuntime** - the loop with many connections; a relay's handlers are
  reduced to the results they can return (stay open, with or without activity
  and a wake; close with some final state).
* **MetricsFile** - `write_metrics_file`, one step per system call, beside its
  readers; **AtomicFile** is what it promises, and what ProxyRuntime's
  `WriteMetricsFile` assumes: the document is replaced whole or not at all.
* **TestBench** - one connection of the client with the server, over a path that
  stands for the proxy: two bounded pipes that keep the order (what Relay's
  `Accounting` and `EofIsFaithful` and the FIFO refinement show), and that may
  break.
* The theorems: **TokenBucketLemmas** (arithmetic of the bucket, for TokenBucket and
  Relay), **TokenBucketProofs**, **DelayedQueueProofs**, **RelayProofs** and
  **RelayTimingProofs** (which builds on it), **ProxyRuntimeProofs**,
  **MetricsFileProofs**, **TestBenchProofs**.

In every module a definition called a mutant in its comment is a plausible
mistake in the definition that follows it; no specification uses one. They
document what each property is sensitive to.

### Relay: state and steps

`head`, `size`, `read_paused`, `stamps`, `last_eligible`, `bucket` are the two
`Direction`s; `read_open`, `write_open`, `upstream_connecting`,
`half_close_injected` the relay's flags; `interest`, `scheduled_wake`,
`pump_timers` what `ProxyRuntime` keeps for the connection; `link`, `rcv`, `fin`,
`err`, `sndq` are the kernel's. `pc` says where the loop stands.

| Action | Code |
|---|---|
| `EpollWait`, `SocketReady` | `run`, `socket_ready` up to `handle_readable` |
| `ReceiveBytes`, `ReceiveEof`, `ReceiveWouldBlock`, `ReceiveError`, `StopReading` | one turn each of the loop in `handle_readable` |
| `SendBytes`, `SendError`, `SkipFlush`, `EndFlush` | `flush`; `EndFlush` includes `check_lifecycle_faults` |
| `FinishPump` | `propagate_half_closes`, `refresh_or_close`, `apply_interest`, `schedule_relay_wake` |
| `TimerFired`, `PopDue`, `TimersDone` | the timer token and the Pump case of `process_due_timers` |
| `TimedOut` | the timeouts of `process_due_timers` that close |
| `ProxyShutdown` | the closing loop at the end of `run` |
| `PeerSend`, `PeerRead`, `PeerShutdown`, `PeerReset`, `ConnectCompletes`, `Tick` | outside the process |

The granularity is one step per system call, because that is where the outside
interleaves; pure computation between two calls belongs to the step. `Tick`
happens only between handlers because each handler reads the clock once and
passes `now` down. The socket conditions (`Conditions`) are those of Linux TCP:
ERR, HUP, RDHUP, IN and OUT are level-triggered; HUP needs both directions shut.
`Receive` and `Send` turn the same kernel state into the status that
`SystemSocketIo` returns.

When a timeout is due and when the proxy stops is ProxyRuntime's matter. In Relay
either may happen whenever the loop stands between two handlers; the constant
`Interruptions` says which of them a run has. A connection closed by a shutdown has
the outcome `proxy_shutdown` here, which `ReportedState` maps to `fully_closed`, the
state that `close_connection` is given; the outcome `fully_closed` is the relay's own
orderly close.

### ProxyRuntime: state and steps

`connections`, `bindings`, `next_connection_id`, `next_token`, `timers`,
`last_armed_deadline`, `closes` are the members of the same name; `exported` is
the last metrics document (`WriteMetricsFile` replaces it whole, or leaves it when
writing fails or no file is configured). The heap is a sequence sorted by deadline, later
entries behind equal ones. Descriptors are the lowest free ones, so they are
reused at once. `accept_ready` and `process_due_timers` take one step per turn of
their loops; other handlers one step. An event remembers (`about`) the
connection it was reported for; only a property looks at that. `fd_limit` is the
number of descriptors the process may have for sockets; with none left `accept4`
fails and the client stays in the backlog.

### MetricsFile and TestBench

In **MetricsFile** a name leads to an inode, and readers keep the inode they
opened. `Build`, `OpenTemporary`, `Write` (any part of the rest), `CloseTemporary`
and `Rename` are the function's calls in order. `GiveUp` is each of its error
returns and also a kill followed by a restart: both leave the files as they are,
including a half-written temporary file that the next attempt truncates.

In **TestBench** `writer` and `reader` are the client's two threads (one in
request-response mode), `worker` the server's thread for this connection,
`server` its accept loop. Each action is one turn of a loop around a blocking
call. Time is not counted. `plan.prompt` says that nothing takes long: then a
timeout expires only when nobody else can move (`Stalled`), and the server's one
second before the client's ten or thirty. Otherwise - slow-reader and slow-writer
modes, a loaded machine - any blocked call may time out. `plan.faulty` lets the
path break, connect fail and the server give up at any time.

## 3. Runs

| Run | Shows | Distinct states |
|---|---|---|
| `token_bucket` | the integer bucket earns and spends exactly what the fluid one does (`ImplementsFluid`), obeys the limit over any window and gives wake times that suffice and are late by at most the time one byte takes to earn | 8 thousand |
| `delayed_queue` | ring and delay segments together are a FIFO of timed bytes; spans are never empty without reason; the wake time is the next release; the backpressure counters agree with the queue and the paused time is exact | 31 thousand |
| `relay_plain` | forwarding without faults, with timeouts and a shutdown at any moment: accounting, watermarks, faithful EOF, a reported state that only moves forward | 1.4 million |
| `relay_throttled` | both directions delayed, jittered, rate-limited: delay line in step, rate respected, no lost wakeup, no requested event in vain, wakes always in the future | 1.9 million |
| `relay_lifecycle` | byte budgets trigger; an orderly close is complete; liveness: when both peers have ended the connection closes, unless it is `Wedged` (section 6) | 158 thousand |
| `proxy_runtime` | stale events and reused descriptors; timerfd always armed in time; nobody overstays; no timeout undeserved | 2.0 million |
| `proxy_progress` | bounded admission and counting, at the connection limit and without descriptors; liveness: clients are answered, connecting ends, SIGTERM stops the proxy | 198 thousand |
| `metrics_file` | whatever fails and whenever the writer is killed, a reader sees one whole document, never an older one than before | 85 thousand |
| `test_bench` | full duplex never blocks; request-response blocks exactly beyond what the buffers hold, and then fails; success is complete; an echo has no gap, though sends time out part of the way; client and server end; threads are reaped | 509 thousand |
| `relay_half_close_wedge`, `relay_spin`, `relay_wake_duplicates` | three disagreements with the documentation, section 6 | - |

**Bounds.** A run is bounded by the bytes the peers send, by the clock, and by
clients. The bounds are chosen so that the interesting cases occur: a ring of
two or three cells with more bytes than cells, so that it fills, wraps and empties
in the middle; socket buffers of one byte, so that every write may be partial or
refused; a low-water mark below the high-water mark with room between them, and
two pauses, so that a second one could inherit from the first;
`Rate = 3` against 5 units per second (2 against 3 in the relay), so that refills
leave remainders; latency and jitter together longer than the time to earn a
byte, so that both kinds of waiting occur and overtake each other; in
`relay_lifecycle` a half-close budget below, and a reset budget above, what one
direction carries, with more upstream bytes than the high-water mark holds back;
in `proxy_runtime` as many descriptors as two connections need, so that those of a
closed connection are reused within the batch that still holds its event; in
`proxy_progress` one connection and two or four descriptors, so that a second
client meets either `accept4` without a descriptor or the connection limit;
in `metrics_file` three documents of different length and two readers, so that a
leftover temporary file is longer than what replaces it and an unlinked file is
still being read; in `test_bench` a path of two bytes each way and a buffer of two,
with sizes 1, 5 and 7: up to 5 (`2 * Path + 1`) always fits, 7 exceeds everything
there is (`2 * Path + Chunk`). `MaxTime` in the relay runs lets a wake fire, be
superseded and be rescheduled. Nothing in the models depends on sizes beyond
these comparisons; where the arithmetic matters it is proved for all values.

**Deadlock.** It is checked for `token_bucket`. The other systems may really stop:
a closed connection, a proxy that has ended or that waits for a client that never
comes, a client and a server that have ended. `delayed_queue` stops at the bound on
pauses.

**Fairness.** `relay_lifecycle`: the loop runs (`WF(Loop)`, it is one thread that is
never blocked elsewhere than in `epoll_wait`), time passes, a pending connect
ends (TCP gives up), and each peer reads what reaches it - the property is about
peers that keep reading. Nobody has to send or to shut down, and no timeout or
shutdown helps: `Interruptions` is empty in that run. `proxy_progress`:
weak fairness of the loop and the clock, and strong fairness of epoll reporting
the listener, the timerfd and the signalfd: epoll's ready list is served in turn,
so a descriptor that stays ready is reported even when sockets are always ready.
One read of the signalfd takes one signal and SIGUSR1 has the lower number, so an
endless stream of SIGUSR1 could hold SIGTERM back; `StopsOnSignal` assumes that it
ends. `test_bench` states fairness inside each property, because each needs a
different one: `ClientEnds` asks only the client's threads to run (they are never
blocked for good, thanks to the timeouts) unless the run is prompt, where the
timeout comes after what the others do; `ServerStops` and `WorkersReaped` ask only
the server's, and a client may hang for ever.

## 4. Proofs

All theorems hold for every value of the constants that satisfies the named
assumptions, and for every number of bytes and instants.

* **TokenBucketProofs**, from `BucketAssumption` (rate, burst and unit positive) and
  `WordAssumption` (the products of `refill` fit a word: true of every burst below
  18 GB). `TypeCorrect`, `WindowBounded`, `RefinesFluid`, `WakesAreOnTime`.
  The heart
  is the lemma `RefillIsFluid`: a refill adds exactly `Rate` times the elapsed time
  to the credit `tokens * 10^9 + carry`, capped at a full bucket, and takes the early
  return for long pauses only when the cap is reached anyway. It needs the bound
  on the rounded-up division (`EarnTimeBounds`) and that no product wraps
  (`WordExact`). The others follow from it by linear arithmetic; for `WakesAreOnTime`
  the lemma `EarnedSoon` bounds what leaving the carried remainder out of the estimate
  costs: the remainder is less than one byte.
* **DelayedQueueProofs**, from `DelayedQueueAssumption`. `CountersStayInAgreement`,
  `SpansAreNeverEmpty`, `PausedTimeIsMeasured`. `CountersAgree` is inductive once the
  queue is known never to exceed the high-water mark and a pause to have begun in
  the past; the lemma `Observed` gives the effect of `observe` field by field.

  `QueueIsDelayedFifo` is the refinement of DelayedFifo. Segments are reduced to the
  times of their bytes: `Ends`, the running sum of their lengths, is shown to obey its
  recursion, to grow and to put each byte into exactly one segment, each time by the
  least index that would contradict it (`LeastNatural`, in place of an induction rule).
  Then a commit adds bytes of one time behind the others, whether it merges or appends
  (`CommitExtends`), and a consume drops the first bytes and leaves the other times
  alone, wherever it cuts (`ConsumeShortens`). `CommitCells` and `ConsumeCells` say the
  same of the ring's cells, wherever it wraps. `LineInv` (segments cover exactly the
  ring's bytes, times never decrease) joins the two halves; `Receive` is then `Put` and
  `Send` is `Get`. `WakeTimesAreExact` follows from the same invariant: what may go is a
  front of the bytes (`ReleaseSplits`), and no byte behind the first held one is earlier.
* **RelayProofs**, from `ConfigAssumption` (what the constructors and
  `FaultPlan::validate` enforce, and that the products of `refill` fit a word, which
  nothing in the code enforces, see section 5). `RelayTypeCorrect`, `WatermarksHold`,
  `NothingLost`, `EofForwardedFaithfully`. The inductive invariant `Inv` adds to
  these:
  - `BucketsLegal`, since a partial send charges the bucket, and `tokens` must not
    become negative;
  - `Ends`: a side counts as ended only if its FIN arrived and nothing is unread;
  - `EventsHold`: a hang-up hint remembered from an older batch is never wrong by
    the time `recv` returns EAGAIN - without it `ReceiveWouldBlock` with a hint
    would break `Ends`;
  - `Links`: the relay counts as connected only if the kernel does, so that a
    socket still connecting is never read.

  Each action has its own lemma; `NextKeepsInv` puts them together. On top of it
  `LifeInv` gives `OrderlyCloseLosesNothing`, `FaultsInjectedInTime` and
  `LifecycleHolds`: an outcome is recorded exactly when the connection is closed, and
  a budget is exceeded only inside the flush that exceeded it (`ResetPending`,
  `HalfClosePending`), which always ends in `check_lifecycle_faults`. `LifecycleHolds`
  says that the reported state only moves forward, that nothing follows a close and
  that the relay's own orderly close comes only from `draining`, with timeouts and a
  shutdown at any moment; it does not say that the transitions are those of the
  documented diagram, which they are not (section 6).
* **RelayTimingProofs**, from the same assumption and `Inv`. `TimingInv` (stamps are at
  most one delay ahead of the clock; what was sent plus the credit left was earned by
  the last refill) gives `DelayLineStaysInStep` and `RateIsRespected`, and with the
  bounds on the releasable prefix `ReadinessIsActedOn`. `WakeInv` adds that between
  handlers the read masks are exactly what `desired_interest` asks for, that the
  recorded wake is in the heap, and that bytes held back by time have a recorded wake
  that is `InTime`. That last part is the delicate one: `schedule_relay_wake` keeps an
  earlier wake when a later one is asked for, so the wake on record may belong to the
  other direction or to an older state of the bucket. `InTime` says what survives:
  no later than the first byte's eligibility, or than the time some quantum that
  waits is earned. It gives `NothingWaitsForever` (`NoLostWakeup`) and, since
  `next_wake` is always ahead, `WakesStayAhead`.
* **ProxyRuntimeProofs**, from `RuntimeAssumption` (limits and timeouts are naturals, and
  if relays ask for wakes there is a longest delay, as the fault plan's bounded
  parameters give). `RuntimeTypeCorrect`, `EventsFindTheirSocket`,
  `TablesStayInAgreement`, `AdmissionStaysAccounted`, `TimerfdKeepsUp`,
  `NobodyEverOverstays`, `TimeoutsHold`. The invariant has three parts,
  and `Limited` beside them bounds the number of connections by the check before each
  accept. `TableInv`: each
  side of a live connection has exactly one token, descriptors are disjoint (so their
  number is twice that of the connections), and a token, once handed out, is never
  bound to another connection (`EventsKnown`: descriptors are reused, tokens are not).
  `HeapInv`: the heap is sorted; every live connection has an idle entry no later than
  its last activity plus the timeout, and a connecting one a connect entry; and no
  connect entry is early. `Armed`: what `last_armed_deadline_` remembers is armed, and
  is the earliest deadline when the loop waits.
* **MetricsFileProofs**, from `FileAssumption` and `NobodyAssumption` (the value for "no
  file open" is no document). `ReadersSeeWholeDocuments` and `WritesAreAtomic`, the
  refinement of AtomicFile. The argument is about inodes: the temporary file's is
  reached by no other name and no reader (`Apart`), so what a reader has open never
  changes; it holds exactly the units written so far (`Writing`), all of them when it
  is renamed; and the published document is older than the one being written. `Rename`
  is the only step that maps to `Replace`; the writes are invisible.
* **TestBenchProofs**, from `BenchAssumption`. `EchoStaysWhole`,
  `BulkIsFullDuplex`, `RequestLimitHolds`. `Loss` counts bytes: what is received, under
  way and held never exceeds what was sent, nor, for a request, all buffers together.
  `Calm` says that in a run nothing disturbs the count is exact and each side closes
  only after the other is done; `NeverStalls` shows from it that two sides blocking
  each other would need a buffer both full and empty, or more bytes than the request. `Gapless` keeps that count
  exact in disturbed runs too, as long as the path holds and a worker serves: a send
  that fails ends the worker with whatever it still held.

The inductive invariants were checked by TLC on the instances of section 3 before
they were proved.

**Only model-checked.** Liveness (`DrainsToClose`, `ConnectingEnds`,
`ClientsAnswered`, `StopsOnSignal`, `ClientEnds`, `ServerStops`, `WorkersReaped`):
fairness and ENABLED are out of this prover's reach. The three properties of section 6
are refuted by TLC.

## 5. Not modelled, and why

Formatting and the logger: a line is written once, without retry, and only the
metrics read the count of dropped ones. Endpoint and argument parsing, latency
percentiles and the client's report: pure functions of their input. SplitMix64:
64-bit mixing that no property here tells apart from chance, so the jitter takes
every value instead. `apply_probability`: a connection has the faults or not,
which is a choice of constants. EINTR retries (a retry is invisible); exceptions
of `epoll_ctl` and failures while listener, signalfd and timerfd are created, which
end the process; a failing `timerfd_settime`, which `arm_timer_fd` logs and leaves at
that; socket errors other than ECONNRESET and EPIPE. Log lines: `socket_ready` logs
`active` when the upstream connects even if the client has already ended, whereas
Relay's `ReportedState` is what `state()` and the final close report. A crash of the
machine while the metrics file is written: the code does not sync, so nothing can
be promised. In Relay and ProxyRuntime the peers may do anything TCP allows; the
programs of client and server are in TestBench.

Relay's `HasDelay` and `HasBucket` are the constructor's conditions. A burst above
18 GB would make the products of `TokenBucket::refill` wrap; `validate()` bounds
the rate but not the burst, and the models assume it away.

## 6. Where code and documentation disagree

* `relay_half_close_wedge`: after an injected half-close toward the client,
  `flush` returns early for that destination, so its queue is never drained.
  With more upstream data than the high-water mark, reads from upstream stay
  paused, its FIN is never seen and the connection stays open (until an idle
  timeout, which is off by default). `docs/milestone-3-report.md:52` says the
  "connection still drains to an orderly close".
* `relay_spin`: EPOLLHUP cannot be masked. When a client has sent its FIN and the
  proxy has shut down its write side, every `epoll_wait` reports EPOLLHUP; while
  bytes of the client are still held by a delay or the rate limit, the loop
  handles it with no effect, again and again.
  `tests/integration/milestone5_spin.py:2`: "the event loop must idle, not spin."
* `relay_wake_duplicates`: a wake that fires resets `scheduled_wake` although a later
  entry is still in the heap; the next pump enters that later deadline a second
  time. `docs/milestone-3-report.md:32`: "deduplicated per connection". It is
  harmless but for an extra pump.

Not runs, but worth knowing:

* The states reported for a connection do not follow the diagram of
  `docs/milestone-0-design.md:70-86`, and `LifecycleAdvances` does not claim it. At
  shutdown every connection is closed as `FullyClosed` (`proxy.cpp:203`), from any
  state and with bytes queued, where line 80 has "Draining --> FullyClosed: both
  queues empty" and no arrow leads there from the connecting or the active state. A
  connect timeout is reported as `timed_out`, where line 73 says "ConnectingUpstream
  --> Failed: connect error/timeout" (`docs/milestone-3-report.md:13` introduces
  `timed_out` later). Resets and failures come from half-closed, draining and
  connecting states too, and a client that ends while the upstream connects skips
  `Active`.
* The comment at `token_bucket.hpp:38` says `eligible_at` may be slightly early;
  `WakeSuffices` shows that it never is. It ignores the carried remainder and rounds
  up, so it may be late, by at most the time one byte takes to earn
  (`WakeIsTimely`; the two are `WakeIsOnTime`).

## 7. Plan

Done: all modules of section 2, and the theorems of section 4, which cover every
safety property and all three refinements the passing runs check. Left: nothing
that this prover reaches; what would extend the project is the arithmetic of bursts
above 18 GB, and the parts section 5 leaves out.
