------------------------------ MODULE TestBench ------------------------------
(***************************************************************************)
(* One connection of netfault-client (client/main.cpp) with the server of  *)
(* the test bench (server/main.cpp): blocking calls with timeouts on both  *)
(* sides, two client threads in bulk mode, a worker thread per connection  *)
(* and the accept loop on the server's.  Connections share nothing but the *)
(* stop flag and the reaping, so one is enough.                            *)
(*                                                                         *)
(* Between them lies the proxied path: each way a pipe that holds at most  *)
(* Path bytes and keeps their order, which is what Relay shows of the      *)
(* proxy.  A path may also break: an injected or real reset, or the RST    *)
(* for bytes that meet a closed socket.                                    *)
(*                                                                         *)
(* Time is not counted.  In a prompt run nothing takes long, so a timeout  *)
(* expires only when nothing else can happen, the shorter one first; in    *)
(* the others (a slow-reader or slow-writer server, a loaded machine) a    *)
(* blocked call may time out at any moment.                                *)
(***************************************************************************)
EXTENDS Integers

CONSTANTS
  Path,        \* external: bytes the buffers on the path hold, each way
  Chunk,       \* chunk_bytes, the buffer of a server worker
  Sizes,       \* the payload_bytes or request_bytes tried
  Requests,    \* warmup + requests
  SendBytes    \* send_bytes of a send-then-half-close server

ASSUME BenchAssumption ==
  /\ Path \in Nat \ {0} /\ Chunk \in Nat \ {0} /\ Requests \in Nat \ {0}
  /\ Sizes \subseteq Nat \ {0} /\ SendBytes \in Nat \ {0}

VARIABLES
  plan,        \* the run: modes, size; is it prompt, may the path fail
  writer,      \* the client's main thread
  reader,      \* its reader thread, in bulk mode
  sent, received, round,
  result,      \* "running", "success" or "failed"
  server,      \* the accept loop: "accepting", "stopping" or "stopped"
  stop,        \* stop_requested
  worker,      \* serve_client: the call it is in, "closed" when done is set
  held,        \* bytes the worker has yet to send
  path, up, down, up_fin, down_fin   \* external: the connection

clientVars == <<writer, reader, sent, received, round, result>>
serverVars == <<server, stop, worker, held>>
pathVars == <<path, up, down, up_fin, down_fin>>
vars == <<plan, clientVars, serverVars, pathVars>>

Plans == [mode : {"Bulk", "RequestResponse"},
          server : {"Echo", "ReadUntilEof", "SendThenHalfClose"},
          size : Sizes, prompt : BOOLEAN, faulty : BOOLEAN]

Init ==
  /\ plan \in Plans
  /\ writer = "connect" /\ reader = "none"
  /\ sent = 0 /\ received = 0 /\ round = 0 /\ result = "running"
  /\ server = "accepting" /\ stop = FALSE /\ worker = "none" /\ held = 0
  /\ path = "open" /\ up = 0 /\ down = 0 /\ up_fin = FALSE /\ down_fin = FALSE

Bulk == plan.mode = "Bulk"
Echoes == plan.server = "Echo"
-----------------------------------------------------------------------------
(* Who is blocked, and when a timeout expires.                             *)

WriterBlocked == writer = "send" /\ sent < plan.size /\ up = Path /\ path = "open"

Receiving ==
  reader = "reading" \/ writer = "drain" \/ (writer = "receive" /\ received < plan.size)
AtEof == down = 0 /\ (down_fin \/ path = "broken" \/ writer = "failed")
ReceiverBlocked == Receiving /\ down = 0 /\ ~AtEof

ClientBlocked ==
  /\ WriterBlocked \/ ReceiverBlocked
  /\ writer = "send" => WriterBlocked
  /\ Receiving => ReceiverBlocked

\* Mutant: the worker waits for a full buffer before it echoes.
ReturnedFull(n) == n <= up /\ n = Chunk

\* A worker's recv returns what is there, at most a buffer.
Returned(n) == n <= up /\ n <= Chunk

WorkerBlocked ==
  /\ path = "open"
  /\ \/ worker = "send" /\ down = Path
     \/ worker \in {"recv", "drain"} /\ ~up_fin /\ \A n \in 1 .. Chunk : ~Returned(n)

\* Nothing moves any more until a timeout expires.
Stalled == ClientBlocked /\ WorkerBlocked

\* Mutant: the client sets no timeouts.
ClientWaitedNever == FALSE

\* SO_RCVTIMEO and SO_SNDTIMEO of the client: 10 s, or 30 s.
ClientWaited == ~plan.prompt \/ (Stalled /\ worker # "send")

\* SO_SNDTIMEO of a worker: 1 s.
WorkerWaited == ~plan.prompt \/ Stalled
-----------------------------------------------------------------------------
(* The client.                                                             *)

\* The socket is closed when run_connection or run_request_response returns.
Finish(outcome) == result' = outcome /\ writer' = "done" /\ up_fin' = TRUE

\* Mutant: the reader thread is not started before the payload is sent.
StartReaderLate == "none"

StartReader == IF Bulk THEN "reading" ELSE "none"

Connect ==
  /\ writer = "connect"
  /\ \/ /\ writer' = "send" /\ reader' = StartReader
        /\ UNCHANGED <<result, up_fin>>
     \/ /\ plan.faulty \/ server # "accepting"
        /\ Finish("failed") /\ UNCHANGED reader
  /\ UNCHANGED <<plan, sent, received, round, serverVars, path, up, down, down_fin>>

\* send_all: part of the rest is taken; on a broken path it goes nowhere.
Send(n) ==
  /\ writer = "send" /\ sent + n <= plan.size
  /\ IF path = "open" THEN up + n <= Path /\ up' = up + n ELSE UNCHANGED up
  /\ sent' = sent + n
  /\ UNCHANGED <<plan, writer, reader, received, round, result, serverVars,
                 path, down, up_fin, down_fin>>

\* In bulk mode shutdown(SHUT_RDWR) also ends the reader; then it is joined.
SendFails ==
  /\ writer = "send"
  /\ path = "broken" \/ (WriterBlocked /\ ClientWaited)
  /\ IF Bulk THEN writer' = "failed" /\ up_fin' = TRUE /\ UNCHANGED result
             ELSE Finish("failed")
  /\ UNCHANGED <<plan, reader, sent, received, round, serverVars, path, up, down, down_fin>>

\* shutdown(SHUT_WR) in bulk mode, which fails if the path is known to be broken.
SendDone ==
  /\ writer = "send" /\ sent = plan.size
  /\ writer' \in (IF ~Bulk THEN {"receive"}
                  ELSE IF path = "broken" THEN {"join", "failed"} ELSE {"join"})
  /\ up_fin' = (up_fin \/ Bulk)
  /\ UNCHANGED <<plan, reader, sent, received, round, result, serverVars, path, up, down,
                 down_fin>>

ReaderNext(total) == IF total > plan.size THEN "error" ELSE "reading"

\* The reader thread of run_connection.
ReaderReceives(n) ==
  /\ reader = "reading" /\ n <= down
  /\ down' = down - n /\ received' = received + n
  /\ reader' = ReaderNext(received')
  /\ UNCHANGED <<plan, writer, sent, round, result, serverVars, path, up, up_fin, down_fin>>

ReaderEnds ==
  /\ reader = "reading"
  /\ \/ AtEof /\ reader' = "eof"
     \/ /\ (down = 0 /\ path = "broken") \/ (ReceiverBlocked /\ ClientWaited)
        /\ reader' = "error"
  /\ UNCHANGED <<plan, writer, sent, received, round, result, serverVars, pathVars>>

\* Mutant: what was received is not compared with the payload.
VerifiedNot == writer = "join" /\ reader = "eof"

Verified == writer = "join" /\ reader = "eof" /\ Echoes /\ received = plan.size

Join ==
  /\ writer \in {"join", "failed"} /\ reader \in {"eof", "error"}
  /\ Finish(IF Verified THEN "success" ELSE "failed")
  /\ UNCHANGED <<plan, reader, sent, received, round, serverVars, path, up, down, down_fin>>

\* receive_exact never takes more than the response; a wrong one ends the run.
ReceiveExact(n) ==
  /\ writer = "receive" /\ n <= down /\ received + n <= plan.size
  /\ down' = down - n /\ received' = received + n
  /\ UNCHANGED <<plan, writer, reader, sent, round, result, serverVars, path, up, up_fin,
                 down_fin>>

Respond ==
  /\ writer = "receive" /\ received = plan.size
  /\ IF ~Echoes
     THEN Finish("failed") /\ UNCHANGED <<sent, received, round>>
     ELSE /\ round' = round + 1
          /\ IF round' < Requests
             THEN /\ writer' = "send" /\ sent' = 0 /\ received' = 0
                  /\ UNCHANGED <<result, up_fin>>
             ELSE /\ writer' = "drain" /\ up_fin' = TRUE
                  /\ UNCHANGED <<sent, received, result>>
  /\ UNCHANGED <<plan, reader, serverVars, path, up, down, down_fin>>

\* The end of the stream inside a response, an error or a timeout.
ReceiveFails ==
  /\ writer = "receive" /\ Receiving
  /\ AtEof \/ (ReceiverBlocked /\ ClientWaited)
  /\ Finish("failed")
  /\ UNCHANGED <<plan, reader, sent, received, round, serverVars, path, up, down, down_fin>>

\* After the last response: more bytes, an error or a timeout are failures.
Drain ==
  /\ writer = "drain"
  /\ \/ AtEof /\ Finish("success")
     \/ /\ down > 0 \/ path = "broken" \/ (ReceiverBlocked /\ ClientWaited)
        /\ Finish("failed")
  /\ UNCHANGED <<plan, reader, sent, received, round, serverVars, path, up, down, down_fin>>
-----------------------------------------------------------------------------
(* The server: main's accept loop and serve_client.                        *)

\* SIGINT or SIGTERM.
Signal ==
  /\ ~stop /\ stop' = TRUE
  /\ UNCHANGED <<plan, clientVars, server, worker, held, pathVars>>

\* The worker starts in the first call its mode makes.
Accept ==
  /\ server = "accepting" /\ ~stop /\ writer # "connect" /\ worker = "none"
  /\ worker' = CASE Echoes -> "recv"
                 [] plan.server = "ReadUntilEof" -> "drain"
                 [] plan.server = "SendThenHalfClose" -> "send"
  /\ held' = IF plan.server = "SendThenHalfClose" THEN SendBytes ELSE 0
  /\ UNCHANGED <<plan, clientVars, server, stop, pathVars>>

\* Mutant: finished workers are only reaped when a client is accepted.
ReapOnAccept == FALSE /\ UNCHANGED vars

\* reap_finished while accept4 has nothing to give: the thread is joined.
Reap ==
  /\ server = "accepting" /\ worker = "closed"
  /\ worker' = "joined"
  /\ UNCHANGED <<plan, clientVars, server, stop, held, pathVars>>

\* request_stop for every worker; a failing accept4 does it in the destructors.
LeaveAccepting ==
  /\ server = "accepting" /\ (stop \/ plan.faulty)
  /\ server' = "stopping"
  /\ UNCHANGED <<plan, clientVars, stop, worker, held, pathVars>>

\* workers.clear() joins them.
Stopped ==
  /\ server = "stopping" /\ worker \in {"none", "closed", "joined"}
  /\ server' = "stopped" /\ worker' = IF worker = "closed" THEN "joined" ELSE worker
  /\ UNCHANGED <<plan, clientVars, stop, held, pathVars>>

StopToken == server = "stopping"

\* A worker returns: done is set and its socket closed.
Return == worker' = "closed" /\ down_fin' = TRUE

\* The next call, unless the loop's condition finds the stop token set.
Continue(next) ==
  IF StopToken THEN Return ELSE worker' = next /\ UNCHANGED down_fin

\* Echoed by send_all, or discarded by drain_until_eof.
WorkerReceives(n) ==
  /\ worker \in {"recv", "drain"} /\ Returned(n)
  /\ up' = up - n
  /\ held' = IF worker = "recv" THEN n ELSE 0
  /\ Continue(IF worker = "recv" THEN "send" ELSE "drain")
  /\ UNCHANGED <<plan, clientVars, server, stop, path, down, up_fin>>

WorkerEnds ==
  /\ worker \in {"recv", "drain"} /\ up = 0 /\ (up_fin \/ path = "broken")
  /\ Return
  /\ UNCHANGED <<plan, clientVars, server, stop, held, path, up, down, up_fin>>

\* Mutant: without SO_RCVTIMEO a blocked worker never sees the stop token.
WorkerRecvTimeoutNever == FALSE /\ UNCHANGED vars

\* EAGAIN after 1 s: the loop's condition is tested again.
WorkerRecvTimeout ==
  /\ worker \in {"recv", "drain"} /\ WorkerBlocked /\ StopToken
  /\ Return
  /\ UNCHANGED <<plan, clientVars, server, stop, held, path, up, down, up_fin>>

\* send_all: one call may take several of these steps, so the stop token may
\* also be seen in between; when all is sent, the next recv or SHUT_WR.
WorkerSends(n) ==
  /\ worker = "send" /\ n <= held
  /\ IF path = "open" THEN down + n <= Path /\ down' = down + n ELSE UNCHANGED down
  /\ held' = held - n
  /\ IF held' > 0
     THEN (worker' = "send" /\ UNCHANGED down_fin) \/ (StopToken /\ Return)
     ELSE \/ Echoes /\ Continue("recv")
          \/ ~Echoes /\ down_fin' = TRUE /\ worker' = IF StopToken THEN "closed" ELSE "drain"
  /\ UNCHANGED <<plan, clientVars, server, stop, path, up, up_fin>>

\* Mutant: a send that timed out is given up, and the worker receives again.
WorkerSendFailsGoesOn ==
  /\ worker = "send" /\ (path = "broken" \/ (WorkerBlocked /\ WorkerWaited))
  /\ Continue("recv")
  /\ UNCHANGED <<plan, clientVars, server, stop, held, path, up, down, up_fin>>

\* send_all returns false on an error or a timeout, and serve_client returns.
WorkerSendFails ==
  /\ worker = "send" /\ (path = "broken" \/ (WorkerBlocked /\ WorkerWaited))
  /\ Return
  /\ UNCHANGED <<plan, clientVars, server, stop, held, path, up, down, up_fin>>
-----------------------------------------------------------------------------
\* External: what was under way is lost from some point on.
Break ==
  /\ path = "open" /\ writer # "connect"
  /\ \/ plan.faulty
     \/ worker \in {"closed", "joined"} /\ up > 0
     \/ server = "stopped" /\ worker = "none"
     \/ result # "running" /\ down > 0
  /\ path' = "broken" /\ up' \in 0 .. up /\ down' \in 0 .. down
  /\ UNCHANGED <<plan, clientVars, serverVars, up_fin, down_fin>>

Most == CHOOSE m \in Sizes \cup {Path, Chunk, SendBytes} :
          \A k \in Sizes \cup {Path, Chunk, SendBytes} : k <= m

Client ==
  \/ Connect \/ SendFails \/ SendDone \/ ReaderEnds \/ Join
  \/ Respond \/ ReceiveFails \/ Drain
  \/ \E n \in 1 .. Most : Send(n) \/ ReaderReceives(n) \/ ReceiveExact(n)

Server ==
  \/ Accept \/ Reap \/ LeaveAccepting \/ Stopped
  \/ WorkerEnds \/ WorkerRecvTimeout \/ WorkerSendFails
  \/ \E n \in 1 .. Most : WorkerReceives(n) \/ WorkerSends(n)

Next == Client \/ Server \/ Signal \/ Break

Spec == Init /\ [][Next]_vars
-----------------------------------------------------------------------------
\* A prompt run against an echo server on a path that does not fail.
Undisturbed == plan.prompt /\ Echoes /\ ~plan.faulty /\ ~stop

\* Full duplex: whatever the payload and however small the buffers, client and
\* server never block each other in send(), and the payload comes back.
BulkNeverStalls ==
  Undisturbed /\ Bulk => ~Stalled /\ result # "failed"

\* send_all comes before receive_exact, so a request is limited by the path.  One
\* that fits in the buffers both ways and one byte of the worker's is answered, and
\* nobody waits for the other; one beyond all buffers blocks both sides and is
\* never reported as answered.
RequestsLimitedByPath ==
  ~Bulk => /\ Undisturbed /\ plan.size <= 2 * Path + 1 => ~Stalled /\ result # "failed"
           /\ plan.size > 2 * Path + Chunk => result # "success"

\* Success is never reported for a stream that was cut short, whether by a reset,
\* by a server that stopped or timed out, or by one that does not echo.
SuccessIsComplete ==
  result = "success" => /\ Echoes /\ received = plan.size /\ held = 0 /\ up = 0 /\ down = 0
                        /\ Bulk \/ round = Requests

\* An echo has no gap: as long as a worker serves on a path that holds, every byte
\* the client sent was returned or is still on its way, in the path or in the
\* worker's buffer.  After a send that timed out part of the way (a client that
\* does not read, a slow machine) the worker closes; it never goes on behind it.
EchoHasNoGap ==
  Echoes /\ path = "open" /\ worker \in {"none", "recv", "send"}
    => received + down + held + up = sent

\* What the client gets back has no hole and no false end: serve_client never goes
\* on behind a send that was given up, and neither mode of the client takes a
\* stream cut short for a complete one.
EchoIsWhole == EchoHasNoGap /\ SuccessIsComplete

ClientFair == WF_vars(Client)
ServerFair == WF_vars(Server)

\* The client always ends: in a prompt run with the server's help, otherwise even
\* if the server and the path hang for ever.
ClientEnds ==
  ClientFair /\ (plan.prompt => ServerFair /\ WF_vars(Break)) => <>(result # "running")

\* SIGTERM stops the server, though a client may hang with its socket open.
ServerStops == ServerFair /\ ~plan.prompt => (stop ~> server = "stopped")

\* A finished worker's thread is joined, though no other client comes.
WorkersReaped == ServerFair => (worker = "closed" ~> worker = "joined")
=============================================================================
