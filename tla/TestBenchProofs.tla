--------------------------- MODULE TestBenchProofs ---------------------------
(***************************************************************************)
(* The test bench for payloads, buffers and paths of any size.  The        *)
(* argument counts bytes: whatever was not lost is in the path, in the     *)
(* worker's buffer or received, so nothing is left over when everything    *)
(* has come back; and in a run that nothing disturbs no byte is lost, so   *)
(* that two sides that block each other would have to fill all buffers.    *)
(***************************************************************************)
EXTENDS TestBench, TLAPS

Types ==
  /\ plan \in Plans
  /\ writer \in {"connect", "send", "join", "failed", "receive", "drain", "done"}
  /\ reader \in {"none", "reading", "eof", "error"}
  /\ sent \in Nat /\ received \in Nat /\ round \in Nat
  /\ result \in {"running", "success", "failed"}
  /\ server \in {"accepting", "stopping", "stopped"} /\ stop \in BOOLEAN
  /\ worker \in {"none", "recv", "drain", "send", "closed", "joined"} /\ held \in Nat
  /\ path \in {"open", "broken"} /\ up \in 0 .. Path /\ down \in 0 .. Path
  /\ up_fin \in BOOLEAN /\ down_fin \in BOOLEAN

\* How far the client's threads are, and what they have counted by then.
Stages ==
  /\ sent <= plan.size
  /\ writer \in {"join", "receive", "drain"} => sent = plan.size
  /\ writer = "connect" => reader = "none"
  /\ IF Bulk THEN writer \notin {"receive", "drain"}
             ELSE reader = "none" /\ writer \notin {"join", "failed"}
  /\ (~Bulk /\ writer \in {"connect", "send"}) => received = 0
  /\ (~Bulk /\ writer \in {"connect", "send", "receive"}) => round < Requests
  /\ writer = "drain" => Echoes /\ received = plan.size /\ round = Requests
  /\ result = "running" <=> writer # "done"
  /\ result = "success" =>
       /\ Echoes /\ sent = plan.size /\ received = plan.size
       /\ (Bulk \/ round = Requests) /\ reader # "reading"

InFlight == received + down + held + up

\* Bytes may be lost, but none appear; what a request has out fits in the buffers.
Loss ==
  Echoes => /\ InFlight <= sent
            /\ held <= Chunk /\ worker # "drain"
            /\ ~Bulk => InFlight <= 2 * Path + Chunk

\* The runs in which the two sides are claimed never to block each other.
Smooth == Undisturbed /\ (Bulk \/ plan.size <= 2 * Path + 1)

\* There no byte is lost, and each side closes only after the other is done.
Calm ==
  /\ path = "open" /\ server = "accepting"
  /\ InFlight = sent
  /\ worker = "send" <=> held > 0
  /\ worker \in {"closed", "joined"} => up = 0 /\ up_fin
  /\ down_fin => worker \in {"closed", "joined"}
  /\ up_fin => writer \in {"join", "drain", "done"}
  /\ writer \in {"join", "drain"} => up_fin
  /\ writer # "failed" /\ result # "failed" /\ reader # "error"
  /\ reader = "eof" => down = 0 /\ down_fin
  /\ (Bulk /\ reader = "none") => writer = "connect"

Inv == Types /\ Stages /\ Loss /\ (Smooth => Calm)
-----------------------------------------------------------------------------
LEMMA PlanTypes ==
  ASSUME Types
  PROVE  plan.size \in Nat \ {0} /\ plan.prompt \in BOOLEAN /\ plan.faulty \in BOOLEAN
BY BenchAssumption DEF Types, Plans

LEMMA CountsArePositive == \A n \in 1 .. Most : n \in Nat \ {0}
OBVIOUS

LEMMA LessRemains ==
  ASSUME NEW r \in Nat, NEW d \in Nat, NEW h \in Nat, NEW u \in Nat,
         NEW d1 \in Nat, NEW u1 \in Nat, d1 <= d, u1 <= u
  PROVE  r + d + h + u \in Nat /\ r + d1 + h + u1 \in Nat /\ r + d1 + h + u1 <= r + d + h + u
OBVIOUS

LEMMA SmoothFacts ==
  ASSUME Smooth
  PROVE  /\ Echoes /\ ~stop /\ ~plan.faulty
         /\ ClientWaited => Stalled
         /\ WorkerWaited => Stalled
         /\ Bulk \/ plan.size <= 2 * Path + 1
BY Zenon DEF Smooth, Undisturbed, ClientWaited, WorkerWaited

\* Both sides blocked: either way some buffer that must be empty would be full, or
\* the bytes out would be more than the request.
LEMMA NeverStalls == ASSUME Inv, Smooth PROVE ~Stalled
<1> SUFFICES ASSUME ClientBlocked, WorkerBlocked PROVE FALSE
  BY DEF Stalled
<1>1. Calm /\ Types /\ Stages /\ Loss /\ Echoes /\ (Bulk \/ plan.size <= 2 * Path + 1)
  BY SmoothFacts DEF Inv
<1>2. plan.size \in Nat /\ Path \in Nat \ {0} /\ Chunk \in Nat \ {0}
  BY <1>1, PlanTypes, BenchAssumption
<1>3. /\ up \in 0 .. Path /\ down \in 0 .. Path /\ held \in Nat
      /\ sent \in Nat /\ received \in Nat
  BY <1>1 DEF Types
<1>4. CASE worker = "send"
  <2>1. down = Path /\ down > 0 /\ held >= 1
    BY <1>1, <1>2, <1>3, <1>4 DEF WorkerBlocked, Calm
  <2>2. ~Receiving
    BY <2>1 DEF ClientBlocked, ReceiverBlocked
  <2>3. writer = "send" /\ sent < plan.size /\ up = Path
    BY <2>2 DEF ClientBlocked, WriterBlocked, ReceiverBlocked
  <2>4. received + down + held + up = sent
    BY <1>1 DEF Calm, InFlight
  <2>5. Bulk
    BY <1>1, <1>2, <1>3, <2>1, <2>3, <2>4
  <2>6. reader \notin {"none", "reading", "eof", "error"}
    <3>1. reader # "reading"
      BY <2>2 DEF Receiving
    <3>2. reader # "none" /\ reader # "error"
      BY <1>1, <2>3, <2>5 DEF Calm
    <3>3. reader # "eof"
      BY <1>1, <2>1 DEF Calm
    <3> QED BY <3>1, <3>2, <3>3
  <2> QED BY <1>1, <2>6 DEF Types
<1>5. CASE worker # "send"
  <2>1. worker = "recv" /\ ~up_fin /\ \A n \in 1 .. Chunk : ~Returned(n)
    BY <1>1, <1>5 DEF WorkerBlocked, Loss
  <2>2. up = 0
    <3>1. 1 \in 1 .. Chunk
      BY <1>2
    <3>2. ~Returned(1)
      BY <2>1, <3>1
    <3> QED BY <1>2, <1>3, <3>2 DEF Returned
  <2>3. ~WriterBlocked
    BY <1>2, <2>2 DEF WriterBlocked
  <2>4. Receiving /\ down = 0 /\ writer # "send"
    BY <2>3 DEF ClientBlocked, ReceiverBlocked
  <2>5. held = 0
    BY <1>1, <1>3, <1>5 DEF Calm
  <2>6. received = sent
    BY <1>1, <1>3, <2>2, <2>4, <2>5 DEF Calm, InFlight
  <2>7. writer \notin {"join", "drain", "failed"}
    BY <1>1, <2>1 DEF Calm
  <2>8. ~(writer = "receive" /\ received < plan.size)
    BY <1>1, <1>2, <2>6 DEF Stages
  <2>9. reader = "reading" /\ writer # "done"
    <3>1. reader = "reading"
      BY <2>4, <2>7, <2>8 DEF Receiving
    <3>2. writer # "done"
      BY <1>1, <3>1 DEF Stages, Calm, Types
    <3> QED BY <3>1, <3>2
  <2> QED BY <1>1, <2>4, <2>7, <2>8, <2>9 DEF Types, Stages
<1> QED BY <1>4, <1>5
-----------------------------------------------------------------------------
LEMMA InitInv == Init => Inv
<1> SUFFICES ASSUME Init PROVE Inv
  OBVIOUS
<1>0. plan \in Plans
  BY DEF Init
<1>1. Types
  <2>1. 0 \in 0 .. Path /\ 0 \in Nat
    BY BenchAssumption
  <2> QED BY <1>0, <2>1, Zenon DEF Init, Types
<1>2. plan.size \in Nat \ {0}
  BY <1>1, PlanTypes
<1>3. Stages
  BY <1>2, BenchAssumption DEF Init, Stages
<1>4. Loss
  BY BenchAssumption DEF Init, Loss, InFlight
<1>5. Calm
  BY DEF Init, Calm, InFlight
<1> QED BY <1>1, <1>3, <1>4, <1>5 DEF Inv

LEMMA ConnectInv == ASSUME Inv, Connect PROVE Inv'
<1> USE DEF Connect, Finish, StartReader, clientVars, serverVars, pathVars
<1>1. /\ Types /\ Stages /\ Loss
      /\ plan' = plan /\ plan'.size = plan.size /\ plan.size \in Nat \ {0}
  BY PlanTypes DEF Inv
<1>2. Types'
  BY <1>1, BenchAssumption DEF Types
<1>3. Stages'
  BY <1>1, BenchAssumption DEF Types, Stages, Bulk, Echoes
<1>4. Loss'
  BY <1>1, BenchAssumption DEF Types, Stages, Loss, InFlight, Bulk, Echoes
<1>5. ASSUME Smooth' PROVE Calm'
  <2>1. Smooth
    BY <1>1, <1>5 DEF Smooth, Undisturbed, Bulk, Echoes
  <2>2. Calm /\ Echoes /\ ~stop /\ ~plan.faulty
    BY <2>1, SmoothFacts DEF Inv
  <2> QED BY <1>1, <2>2, BenchAssumption
          DEF Types, Stages, Loss, Calm, InFlight, Bulk, Echoes
<1> QED BY <1>2, <1>3, <1>4, <1>5 DEF Inv

LEMMA SendInv == ASSUME Inv, NEW n \in Nat \ {0}, Send(n) PROVE Inv'
<1> USE DEF Send, clientVars, serverVars, pathVars
<1>1. /\ Types /\ Stages /\ Loss
      /\ plan' = plan /\ plan'.size = plan.size /\ plan.size \in Nat \ {0}
  BY PlanTypes DEF Inv
<1>2. Types'
  BY <1>1, BenchAssumption DEF Types
<1>3. Stages'
  BY <1>1, BenchAssumption DEF Types, Stages, Bulk, Echoes
<1>4. Loss'
  BY <1>1, BenchAssumption DEF Types, Stages, Loss, InFlight, Bulk, Echoes
<1>5. ASSUME Smooth' PROVE Calm'
  <2>1. Smooth
    BY <1>1, <1>5 DEF Smooth, Undisturbed, Bulk, Echoes
  <2>2. Calm /\ Echoes /\ ~stop /\ ~plan.faulty
    BY <2>1, SmoothFacts DEF Inv
  <2> QED BY <1>1, <2>2, BenchAssumption
          DEF Types, Stages, Loss, Calm, InFlight, Bulk, Echoes
<1> QED BY <1>2, <1>3, <1>4, <1>5 DEF Inv

LEMMA SendFailsInv == ASSUME Inv, SendFails PROVE Inv'
<1> USE DEF SendFails, Finish, clientVars, serverVars, pathVars
<1>1. /\ Types /\ Stages /\ Loss
      /\ plan' = plan /\ plan'.size = plan.size /\ plan.size \in Nat \ {0}
  BY PlanTypes DEF Inv
<1>2. Types'
  BY <1>1, BenchAssumption DEF Types
<1>3. Stages'
  BY <1>1, BenchAssumption DEF Types, Stages, Bulk, Echoes
<1>4. Loss'
  BY <1>1, BenchAssumption DEF Types, Stages, Loss, InFlight, Bulk, Echoes
<1>5. ASSUME Smooth' PROVE Calm'
  <2>1. Smooth
    BY <1>1, <1>5 DEF Smooth, Undisturbed, Bulk, Echoes
  <2>2. Calm /\ Echoes /\ ~stop /\ ~plan.faulty
    BY <2>1, SmoothFacts DEF Inv
  <2>3. ~ClientWaited /\ ~WorkerWaited
    BY <2>1, SmoothFacts, NeverStalls
  <2> QED BY <1>1, <2>2, <2>3, BenchAssumption
          DEF Types, Stages, Loss, Calm, InFlight, Bulk, Echoes
<1> QED BY <1>2, <1>3, <1>4, <1>5 DEF Inv

LEMMA SendDoneInv == ASSUME Inv, SendDone PROVE Inv'
<1> USE DEF SendDone, clientVars, serverVars, pathVars
<1>1. /\ Types /\ Stages /\ Loss
      /\ plan' = plan /\ plan'.size = plan.size /\ plan.size \in Nat \ {0}
  BY PlanTypes DEF Inv
<1>2. Types'
  BY <1>1, BenchAssumption DEF Types
<1>3. Stages'
  BY <1>1, BenchAssumption DEF Types, Stages, Bulk, Echoes
<1>4. Loss'
  BY <1>1, BenchAssumption DEF Types, Stages, Loss, InFlight, Bulk, Echoes
<1>5. ASSUME Smooth' PROVE Calm'
  <2>1. Smooth
    BY <1>1, <1>5 DEF Smooth, Undisturbed, Bulk, Echoes
  <2>2. Calm /\ Echoes /\ ~stop /\ ~plan.faulty
    BY <2>1, SmoothFacts DEF Inv
  <2> QED BY <1>1, <2>2, BenchAssumption
          DEF Types, Stages, Loss, Calm, InFlight, Bulk, Echoes
<1> QED BY <1>2, <1>3, <1>4, <1>5 DEF Inv

LEMMA ReaderReceivesInv == ASSUME Inv, NEW n \in Nat \ {0}, ReaderReceives(n) PROVE Inv'
<1> USE DEF ReaderReceives, ReaderNext, clientVars, serverVars, pathVars
<1>1. /\ Types /\ Stages /\ Loss
      /\ plan' = plan /\ plan'.size = plan.size /\ plan.size \in Nat \ {0}
  BY PlanTypes DEF Inv
<1>2. Types'
  BY <1>1, BenchAssumption DEF Types
<1>3. Stages'
  BY <1>1, BenchAssumption DEF Types, Stages, Bulk, Echoes
<1>4. Loss'
  BY <1>1, BenchAssumption DEF Types, Stages, Loss, InFlight, Bulk, Echoes
<1>5. ASSUME Smooth' PROVE Calm'
  <2>1. Smooth
    BY <1>1, <1>5 DEF Smooth, Undisturbed, Bulk, Echoes
  <2>2. Calm /\ Echoes /\ ~stop /\ ~plan.faulty
    BY <2>1, SmoothFacts DEF Inv
  <2> QED BY <1>1, <2>2, BenchAssumption
          DEF Types, Stages, Loss, Calm, InFlight, Bulk, Echoes
<1> QED BY <1>2, <1>3, <1>4, <1>5 DEF Inv

LEMMA ReaderEndsInv == ASSUME Inv, ReaderEnds PROVE Inv'
<1> USE DEF ReaderEnds, AtEof, clientVars, serverVars, pathVars
<1>1. /\ Types /\ Stages /\ Loss
      /\ plan' = plan /\ plan'.size = plan.size /\ plan.size \in Nat \ {0}
  BY PlanTypes DEF Inv
<1>2. Types'
  BY <1>1, BenchAssumption DEF Types
<1>3. Stages'
  BY <1>1, BenchAssumption DEF Types, Stages, Bulk, Echoes
<1>4. Loss'
  BY <1>1, BenchAssumption DEF Types, Stages, Loss, InFlight, Bulk, Echoes
<1>5. ASSUME Smooth' PROVE Calm'
  <2>1. Smooth
    BY <1>1, <1>5 DEF Smooth, Undisturbed, Bulk, Echoes
  <2>2. Calm /\ Echoes /\ ~stop /\ ~plan.faulty
    BY <2>1, SmoothFacts DEF Inv
  <2>3. ~ClientWaited /\ ~WorkerWaited
    BY <2>1, SmoothFacts, NeverStalls
  <2> QED BY <1>1, <2>2, <2>3, BenchAssumption
          DEF Types, Stages, Loss, Calm, InFlight, Bulk, Echoes
<1> QED BY <1>2, <1>3, <1>4, <1>5 DEF Inv

LEMMA JoinInv == ASSUME Inv, Join PROVE Inv'
<1> USE DEF Join, Finish, Verified, clientVars, serverVars, pathVars
<1>1. /\ Types /\ Stages /\ Loss
      /\ plan' = plan /\ plan'.size = plan.size /\ plan.size \in Nat \ {0}
  BY PlanTypes DEF Inv
<1>2. Types'
  BY <1>1, BenchAssumption DEF Types
<1>3. Stages'
  BY <1>1, BenchAssumption DEF Types, Stages, Bulk, Echoes
<1>4. Loss'
  BY <1>1, BenchAssumption DEF Types, Stages, Loss, InFlight, Bulk, Echoes
<1>5. ASSUME Smooth' PROVE Calm'
  <2>1. Smooth
    BY <1>1, <1>5 DEF Smooth, Undisturbed, Bulk, Echoes
  <2>2. Calm /\ Echoes /\ ~stop /\ ~plan.faulty
    BY <2>1, SmoothFacts DEF Inv
  <2> QED BY <1>1, <2>2, BenchAssumption
          DEF Types, Stages, Loss, Calm, InFlight, Bulk, Echoes
<1> QED BY <1>2, <1>3, <1>4, <1>5 DEF Inv

LEMMA ReceiveExactInv == ASSUME Inv, NEW n \in Nat \ {0}, ReceiveExact(n) PROVE Inv'
<1> USE DEF ReceiveExact, clientVars, serverVars, pathVars
<1>1. /\ Types /\ Stages /\ Loss
      /\ plan' = plan /\ plan'.size = plan.size /\ plan.size \in Nat \ {0}
  BY PlanTypes DEF Inv
<1>2. Types'
  BY <1>1, BenchAssumption DEF Types
<1>3. Stages'
  BY <1>1, BenchAssumption DEF Types, Stages, Bulk, Echoes
<1>4. Loss'
  BY <1>1, BenchAssumption DEF Types, Stages, Loss, InFlight, Bulk, Echoes
<1>5. ASSUME Smooth' PROVE Calm'
  <2>1. Smooth
    BY <1>1, <1>5 DEF Smooth, Undisturbed, Bulk, Echoes
  <2>2. Calm /\ Echoes /\ ~stop /\ ~plan.faulty
    BY <2>1, SmoothFacts DEF Inv
  <2> QED BY <1>1, <2>2, BenchAssumption
          DEF Types, Stages, Loss, Calm, InFlight, Bulk, Echoes
<1> QED BY <1>2, <1>3, <1>4, <1>5 DEF Inv

LEMMA RespondInv == ASSUME Inv, Respond PROVE Inv'
<1> USE DEF Respond, Finish, clientVars, serverVars, pathVars
<1>1. /\ Types /\ Stages /\ Loss
      /\ plan' = plan /\ plan'.size = plan.size /\ plan.size \in Nat \ {0}
  BY PlanTypes DEF Inv
<1>2. Types'
  <2>1. /\ writer' \in {"send", "drain", "done"} /\ result' \in {"running", "success", "failed"}
        /\ round' \in Nat /\ sent' \in Nat /\ received' \in Nat
    BY <1>1 DEF Types
  <2>2. up_fin' \in BOOLEAN
    BY <1>1 DEF Types
  <2> QED BY <1>1, <2>1, <2>2 DEF Types
<1>3. Stages'
  BY <1>1, BenchAssumption DEF Types, Stages, Bulk, Echoes
<1>4. Loss'
  BY <1>1, BenchAssumption DEF Types, Stages, Loss, InFlight, Bulk, Echoes
<1>5. ASSUME Smooth' PROVE Calm'
  <2>1. Smooth
    BY <1>1, <1>5 DEF Smooth, Undisturbed, Bulk, Echoes
  <2>2. Calm /\ Echoes /\ ~stop /\ ~plan.faulty
    BY <2>1, SmoothFacts DEF Inv
  <2> QED BY <1>1, <2>2, BenchAssumption
          DEF Types, Stages, Loss, Calm, InFlight, Bulk, Echoes
<1> QED BY <1>2, <1>3, <1>4, <1>5 DEF Inv

LEMMA ReceiveFailsInv == ASSUME Inv, ReceiveFails PROVE Inv'
<1> USE DEF ReceiveFails, Finish, AtEof, clientVars, serverVars, pathVars
<1>1. /\ Types /\ Stages /\ Loss
      /\ plan' = plan /\ plan'.size = plan.size /\ plan.size \in Nat \ {0}
  BY PlanTypes DEF Inv
<1>2. Types'
  BY <1>1, BenchAssumption DEF Types
<1>3. Stages'
  BY <1>1, BenchAssumption DEF Types, Stages, Bulk, Echoes
<1>4. Loss'
  BY <1>1, BenchAssumption DEF Types, Stages, Loss, InFlight, Bulk, Echoes
<1>5. ASSUME Smooth' PROVE Calm'
  <2>1. Smooth
    BY <1>1, <1>5 DEF Smooth, Undisturbed, Bulk, Echoes
  <2>2. Calm /\ Echoes /\ ~stop /\ ~plan.faulty
    BY <2>1, SmoothFacts DEF Inv
  <2>3. ~ClientWaited /\ ~WorkerWaited
    BY <2>1, SmoothFacts, NeverStalls
  <2> QED BY <1>1, <2>2, <2>3, BenchAssumption
          DEF Types, Stages, Loss, Calm, InFlight, Bulk, Echoes
<1> QED BY <1>2, <1>3, <1>4, <1>5 DEF Inv

LEMMA DrainInv == ASSUME Inv, Drain PROVE Inv'
<1> USE DEF Drain, Finish, AtEof, clientVars, serverVars, pathVars
<1>1. /\ Types /\ Stages /\ Loss
      /\ plan' = plan /\ plan'.size = plan.size /\ plan.size \in Nat \ {0}
  BY PlanTypes DEF Inv
<1>2. Types'
  BY <1>1, BenchAssumption DEF Types
<1>3. Stages'
  BY <1>1, BenchAssumption DEF Types, Stages, Bulk, Echoes
<1>4. Loss'
  BY <1>1, BenchAssumption DEF Types, Stages, Loss, InFlight, Bulk, Echoes
<1>5. ASSUME Smooth' PROVE Calm'
  <2>1. Smooth
    BY <1>1, <1>5 DEF Smooth, Undisturbed, Bulk, Echoes
  <2>2. Calm /\ Echoes /\ ~stop /\ ~plan.faulty
    BY <2>1, SmoothFacts DEF Inv
  <2>3. ~ClientWaited /\ ~WorkerWaited
    BY <2>1, SmoothFacts, NeverStalls
  <2> QED BY <1>1, <2>2, <2>3, BenchAssumption
          DEF Types, Stages, Loss, Calm, InFlight, Bulk, Echoes
<1> QED BY <1>2, <1>3, <1>4, <1>5 DEF Inv

LEMMA SignalInv == ASSUME Inv, Signal PROVE Inv'
<1> USE DEF Signal, clientVars, serverVars, pathVars
<1>1. /\ Types /\ Stages /\ Loss
      /\ plan' = plan /\ plan'.size = plan.size /\ plan.size \in Nat \ {0}
  BY PlanTypes DEF Inv
<1>2. Types'
  BY <1>1, BenchAssumption DEF Types
<1>3. Stages'
  BY <1>1, BenchAssumption DEF Types, Stages, Bulk, Echoes
<1>4. Loss'
  BY <1>1, BenchAssumption DEF Types, Stages, Loss, InFlight, Bulk, Echoes
<1>5. ASSUME Smooth' PROVE Calm'
  <2>1. Smooth
    BY <1>1, <1>5 DEF Smooth, Undisturbed, Bulk, Echoes
  <2>2. Calm /\ Echoes /\ ~stop /\ ~plan.faulty
    BY <2>1, SmoothFacts DEF Inv
  <2> QED BY <1>1, <2>2, BenchAssumption
          DEF Types, Stages, Loss, Calm, InFlight, Bulk, Echoes
<1> QED BY <1>2, <1>3, <1>4, <1>5 DEF Inv

LEMMA AcceptInv == ASSUME Inv, Accept PROVE Inv'
<1> USE DEF Accept, clientVars, serverVars, pathVars
<1>1. /\ Types /\ Stages /\ Loss
      /\ plan' = plan /\ plan'.size = plan.size /\ plan.size \in Nat \ {0}
  BY PlanTypes DEF Inv
<1>2. Types'
  <2>1. worker' \in {"recv", "drain", "send"}
    BY <1>1 DEF Types, Plans, Echoes
  <2>2. held' \in Nat
    BY BenchAssumption
  <2> QED BY <1>1, <2>1, <2>2 DEF Types
<1>3. Stages'
  BY <1>1, BenchAssumption DEF Types, Stages, Bulk, Echoes
<1>4. Loss'
  BY <1>1, BenchAssumption DEF Types, Stages, Loss, InFlight, Bulk, Echoes
<1>5. ASSUME Smooth' PROVE Calm'
  <2>1. Smooth
    BY <1>1, <1>5 DEF Smooth, Undisturbed, Bulk, Echoes
  <2>2. Calm /\ Echoes /\ ~stop /\ ~plan.faulty
    BY <2>1, SmoothFacts DEF Inv
  <2> QED BY <1>1, <2>2, BenchAssumption
          DEF Types, Stages, Loss, Calm, InFlight, Bulk, Echoes
<1> QED BY <1>2, <1>3, <1>4, <1>5 DEF Inv

LEMMA ReapInv == ASSUME Inv, Reap PROVE Inv'
<1> USE DEF Reap, clientVars, serverVars, pathVars
<1>1. /\ Types /\ Stages /\ Loss
      /\ plan' = plan /\ plan'.size = plan.size /\ plan.size \in Nat \ {0}
  BY PlanTypes DEF Inv
<1>2. Types'
  BY <1>1, BenchAssumption DEF Types
<1>3. Stages'
  BY <1>1, BenchAssumption DEF Types, Stages, Bulk, Echoes
<1>4. Loss'
  BY <1>1, BenchAssumption DEF Types, Stages, Loss, InFlight, Bulk, Echoes
<1>5. ASSUME Smooth' PROVE Calm'
  <2>1. Smooth
    BY <1>1, <1>5 DEF Smooth, Undisturbed, Bulk, Echoes
  <2>2. Calm /\ Echoes /\ ~stop /\ ~plan.faulty
    BY <2>1, SmoothFacts DEF Inv
  <2> QED BY <1>1, <2>2, BenchAssumption
          DEF Types, Stages, Loss, Calm, InFlight, Bulk, Echoes
<1> QED BY <1>2, <1>3, <1>4, <1>5 DEF Inv

LEMMA LeaveAcceptingInv == ASSUME Inv, LeaveAccepting PROVE Inv'
<1> USE DEF LeaveAccepting, clientVars, serverVars, pathVars
<1>1. /\ Types /\ Stages /\ Loss
      /\ plan' = plan /\ plan'.size = plan.size /\ plan.size \in Nat \ {0}
  BY PlanTypes DEF Inv
<1>2. Types'
  BY <1>1, BenchAssumption DEF Types
<1>3. Stages'
  BY <1>1, BenchAssumption DEF Types, Stages, Bulk, Echoes
<1>4. Loss'
  BY <1>1, BenchAssumption DEF Types, Stages, Loss, InFlight, Bulk, Echoes
<1>5. ASSUME Smooth' PROVE Calm'
  <2>1. Smooth
    BY <1>1, <1>5 DEF Smooth, Undisturbed, Bulk, Echoes
  <2>2. Calm /\ Echoes /\ ~stop /\ ~plan.faulty
    BY <2>1, SmoothFacts DEF Inv
  <2> QED BY <1>1, <2>2, BenchAssumption
          DEF Types, Stages, Loss, Calm, InFlight, Bulk, Echoes
<1> QED BY <1>2, <1>3, <1>4, <1>5 DEF Inv

LEMMA StoppedInv == ASSUME Inv, Stopped PROVE Inv'
<1> USE DEF Stopped, clientVars, serverVars, pathVars
<1>1. /\ Types /\ Stages /\ Loss
      /\ plan' = plan /\ plan'.size = plan.size /\ plan.size \in Nat \ {0}
  BY PlanTypes DEF Inv
<1>2. Types'
  BY <1>1, BenchAssumption DEF Types
<1>3. Stages'
  BY <1>1, BenchAssumption DEF Types, Stages, Bulk, Echoes
<1>4. Loss'
  BY <1>1, BenchAssumption DEF Types, Stages, Loss, InFlight, Bulk, Echoes
<1>5. ASSUME Smooth' PROVE Calm'
  <2>1. Smooth
    BY <1>1, <1>5 DEF Smooth, Undisturbed, Bulk, Echoes
  <2>2. Calm /\ Echoes /\ ~stop /\ ~plan.faulty
    BY <2>1, SmoothFacts DEF Inv
  <2> QED BY <1>1, <2>2, BenchAssumption
          DEF Types, Stages, Loss, Calm, InFlight, Bulk, Echoes
<1> QED BY <1>2, <1>3, <1>4, <1>5 DEF Inv

LEMMA WorkerReceivesInv == ASSUME Inv, NEW n \in Nat \ {0}, WorkerReceives(n) PROVE Inv'
<1> USE DEF WorkerReceives, Returned, Continue, Return, StopToken, clientVars, serverVars,
            pathVars
<1>1. /\ Types /\ Stages /\ Loss
      /\ plan' = plan /\ plan'.size = plan.size /\ plan.size \in Nat \ {0}
  BY PlanTypes DEF Inv
<1>2. Types'
  <2>1. up' \in 0 .. Path /\ held' \in Nat
    BY <1>1, BenchAssumption DEF Types
  <2>2. worker' \in {"send", "drain", "closed"}
    BY <1>1 DEF Types
  <2>3. down_fin' \in BOOLEAN
    BY <1>1 DEF Types
  <2> QED BY <1>1, <2>1, <2>2, <2>3 DEF Types
<1>3. Stages'
  BY <1>1, BenchAssumption DEF Types, Stages, Bulk, Echoes
<1>4. Loss'
  BY <1>1, BenchAssumption DEF Types, Stages, Loss, InFlight, Bulk, Echoes
<1>5. ASSUME Smooth' PROVE Calm'
  <2>1. Smooth
    BY <1>1, <1>5 DEF Smooth, Undisturbed, Bulk, Echoes
  <2>2. Calm /\ Echoes /\ ~stop /\ ~plan.faulty
    BY <2>1, SmoothFacts DEF Inv
  <2> QED BY <1>1, <2>2, BenchAssumption
          DEF Types, Stages, Loss, Calm, InFlight, Bulk, Echoes
<1> QED BY <1>2, <1>3, <1>4, <1>5 DEF Inv

LEMMA WorkerEndsInv == ASSUME Inv, WorkerEnds PROVE Inv'
<1> USE DEF WorkerEnds, Return, clientVars, serverVars, pathVars
<1>1. /\ Types /\ Stages /\ Loss
      /\ plan' = plan /\ plan'.size = plan.size /\ plan.size \in Nat \ {0}
  BY PlanTypes DEF Inv
<1>2. Types'
  BY <1>1, BenchAssumption DEF Types
<1>3. Stages'
  BY <1>1, BenchAssumption DEF Types, Stages, Bulk, Echoes
<1>4. Loss'
  BY <1>1, BenchAssumption DEF Types, Stages, Loss, InFlight, Bulk, Echoes
<1>5. ASSUME Smooth' PROVE Calm'
  <2>1. Smooth
    BY <1>1, <1>5 DEF Smooth, Undisturbed, Bulk, Echoes
  <2>2. Calm /\ Echoes /\ ~stop /\ ~plan.faulty
    BY <2>1, SmoothFacts DEF Inv
  <2> QED BY <1>1, <2>2, BenchAssumption
          DEF Types, Stages, Loss, Calm, InFlight, Bulk, Echoes
<1> QED BY <1>2, <1>3, <1>4, <1>5 DEF Inv

LEMMA WorkerRecvTimeoutInv == ASSUME Inv, WorkerRecvTimeout PROVE Inv'
<1> USE DEF WorkerRecvTimeout, Return, StopToken, clientVars, serverVars, pathVars
<1>1. /\ Types /\ Stages /\ Loss
      /\ plan' = plan /\ plan'.size = plan.size /\ plan.size \in Nat \ {0}
  BY PlanTypes DEF Inv
<1>2. Types'
  BY <1>1, BenchAssumption DEF Types
<1>3. Stages'
  BY <1>1, BenchAssumption DEF Types, Stages, Bulk, Echoes
<1>4. Loss'
  BY <1>1, BenchAssumption DEF Types, Stages, Loss, InFlight, Bulk, Echoes
<1>5. ASSUME Smooth' PROVE Calm'
  <2>1. Smooth
    BY <1>1, <1>5 DEF Smooth, Undisturbed, Bulk, Echoes
  <2>2. Calm /\ Echoes /\ ~stop /\ ~plan.faulty
    BY <2>1, SmoothFacts DEF Inv
  <2> QED BY <1>1, <2>2, BenchAssumption
          DEF Types, Stages, Loss, Calm, InFlight, Bulk, Echoes
<1> QED BY <1>2, <1>3, <1>4, <1>5 DEF Inv

LEMMA WorkerSendsInv == ASSUME Inv, NEW n \in Nat \ {0}, WorkerSends(n) PROVE Inv'
<1> USE DEF WorkerSends, Continue, Return, StopToken, clientVars, serverVars, pathVars
<1>1. /\ Types /\ Stages /\ Loss
      /\ plan' = plan /\ plan'.size = plan.size /\ plan.size \in Nat \ {0}
  BY PlanTypes DEF Inv
<1>2. Types'
  <2>1. down' \in 0 .. Path /\ held' \in Nat
    BY <1>1, BenchAssumption DEF Types
  <2>2. worker' \in {"recv", "send", "drain", "closed"}
    BY <1>1 DEF Types
  <2>3. down_fin' \in BOOLEAN
    BY <1>1 DEF Types
  <2> QED BY <1>1, <2>1, <2>2, <2>3 DEF Types
<1>3. Stages'
  BY <1>1, BenchAssumption DEF Types, Stages, Bulk, Echoes
<1>4. Loss'
  BY <1>1, BenchAssumption DEF Types, Stages, Loss, InFlight, Bulk, Echoes
<1>5. ASSUME Smooth' PROVE Calm'
  <2>1. Smooth
    BY <1>1, <1>5 DEF Smooth, Undisturbed, Bulk, Echoes
  <2>2. Calm /\ Echoes /\ ~stop /\ ~plan.faulty
    BY <2>1, SmoothFacts DEF Inv
  <2> QED BY <1>1, <2>2, BenchAssumption
          DEF Types, Stages, Loss, Calm, InFlight, Bulk, Echoes
<1> QED BY <1>2, <1>3, <1>4, <1>5 DEF Inv

LEMMA WorkerSendFailsInv == ASSUME Inv, WorkerSendFails PROVE Inv'
<1> USE DEF WorkerSendFails, Return, clientVars, serverVars, pathVars
<1>1. /\ Types /\ Stages /\ Loss
      /\ plan' = plan /\ plan'.size = plan.size /\ plan.size \in Nat \ {0}
  BY PlanTypes DEF Inv
<1>2. Types'
  BY <1>1, BenchAssumption DEF Types
<1>3. Stages'
  BY <1>1, BenchAssumption DEF Types, Stages, Bulk, Echoes
<1>4. Loss'
  BY <1>1, BenchAssumption DEF Types, Stages, Loss, InFlight, Bulk, Echoes
<1>5. ASSUME Smooth' PROVE Calm'
  <2>1. Smooth
    BY <1>1, <1>5 DEF Smooth, Undisturbed, Bulk, Echoes
  <2>2. Calm /\ Echoes /\ ~stop /\ ~plan.faulty
    BY <2>1, SmoothFacts DEF Inv
  <2>3. ~ClientWaited /\ ~WorkerWaited
    BY <2>1, SmoothFacts, NeverStalls
  <2> QED BY <1>1, <2>2, <2>3, BenchAssumption
          DEF Types, Stages, Loss, Calm, InFlight, Bulk, Echoes
<1> QED BY <1>2, <1>3, <1>4, <1>5 DEF Inv

LEMMA BreakInv == ASSUME Inv, Break PROVE Inv'
<1> USE DEF Break, clientVars, serverVars, pathVars
<1>1. /\ Types /\ Stages /\ Loss
      /\ plan' = plan /\ plan'.size = plan.size /\ plan.size \in Nat \ {0}
  BY PlanTypes DEF Inv
<1>2. Types'
  BY <1>1, BenchAssumption DEF Types
<1>3. Stages'
  BY <1>1, BenchAssumption DEF Types, Stages, Bulk, Echoes
<1>4. Loss'
  <2>1. up' \in Nat /\ down' \in Nat /\ up' <= up /\ down' <= down
    BY <1>1, BenchAssumption DEF Types
  <2>2. InFlight' \in Nat /\ InFlight \in Nat /\ InFlight' <= InFlight
    <3>1. up \in Nat /\ down \in Nat /\ held \in Nat /\ received \in Nat
      BY <1>1, BenchAssumption DEF Types
    <3>2. received' = received /\ held' = held
      OBVIOUS
    <3>3. InFlight' = received + down' + held + up'
      BY <3>2 DEF InFlight
    <3>4. InFlight = received + down + held + up
      BY DEF InFlight
    <3> QED BY <2>1, <3>1, <3>3, <3>4, LessRemains
  <2>3. UNCHANGED <<sent, held, worker, Bulk, Echoes>>
    BY <1>1 DEF Bulk, Echoes
  <2>4. sent \in Nat /\ 2 * Path + Chunk \in Nat
    BY <1>1, BenchAssumption DEF Types
  <2> QED BY <1>1, <2>2, <2>3, <2>4 DEF Loss
<1>5. ASSUME Smooth' PROVE Calm'
  <2>1. Smooth
    BY <1>1, <1>5 DEF Smooth, Undisturbed, Bulk, Echoes
  <2>2. Calm /\ Echoes /\ ~stop /\ ~plan.faulty
    BY <2>1, SmoothFacts DEF Inv
  <2> QED BY <1>1, <2>2, BenchAssumption
          DEF Types, Stages, Loss, Calm, InFlight, Bulk, Echoes
<1> QED BY <1>2, <1>3, <1>4, <1>5 DEF Inv

LEMMA StutterInv == Inv /\ UNCHANGED vars => Inv'
BY DEF Inv, Types, Stages, Loss, Calm, Smooth, Undisturbed, InFlight, Bulk, Echoes, vars,
       clientVars, serverVars, pathVars

LEMMA NextInv == Inv /\ [Next]_vars => Inv'
<1> SUFFICES ASSUME Inv, [Next]_vars PROVE Inv'
  OBVIOUS
<1>1. CASE Connect
  BY <1>1, ConnectInv
<1>2. CASE SendFails
  BY <1>2, SendFailsInv
<1>3. CASE SendDone
  BY <1>3, SendDoneInv
<1>4. CASE ReaderEnds
  BY <1>4, ReaderEndsInv
<1>5. CASE Join
  BY <1>5, JoinInv
<1>6. CASE Respond
  BY <1>6, RespondInv
<1>7. CASE ReceiveFails
  BY <1>7, ReceiveFailsInv
<1>8. CASE Drain
  BY <1>8, DrainInv
<1>9. CASE Signal
  BY <1>9, SignalInv
<1>10. CASE Accept
  BY <1>10, AcceptInv
<1>11. CASE Reap
  BY <1>11, ReapInv
<1>12. CASE LeaveAccepting
  BY <1>12, LeaveAcceptingInv
<1>13. CASE Stopped
  BY <1>13, StoppedInv
<1>14. CASE WorkerEnds
  BY <1>14, WorkerEndsInv
<1>15. CASE WorkerRecvTimeout
  BY <1>15, WorkerRecvTimeoutInv
<1>16. CASE WorkerSendFails
  BY <1>16, WorkerSendFailsInv
<1>17. CASE Break
  BY <1>17, BreakInv
<1>18. ASSUME NEW n \in 1 .. Most, Send(n) PROVE Inv'
  BY <1>18, CountsArePositive, SendInv
<1>19. ASSUME NEW n \in 1 .. Most, ReaderReceives(n) PROVE Inv'
  BY <1>19, CountsArePositive, ReaderReceivesInv
<1>20. ASSUME NEW n \in 1 .. Most, ReceiveExact(n) PROVE Inv'
  BY <1>20, CountsArePositive, ReceiveExactInv
<1>21. ASSUME NEW n \in 1 .. Most, WorkerReceives(n) PROVE Inv'
  BY <1>21, CountsArePositive, WorkerReceivesInv
<1>22. ASSUME NEW n \in 1 .. Most, WorkerSends(n) PROVE Inv'
  BY <1>22, CountsArePositive, WorkerSendsInv
<1>23. CASE UNCHANGED vars
  BY <1>23, StutterInv
<1> QED
  BY <1>1, <1>2, <1>3, <1>4, <1>5, <1>6, <1>7, <1>8, <1>9, <1>10, <1>11, <1>12,
     <1>13, <1>14, <1>15, <1>16, <1>17, <1>18, <1>19, <1>20, <1>21, <1>22,
     <1>23, Zenon DEF Next, Client, Server

LEMMA InvHolds == Spec => []Inv
BY InitInv, NextInv, PTL DEF Spec
-----------------------------------------------------------------------------
LEMMA InvImpliesComplete == Inv => SuccessIsComplete
<1> SUFFICES ASSUME Inv, result = "success" PROVE SuccessIsComplete
  BY DEF SuccessIsComplete
<1>1. /\ Echoes /\ received = plan.size /\ sent = plan.size /\ (Bulk \/ round = Requests)
      /\ received + down + held + up <= sent
  BY DEF Inv, Stages, Loss, InFlight
<1>2. held \in Nat /\ up \in Nat /\ down \in Nat /\ received \in Nat
  BY BenchAssumption DEF Inv, Types
<1>3. held = 0 /\ up = 0 /\ down = 0
  BY <1>1, <1>2
<1> QED BY <1>1, <1>3 DEF SuccessIsComplete

LEMMA InvImpliesDuplex == Inv => BulkNeverStalls
<1> SUFFICES ASSUME Inv, Undisturbed, Bulk PROVE ~Stalled /\ result # "failed"
  BY DEF BulkNeverStalls
<1>1. Smooth
  BY DEF Smooth
<1>2. ~Stalled
  BY <1>1, NeverStalls
<1> QED BY <1>1, <1>2 DEF Inv, Calm

LEMMA InvImpliesLimit == Inv => RequestsLimitedByPath
<1> SUFFICES ASSUME Inv, ~Bulk PROVE RequestsLimitedByPath
  BY DEF RequestsLimitedByPath
<1>1. ASSUME Undisturbed, plan.size <= 2 * Path + 1 PROVE ~Stalled /\ result # "failed"
  <2>1. Smooth
    BY <1>1 DEF Smooth
  <2>2. ~Stalled
    BY <2>1, NeverStalls
  <2> QED BY <2>1, <2>2 DEF Inv, Calm
<1>2. ASSUME plan.size > 2 * Path + Chunk, result = "success" PROVE FALSE
  <2>1. received = plan.size /\ InFlight <= 2 * Path + Chunk
    BY <1>2 DEF Inv, Stages, Loss
  <2>2. held \in Nat /\ up \in Nat /\ down \in Nat /\ received \in Nat
    BY BenchAssumption DEF Inv, Types
  <2> QED BY <1>2, <2>1, <2>2, BenchAssumption DEF InFlight
<1> QED BY <1>1, <1>2 DEF RequestsLimitedByPath

\* A worker receives only with an empty buffer, so it never drops what it holds.
Gapless == (Echoes /\ worker \in {"none", "recv"} => held = 0) /\ EchoHasNoGap

LEMMA GaplessStep == Inv /\ Gapless /\ [Next]_vars => Gapless'
<1> SUFFICES ASSUME Inv, Gapless, [Next]_vars PROVE Gapless'
  OBVIOUS
<1> USE DEF Gapless, EchoHasNoGap, Echoes, clientVars, serverVars, pathVars
<1>0. /\ plan' = plan /\ plan.size \in Nat \ {0} /\ Path \in Nat
      /\ sent \in Nat /\ received \in Nat /\ held \in Nat /\ up \in Nat /\ down \in Nat
  <2>1. plan' = plan
    BY DEF Next, Client, Server, Connect, SendFails, SendDone, ReaderEnds, Join, Respond,
       ReceiveFails, Drain, Send, ReaderReceives, ReceiveExact, Accept, Reap, LeaveAccepting,
       Stopped, WorkerEnds, WorkerRecvTimeout, WorkerSendFails, WorkerReceives, WorkerSends,
       Signal, Break, vars
  <2> QED BY <2>1, PlanTypes, BenchAssumption DEF Inv, Types
<1>1. ASSUME UNCHANGED <<sent, received, held, up, down, path, worker>> PROVE Gapless'
  BY <1>0, <1>1
<1>2. CASE \/ Connect \/ SendFails \/ SendDone \/ ReaderEnds \/ Join \/ ReceiveFails \/ Drain
           \/ LeaveAccepting \/ Signal \/ UNCHANGED vars
  <2>1. UNCHANGED <<sent, received, held, up, down, path, worker>>
    BY <1>2 DEF Connect, SendFails, SendDone, ReaderEnds, Join, ReceiveFails, Drain,
       LeaveAccepting, Signal, vars
  <2> QED BY <1>1, <2>1
<1>3. CASE Reap \/ Stopped \/ WorkerEnds \/ WorkerRecvTimeout \/ WorkerSendFails
  BY <1>0, <1>3 DEF Reap, Stopped, WorkerEnds, WorkerRecvTimeout, WorkerSendFails, Return
<1>4. CASE Accept
  BY <1>0, <1>4 DEF Accept
<1>5. CASE Break
  BY <1>0, <1>5 DEF Break
<1>6. CASE Respond
  BY <1>0, <1>6 DEF Respond, Finish, Inv, Stages
<1>7. ASSUME NEW n \in 1 .. Most, Send(n) PROVE Gapless'
  BY <1>0, <1>7, CountsArePositive DEF Send
<1>8. ASSUME NEW n \in 1 .. Most, ReaderReceives(n) \/ ReceiveExact(n) PROVE Gapless'
  BY <1>0, <1>8, CountsArePositive DEF ReaderReceives, ReceiveExact
<1>9. ASSUME NEW n \in 1 .. Most, WorkerReceives(n) PROVE Gapless'
  BY <1>0, <1>9, CountsArePositive DEF WorkerReceives, Returned, Continue, Return
<1>10. ASSUME NEW n \in 1 .. Most, WorkerSends(n) PROVE Gapless'
  BY <1>0, <1>10, CountsArePositive DEF WorkerSends, Continue, Return
<1> QED
  BY <1>2, <1>3, <1>4, <1>5, <1>6, <1>7, <1>8, <1>9, <1>10, Zenon DEF Next, Client, Server

\* serve_client: as long as a worker serves, the echo is complete up to what is on its way,
\* for any sizes, and however sends are cut short or time out.
LEMMA EchoIsGapless == Spec => []EchoHasNoGap
<1>1. Init => Gapless
  BY DEF Init, Gapless, EchoHasNoGap
<1> QED BY <1>1, InvHolds, GaplessStep, PTL DEF Spec, Gapless

\* run_connection and run_request_response: success is never reported for a stream that
\* was cut short, for any sizes of payload, buffers and path, and any number of requests.
LEMMA SuccessMeansComplete == Spec => []SuccessIsComplete
BY InvHolds, InvImpliesComplete, PTL

\* serve_client and both modes of the client: no gap inside what is echoed and no success
\* for less than all of it, for any sizes, timeouts and losses.
THEOREM EchoStaysWhole == Spec => []EchoIsWhole
BY EchoIsGapless, SuccessMeansComplete, PTL DEF EchoIsWhole

\* The reader thread of run_connection makes bulk mode full duplex: client and server never
\* block each other, whatever the payload and however small the buffers.
THEOREM BulkIsFullDuplex == Spec => []BulkNeverStalls
BY InvHolds, InvImpliesDuplex, PTL

\* send_all before receive_exact in run_request_response: a request that fits in the
\* buffers both ways and one byte of the worker's is always answered, and one that exceeds
\* them all never is, for any sizes.
THEOREM RequestLimitHolds == Spec => []RequestsLimitedByPath
BY InvHolds, InvImpliesLimit, PTL
=============================================================================
