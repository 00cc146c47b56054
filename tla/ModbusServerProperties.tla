----------------------- MODULE ModbusServerProperties -----------------------
(* What a Modbus client may rely on, and that the receiver survives. *)
EXTENDS ModbusServer

ServerTypeOK ==
  /\ window \in Windows /\ outstanding \subseteq Ids /\ view \in Values \cup {None}
  /\ requests \in Seq(Requests) /\ Len(requests) <= Cardinality(Ids)
  /\ pool \in [free : 0 .. Buffers, armed : 0 .. RingSize]
  /\ RxAllocStatus \in {"OK", "ERROR"}
  /\ unsent \in Seq(Answers) /\ flight \in Seq(Answers)
  /\ Len(unsent) + Len(flight) <= SendQueue
  /\ net \in {"wire", "lost", "heard"} /\ register \in Values
  /\ rebooting \in BOOLEAN /\ at \in {"lwip", "dying"}

\* A client whose requests have all been answered knows the register: no request
\* was carried out that it did not hear of, and no echo was sent for a request
\* that was not carried out, although requests of a chain are skipped
\* (app_modbus.c:126), failed tcp_write calls go unnoticed (app_modbus.c:249),
\* answers are repeated or lost and the device reboots.
ViewHonest == Quiet /\ outstanding = {} /\ view # None => view = register

\* "It gives the LwIP stack enough time to transmit the Modbus TCP response back"
\* (main.c:309): lwIP does not run during that delay, but the echo of a client
\* that takes turns has been put on the line before it begins.
EchoBeforeReboot == window = 1 /\ at = "dying" => unsent = <<>>

\* No receive buffer is lost or in two places, through chains, overtaking
\* segments, time-outs and connections that break (ethernetif.c:412, :670).
BuffersAccounted == pool.free + pool.armed + Cardinality(Held) = Buffers

\* Types, and every receive buffer is in one place.
ServerInv == ServerTypeOK /\ BuffersAccounted

\* A pool that ran dry, although nothing can arrive then, does not leave the
\* receiver deaf (ethernetif.c:298, :424): what lwIP keeps out of order is dropped
\* in the end and the ring is refilled.
HearsAgain == RxAllocStatus = "ERROR" ~> RxAllocStatus = "OK" /\ pool.armed > 0

\* A client that takes turns gets its answer, gives up a request the server does
\* not answer, or loses the connection.
TurnsAnswered == window = 1 /\ outstanding # {} ~> outstanding = {}

\* A receiver that is deaf because the pool ran dry (ethernetif.c:298) has empty
\* descriptors, nothing to refill them with, and buffers among what lwIP keeps out
\* of order: only the timer of lwIP can give them back, and it can.
DeafHoldsBuffers ==
  RxAllocStatus = "ERROR" => pool.free = 0 /\ pool.armed < RingSize /\ Held # {}

\* The Modbus server implements RemoteRegister: overtaking segments, chains, queues
\* and retransmissions are hidden (modbus_recv_cb, app_modbus.c:103-252).  A request
\* is its transaction without what lwIP notes of its segment, and an answer is
\* there until its acknowledgement arrives.
Plain(r) == [id |-> r.id, op |-> r.op, value |-> r.value]
PlainOf(s) == [i \in DOMAIN s |-> Plain(s[i])]

Register == INSTANCE RemoteRegister WITH
  awaited <- outstanding, known <- view, asked <- PlainOf(requests),
  answers <- flight \o unsent, restarting <- rebooting \/ at = "dying"

ImplementsRegister == Register!RegisterSpec

-----------------------------------------------------------------------------
(* The inductive invariant.  A request is stale when its client has given   *)
(* it up.                                                                   *)

\* An identifier is of one request, or of one request's answers.
IdsInv ==
  /\ \A i, j \in DOMAIN requests : requests[i].id = requests[j].id => i = j
  /\ IdsOf(requests) \cap (IdsOf(flight) \cup IdsOf(unsent)) = {}
  /\ IdsOf(flight) \cap IdsOf(unsent) = {}

\* A segment acknowledges what its client has heard and no longer waits for.
AckInv ==
  /\ \A i \in DOMAIN requests : requests[i].acks => flight # <<>> /\ net = "heard"
  /\ net = "heard" => IdsOf(flight) \cap outstanding = {}

\* A write has a value.
WriteInv == \A i \in DOMAIN requests : requests[i].op = "write" => requests[i].value \in Values

\* Stale requests come first; until they are gone the client knows nothing and no
\* answer is under way that it waits for.
StaleInv ==
  \A j \in DOMAIN requests : requests[j].id \notin outstanding =>
    /\ \A i \in 1 .. j : requests[i].id \notin outstanding
    /\ view = None /\ (IdsOf(flight) \cup IdsOf(unsent)) \cap outstanding = {}

\* What a client that knows w will know when the answers of first and then have
\* come.
WillKnow(first, then, awaited, w, v) ==
  \/ LastTold(then, awaited, v)
  \/ Told(then, awaited) = {} /\ LastTold(first, awaited, v)
  \/ Told(then, awaited) = {} /\ Told(first, awaited) = {} /\ w = v

\* No request it waits for is lost and none is stale.
Covered ==
  /\ IdsOf(requests) \subseteq outstanding
  /\ outstanding \subseteq IdsOf(requests) \cup IdsOf(flight) \cup IdsOf(unsent)

\* Then what the client will know by the answers under way is the register.
KnowInv ==
  Covered => \A v \in Values : WillKnow(flight, unsent, outstanding, view, v) => v = register

\* A client that takes turns: its one request carries the acknowledgement of the
\* answer before, so that Nagle's rule never holds an answer back.
TurnsInv ==
  window = 1 =>
    /\ unsent = <<>> /\ Len(requests) <= 1
    /\ requests # <<>> =>
         outstanding # {} /\ (flight # <<>> => net = "heard" /\ requests[1].acks)
    /\ flight # <<>> /\ net # "heard" => outstanding # {}

ServerIInv ==
  ServerInv /\ IdsInv /\ AckInv /\ WriteInv /\ StaleInv /\ KnowInv /\ TurnsInv
=============================================================================
