---------------------------- MODULE ModbusServer ----------------------------
(***************************************************************************)
(* The Modbus TCP server, modbus_recv_cb of src/src/app_modbus.c, with the *)
(* receive buffers of src/src/ethernetif.c below it and the queues of lwIP *)
(* around it.  lwIP keeps what arrives out of order, in the buffers it     *)
(* came in, and hands the callback whatever has become readable in one     *)
(* chain; the callback frees the chain and looks at its first request      *)
(* only.  An answer waits in the send queue, by Nagle's rule, until all    *)
(* that was sent before is acknowledged.  Nothing of this runs during the  *)
(* second before a reboot.                                                 *)
(*                                                                         *)
(* One register stands for those kept in ModbusConfig_t.  Requests arrive  *)
(* whole, from one client at a time.                                       *)
(***************************************************************************)
EXTENDS Naturals, Sequences, FiniteSets

CONSTANTS
  Values,     \* of the register
  Saved,      \* its value in the settings in flash
  Windows,    \* how many requests a client may have outstanding; 1 is a client that
              \* takes turns, as tools/modbus_gui_flash.py does
  SendQueue,  \* answers that fit the send queue of lwIP
  RingSize,   \* ETH_RX_DESC_CNT
  Buffers,    \* ETH_RX_BUFFER_CNT (code: 12)
  Ids,        \* transaction identifiers: bounds what is under way at once
  None

ASSUME ServerAssumption ==
  /\ Saved \in Values /\ None \notin Values
  /\ Windows \subseteq Nat \ {0} /\ Windows # {} /\ SendQueue \in Nat \ {0}
  /\ RingSize \in Nat \ {0} /\ Buffers \in Nat /\ Buffers > RingSize
  /\ IsFiniteSet(Ids)

VARIABLES
  window,       \* of the client, which never changes
  outstanding,  \* identifiers of the requests it waits for
  view,         \* the value in the last answer it heard, None after it gave up
  requests,     \* those not yet handed over, in order; held tells whether lwIP keeps it
                \* in pcb->ooseq, acks whether its segment acknowledges the flight
  pool,         \* [free, armed] : buffers in RX_POOL and in receive descriptors
  RxAllocStatus,
  unsent,       \* pcb->unsent : answers
  flight,       \* pcb->unacked : answers sent together
  net,          \* the flight is on the "wire", "lost" or "heard"
  register,     \* ModbusCfg.targetRPM
  rebooting,    \* ModbusCfg.pendingRebootCmd
  at            \* the loop can be in "lwip", or is "dying": in HAL_Delay(1000)

clientVars == <<window, outstanding, view>>
rxVars == <<requests, pool, RxAllocStatus>>
txVars == <<unsent, flight, net>>
serverVars == <<clientVars, rxVars, txVars, register, rebooting, at>>

\* "deaf" is a request the callback does not answer: of another function, or for
\* no register or more than 20.
Ops == {"read", "write", "reboot", "deaf"}
Requests == [id : Ids, op : Ops, value : Values \cup {None},
             held : BOOLEAN, acks : BOOLEAN]
Answers == [id : Ids, value : Values \cup {None}]

FreshPool == [free |-> Buffers - RingSize, armed |-> RingSize]

ServerInit ==
  /\ window \in Windows /\ outstanding = {} /\ view = None
  /\ requests = <<>> /\ pool = FreshPool /\ RxAllocStatus = "OK"
  /\ unsent = <<>> /\ flight = <<>> /\ net = "heard"
  /\ register = Saved /\ rebooting = FALSE /\ at = "lwip"

IdsOf(s) == {s[i].id : i \in DOMAIN s}
FreeIds == Ids \ (outstanding \cup IdsOf(requests) \cup IdsOf(unsent) \cup IdsOf(flight))

Held == {i \in DOMAIN requests : requests[i].held}

\* Nothing is under way between client and server.
Quiet == requests = <<>> /\ unsent = <<>> /\ (flight = <<>> \/ net = "heard")

-----------------------------------------------------------------------------
(* The client. *)

Ask(op, value) ==
  /\ Cardinality(outstanding) < window /\ FreeIds # {}
  /\ LET id == CHOOSE i \in FreeIds : TRUE IN
       /\ requests' = Append(requests, [id |-> id, op |-> op, value |-> value,
                               held |-> FALSE, acks |-> flight # <<>> /\ net = "heard"])
       /\ outstanding' = outstanding \cup {id}
  /\ UNCHANGED <<window, view, pool, RxAllocStatus, txVars, register, rebooting, at>>

\* The answers that tell a client the register, of those it waits for.
Told(answers, awaited) ==
  {i \in DOMAIN answers : answers[i].id \in awaited /\ answers[i].value # None}

\* v is the last it is told.
LastTold(answers, awaited, v) ==
  \E i \in Told(answers, awaited) :
    answers[i].value = v /\ \A j \in Told(answers, awaited) : j <= i

\* The answers of a flight arrive together; one it no longer waits for is ignored.
Hear ==
  /\ flight # <<>> /\ net = "wire"
  /\ net' = "heard" /\ outstanding' = outstanding \ IdsOf(flight)
  /\ \/ Told(flight, outstanding) = {} /\ view' = view
     \/ \E v \in Values : LastTold(flight, outstanding, v) /\ view' = v
  /\ UNCHANGED <<window, rxVars, unsent, flight, register, rebooting, at>>

\* After its time-out the client forgets its requests and what it knew.  One that
\* takes turns waits until no answer can come any more.
GiveUp ==
  /\ outstanding # {} /\ (window = 1 => Quiet)
  /\ outstanding' = {} /\ view' = None
  /\ UNCHANGED <<window, rxVars, txVars, register, rebooting, at>>

-----------------------------------------------------------------------------
(* Receive buffers: HAL_ETH_ReadData, which takes a buffer out of the ring and *)
(* refills it by HAL_ETH_RxAllocateCallback, and pbuf_free_custom. *)

\* Mutant: only the first buffer of a chain is freed.
OneFreed(buffers) == IF buffers = 0 THEN 0 ELSE 1
FreedOf(buffers) == buffers

\* Mutant: a pool that ran dry is not looked at again.
KeepsStatus(freed, dry) == IF dry THEN "ERROR" ELSE RxAllocStatus
StatusAfter(freed, dry) ==
  IF freed > 0 THEN "OK" ELSE IF dry THEN "ERROR" ELSE RxAllocStatus

\* taken buffers leave the ring, the ring is refilled as far as the pool goes,
\* then lwIP frees some; a free lifts the error.
ReadData(taken, buffers) ==
  LET lacking == RingSize - (pool.armed - taken)
      given == IF lacking <= pool.free THEN lacking ELSE pool.free
      freed == FreedOf(buffers)
  IN /\ pool' = [free |-> pool.free - given + freed, armed |-> pool.armed - taken + given]
     /\ RxAllocStatus' = StatusAfter(freed, given < lacking)

\* low_level_input; in "lwip" only.
Receives == at = "lwip" /\ RxAllocStatus = "OK"

\* A call that finds no frame; it refills the ring if need be.
Poll ==
  /\ Receives /\ pool.armed < RingSize
  /\ ReadData(0, 0)
  /\ UNCHANGED <<clientVars, requests, txVars, register, rebooting, at>>

\* The timer of lwIP drops what is kept out of order, and the client repeats it.
OoseqTimeout ==
  /\ at = "lwip" /\ Held # {}
  /\ requests' = [i \in DOMAIN requests |-> [requests[i] EXCEPT !.held = FALSE]]
  /\ pool' = [pool EXCEPT !.free = @ + Cardinality(Held)]
  /\ RxAllocStatus' = StatusAfter(Cardinality(Held), FALSE)
  /\ UNCHANGED <<clientVars, txVars, register, rebooting, at>>

-----------------------------------------------------------------------------
(* Acknowledgements and the send queue. *)

\* Mutant: the queue is only put on the line by the next segment that arrives.
OutputLater(queue, rest, push) == unsent' = queue /\ flight' = rest /\ net' = net

\* tcp_output when queue is unsent and rest unacknowledged: Nagle's rule, which a
\* failed tcp_write suspends.
Output(queue, rest, push) ==
  IF queue # <<>> /\ (rest = <<>> \/ push)
    THEN /\ unsent' = <<>> /\ flight' = rest \o queue
         /\ net' = IF rest # <<>> /\ net = "lost" THEN "lost" ELSE "wire"
    ELSE unsent' = queue /\ flight' = rest /\ net' = net

\* Mutant: only what a bare segment acknowledges is freed.
NotFreed(s) == flight
\* tcp_receive frees what a segment of s acknowledges.
StillUnacked(s) == IF \E i \in DOMAIN s : s[i].acks THEN <<>> ELSE flight

\* The acknowledgement in a segment of the client is of the flight of its time.
Forward(s) ==
  IF flight' = flight THEN s ELSE [i \in DOMAIN s |-> [s[i] EXCEPT !.acks = FALSE]]

\* A segment that only acknowledges.
Ack ==
  /\ Receives /\ flight # <<>> /\ net = "heard"
  /\ Output(unsent, <<>>, FALSE) /\ requests' = Forward(requests)
  /\ UNCHANGED <<clientVars, pool, RxAllocStatus, register, rebooting, at>>

\* The flight is lost on its way, and sent again by the timer of lwIP.
Lose ==
  /\ flight # <<>> /\ net = "wire" /\ net' = "lost"
  /\ UNCHANGED <<clientVars, rxVars, unsent, flight, register, rebooting, at>>

Retransmit ==
  /\ at = "lwip" /\ flight # <<>> /\ net = "lost" /\ net' = "wire"
  /\ UNCHANGED <<clientVars, rxVars, unsent, flight, register, rebooting, at>>

-----------------------------------------------------------------------------
(* Requests. *)

\* The i-th request arrives before the first: lwIP keeps its buffer.
OutOfOrder(i) ==
  /\ Receives /\ pool.armed > 0 /\ i > 1 /\ i \notin Held
  /\ ReadData(1, 0)
  /\ Output(unsent, StillUnacked(<<requests[i]>>), FALSE)
  /\ requests' = Forward([requests EXCEPT ![i].held = TRUE])
  /\ UNCHANGED <<clientVars, register, rebooting, at>>

\* tcp_write succeeds.
Fits(rest) == Len(unsent) + Len(rest) < SendQueue

\* Mutant: a write is answered with the register as it was before.
ReadBack(r) == IF r.op \in {"read", "write"} THEN register ELSE None
\* The echo of a write, or the register.
Said(r) == CASE r.op = "write" -> r.value [] r.op = "read" -> register [] OTHER -> None

\* Mutant: the answer is made from the end of the chain.
AnswerToLast(chain) == [id |-> chain[Len(chain)].id, value |-> Said(chain[Len(chain)])]
AnswerTo(chain) == [id |-> Head(chain).id, value |-> Said(Head(chain))]

\* The callback with a chain; its tcp_output does nothing inside tcp_input, which
\* calls tcp_output at its end.
modbus_recv_cb(chain, unacked) ==
  LET r == Head(chain)
      answered == r.op # "deaf"
      written == answered /\ Fits(unacked)
  IN
  /\ register' = IF r.op = "write" THEN r.value ELSE register
  /\ rebooting' = (rebooting \/ r.op = "reboot")
  /\ Output(IF written THEN Append(unsent, AnswerTo(chain)) ELSE unsent,
            unacked, answered /\ ~written)

\* A segment with the first n requests arrives; what is kept behind it, up to end,
\* becomes readable, too.
InOrder(n, end) ==
  /\ Receives /\ pool.armed > 0
  /\ (n + 1) .. end \subseteq Held /\ end + 1 \notin Held
  /\ ReadData(1, 1 + Cardinality(Held \cap (1 .. end)))
  /\ modbus_recv_cb(SubSeq(requests, 1, end), StillUnacked(SubSeq(requests, 1, n)))
  /\ requests' = Forward(SubSeq(requests, end + 1, Len(requests)))
  /\ UNCHANGED <<clientVars, at>>

-----------------------------------------------------------------------------
(* Connection and reboot. *)

\* The connection is gone; the client makes a new one.
Disconnected ==
  /\ outstanding' = {} /\ view' = None /\ requests' = <<>>
  /\ unsent' = <<>> /\ flight' = <<>> /\ net' = "heard" /\ UNCHANGED window

\* Either side drops it; lwIP frees what it keeps.
Break ==
  /\ at = "lwip" /\ Disconnected
  /\ pool' = [pool EXCEPT !.free = @ + Cardinality(Held)]
  /\ RxAllocStatus' = StatusAfter(Cardinality(Held), FALSE)
  /\ UNCHANGED <<register, rebooting, at>>

\* The main loop finds the flag.
Arbitrate ==
  /\ at = "lwip" /\ rebooting /\ at' = "dying" /\ rebooting' = FALSE
  /\ UNCHANGED <<clientVars, rxVars, txVars, register>>

\* NVIC_SystemReset; after the boot the register has the value of the settings.
Reset ==
  /\ at = "dying" /\ at' = "lwip" /\ register' = Saved
  /\ Disconnected /\ pool' = FreshPool /\ RxAllocStatus' = "OK"
  /\ UNCHANGED rebooting

Arrive == \E n \in DOMAIN requests : \E end \in n .. Len(requests) : InOrder(n, end)

ServerNext ==
  \/ \E op \in Ops \ {"write"} : Ask(op, None)
  \/ \E v \in Values : Ask("write", v)
  \/ \E i \in DOMAIN requests : OutOfOrder(i)
  \/ Hear \/ GiveUp \/ Poll \/ OoseqTimeout \/ Ack \/ Lose \/ Retransmit \/ Arrive
  \/ Break \/ Arbitrate \/ Reset

\* The loop, the timers and both TCP stacks proceed, the client has a time-out,
\* and what is sent over and over is not lost every time.
ServerSpec ==
  /\ ServerInit /\ [][ServerNext]_serverVars
  /\ WF_serverVars(Arrive) /\ WF_serverVars(Poll) /\ WF_serverVars(OoseqTimeout)
  /\ WF_serverVars(Retransmit) /\ SF_serverVars(Hear) /\ WF_serverVars(GiveUp)
  /\ WF_serverVars(Arbitrate) /\ WF_serverVars(Reset)
=============================================================================
