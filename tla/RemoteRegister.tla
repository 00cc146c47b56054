--------------------------- MODULE RemoteRegister ---------------------------
(***************************************************************************)
(* What the Modbus server promises the client of a register.  Requests are *)
(* carried out in the order they were made, each at most once.  An answer  *)
(* tells what its request stored, or what the register was when the        *)
(* request was carried out, and answers come in that order, too.  Requests *)
(* and answers may be lost, but a request that was carried out may only    *)
(* take those behind it along.  The register changes by a write, or by a   *)
(* restart that somebody asked for.                                        *)
(***************************************************************************)
EXTENDS Naturals, Sequences

CONSTANTS Values, Saved, Ids, None

VARIABLES
  awaited,    \* identifiers of the requests the client waits for
  known,      \* what the client was told last, None after it gave up
  asked,      \* requests not carried out yet
  answers,    \* to those that were, until the client is known to have heard them
  register,
  restarting

registerVars == <<awaited, known, asked, answers, register, restarting>>

RegisterInit ==
  /\ awaited = {} /\ known = None /\ asked = <<>> /\ answers = <<>>
  /\ register = Saved /\ restarting = FALSE

Used == awaited \cup {asked[i].id : i \in DOMAIN asked} \cup {answers[i].id : i \in DOMAIN answers}

AskFor(id, op, value) ==
  /\ awaited' = awaited \cup {id}
  /\ asked' = Append(asked, [id |-> id, op |-> op, value |-> value])
  /\ UNCHANGED <<known, answers, register, restarting>>

\* "deaf" is a request that gets no answer.
Request ==
  \E id \in Ids \ Used :
    \/ \E op \in {"read", "reboot", "deaf"} : AskFor(id, op, None)
    \/ \E v \in Values : AskFor(id, "write", v)

\* The client has heard the first k answers.
Heard(k) == \A i \in 1 .. k : answers[i].id \notin awaited
After(k) == SubSeq(answers, k + 1, Len(answers))

Reply(r) ==
  [id |-> r.id,
   value |-> CASE r.op = "write" -> r.value [] r.op = "read" -> register [] OTHER -> None]

\* The first request is carried out, and n - 1 behind it are lost.
CarryOut(n, k) ==
  LET r == asked[1] IN
  /\ register' = IF r.op = "write" THEN r.value ELSE register
  /\ restarting' = (restarting \/ r.op = "reboot")
  /\ asked' = SubSeq(asked, n + 1, Len(asked))
  /\ \/ answers' = After(k)
     \/ r.op # "deaf" /\ answers' = Append(After(k), Reply(r))
  /\ UNCHANGED <<awaited, known>>

Serve ==
  \E n \in DOMAIN asked : \E k \in 0 .. Len(answers) : Heard(k) /\ CarryOut(n, k)

Discard ==
  \E k \in 0 .. Len(answers) :
    Heard(k) /\ answers' = After(k) /\ UNCHANGED <<awaited, known, asked, register, restarting>>

\* Of the first n answers, those that tell the register to a client that waits for
\* them.
Telling(n) == {i \in 1 .. n : answers[i].id \in awaited /\ answers[i].value # None}

HearFirst(n) ==
  /\ awaited' = awaited \ {answers[i].id : i \in 1 .. n}
  /\ \/ Telling(n) = {} /\ known' = known
     \/ \E i \in Telling(n) : (\A j \in Telling(n) : j <= i) /\ known' = answers[i].value
  /\ UNCHANGED <<asked, answers, register, restarting>>

HearAnswers == \E n \in 1 .. Len(answers) : HearFirst(n)

Forget ==
  awaited' = {} /\ known' = None /\ UNCHANGED <<asked, answers, register, restarting>>

Gone == awaited' = {} /\ known' = None /\ asked' = <<>> /\ answers' = <<>>

Disconnect == Gone /\ UNCHANGED <<register, restarting>>

Restart == restarting /\ Gone /\ register' = Saved /\ restarting' = FALSE

RegisterNext ==
  Request \/ Serve \/ Discard \/ HearAnswers \/ Forget \/ Disconnect \/ Restart

RegisterSpec == RegisterInit /\ [][RegisterNext]_registerVars
=============================================================================
