------------------------- MODULE ModbusServerProofs -------------------------
(***************************************************************************)
(* The Modbus server, for every register, every window of the client and   *)
(* every size of the send queue, the ring and the pool.  ServerIInv is     *)
(* inductive; what a client may rely on follows from it.                   *)
(***************************************************************************)
EXTENDS ModbusServerProperties, TLAPS, SequenceTheorems, FiniteSetTheorems

-----------------------------------------------------------------------------
(* Identifiers, and what answers tell. *)

LEMMA IdsOfEmpty == IdsOf(<< >>) = {}
BY DEF IdsOf

LEMMA IdsOfAppend ==
  ASSUME NEW S, NEW s \in Seq(S), NEW e \in S
  PROVE  IdsOf(Append(s, e)) = IdsOf(s) \cup {e.id}
<1> DEFINE t == Append(s, e)
<1>1. /\ Len(t) = Len(s) + 1 /\ t[Len(s) + 1] = e /\ t \in Seq(S)
      /\ \A i \in 1 .. Len(s) : t[i] = s[i]
  BY AppendProperties
<1>2. Len(s) \in Nat /\ DOMAIN s = 1 .. Len(s) /\ DOMAIN t = 1 .. Len(t)
  BY <1>1, LenProperties
<1> HIDE DEF t
<1>3. DOMAIN t = (1 .. Len(s)) \cup {Len(s) + 1}
  BY <1>1, <1>2
<1>4. \A x \in IdsOf(t) : x \in IdsOf(s) \cup {e.id}
  <2> SUFFICES ASSUME NEW i \in DOMAIN t PROVE t[i].id \in IdsOf(s) \cup {e.id}
    BY DEF IdsOf
  <2>1. CASE i \in 1 .. Len(s)
    BY <1>1, <1>2, <2>1, Zenon DEF IdsOf
  <2>2. CASE i = Len(s) + 1
    BY <1>1, <2>2
  <2> QED BY <1>3, <2>1, <2>2
<1>5. e.id \in IdsOf(t) /\ \A x \in IdsOf(s) : x \in IdsOf(t)
  BY <1>1, <1>2, <1>3 DEF IdsOf
<1> QED BY <1>4, <1>5 DEF t

LEMMA ConcatAt ==
  ASSUME NEW S, NEW s \in Seq(S), NEW t \in Seq(S)
  PROVE  /\ s \o t \in Seq(S) /\ Len(s) \in Nat /\ Len(t) \in Nat
         /\ DOMAIN s = 1 .. Len(s) /\ DOMAIN t = 1 .. Len(t)
         /\ Len(s \o t) = Len(s) + Len(t) /\ DOMAIN (s \o t) = 1 .. Len(s) + Len(t)
         /\ \A i \in 1 .. Len(s) : (s \o t)[i] = s[i]
         /\ \A i \in 1 .. Len(t) : (s \o t)[Len(s) + i] = t[i]
<1>1. Len(s) \in Nat /\ Len(t) \in Nat /\ DOMAIN s = 1 .. Len(s) /\ DOMAIN t = 1 .. Len(t)
  BY LenProperties
<1>2. /\ s \o t \in Seq(S) /\ Len(s \o t) = Len(s) + Len(t)
      /\ \A i \in 1 .. Len(s) + Len(t) : (s \o t)[i] =
                     IF i <= Len(s) THEN s[i] ELSE t[i - Len(s)]
  BY ConcatProperties
<1>3. DOMAIN (s \o t) = 1 .. Len(s) + Len(t)
  BY <1>2, LenProperties
<1>4. \A i \in 1 .. Len(s) : (s \o t)[i] = s[i]
  BY <1>1, <1>2
<1>5. \A i \in 1 .. Len(t) : (s \o t)[Len(s) + i] = t[i]
  <2> TAKE i \in 1 .. Len(t)
  <2>1. /\ Len(s) + i \in 1 .. Len(s) + Len(t) /\ ~(Len(s) + i <= Len(s))
        /\ (Len(s) + i) - Len(s) = i
    BY <1>1
  <2> QED BY <1>2, <2>1
<1> QED BY <1>1, <1>2, <1>3, <1>4, <1>5

LEMMA IdsOfConcat ==
  ASSUME NEW s \in Seq(Answers), NEW t \in Seq(Answers)
  PROVE  IdsOf(s \o t) = IdsOf(s) \cup IdsOf(t)
<1> DEFINE u == s \o t
<1>1. /\ Len(s) \in Nat /\ Len(t) \in Nat
      /\ DOMAIN s = 1 .. Len(s) /\ DOMAIN t = 1 .. Len(t) /\ DOMAIN u = 1 .. Len(s) + Len(t)
      /\ \A i \in 1 .. Len(s) : u[i] = s[i]
      /\ \A i \in 1 .. Len(t) : u[Len(s) + i] = t[i]
  BY ConcatAt
<1> HIDE DEF u
<1>2. \A i \in DOMAIN u : i \in DOMAIN s \/ \E j \in DOMAIN t : i = Len(s) + j
  <2> SUFFICES ASSUME NEW i \in DOMAIN u, i \notin DOMAIN s
               PROVE  \E j \in DOMAIN t : i = Len(s) + j
    OBVIOUS
  <2>1. i - Len(s) \in DOMAIN t /\ i = Len(s) + (i - Len(s))
    BY <1>1
  <2> QED BY <2>1, Zenon
<1>3. \A j \in DOMAIN t : Len(s) + j \in DOMAIN u
  BY <1>1
<1>4. \A i \in DOMAIN s : i \in DOMAIN u
  BY <1>1
<1>5. \A x \in IdsOf(u) : x \in IdsOf(s) \/ x \in IdsOf(t)
  <2> SUFFICES ASSUME NEW i \in DOMAIN u PROVE u[i].id \in IdsOf(s) \/ u[i].id \in IdsOf(t)
    BY DEF IdsOf
  <2>1. CASE i \in DOMAIN s
    BY <1>1, <2>1, Zenon DEF IdsOf
  <2>2. CASE \E j \in DOMAIN t : i = Len(s) + j
    <3>1. PICK j \in DOMAIN t : i = Len(s) + j
      BY <2>2
    <3>2. u[i] = t[j]
      BY <1>1, <3>1
    <3> QED BY <3>2, Zenon DEF IdsOf
  <2> QED BY <1>2, <2>1, <2>2, Zenon
<1>6. \A j \in DOMAIN s : s[j].id \in IdsOf(u)
  BY <1>1, <1>4, Zenon DEF IdsOf
<1>7. \A j \in DOMAIN t : t[j].id \in IdsOf(u)
  BY <1>1, <1>3, Zenon DEF IdsOf
<1>8. \A x \in IdsOf(s) \cup IdsOf(t) : x \in IdsOf(u)
  BY <1>6, <1>7 DEF IdsOf
<1> QED BY <1>5, <1>8 DEF u

\* Answers nobody waits for tell nothing.
LEMMA NothingTold ==
  ASSUME NEW s, NEW awaited, IdsOf(s) \cap awaited = {}
  PROVE  Told(s, awaited) = {} /\ \A v : ~LastTold(s, awaited, v)
BY DEF Told, LastTold, IdsOf

\* What is told depends on the identifiers in the answers only.
LEMMA SameTold ==
  ASSUME NEW s, NEW a, NEW b, \A id \in IdsOf(s) : (id \in a <=> id \in b)
  PROVE  Told(s, a) = Told(s, b) /\ \A v : LastTold(s, a, v) <=> LastTold(s, b, v)
<1>1. Told(s, a) = Told(s, b)
  BY Zenon DEF Told, IdsOf
<1> QED BY <1>1, Zenon DEF LastTold

\* Of two sequences of answers the second has the last word.
LEMMA ToldConcat ==
  ASSUME NEW s \in Seq(Answers), NEW t \in Seq(Answers), NEW a
  PROVE  /\ Told(s \o t, a) = {} => Told(s, a) = {} /\ Told(t, a) = {}
         /\ \A v : LastTold(s \o t, a, v) =>
              LastTold(t, a, v) \/ (Told(t, a) = {} /\ LastTold(s, a, v))
<1> DEFINE u == s \o t
<1>1. /\ Len(s) \in Nat /\ Len(t) \in Nat
      /\ DOMAIN s = 1 .. Len(s) /\ DOMAIN t = 1 .. Len(t) /\ DOMAIN u = 1 .. Len(s) + Len(t)
      /\ \A i \in 1 .. Len(s) : u[i] = s[i]
      /\ \A i \in 1 .. Len(t) : u[Len(s) + i] = t[i]
  BY ConcatAt
<1> HIDE DEF u
<1>2. \A i \in Told(s, a) : i \in Told(u, a)
  BY <1>1 DEF Told
<1>3. \A j \in Told(t, a) : Len(s) + j \in Told(u, a)
  BY <1>1 DEF Told
<1>4. ASSUME NEW v, LastTold(u, a, v)
      PROVE  LastTold(t, a, v) \/ (Told(t, a) = {} /\ LastTold(s, a, v))
  <2>1. PICK i \in Told(u, a) : u[i].value = v /\ \A j \in Told(u, a) : j <= i
    BY <1>4, Zenon DEF LastTold
  <2>2. CASE i \in DOMAIN s
    <3>1. i \in Told(s, a) /\ s[i].value = v
      BY <1>1, <2>1, <2>2 DEF Told
    <3>2. \A j \in Told(s, a) : j <= i
      BY <1>2, <2>1
    <3>3. Told(t, a) = {}
      <4> SUFFICES ASSUME NEW j \in Told(t, a) PROVE FALSE
        OBVIOUS
      <4>1. j \in 1 .. Len(t) /\ Len(s) + j <= i /\ i \in 1 .. Len(s)
        BY <1>1, <1>3, <2>1, <2>2 DEF Told
      <4> QED BY <1>1, <4>1
    <3> QED BY <3>1, <3>2, <3>3, Zenon DEF LastTold
  <2>3. CASE i \notin DOMAIN s
    <3> DEFINE k == i - Len(s)
    <3>1. i \in 1 .. Len(s) + Len(t)
      BY <1>1, <2>1 DEF Told
    <3>2. k \in 1 .. Len(t) /\ Len(s) + k = i
      BY <1>1, <2>3, <3>1
    <3>3. k \in Told(t, a) /\ t[k].value = v
      BY <1>1, <2>1, <3>2 DEF Told
    <3>4. \A j \in Told(t, a) : j <= k
      <4> SUFFICES ASSUME NEW j \in Told(t, a) PROVE j <= k
        OBVIOUS
      <4>1. j \in 1 .. Len(t) /\ Len(s) + j <= i
        BY <1>1, <1>3, <2>1 DEF Told
      <4> QED BY <1>1, <3>1, <4>1
    <3> QED BY <3>3, <3>4, Zenon DEF LastTold
  <2> QED BY <2>2, <2>3
<1> QED BY <1>2, <1>3, <1>4, Zenon DEF u

\* A single answer behind the others.
LEMMA ToldAppend ==
  ASSUME NEW s \in Seq(Answers), NEW e \in Answers, NEW a
  PROVE  /\ Told(Append(s, e), a) = {} =>
              Told(s, a) = {} /\ ~(e.id \in a /\ e.value # None)
         /\ \A v : LastTold(Append(s, e), a, v) =>
              \/ e.id \in a /\ e.value = v /\ v # None
              \/ ~(e.id \in a /\ e.value # None) /\ LastTold(s, a, v)
<1> DEFINE t == Append(s, e)
           n == Len(s) + 1
<1>1. /\ Len(t) = n /\ t[n] = e /\ t \in Seq(Answers)
      /\ \A i \in 1 .. Len(s) : t[i] = s[i]
  BY AppendProperties
<1>2. Len(s) \in Nat /\ DOMAIN s = 1 .. Len(s) /\ DOMAIN t = 1 .. Len(t)
  BY <1>1, LenProperties
<1> HIDE DEF t
<1>3. /\ DOMAIN t = (DOMAIN s) \cup {n} /\ n \in DOMAIN t
      /\ \A i \in DOMAIN s : i \in DOMAIN t /\ ~(n <= i)
  BY <1>1, <1>2
<1> HIDE DEF n
<1>4. \A i \in Told(s, a) : i \in Told(t, a)
  BY <1>1, <1>2, <1>3, Zenon DEF Told
<1>5. e.id \in a /\ e.value # None <=> n \in Told(t, a)
  BY <1>1, <1>3, Zenon DEF Told
<1>6. ASSUME NEW v, LastTold(t, a, v)
      PROVE  \/ e.id \in a /\ e.value = v /\ v # None
             \/ ~(e.id \in a /\ e.value # None) /\ LastTold(s, a, v)
  <2>1. PICK i \in Told(t, a) : t[i].value = v /\ \A j \in Told(t, a) : j <= i
    BY <1>6, Zenon DEF LastTold
  <2>2. CASE i = n
    BY <1>1, <1>5, <2>1, <2>2, Zenon
  <2>3. CASE i # n
    <3>1. i \in DOMAIN s
      BY <1>3, <2>1, <2>3, Zenon DEF Told
    <3>2. i \in Told(s, a) /\ s[i].value = v
      BY <1>1, <1>2, <2>1, <3>1, Zenon DEF Told
    <3>3. n \notin Told(t, a)
      BY <1>3, <2>1, <3>1, Zenon
    <3> QED BY <1>4, <1>5, <2>1, <3>2, <3>3, Zenon DEF LastTold
  <2> QED BY <2>2, <2>3
<1> QED BY <1>4, <1>5, <1>6, Zenon DEF t

-----------------------------------------------------------------------------
(* What Output, StillUnacked and Forward do. *)

LEMMA ForwardFacts ==
  ASSUME NEW s \in Seq(Requests)
  PROVE  /\ Forward(s) \in Seq(Requests) /\ Len(Forward(s)) = Len(s)
         /\ DOMAIN Forward(s) = DOMAIN s
         /\ \A i \in DOMAIN s :
              /\ Forward(s)[i].id = s[i].id /\ Forward(s)[i].op = s[i].op
              /\ Forward(s)[i].value = s[i].value /\ Forward(s)[i].held = s[i].held
              /\ Forward(s)[i].acks => s[i].acks /\ flight' = flight
<1>1. Len(s) \in Nat /\ DOMAIN s = 1 .. Len(s) /\ \A i \in 1 .. Len(s) : s[i] \in Requests
  BY LenProperties, ElementOfSeq
<1>2. CASE flight' = flight
  BY <1>1, <1>2 DEF Forward
<1>3. CASE flight' # flight
  <2> DEFINE t == [i \in DOMAIN s |-> [s[i] EXCEPT !.acks = FALSE]]
  <2>1. Forward(s) = t
    BY <1>3 DEF Forward
  <2>2. \A i \in 1 .. Len(s) :
          /\ t[i] \in Requests /\ t[i].id = s[i].id /\ t[i].op = s[i].op
          /\ t[i].value = s[i].value /\ t[i].held = s[i].held /\ t[i].acks = FALSE
    BY <1>1 DEF Requests
  <2>3. DOMAIN t = 1 .. Len(s) /\ t \in [1 .. Len(s) -> Requests]
    BY <1>1, <2>2
  <2> HIDE DEF t
  <2>4. t \in Seq(Requests)
    BY <1>1, <2>3, SeqDef
  <2>5. Len(t) = Len(s)
    BY <1>1, <2>3, <2>4, LenProperties
  <2> QED BY <1>1, <2>1, <2>2, <2>3, <2>4, <2>5
<1> QED BY <1>2, <1>3

\* Two sequences with the same identifiers in the same places.
LEMMA SameIds ==
  ASSUME NEW s, NEW t, DOMAIN t = DOMAIN s, \A i \in DOMAIN s : t[i].id = s[i].id
  PROVE  IdsOf(t) = IdsOf(s)
BY DEF IdsOf

\* A segment that acknowledges the flight acknowledges answers that were heard.
LEMMA UnackedFacts ==
  ASSUME NEW s, ServerTypeOK, (\E i \in DOMAIN s : s[i].acks) => net = "heard"
  PROVE  /\ StillUnacked(s) \in Seq(Answers)
         /\ StillUnacked(s) = flight \/ (StillUnacked(s) = << >> /\ net = "heard")
         /\ IdsOf(StillUnacked(s)) \subseteq IdsOf(flight)
         /\ Len(StillUnacked(s)) <= Len(flight) /\ Len(StillUnacked(s)) \in Nat
<1>1. << >> \in Seq(Answers) /\ Len(<< >>) = 0 /\ Len(flight) \in Nat /\ flight \in Seq(Answers)
  BY EmptySeq, LenProperties DEF ServerTypeOK
<1> QED BY <1>1, IdsOfEmpty DEF StillUnacked

\* The answers only move from the send queue to the line.
LEMMA OutputFacts ==
  ASSUME NEW queue \in Seq(Answers), NEW rest \in Seq(Answers), NEW push \in BOOLEAN,
         Output(queue, rest, push), net \in {"wire", "lost", "heard"}
  PROVE  /\ unsent' \in Seq(Answers) /\ flight' \in Seq(Answers)
         /\ net' \in {"wire", "lost", "heard"}
         /\ Len(unsent') + Len(flight') = Len(queue) + Len(rest)
         /\ IdsOf(flight') \cup IdsOf(unsent') = IdsOf(queue) \cup IdsOf(rest)
         /\ (IdsOf(queue) \cap IdsOf(rest) = {}) => (IdsOf(flight') \cap IdsOf(unsent') = {})
         /\ \/ unsent' = queue /\ flight' = rest /\ net' = net
            \/ /\ unsent' = << >> /\ flight' = rest \o queue /\ queue # << >>
               /\ net' # "heard" /\ (rest = << >> \/ push)
         /\ \A a, w, v : WillKnow(flight', unsent', a, w, v) => WillKnow(rest, queue, a, w, v)
<1>0. << >> \in Seq(Answers) /\ Len(<< >>) = 0 /\ Len(queue) \in Nat /\ Len(rest) \in Nat
  BY EmptySeq, LenProperties
<1>1. CASE queue # << >> /\ (rest = << >> \/ push)
  <2>1. /\ unsent' = << >> /\ flight' = rest \o queue
        /\ net' = "lost" \/ net' = "wire"
    BY <1>1, Zenon DEF Output
  <2>2. flight' \in Seq(Answers) /\ Len(flight') = Len(rest) + Len(queue)
    BY <2>1, ConcatAt
  <2>3. IdsOf(flight') = IdsOf(rest) \cup IdsOf(queue) /\ IdsOf(unsent') = {}
    BY <2>1, IdsOfConcat, IdsOfEmpty
  <2>4. ASSUME NEW a, NEW w, NEW v, WillKnow(flight', unsent', a, w, v)
        PROVE  WillKnow(rest, queue, a, w, v)
    <3>1. ~LastTold(unsent', a, v)
      BY <2>3, NothingTold, Zenon
    <3>2. LastTold(flight', a, v) \/ (Told(flight', a) = {} /\ w = v)
      BY <2>4, <3>1, Zenon DEF WillKnow
    <3> QED BY <2>1, <3>2, ToldConcat, Zenon DEF WillKnow
  <2>5. net' # "heard" /\ net' \in {"wire", "lost", "heard"}
    BY <2>1
  <2>6. Len(unsent') + Len(flight') = Len(queue) + Len(rest)
    BY <1>0, <2>1, <2>2
  <2>7. IdsOf(flight') \cap IdsOf(unsent') = {}
    BY <2>3
  <2>8. IdsOf(flight') \cup IdsOf(unsent') = IdsOf(queue) \cup IdsOf(rest)
    BY <2>3
  <2> QED BY <1>0, <1>1, <2>1, <2>2, <2>4, <2>5, <2>6, <2>7, <2>8, Zenon
<1>2. CASE ~(queue # << >> /\ (rest = << >> \/ push))
  <2>1. unsent' = queue /\ flight' = rest /\ net' = net
    BY <1>2, Zenon DEF Output
  <2>2. IdsOf(flight') \cup IdsOf(unsent') = IdsOf(queue) \cup IdsOf(rest)
    BY <2>1
  <2>3. (IdsOf(queue) \cap IdsOf(rest) = {}) => (IdsOf(flight') \cap IdsOf(unsent') = {})
    BY <2>1
  <2>4. Len(unsent') + Len(flight') = Len(queue) + Len(rest)
    BY <2>1
  <2> QED BY <2>1, <2>2, <2>3, <2>4, Zenon
<1> QED BY <1>1, <1>2, Zenon

LEMMA OutputTypes ==
  ASSUME NEW queue \in Seq(Answers), NEW rest \in Seq(Answers), NEW push \in BOOLEAN,
         Output(queue, rest, push), net \in {"wire", "lost", "heard"}
  PROVE  /\ unsent' \in Seq(Answers) /\ flight' \in Seq(Answers)
         /\ net' \in {"wire", "lost", "heard"}
         /\ Len(unsent') + Len(flight') = Len(queue) + Len(rest)
BY OutputFacts

LEMMA OutputIds ==
  ASSUME NEW queue \in Seq(Answers), NEW rest \in Seq(Answers), NEW push \in BOOLEAN,
         Output(queue, rest, push), net \in {"wire", "lost", "heard"}
  PROVE  /\ IdsOf(flight') \cup IdsOf(unsent') = IdsOf(queue) \cup IdsOf(rest)
         /\ (IdsOf(queue) \cap IdsOf(rest) = {}) => (IdsOf(flight') \cap IdsOf(unsent') = {})
BY OutputFacts

LEMMA OutputForm ==
  ASSUME NEW queue \in Seq(Answers), NEW rest \in Seq(Answers), NEW push \in BOOLEAN,
         Output(queue, rest, push), net \in {"wire", "lost", "heard"}
  PROVE  \/ unsent' = queue /\ flight' = rest /\ net' = net
         \/ /\ unsent' = << >> /\ flight' = rest \o queue /\ queue # << >>
            /\ net' # "heard" /\ (rest = << >> \/ push)
BY OutputFacts

LEMMA OutputTold ==
  ASSUME NEW queue \in Seq(Answers), NEW rest \in Seq(Answers), NEW push \in BOOLEAN,
         Output(queue, rest, push), net \in {"wire", "lost", "heard"}
  PROVE  \A a, w, v : WillKnow(flight', unsent', a, w, v) => WillKnow(rest, queue, a, w, v)
BY OutputFacts

-----------------------------------------------------------------------------
(* Receive buffers. *)

LEMMA HeldFinite ==
  ASSUME requests \in Seq(Requests)
  PROVE  /\ IsFiniteSet(Held) /\ Cardinality(Held) \in Nat
         /\ Held \subseteq 1 .. Len(requests) /\ Len(requests) \in Nat
         /\ DOMAIN requests = 1 .. Len(requests)
<1>1. Len(requests) \in Nat /\ DOMAIN requests = 1 .. Len(requests)
  BY LenProperties
<1>2. IsFiniteSet(1 .. Len(requests))
  BY <1>1, FS_Interval
<1>3. Held \subseteq 1 .. Len(requests)
  BY <1>1 DEF Held
<1>4. IsFiniteSet(Held)
  BY <1>2, <1>3, FS_Subset
<1> QED BY <1>1, <1>3, <1>4, FS_CardinalityType

\* The buffers are those of the pool; only their places change.
LEMMA ReadDataFacts ==
  ASSUME ServerTypeOK, NEW taken \in 0 .. pool.armed, NEW buffers \in Nat,
         ReadData(taken, buffers)
  PROVE  /\ pool' \in [free : Nat, armed : 0 .. RingSize]
         /\ pool'.free + pool'.armed = pool.free + pool.armed - taken + buffers
         /\ RxAllocStatus' \in {"OK", "ERROR"}
<1> DEFINE lacking == RingSize - (pool.armed - taken)
           given == IF lacking <= pool.free THEN lacking ELSE pool.free
<1>1. pool.free \in Nat /\ pool.armed \in 0 .. RingSize /\ RingSize \in Nat
  BY ServerAssumption DEF ServerTypeOK
<1>2. lacking \in Nat /\ given \in Nat /\ given <= lacking /\ given <= pool.free
  BY <1>1
<1>3. /\ pool' = [free |-> pool.free - given + buffers, armed |-> pool.armed - taken + given]
      /\ RxAllocStatus' = StatusAfter(buffers, given < lacking)
  BY DEF ReadData, FreedOf
<1>4. pool.free - given + buffers \in Nat /\ pool.armed - taken + given \in 0 .. RingSize
  <2>1. pool.armed - taken \in Nat /\ lacking = RingSize - (pool.armed - taken)
    BY <1>1
  <2> HIDE DEF lacking, given
  <2> QED BY <1>1, <1>2, <2>1
<1>5. RxAllocStatus' \in {"OK", "ERROR"}
  BY <1>3 DEF StatusAfter, ServerTypeOK
<1> HIDE DEF lacking, given
<1> QED BY <1>1, <1>2, <1>3, <1>4, <1>5

\* What is accounted for fits.
LEMMA PoolFits ==
  ASSUME requests' \in Seq(Requests), pool' \in [free : Nat, armed : 0 .. RingSize],
         BuffersAccounted'
  PROVE  pool' \in [free : 0 .. Buffers, armed : 0 .. RingSize]
<1>1. Cardinality(Held') \in Nat
  <2>1. Len(requests') \in Nat /\ DOMAIN requests' = 1 .. Len(requests')
    BY LenProperties
  <2>2. IsFiniteSet(1 .. Len(requests'))
    BY <2>1, FS_Interval
  <2>3. Held' \subseteq 1 .. Len(requests')
    BY <2>1 DEF Held
  <2> QED BY <2>2, <2>3, FS_Subset, FS_CardinalityType
<1>2. pool'.free \in Nat /\ pool'.armed \in 0 .. RingSize /\ RingSize \in Nat /\ Buffers \in Nat
  BY ServerAssumption
<1>3. pool'.free + pool'.armed + Cardinality(Held') = Buffers
  BY DEF BuffersAccounted
<1>4. pool'.free \in 0 .. Buffers
  BY <1>1, <1>2, <1>3
<1> QED BY <1>4

\* A chain takes the buffers that are held for it, and no other.
LEMMA HeldBehind ==
  ASSUME requests \in Seq(Requests), NEW e \in 1 .. Len(requests),
         DOMAIN requests' = 1 .. Len(requests) - e,
         \A i \in 1 .. Len(requests) - e : requests'[i].held = requests[e + i].held
  PROVE  Cardinality(Held') = Cardinality(Held) - Cardinality(Held \cap (1 .. e))
<1> DEFINE S == Held \ (1 .. e)
           f == [i \in Held' |-> e + i]
<1>1. /\ IsFiniteSet(Held) /\ Held \subseteq 1 .. Len(requests)
      /\ Len(requests) \in Nat /\ DOMAIN requests = 1 .. Len(requests)
  BY HeldFinite
<1>2. Held' \subseteq 1 .. Len(requests) - e
  BY DEF Held
<1>3. f \in [Held' -> S]
  <2> SUFFICES ASSUME NEW i \in Held' PROVE e + i \in Held /\ e + i \notin 1 .. e
    OBVIOUS
  <2>1. i \in 1 .. Len(requests) - e /\ requests[e + i].held
    BY <1>2 DEF Held
  <2>2. e + i \in DOMAIN requests /\ e + i \notin 1 .. e
    BY <1>1, <2>1
  <2> QED BY <2>1, <2>2 DEF Held
<1>4. \A i, j \in Held' : f[i] = f[j] => i = j
  <2> SUFFICES ASSUME NEW i \in Held', NEW j \in Held', e + i = e + j PROVE i = j
    OBVIOUS
  <2>1. i \in Int /\ j \in Int
    BY <1>2
  <2> QED BY <2>1
<1>5. \A k \in S : \E i \in Held' : f[i] = k
  <2> SUFFICES ASSUME NEW k \in S PROVE \E i \in Held' : f[i] = k
    OBVIOUS
  <2>1. k \in 1 .. Len(requests) /\ k \notin 1 .. e /\ requests[k].held
    BY <1>1 DEF Held
  <2>2. k - e \in 1 .. Len(requests) - e /\ e + (k - e) = k
    BY <1>1, <2>1
  <2>3. k - e \in Held'
    BY <2>1, <2>2 DEF Held
  <2> QED BY <2>2, <2>3
<1>6. f \in Bijection(Held', S)
  BY <1>3, <1>4, <1>5, Zenon DEF Bijection, Injection, Surjection, IsInjective
<1>7. IsFiniteSet(S) /\ Cardinality(S) = Cardinality(Held) - Cardinality(Held \cap (1 .. e))
  BY <1>1, FS_Difference
<1>8. IsFiniteSet(Held')
  <2>1. IsFiniteSet(1 .. Len(requests) - e)
    BY <1>1, FS_Interval
  <2> QED BY <1>2, <2>1, FS_Subset
<1>9. Cardinality(S) = Cardinality(Held')
  BY <1>6, <1>8, FS_Bijection, Zenon DEF ExistsBijection
<1> QED BY <1>7, <1>9

-----------------------------------------------------------------------------
(* The inductive invariant, one lemma per action. *)

\* What is not of the receive buffers.
RelyInv == IdsInv /\ AckInv /\ WriteInv /\ StaleInv /\ KnowInv /\ TurnsInv

\* There are as many requests under way as identifiers, at most.
LEMMA FewRequests ==
  ASSUME NEW s \in Seq(Requests), \A i, j \in DOMAIN s : s[i].id = s[j].id => i = j
  PROVE  Len(s) <= Cardinality(Ids)
<1> DEFINE f == [i \in 1 .. Len(s) |-> s[i].id]
<1>1. Len(s) \in Nat /\ DOMAIN s = 1 .. Len(s) /\ \A i \in 1 .. Len(s) : s[i] \in Requests
  BY LenProperties, ElementOfSeq
<1>2. f \in [1 .. Len(s) -> Ids]
  BY <1>1 DEF Requests
<1>3. \A i, j \in 1 .. Len(s) : f[i] = f[j] => i = j
  BY <1>1
<1>4. f \in Injection(1 .. Len(s), Ids)
  BY <1>2, <1>3, Zenon DEF Injection, IsInjective
<1>5. IsFiniteSet(Ids)
  BY ServerAssumption
<1>6. Cardinality(1 .. Len(s)) <= Cardinality(Ids)
  BY <1>4, <1>5, FS_Injection, Zenon
<1>7. Cardinality(1 .. Len(s)) = Len(s)
  <2>1. Cardinality(1 .. Len(s)) = IF 1 > Len(s) THEN 0 ELSE Len(s) - 1 + 1
    <3>1. 1 \in Int /\ Len(s) \in Int
      BY <1>1
    <3> QED BY <3>1, FS_Interval, Zenon
  <2> QED BY <1>1, <2>1
<1> QED BY <1>6, <1>7

\* How the types and the accounts of a step follow from its parts.
LEMMA StepTypes ==
  ASSUME ServerIInv, IdsInv',
         window' = window, outstanding' \subseteq Ids, view' \in Values \cup {None},
         requests' \in Seq(Requests),
         pool' \in [free : Nat, armed : 0 .. RingSize], RxAllocStatus' \in {"OK", "ERROR"},
         unsent' \in Seq(Answers), flight' \in Seq(Answers),
         Len(unsent') + Len(flight') <= SendQueue,
         net' \in {"wire", "lost", "heard"}, register' \in Values, rebooting' \in BOOLEAN,
         at' \in {"lwip", "dying"}, BuffersAccounted'
  PROVE  ServerInv'
<1>1. Len(requests') <= Cardinality(Ids)
  BY FewRequests DEF IdsInv
<1>2. pool' \in [free : 0 .. Buffers, armed : 0 .. RingSize]
  BY PoolFits
<1>3. window' \in Windows
  BY DEF ServerIInv, ServerInv, ServerTypeOK
<1> QED BY <1>1, <1>2, <1>3 DEF ServerInv, ServerTypeOK

LEMMA Typed ==
  ASSUME ServerIInv
  PROVE  /\ ServerTypeOK /\ BuffersAccounted /\ RelyInv
         /\ pool \in [free : Nat, armed : 0 .. RingSize]
         /\ Len(unsent) \in Nat /\ Len(flight) \in Nat /\ Len(requests) \in Nat
         /\ DOMAIN requests = 1 .. Len(requests)
         /\ \A i \in DOMAIN requests : requests[i] \in Requests
<1>1. ServerTypeOK /\ BuffersAccounted /\ RelyInv
  BY Zenon DEF ServerIInv, ServerInv, RelyInv
<1>2. pool \in [free : Nat, armed : 0 .. RingSize]
  BY <1>1 DEF ServerTypeOK
<1> QED BY <1>1, <1>2, LenProperties, ElementOfSeq DEF ServerTypeOK

LEMMA InitServer == ServerInit => ServerIInv
<1> SUFFICES ASSUME ServerInit PROVE ServerIInv
  OBVIOUS
<1>1. /\ requests = << >> /\ unsent = << >> /\ flight = << >> /\ outstanding = {}
      /\ view = None /\ net = "heard" /\ register \in Values
  BY ServerAssumption DEF ServerInit
<1>2. /\ << >> \in Seq(Requests) /\ << >> \in Seq(Answers) /\ Len(<< >>) = 0
      /\ DOMAIN << >> = {} /\ Cardinality({}) = 0
  BY EmptySeq, FS_EmptySet
<1>3. Cardinality(Ids) \in Nat
  BY ServerAssumption, FS_CardinalityType
<1>4. Held = {}
  BY <1>1, <1>2 DEF Held
<1>5. pool = [free |-> Buffers - RingSize, armed |-> RingSize]
  BY DEF ServerInit, FreshPool
<1>6. /\ pool \in [free : 0 .. Buffers, armed : 0 .. RingSize]
      /\ pool.free + pool.armed + 0 = Buffers
  BY <1>5, ServerAssumption
<1>7. ServerTypeOK
  <2>1. /\ window \in Windows /\ RxAllocStatus = "OK" /\ rebooting = FALSE /\ at = "lwip"
    BY DEF ServerInit
  <2>2. /\ Len(requests) <= Cardinality(Ids) /\ Len(unsent) + Len(flight) <= SendQueue
    BY <1>1, <1>2, <1>3, ServerAssumption
  <2>3. outstanding \subseteq Ids /\ view \in Values \cup {None}
    BY <1>1
  <2>4. requests \in Seq(Requests) /\ unsent \in Seq(Answers) /\ flight \in Seq(Answers)
    BY <1>1, <1>2, Zenon
  <2> QED BY <1>1, <1>6, <2>1, <2>2, <2>3, <2>4 DEF ServerTypeOK
<1>8. BuffersAccounted
  BY <1>2, <1>4, <1>6 DEF BuffersAccounted
<1>9. IdsOf(requests) = {} /\ IdsOf(flight) = {} /\ IdsOf(unsent) = {}
  BY <1>1, IdsOfEmpty
<1>10. IdsInv /\ AckInv /\ WriteInv /\ StaleInv
  BY <1>1, <1>2, <1>9 DEF IdsInv, AckInv, WriteInv, StaleInv
<1>11. \A v : WillKnow(flight, unsent, outstanding, view, v) => v = None
  BY <1>1, <1>9, NothingTold, Zenon DEF WillKnow
<1>12. KnowInv
  BY <1>11, ServerAssumption, Zenon DEF KnowInv
<1>13. TurnsInv
  BY <1>1, <1>2 DEF TurnsInv
<1> QED BY <1>7, <1>8, <1>10, <1>12, <1>13 DEF ServerIInv, ServerInv

\* A new request goes to the end, with an identifier of its own.
LEMMA StepAsk ==
  ASSUME ServerIInv, NEW op \in Ops, NEW v \in Values \cup {None},
         op = "write" => v \in Values, Ask(op, v)
  PROVE  ServerIInv'
<1>0. /\ ServerTypeOK /\ BuffersAccounted /\ RelyInv
      /\ pool \in [free : Nat, armed : 0 .. RingSize]
      /\ Len(requests) \in Nat /\ DOMAIN requests = 1 .. Len(requests)
  BY Typed
<1> DEFINE x == CHOOSE i \in FreeIds : TRUE
           e == [id |-> x, op |-> op, value |-> v, held |-> FALSE,
                 acks |-> flight # <<>> /\ net = "heard"]
           n == Len(requests)
<1>1. /\ Cardinality(outstanding) < window /\ FreeIds # {}
      /\ requests' = Append(requests, e) /\ outstanding' = outstanding \cup {x}
      /\ UNCHANGED <<window, view, pool, RxAllocStatus, register, rebooting, at>>
      /\ UNCHANGED <<unsent, flight, net>>
  BY Zenon DEF Ask, txVars
<1>2. x \in FreeIds
  BY <1>1, Zenon
<1> HIDE DEF x
<1>3. /\ x \in Ids /\ x \notin outstanding /\ x \notin IdsOf(requests)
      /\ x \notin IdsOf(flight) /\ x \notin IdsOf(unsent)
  BY <1>2 DEF FreeIds
<1>4. (flight # << >> /\ net = "heard") \in BOOLEAN
  BY Zenon
<1>5. e \in Requests
  BY <1>3, <1>4 DEF Requests
<1>6. /\ e.id = x /\ e.op = op /\ e.value = v /\ e.held = FALSE
      /\ e.acks = (flight # << >> /\ net = "heard")
  BY Zenon
<1> HIDE DEF e
<1>7. /\ requests' \in Seq(Requests) /\ Len(requests') = n + 1 /\ requests'[n + 1] = e
      /\ \A i \in 1 .. n : requests'[i] = requests[i]
      /\ requests' # << >>
  BY <1>0, <1>1, <1>5, AppendProperties DEF ServerTypeOK
<1>8. /\ DOMAIN requests' = 1 .. n + 1
      /\ \A i \in DOMAIN requests' : i \in DOMAIN requests \/ i = n + 1
      /\ n + 1 \notin DOMAIN requests /\ n + 1 \in DOMAIN requests'
      /\ \A i \in DOMAIN requests : i \in DOMAIN requests' /\ requests'[i] = requests[i]
  BY <1>0, <1>7, LenProperties
<1>9. IdsOf(requests') = IdsOf(requests) \cup {x}
  BY <1>0, <1>1, <1>5, <1>6, IdsOfAppend DEF ServerTypeOK
<1>10. \A i \in DOMAIN requests : requests[i].id # x
  BY <1>3 DEF IdsOf
<1> HIDE DEF n
<1>11. IdsInv'
  <2>1. \A i, j \in DOMAIN requests' : requests'[i].id = requests'[j].id => i = j
    <3>1. \A i \in DOMAIN requests : requests'[i].id = requests[i].id /\ requests[i].id # x
      BY <1>8, <1>10, Zenon
    <3>2. requests'[n + 1].id = x
      BY <1>6, <1>7, Zenon
    <3>3. \A i, j \in DOMAIN requests : requests[i].id = requests[j].id => i = j
      BY <1>0, Zenon DEF RelyInv, IdsInv
    <3> SUFFICES ASSUME NEW i \in DOMAIN requests', NEW j \in DOMAIN requests',
                        requests'[i].id = requests'[j].id
                 PROVE  i = j
      OBVIOUS
    <3>4. /\ (i \in DOMAIN requests) \/ (i = n + 1)
          /\ (j \in DOMAIN requests) \/ (j = n + 1)
      BY <1>8, Zenon
    <3> QED BY <3>1, <3>2, <3>3, <3>4
  <2>2. IdsOf(requests') \cap (IdsOf(flight) \cup IdsOf(unsent)) = {}
    BY <1>0, <1>3, <1>9 DEF RelyInv, IdsInv
  <2> QED BY <1>0, <1>1, <2>1, <2>2, Zenon DEF RelyInv, IdsInv
<1>12. AckInv'
  <2>1. \A i \in DOMAIN requests' : requests'[i].acks => flight # << >> /\ net = "heard"
    BY <1>0, <1>6, <1>7, <1>8, Zenon DEF RelyInv, AckInv
  <2>2. net = "heard" => IdsOf(flight) \cap outstanding' = {}
    BY <1>0, <1>1, <1>3 DEF RelyInv, AckInv
  <2> QED BY <1>1, <2>1, <2>2, Zenon DEF AckInv
<1>13. WriteInv'
  BY <1>0, <1>6, <1>7, <1>8, Zenon DEF RelyInv, WriteInv
<1>14. StaleInv'
  <2> SUFFICES ASSUME NEW j \in DOMAIN requests', requests'[j].id \notin outstanding'
               PROVE  /\ \A i \in 1 .. j : requests'[i].id \notin outstanding'
                      /\ view' = None
                      /\ (IdsOf(flight') \cup IdsOf(unsent')) \cap outstanding' = {}
    BY DEF StaleInv
  <2>1. j \in DOMAIN requests /\ requests'[j] = requests[j]
    BY <1>1, <1>6, <1>7, <1>8
  <2>2. /\ \A i \in 1 .. j : requests[i].id \notin outstanding
        /\ view = None /\ (IdsOf(flight) \cup IdsOf(unsent)) \cap outstanding = {}
    BY <1>0, <1>1, <2>1 DEF RelyInv, StaleInv
  <2>3. \A i \in 1 .. j : i \in DOMAIN requests
    BY <1>0, <2>1
  <2>4. \A i \in 1 .. j : requests'[i].id \notin outstanding'
    BY <1>1, <1>8, <1>10, <2>2, <2>3
  <2> QED BY <1>1, <1>3, <2>2, <2>4
<1>15. KnowInv'
  <2>1. Covered' => Covered
    BY <1>1, <1>3, <1>9 DEF Covered
  <2>2. /\ Told(flight, outstanding') = Told(flight, outstanding)
        /\ Told(unsent, outstanding') = Told(unsent, outstanding)
        /\ \A w : LastTold(flight, outstanding', w) <=> LastTold(flight, outstanding, w)
        /\ \A w : LastTold(unsent, outstanding', w) <=> LastTold(unsent, outstanding, w)
    <3>1. /\ \A id \in IdsOf(flight) : id \in outstanding' <=> id \in outstanding
          /\ \A id \in IdsOf(unsent) : id \in outstanding' <=> id \in outstanding
      BY <1>1, <1>3
    <3> QED BY <3>1, SameTold, Zenon
  <2>3. \A w : WillKnow(flight, unsent, outstanding', view, w)
                 => WillKnow(flight, unsent, outstanding, view, w)
    BY <2>2, Zenon DEF WillKnow
  <2> QED BY <1>0, <1>1, <2>1, <2>3, Zenon DEF RelyInv, KnowInv
<1>16. TurnsInv'
  <2> SUFFICES ASSUME window = 1 PROVE TurnsInv'
    BY <1>1, Zenon DEF TurnsInv
  <2>1. IsFiniteSet(outstanding)
    BY <1>0, ServerAssumption, FS_Subset DEF ServerTypeOK
  <2>2. Cardinality(outstanding) \in Nat
    BY <2>1, FS_CardinalityType
  <2>3. Cardinality(outstanding) = 0
    BY <1>1, <2>2
  <2>4. outstanding = {}
    BY <2>1, <2>3, FS_EmptySet
  <2>5. requests = << >> /\ (flight # << >> => net = "heard") /\ unsent = << >>
    BY <1>0, <2>4, Zenon DEF RelyInv, TurnsInv
  <2>6. n = 0
    BY <2>5, EmptySeq DEF n
  <2>7. Len(requests') = 1 /\ requests'[1] = e
    BY <1>7, <2>6
  <2>8. outstanding' # {}
    BY <1>1
  <2>9. flight # << >> => requests'[1].acks
    BY <1>6, <2>5, <2>7, Zenon
  <2> QED BY <1>1, <2>5, <2>7, <2>8, <2>9 DEF TurnsInv
<1>17. Held' = Held
  <2>1. \A i \in Held' : i \in Held
    BY <1>6, <1>7, <1>8, Zenon DEF Held
  <2>2. \A i \in Held : i \in Held'
    BY <1>7, <1>8, Zenon DEF Held
  <2> QED BY <2>1, <2>2
<1>18. BuffersAccounted'
  BY <1>0, <1>1, <1>17, Zenon DEF BuffersAccounted
<1>19. ServerInv'
  <2>1. /\ outstanding' \subseteq Ids /\ window' = window /\ view' \in Values \cup {None}
        /\ pool' \in [free : Nat, armed : 0 .. RingSize] /\ RxAllocStatus' \in {"OK", "ERROR"}
        /\ unsent' \in Seq(Answers) /\ flight' \in Seq(Answers)
        /\ Len(unsent') + Len(flight') <= SendQueue /\ net' \in {"wire", "lost", "heard"}
        /\ register' \in Values /\ rebooting' \in BOOLEAN /\ at' \in {"lwip", "dying"}
    BY <1>0, <1>1, <1>3 DEF ServerTypeOK
  <2> QED BY <1>7, <1>11, <1>18, <2>1, StepTypes, Zenon
<1> QED BY <1>11, <1>12, <1>13, <1>14, <1>15, <1>16, <1>19, Zenon DEF ServerIInv

\* A step that neither moves an answer nor a request.
LEMMA RelyFrame ==
  ASSUME requests \in Seq(Requests), RelyInv,
         UNCHANGED <<window, outstanding, view, unsent, flight, register>>,
         net' = net \/ (net # "heard" /\ net' # "heard"),
         DOMAIN requests' = DOMAIN requests, Len(requests') = Len(requests),
         requests' # << >> => requests # << >>,
         \A i \in DOMAIN requests :
           /\ requests'[i].id = requests[i].id /\ requests'[i].op = requests[i].op
           /\ requests'[i].value = requests[i].value /\ requests'[i].acks = requests[i].acks
  PROVE  RelyInv'
<1>1. IdsOf(requests') = IdsOf(requests)
  BY SameIds, Zenon
<1>2. IdsInv'
  BY <1>1, Zenon DEF RelyInv, IdsInv
<1>3. AckInv'
  BY Zenon DEF RelyInv, AckInv
<1>4. WriteInv'
  BY Zenon DEF RelyInv, WriteInv
<1>5. StaleInv'
  <2> SUFFICES ASSUME NEW j \in DOMAIN requests', requests'[j].id \notin outstanding'
               PROVE  /\ \A i \in 1 .. j : requests'[i].id \notin outstanding'
                      /\ view' = None
                      /\ (IdsOf(flight') \cup IdsOf(unsent')) \cap outstanding' = {}
    BY Zenon DEF StaleInv
  <2>1. /\ \A i \in 1 .. j : requests[i].id \notin outstanding
        /\ view = None /\ (IdsOf(flight) \cup IdsOf(unsent)) \cap outstanding = {}
    BY Zenon DEF RelyInv, StaleInv
  <2>2. ASSUME NEW i \in 1 .. j, requests'[i].id \in outstanding PROVE FALSE
    <3>1. Len(requests) \in Nat /\ DOMAIN requests = 1 .. Len(requests)
      BY LenProperties
    <3>2. i \in DOMAIN requests
      BY <3>1
    <3> QED BY <2>1, <2>2, <3>2
  <2> QED BY <2>1, <2>2
<1>6. KnowInv'
  <2>1. Covered' => Covered
    BY <1>1, Zenon DEF Covered
  <2> QED BY <2>1, Zenon DEF RelyInv, KnowInv
<1>7. TurnsInv'
  <2>1. requests # << >> => 1 \in DOMAIN requests
    BY EmptySeq, LenProperties
  <2> QED BY <2>1, Zenon DEF RelyInv, TurnsInv
<1> QED BY <1>2, <1>3, <1>4, <1>5, <1>6, <1>7, Zenon DEF RelyInv

\* Requests stay as they are.
LEMMA SameHeld ==
  ASSUME requests' = requests, UNCHANGED pool, BuffersAccounted
  PROVE  BuffersAccounted'
<1>1. Held' = Held
  BY Zenon DEF Held
<1> QED BY <1>1, Zenon DEF BuffersAccounted

\* What the flight told the client it knows, and waits for no longer.
LEMMA StepHear ==
  ASSUME ServerIInv, Hear
  PROVE  ServerIInv'
<1>0. ServerTypeOK /\ BuffersAccounted /\ RelyInv /\ pool \in [free : Nat, armed : 0 .. RingSize]
  BY Typed, Zenon
<1>1. /\ flight # << >> /\ net = "wire" /\ net' = "heard"
      /\ outstanding' = outstanding \ IdsOf(flight)
      /\ \/ Told(flight, outstanding) = {} /\ view' = view
         \/ \E v \in Values : LastTold(flight, outstanding, v) /\ view' = v
      /\ UNCHANGED <<window, requests, pool, RxAllocStatus, unsent, flight, register,
                     rebooting, at>>
  BY Zenon DEF Hear, rxVars
<1>2. net # "heard"
  BY <1>1
<1>3. IdsInv'
  BY <1>0, <1>1, Zenon DEF RelyInv, IdsInv
<1>4. AckInv'
  <2>1. \A i \in DOMAIN requests : ~requests[i].acks
    BY <1>0, <1>2, Zenon DEF RelyInv, AckInv
  <2>2. IdsOf(flight) \cap outstanding' = {}
    BY <1>1
  <2> QED BY <1>1, <2>1, <2>2, Zenon DEF AckInv
<1>5. WriteInv'
  BY <1>0, <1>1, Zenon DEF RelyInv, WriteInv
<1>6. StaleInv'
  <2> SUFFICES ASSUME NEW j \in DOMAIN requests, requests[j].id \notin outstanding'
               PROVE  /\ \A i \in 1 .. j : requests[i].id \notin outstanding'
                      /\ view' = None
                      /\ (IdsOf(flight) \cup IdsOf(unsent)) \cap outstanding' = {}
    BY <1>1, Zenon DEF StaleInv
  <2>1. requests[j].id \in IdsOf(requests)
    BY DEF IdsOf
  <2>2. requests[j].id \notin outstanding
    BY <1>0, <1>1, <2>1 DEF RelyInv, IdsInv
  <2>3. /\ \A i \in 1 .. j : requests[i].id \notin outstanding
        /\ view = None /\ (IdsOf(flight) \cup IdsOf(unsent)) \cap outstanding = {}
    BY <1>0, <2>2, Zenon DEF RelyInv, StaleInv
  <2>4. IdsOf(flight) \cap outstanding = {}
    BY <2>3
  <2>5. view' = None
    BY <1>1, <2>3, <2>4, NothingTold, Zenon
  <2>6. /\ \A i \in 1 .. j : requests[i].id \notin outstanding'
        /\ (IdsOf(flight) \cup IdsOf(unsent)) \cap outstanding' = {}
    BY <1>1, <2>3
  <2> QED BY <2>5, <2>6
<1>7. KnowInv'
  <2>1. Covered' => Covered
    BY <1>0, <1>1 DEF Covered, RelyInv, IdsInv
  <2>2. /\ Told(unsent, outstanding') = Told(unsent, outstanding)
        /\ \A w : LastTold(unsent, outstanding', w) <=> LastTold(unsent, outstanding, w)
    <3>1. \A id \in IdsOf(unsent) : id \in outstanding' <=> id \in outstanding
      BY <1>0, <1>1 DEF RelyInv, IdsInv
    <3> QED BY <3>1, SameTold, Zenon
  <2>3. IdsOf(flight) \cap outstanding' = {}
    BY <1>1
  <2>4. ASSUME NEW w, WillKnow(flight, unsent, outstanding', view', w)
        PROVE  WillKnow(flight, unsent, outstanding, view, w)
    <3>1. CASE LastTold(unsent, outstanding, w)
      BY <3>1, Zenon DEF WillKnow
    <3>2. CASE ~LastTold(unsent, outstanding, w)
      <4>1. Told(unsent, outstanding) = {} /\ view' = w
        BY <2>2, <2>3, <2>4, <3>2, NothingTold, Zenon DEF WillKnow
      <4> QED BY <1>1, <4>1, Zenon DEF WillKnow
    <3> QED BY <3>1, <3>2, Zenon
  <2> QED BY <1>0, <1>1, <2>1, <2>4, Zenon DEF RelyInv, KnowInv
<1>8. TurnsInv'
  <2> SUFFICES ASSUME window = 1 PROVE TurnsInv'
    BY <1>1, Zenon DEF TurnsInv
  <2>1. unsent = << >> /\ requests = << >> /\ Len(requests) <= 1
    BY <1>0, <1>1, <1>2, Zenon DEF RelyInv, TurnsInv
  <2> QED BY <1>1, <2>1, Zenon DEF TurnsInv
<1>9. BuffersAccounted'
  BY <1>0, <1>1, SameHeld, Zenon
<1>10. ServerInv'
  <2>1. view' \in Values \cup {None}
    <3>1. CASE view' = view
      BY <1>0, <3>1, Zenon DEF ServerTypeOK
    <3>2. CASE \E v \in Values : view' = v
      BY <3>2
    <3> QED BY <1>1, <3>1, <3>2, Zenon
  <2>2. outstanding' \subseteq Ids
    BY <1>0, <1>1 DEF ServerTypeOK
  <2>3. /\ requests' \in Seq(Requests) /\ window' = window
        /\ pool' \in [free : Nat, armed : 0 .. RingSize] /\ RxAllocStatus' \in {"OK", "ERROR"}
        /\ unsent' \in Seq(Answers) /\ flight' \in Seq(Answers)
        /\ Len(unsent') + Len(flight') <= SendQueue
        /\ register' \in Values /\ rebooting' \in BOOLEAN /\ at' \in {"lwip", "dying"}
    BY <1>0, <1>1, Zenon DEF ServerTypeOK
  <2>4. net' \in {"wire", "lost", "heard"}
    BY <1>1
  <2> QED BY <1>3, <1>9, <2>1, <2>2, <2>3, <2>4, StepTypes, Zenon
<1> QED BY <1>3, <1>4, <1>5, <1>6, <1>7, <1>8, <1>10, Zenon DEF ServerIInv

\* A client that gave up knows nothing.
LEMMA StepGiveUp ==
  ASSUME ServerIInv, GiveUp
  PROVE  ServerIInv'
<1>0. ServerTypeOK /\ BuffersAccounted /\ RelyInv /\ pool \in [free : Nat, armed : 0 .. RingSize]
  BY Typed, Zenon
<1>1. /\ outstanding' = {} /\ view' = None /\ (window = 1 => Quiet)
      /\ UNCHANGED <<window, requests, pool, RxAllocStatus, unsent, flight, net, register,
                     rebooting, at>>
  BY Zenon DEF GiveUp, rxVars, txVars
<1>2. IdsInv'
  BY <1>0, <1>1, Zenon DEF RelyInv, IdsInv
<1>3. AckInv' /\ WriteInv' /\ StaleInv'
  <2>1. IdsOf(flight) \cap outstanding' = {} /\ (IdsOf(flight) \cup IdsOf(unsent)) \cap outstanding' = {}
    BY <1>1
  <2>2. \A id : id \notin outstanding'
    BY <1>1
  <2> QED BY <1>0, <1>1, <2>1, <2>2, Zenon DEF RelyInv, AckInv, WriteInv, StaleInv
<1>4. KnowInv'
  <2>1. IdsOf(flight) \cap outstanding' = {} /\ IdsOf(unsent) \cap outstanding' = {}
    BY <1>1
  <2>2. \A v : WillKnow(flight', unsent', outstanding', view', v) => v = None
    BY <1>1, <2>1, NothingTold, Zenon DEF WillKnow
  <2> QED BY <2>2, ServerAssumption, Zenon DEF KnowInv
<1>5. TurnsInv'
  BY <1>0, <1>1, Zenon DEF RelyInv, TurnsInv, Quiet
<1>6. BuffersAccounted'
  BY <1>0, <1>1, SameHeld, Zenon
<1>7. ServerInv'
  <2>1. outstanding' \subseteq Ids /\ view' \in Values \cup {None}
    BY <1>1
  <2>2. /\ requests' \in Seq(Requests) /\ window' = window
        /\ pool' \in [free : Nat, armed : 0 .. RingSize] /\ RxAllocStatus' \in {"OK", "ERROR"}
        /\ unsent' \in Seq(Answers) /\ flight' \in Seq(Answers)
        /\ Len(unsent') + Len(flight') <= SendQueue /\ net' \in {"wire", "lost", "heard"}
        /\ register' \in Values /\ rebooting' \in BOOLEAN /\ at' \in {"lwip", "dying"}
    BY <1>0, <1>1, Zenon DEF ServerTypeOK
  <2> QED BY <1>2, <1>6, <2>1, <2>2, StepTypes, Zenon
<1> QED BY <1>2, <1>3, <1>4, <1>5, <1>7, Zenon DEF ServerIInv

\* The types of a step that touches neither client nor server.
LEMMA FrameTypes ==
  ASSUME ServerIInv, RelyInv', requests' \in Seq(Requests), BuffersAccounted',
         pool' \in [free : Nat, armed : 0 .. RingSize], RxAllocStatus' \in {"OK", "ERROR"},
         UNCHANGED <<window, outstanding, view, unsent, flight, register>>,
         net' \in {"wire", "lost", "heard"}, rebooting' \in BOOLEAN, at' \in {"lwip", "dying"}
  PROVE  ServerIInv'
<1>1. ServerTypeOK
  BY Typed, Zenon
<1>2. /\ outstanding' \subseteq Ids /\ view' \in Values \cup {None}
      /\ unsent' \in Seq(Answers) /\ flight' \in Seq(Answers)
      /\ Len(unsent') + Len(flight') <= SendQueue /\ register' \in Values
  BY <1>1, Zenon DEF ServerTypeOK
<1>3. IdsInv' /\ window' = window
  BY Zenon DEF RelyInv
<1>4. ServerInv'
  BY <1>2, <1>3, StepTypes, Zenon
<1> QED BY <1>4, Zenon DEF ServerIInv, RelyInv

LEMMA StepQuietly ==
  ASSUME ServerIInv, Poll \/ Lose \/ Retransmit \/ Arbitrate
  PROVE  ServerIInv'
<1>0. ServerTypeOK /\ BuffersAccounted /\ RelyInv /\ pool \in [free : Nat, armed : 0 .. RingSize]
  BY Typed, Zenon
<1>1. /\ UNCHANGED <<requests, window, outstanding, view, unsent, flight, register>>
      /\ net' = net \/ (net # "heard" /\ net' # "heard")
      /\ net' \in {"wire", "lost", "heard"}
  <2>1. CASE Poll \/ Arbitrate
    BY <1>0, <2>1, Zenon DEF Poll, Arbitrate, clientVars, rxVars, txVars, ServerTypeOK
  <2>2. CASE Lose \/ Retransmit
    <3>1. /\ UNCHANGED <<requests, window, outstanding, view, unsent, flight, register>>
          /\ (net = "wire" /\ net' = "lost") \/ (net = "lost" /\ net' = "wire")
      BY <2>2, Zenon DEF Lose, Retransmit, clientVars, rxVars
    <3>2. net # "heard" /\ net' # "heard" /\ net' \in {"wire", "lost", "heard"}
      BY <3>1
    <3> QED BY <3>1, <3>2, Zenon
  <2> QED BY <2>1, <2>2, Zenon
<1>2. RelyInv'
  <2>1. requests \in Seq(Requests)
    BY <1>0, Zenon DEF ServerTypeOK
  <2> QED BY <1>0, <1>1, <2>1, RelyFrame, Zenon
<1>3. /\ rebooting' \in BOOLEAN /\ at' \in {"lwip", "dying"}
  <2>1. CASE Poll \/ Lose \/ Retransmit
    BY <1>0, <2>1, Zenon DEF Poll, Lose, Retransmit, ServerTypeOK
  <2>2. CASE Arbitrate
    BY <2>2 DEF Arbitrate
  <2> QED BY <2>1, <2>2, Zenon
<1>4. /\ BuffersAccounted' /\ pool' \in [free : Nat, armed : 0 .. RingSize]
      /\ RxAllocStatus' \in {"OK", "ERROR"}
  <2>1. CASE Poll
    <3>1. ReadData(0, 0)
      BY <2>1, Zenon DEF Poll
    <3>2. 0 \in 0 .. pool.armed /\ 0 \in Nat
      BY <1>0
    <3>3. /\ pool' \in [free : Nat, armed : 0 .. RingSize]
          /\ pool'.free + pool'.armed = pool.free + pool.armed - 0 + 0
          /\ RxAllocStatus' \in {"OK", "ERROR"}
      BY <1>0, <3>1, <3>2, ReadDataFacts
    <3>4. Held' = Held
      BY <1>1, Zenon DEF Held
    <3>5. pool'.free + pool'.armed = pool.free + pool.armed
      BY <1>0, <3>3
    <3> QED BY <1>0, <3>3, <3>4, <3>5 DEF BuffersAccounted
  <2>2. CASE Lose \/ Retransmit \/ Arbitrate
    <3>1. UNCHANGED <<pool, RxAllocStatus>>
      BY <2>2, Zenon DEF Lose, Retransmit, Arbitrate, rxVars
    <3> QED BY <1>0, <1>1, <3>1, SameHeld, Zenon DEF ServerTypeOK
  <2> QED BY <2>1, <2>2, Zenon
<1>5. requests' \in Seq(Requests)
  BY <1>0, <1>1, Zenon DEF ServerTypeOK
<1> QED BY <1>1, <1>2, <1>3, <1>4, <1>5, FrameTypes, Zenon

\* What was kept out of order is free again.
LEMMA StepOoseq ==
  ASSUME ServerIInv, OoseqTimeout
  PROVE  ServerIInv'
<1>0. /\ ServerTypeOK /\ BuffersAccounted /\ RelyInv
      /\ pool \in [free : Nat, armed : 0 .. RingSize]
      /\ Len(requests) \in Nat /\ DOMAIN requests = 1 .. Len(requests)
      /\ \A i \in DOMAIN requests : requests[i] \in Requests
  BY Typed
<1> DEFINE t == [i \in DOMAIN requests |-> [requests[i] EXCEPT !.held = FALSE]]
           n == Cardinality(Held)
<1>1. /\ requests' = t /\ pool' = [pool EXCEPT !.free = @ + n]
      /\ RxAllocStatus' = StatusAfter(n, FALSE)
      /\ UNCHANGED <<window, outstanding, view, unsent, flight, net, register, rebooting, at>>
  BY Zenon DEF OoseqTimeout, clientVars, txVars
<1>2. \A i \in DOMAIN requests :
        /\ t[i] \in Requests /\ t[i].id = requests[i].id /\ t[i].op = requests[i].op
        /\ t[i].value = requests[i].value /\ t[i].acks = requests[i].acks /\ ~t[i].held
  BY <1>0 DEF Requests
<1>3. t \in [1 .. Len(requests) -> Requests] /\ DOMAIN t = 1 .. Len(requests)
  BY <1>0, <1>2
<1> HIDE DEF t
<1>4. t \in Seq(Requests)
  BY <1>0, <1>3, SeqDef
<1>5. Len(t) = Len(requests)
  BY <1>0, <1>3, <1>4, LenProperties
<1>6. requests \in Seq(Requests) /\ (t # << >> => requests # << >>)
  BY <1>0, <1>4, <1>5, EmptySeq DEF ServerTypeOK
<1>7. RelyInv'
  BY <1>0, <1>1, <1>2, <1>3, <1>5, <1>6, RelyFrame, Zenon
<1>8. Held' = {}
  BY <1>0, <1>1, <1>2, <1>3 DEF Held
<1>9. n \in Nat
  BY <1>6, HeldFinite
<1>10. pool' \in [free : Nat, armed : 0 .. RingSize] /\ BuffersAccounted'
  BY <1>0, <1>1, <1>8, <1>9, FS_EmptySet DEF BuffersAccounted
<1>11. RxAllocStatus' \in {"OK", "ERROR"}
  BY <1>0, <1>1 DEF StatusAfter, ServerTypeOK
<1>12. /\ net' \in {"wire", "lost", "heard"} /\ rebooting' \in BOOLEAN
       /\ at' \in {"lwip", "dying"} /\ requests' \in Seq(Requests)
  BY <1>0, <1>1, <1>4, Zenon DEF ServerTypeOK
<1> QED BY <1>1, <1>7, <1>10, <1>11, <1>12, FrameTypes, Zenon

\* Nothing is under way on a new connection.
LEMMA StepDisconnect ==
  ASSUME ServerIInv, Break \/ Reset
  PROVE  ServerIInv'
<1>0. /\ ServerTypeOK /\ BuffersAccounted /\ RelyInv
      /\ pool \in [free : Nat, armed : 0 .. RingSize]
  BY Typed
<1>1. /\ outstanding' = {} /\ view' = None /\ requests' = << >>
      /\ unsent' = << >> /\ flight' = << >> /\ net' = "heard" /\ window' = window
  BY Zenon DEF Break, Reset, Disconnected
<1>2. /\ << >> \in Seq(Requests) /\ << >> \in Seq(Answers) /\ Len(<< >>) = 0
      /\ DOMAIN << >> = {} /\ Cardinality({}) = 0
  BY EmptySeq, FS_EmptySet
<1>3. IdsOf(requests') = {} /\ IdsOf(flight') = {} /\ IdsOf(unsent') = {}
  BY <1>1, IdsOfEmpty
<1>4. IdsInv' /\ AckInv' /\ WriteInv' /\ StaleInv'
  BY <1>1, <1>2, <1>3 DEF IdsInv, AckInv, WriteInv, StaleInv
<1>5. \A v : WillKnow(flight', unsent', outstanding', view', v) => v = None
  BY <1>1, <1>3, NothingTold, Zenon DEF WillKnow
<1>6. KnowInv'
  BY <1>5, ServerAssumption, Zenon DEF KnowInv
<1>7. TurnsInv'
  BY <1>1, <1>2 DEF TurnsInv
<1>8. Held' = {}
  BY <1>1, <1>2 DEF Held
<1>9. pool' \in [free : Nat, armed : 0 .. RingSize] /\ BuffersAccounted'
  <2>1. CASE Break
    <3>1. pool' = [pool EXCEPT !.free = @ + Cardinality(Held)]
      BY <2>1, Zenon DEF Break
    <3>2. Cardinality(Held) \in Nat
      BY <1>0, HeldFinite DEF ServerTypeOK
    <3> QED BY <1>0, <1>2, <1>8, <3>1, <3>2 DEF BuffersAccounted
  <2>2. CASE Reset
    <3>1. pool' = [free |-> Buffers - RingSize, armed |-> RingSize]
      BY <2>2, Zenon DEF Reset, FreshPool
    <3> QED BY <1>2, <1>8, <3>1, ServerAssumption DEF BuffersAccounted
  <2> QED BY <2>1, <2>2, Zenon
<1>10. /\ RxAllocStatus' \in {"OK", "ERROR"} /\ register' \in Values
       /\ rebooting' \in BOOLEAN /\ at' \in {"lwip", "dying"}
  <2>1. CASE Break
    BY <1>0, <2>1 DEF Break, StatusAfter, ServerTypeOK
  <2>2. CASE Reset
    BY <1>0, <2>2, ServerAssumption DEF Reset, ServerTypeOK
  <2> QED BY <2>1, <2>2, Zenon
<1>11. /\ Len(unsent') + Len(flight') <= SendQueue /\ outstanding' \subseteq Ids
       /\ view' \in Values \cup {None} /\ net' \in {"wire", "lost", "heard"}
       /\ requests' \in Seq(Requests) /\ unsent' \in Seq(Answers) /\ flight' \in Seq(Answers)
  BY <1>1, <1>2, ServerAssumption
<1>12. ServerInv'
  BY <1>1, <1>4, <1>9, <1>10, <1>11, StepTypes, Zenon
<1> QED BY <1>4, <1>6, <1>7, <1>12, Zenon DEF ServerIInv

\* Answers of queue go out, what the flight was acknowledged for goes, and the
\* requests of s stay: identifiers and acknowledgements remain in order.
Piped(queue, rest, push, s) ==
  /\ queue \in Seq(Answers) /\ rest \in Seq(Answers) /\ push \in BOOLEAN
  /\ s \in Seq(Requests)
  /\ rest = flight \/ (rest = << >> /\ net = "heard")
  /\ Output(queue, rest, push) /\ requests' = Forward(s) /\ outstanding' = outstanding
  /\ \A i \in DOMAIN s : s[i].acks => flight # << >> /\ net = "heard"
  /\ \A i, j \in DOMAIN s : s[i].id = s[j].id => i = j
  /\ IdsOf(queue) \cap IdsOf(flight) = {}
  /\ IdsOf(s) \cap (IdsOf(queue) \cup IdsOf(flight)) = {}

LEMMA PipeIds ==
  ASSUME ServerTypeOK, AckInv, NEW queue, NEW rest, NEW push, NEW s,
         Piped(queue, rest, push, s)
  PROVE  /\ IdsInv' /\ AckInv' /\ requests' \in Seq(Requests) /\ IdsOf(requests') = IdsOf(s)
         /\ IdsOf(flight') \cup IdsOf(unsent') \subseteq IdsOf(queue) \cup IdsOf(flight)
         /\ \A w, v : WillKnow(flight', unsent', outstanding, w, v)
                        => WillKnow(flight, queue, outstanding, w, v)
<1>0. /\ flight \in Seq(Answers) /\ net \in {"wire", "lost", "heard"}
      /\ queue \in Seq(Answers) /\ rest \in Seq(Answers) /\ push \in BOOLEAN
      /\ s \in Seq(Requests) /\ Output(queue, rest, push)
  BY Zenon DEF ServerTypeOK, Piped
<1>a. /\ rest = flight \/ (rest = << >> /\ net = "heard")
      /\ requests' = Forward(s) /\ outstanding' = outstanding
      /\ \A i \in DOMAIN s : s[i].acks => flight # << >> /\ net = "heard"
      /\ \A i, j \in DOMAIN s : s[i].id = s[j].id => i = j
      /\ IdsOf(queue) \cap IdsOf(flight) = {}
      /\ IdsOf(s) \cap (IdsOf(queue) \cup IdsOf(flight)) = {}
  BY Zenon DEF Piped
<1>1. IdsOf(rest) \subseteq IdsOf(flight)
  BY <1>a, IdsOfEmpty
<1>2. /\ IdsOf(flight') \cup IdsOf(unsent') = IdsOf(queue) \cup IdsOf(rest)
      /\ (IdsOf(queue) \cap IdsOf(rest) = {}) => (IdsOf(flight') \cap IdsOf(unsent') = {})
      /\ \/ unsent' = queue /\ flight' = rest /\ net' = net
         \/ /\ unsent' = << >> /\ flight' = rest \o queue /\ queue # << >>
            /\ net' # "heard" /\ (rest = << >> \/ push)
      /\ \A a, w, v : WillKnow(flight', unsent', a, w, v) => WillKnow(rest, queue, a, w, v)
  <2>1. /\ IdsOf(flight') \cup IdsOf(unsent') = IdsOf(queue) \cup IdsOf(rest)
        /\ (IdsOf(queue) \cap IdsOf(rest) = {}) => (IdsOf(flight') \cap IdsOf(unsent') = {})
    BY <1>0, OutputIds
  <2>2. \/ unsent' = queue /\ flight' = rest /\ net' = net
        \/ /\ unsent' = << >> /\ flight' = rest \o queue /\ queue # << >>
           /\ net' # "heard" /\ (rest = << >> \/ push)
    BY <1>0, OutputForm
  <2>3. \A a, w, v : WillKnow(flight', unsent', a, w, v) => WillKnow(rest, queue, a, w, v)
    BY <1>0, OutputTold
  <2> QED BY <2>1, <2>2, <2>3, Zenon
<1>3. /\ requests' \in Seq(Requests) /\ DOMAIN requests' = DOMAIN s
      /\ \A i \in DOMAIN s : /\ requests'[i].id = s[i].id
                             /\ requests'[i].acks => s[i].acks /\ flight' = flight
  BY <1>0, <1>a, ForwardFacts, Zenon
<1>4. IdsOf(requests') = IdsOf(s)
  BY <1>3, SameIds, Zenon
<1>5. IdsOf(flight') \cup IdsOf(unsent') \subseteq IdsOf(queue) \cup IdsOf(flight)
  BY <1>1, <1>2
<1>6. IdsInv'
  <2>1. ASSUME NEW i \in DOMAIN requests', NEW j \in DOMAIN requests',
               requests'[i].id = requests'[j].id
        PROVE  i = j
    <3>1. i \in DOMAIN s /\ j \in DOMAIN s
      BY <1>3, Zenon
    <3>2. requests'[i].id = s[i].id /\ requests'[j].id = s[j].id
      BY <1>3, <3>1, Zenon
    <3>3. s[i].id = s[j].id
      BY <2>1, <3>2, Zenon
    <3> QED BY <1>a, <3>1, <3>3, Zenon
  <2>2. IdsOf(requests') \cap (IdsOf(flight') \cup IdsOf(unsent')) = {}
    BY <1>4, <1>5, <1>a
  <2>3. IdsOf(queue) \cap IdsOf(rest) = {}
    BY <1>1, <1>a
  <2>4. IdsOf(flight') \cap IdsOf(unsent') = {}
    BY <1>2, <2>3, Zenon
  <2> QED BY <2>1, <2>2, <2>4, Zenon DEF IdsInv
<1>7. ASSUME flight' = flight, flight # << >> PROVE net' = net
  <2> SUFFICES ASSUME flight = rest \o queue, queue # << >> PROVE FALSE
    BY <1>2, <1>7, Zenon
  <2>1. rest # flight
    <3>1. flight \o queue = flight <=> queue = << >>
      BY <1>0, ConcatEqualIffEmpty
    <3> QED BY <3>1, Zenon
  <2>2. flight = queue
    BY <1>0, <1>a, <2>1, ConcatEmptySeq, Zenon
  <2>3. Len(queue) \in Nat \ {0} /\ DOMAIN queue = 1 .. Len(queue)
    BY <1>0, EmptySeq, LenProperties
  <2>4. queue[1].id \in IdsOf(queue)
    <3>1. 1 \in DOMAIN queue
      BY <2>3
    <3> QED BY <3>1, Zenon DEF IdsOf
  <2> QED BY <1>a, <2>2, <2>4
<1>8. AckInv'
  <2>1. \A i \in DOMAIN requests' : requests'[i].acks => flight' # << >> /\ net' = "heard"
    BY <1>3, <1>7, <1>a, Zenon
  <2>2. net' = "heard" => flight' = rest /\ net = "heard"
    BY <1>2, <1>a, Zenon
  <2>3. net' = "heard" => IdsOf(flight') \cap outstanding' = {}
    BY <1>1, <1>a, <2>2 DEF AckInv
  <2> QED BY <2>1, <2>3, Zenon DEF AckInv
<1>9. ASSUME NEW w, NEW v, WillKnow(rest, queue, outstanding, w, v)
      PROVE  WillKnow(flight, queue, outstanding, w, v)
  <2>1. CASE rest = flight
    BY <1>9, <2>1, Zenon
  <2>2. CASE rest = << >> /\ net = "heard"
    <3>1. IdsOf(rest) \cap outstanding = {} /\ IdsOf(flight) \cap outstanding = {}
      BY <2>2, IdsOfEmpty DEF AckInv
    <3> QED BY <1>9, <3>1, NothingTold, Zenon DEF WillKnow
  <2> QED BY <1>a, <2>1, <2>2, Zenon
<1> QED BY <1>2, <1>3, <1>4, <1>5, <1>6, <1>8, <1>9, Zenon

\* A segment that carries no request the server looks at.
LEMMA PipeIdle ==
  ASSUME ServerIInv,
         NEW rest \in Seq(Answers), NEW push \in BOOLEAN, NEW s \in Seq(Requests),
         rest = flight \/ (rest = << >> /\ net = "heard"),
         Len(rest) <= Len(flight), Len(rest) \in Nat,
         Output(unsent, rest, push), requests' = Forward(s), DOMAIN s = DOMAIN requests,
         \A i \in DOMAIN s :
           /\ s[i].id = requests[i].id /\ s[i].op = requests[i].op
           /\ s[i].value = requests[i].value /\ s[i].acks = requests[i].acks,
         UNCHANGED <<window, outstanding, view, register, rebooting, at>>, TurnsInv',
         pool' \in [free : Nat, armed : 0 .. RingSize], RxAllocStatus' \in {"OK", "ERROR"},
         BuffersAccounted'
  PROVE  ServerIInv'
<1>0. /\ ServerTypeOK /\ RelyInv /\ IdsInv /\ AckInv
      /\ Len(unsent) \in Nat /\ Len(flight) \in Nat
      /\ Len(requests) \in Nat /\ DOMAIN requests = 1 .. Len(requests)
  BY Typed DEF RelyInv
<1>1. /\ unsent \in Seq(Answers) /\ net \in {"wire", "lost", "heard"}
  BY <1>0, Zenon DEF ServerTypeOK
<1>2. IdsOf(s) = IdsOf(requests)
  BY SameIds, Zenon
<1>3. /\ IdsOf(unsent) \cap IdsOf(flight) = {}
      /\ IdsOf(s) \cap (IdsOf(unsent) \cup IdsOf(flight)) = {}
  BY <1>0, <1>2 DEF IdsInv
<1>4. /\ \A i \in DOMAIN s : s[i].acks => flight # << >> /\ net = "heard"
      /\ \A i, j \in DOMAIN s : s[i].id = s[j].id => i = j
  BY <1>0, Zenon DEF IdsInv, AckInv
<1>5. /\ IdsInv' /\ AckInv' /\ requests' \in Seq(Requests) /\ IdsOf(requests') = IdsOf(s)
      /\ IdsOf(flight') \cup IdsOf(unsent') \subseteq IdsOf(unsent) \cup IdsOf(flight)
      /\ \A w, v : WillKnow(flight', unsent', outstanding, w, v)
                     => WillKnow(flight, unsent, outstanding, w, v)
  <2>1. outstanding' = outstanding
    BY Zenon
  <2>2. Piped(unsent, rest, push, s)
    BY <1>1, <1>3, <1>4, <2>1, Zenon DEF Piped
  <2> QED BY <1>0, <2>2, PipeIds, Zenon
<1>6. /\ DOMAIN requests' = DOMAIN requests
      /\ \A i \in DOMAIN requests :
           /\ requests'[i].id = requests[i].id /\ requests'[i].op = requests[i].op
           /\ requests'[i].value = requests[i].value
  <2>1. /\ DOMAIN requests' = DOMAIN s
        /\ \A i \in DOMAIN s :
             /\ requests'[i].id = s[i].id /\ requests'[i].op = s[i].op
             /\ requests'[i].value = s[i].value
    <3>1. /\ DOMAIN Forward(s) = DOMAIN s
          /\ \A i \in DOMAIN s :
               /\ Forward(s)[i].id = s[i].id /\ Forward(s)[i].op = s[i].op
               /\ Forward(s)[i].value = s[i].value
      BY ForwardFacts, Zenon
    <3>2. requests' = Forward(s)
      OBVIOUS
    <3> QED BY <3>1, <3>2, Zenon
  <2>2. DOMAIN requests' = DOMAIN requests
    BY <2>1, Zenon
  <2> QED BY <2>1, <2>2, Zenon
<1>7. WriteInv'
  BY <1>0, <1>6, Zenon DEF RelyInv, WriteInv
<1>8. StaleInv'
  <2> SUFFICES ASSUME NEW j \in DOMAIN requests, requests'[j].id \notin outstanding
               PROVE  /\ \A i \in 1 .. j : requests'[i].id \notin outstanding
                      /\ view = None
                      /\ (IdsOf(flight') \cup IdsOf(unsent')) \cap outstanding = {}
    BY <1>6, Zenon DEF StaleInv
  <2>1. /\ \A i \in 1 .. j : requests[i].id \notin outstanding
        /\ view = None /\ (IdsOf(flight) \cup IdsOf(unsent)) \cap outstanding = {}
    BY <1>0, <1>6, Zenon DEF RelyInv, StaleInv
  <2>2. \A i \in 1 .. j : i \in DOMAIN requests
    BY <1>0
  <2>3. \A i \in 1 .. j : requests'[i].id \notin outstanding
    BY <1>6, <2>1, <2>2, Zenon
  <2> QED BY <1>5, <2>1, <2>3
<1>9. KnowInv'
  <2>1. Covered' => Covered
    BY <1>2, <1>5 DEF Covered
  <2> QED BY <1>0, <1>5, <2>1, Zenon DEF RelyInv, KnowInv
<1>10. /\ unsent' \in Seq(Answers) /\ flight' \in Seq(Answers)
       /\ net' \in {"wire", "lost", "heard"}
       /\ Len(unsent') + Len(flight') = Len(unsent) + Len(rest)
  BY <1>1, OutputTypes, Zenon
<1>11. ServerInv'
  <2>1. Len(unsent) + Len(rest) <= SendQueue
    BY <1>0, ServerAssumption DEF ServerTypeOK
  <2>2. /\ outstanding' \subseteq Ids /\ view' \in Values \cup {None} /\ window' = window
        /\ register' \in Values /\ rebooting' \in BOOLEAN /\ at' \in {"lwip", "dying"}
    BY <1>0, Zenon DEF ServerTypeOK
  <2>3. Len(unsent') + Len(flight') <= SendQueue
    BY <1>10, <2>1, Zenon
  <2> QED BY <1>5, <1>10, <2>2, <2>3, StepTypes, Zenon
<1> QED BY <1>5, <1>7, <1>8, <1>9, <1>11, Zenon DEF ServerIInv

LEMMA StepAck ==
  ASSUME ServerIInv, Ack
  PROVE  ServerIInv'
<1>0. /\ ServerTypeOK /\ BuffersAccounted /\ RelyInv
      /\ pool \in [free : Nat, armed : 0 .. RingSize] /\ Len(flight) \in Nat
  BY Typed
<1>1. /\ net = "heard" /\ Output(unsent, << >>, FALSE) /\ requests' = Forward(requests)
      /\ UNCHANGED <<window, outstanding, view, pool, RxAllocStatus, register, rebooting, at>>
  BY Zenon DEF Ack, clientVars
<1>2. /\ << >> \in Seq(Answers) /\ Len(<< >>) = 0 /\ FALSE \in BOOLEAN
      /\ requests \in Seq(Requests)
  BY <1>0, EmptySeq DEF ServerTypeOK
<1>3. Len(<< >>) <= Len(flight) /\ Len(<< >>) \in Nat
  BY <1>0, <1>2
<1>4. /\ DOMAIN requests' = DOMAIN requests /\ Len(requests') = Len(requests)
      /\ requests' \in Seq(Requests)
      /\ \A i \in DOMAIN requests : requests'[i].held = requests[i].held
  BY <1>1, <1>2, ForwardFacts, Zenon
<1>5. BuffersAccounted'
  <2>1. Held' = Held
    BY <1>4, Zenon DEF Held
  <2> QED BY <1>0, <1>1, <2>1, Zenon DEF BuffersAccounted
<1>6. TurnsInv'
  <2> SUFFICES ASSUME window = 1 PROVE TurnsInv'
    BY <1>1, Zenon DEF TurnsInv
  <2>1. unsent = << >>
    BY <1>0, Zenon DEF RelyInv, TurnsInv
  <2>2. unsent' = << >> /\ flight' = << >>
    BY <1>1, <2>1, Zenon DEF Output
  <2>3. requests' # << >> => requests # << >>
    BY <1>2, <1>4, EmptySeq
  <2> QED BY <1>0, <1>1, <1>4, <2>2, <2>3, Zenon DEF RelyInv, TurnsInv
<1>7. pool' \in [free : Nat, armed : 0 .. RingSize] /\ RxAllocStatus' \in {"OK", "ERROR"}
  BY <1>0, <1>1, Zenon DEF ServerTypeOK
<1> QED BY <1>1, <1>2, <1>3, <1>5, <1>6, <1>7, PipeIdle

\* lwIP keeps a request that came too early, in its buffer.
LEMMA StepOutOfOrder ==
  ASSUME ServerIInv, NEW i \in DOMAIN requests, OutOfOrder(i)
  PROVE  ServerIInv'
<1>0. /\ ServerTypeOK /\ BuffersAccounted /\ RelyInv /\ AckInv
      /\ pool \in [free : Nat, armed : 0 .. RingSize]
      /\ Len(requests) \in Nat /\ DOMAIN requests = 1 .. Len(requests)
      /\ \A k \in DOMAIN requests : requests[k] \in Requests
  BY Typed DEF RelyInv
<1> DEFINE s == [requests EXCEPT ![i].held = TRUE]
           c == <<requests[i]>>
           rest == StillUnacked(c)
<1>1. /\ pool.armed > 0 /\ i > 1 /\ i \notin Held /\ ReadData(1, 0)
      /\ Output(unsent, rest, FALSE) /\ requests' = Forward(s)
      /\ UNCHANGED <<window, outstanding, view, register, rebooting, at>>
  BY Zenon DEF OutOfOrder, clientVars
<1>2. /\ [requests[i] EXCEPT !.held = TRUE] \in Requests
      /\ requests \in Seq(Requests) /\ i \in 1 .. Len(requests)
  BY <1>0 DEF Requests, ServerTypeOK
<1>3. /\ s \in Seq(Requests) /\ Len(s) = Len(requests) /\ DOMAIN s = DOMAIN requests
      /\ \A k \in DOMAIN requests :
           s[k] = IF k = i THEN [requests[i] EXCEPT !.held = TRUE] ELSE requests[k]
  <2>1. s \in [1 .. Len(requests) -> Requests]
    BY <1>0, <1>2
  <2>2. s \in Seq(Requests)
    BY <1>0, <2>1, SeqDef
  <2> QED BY <1>0, <1>2, <2>1, <2>2, LenProperties
<1>4. \A k \in DOMAIN requests :
        /\ s[k].id = requests[k].id /\ s[k].op = requests[k].op
        /\ s[k].value = requests[k].value /\ s[k].acks = requests[k].acks
        /\ s[k].held = (k = i \/ requests[k].held)
  BY <1>0, <1>3 DEF Requests
<1> HIDE DEF s
<1>5. /\ rest \in Seq(Answers) /\ (rest = flight \/ (rest = << >> /\ net = "heard"))
      /\ Len(rest) <= Len(flight) /\ Len(rest) \in Nat
  <2>1. \A k \in DOMAIN c : c[k] = requests[i]
    OBVIOUS
  <2> HIDE DEF c
  <2>2. (\E k \in DOMAIN c : c[k].acks) => net = "heard"
    BY <1>0, <2>1, Zenon DEF AckInv
  <2> QED BY <1>0, <2>2, UnackedFacts
<1> HIDE DEF rest
<1>6. /\ pool' \in [free : Nat, armed : 0 .. RingSize]
      /\ pool'.free + pool'.armed = pool.free + pool.armed - 1 + 0
      /\ RxAllocStatus' \in {"OK", "ERROR"}
  <2>1. 1 \in 0 .. pool.armed /\ 0 \in Nat
    BY <1>0, <1>1
  <2> QED BY <1>0, <1>1, <2>1, ReadDataFacts
<1>7. /\ DOMAIN requests' = DOMAIN requests /\ requests' \in Seq(Requests)
      /\ \A k \in DOMAIN requests : requests'[k].held = s[k].held
  <2>1. /\ DOMAIN Forward(s) = DOMAIN s /\ Forward(s) \in Seq(Requests)
        /\ \A k \in DOMAIN s : Forward(s)[k].held = s[k].held
    BY <1>3, ForwardFacts, Zenon
  <2>2. requests' = Forward(s) /\ DOMAIN s = DOMAIN requests
    BY <1>1, <1>3, Zenon
  <2> QED BY <2>1, <2>2, Zenon
<1>8. Held' = Held \cup {i}
  <2>1. \A k : k \in Held' <=> (k \in Held \/ k = i)
    BY <1>4, <1>7, Zenon DEF Held
  <2> QED BY <2>1
<1>9. BuffersAccounted'
  <2>1. IsFiniteSet(Held) /\ Cardinality(Held) \in Nat
    BY <1>2, HeldFinite
  <2>2. Cardinality(Held') = Cardinality(Held) + 1
    BY <1>1, <1>8, <2>1, FS_AddElement
  <2>3. /\ pool.free \in Nat /\ pool.armed \in Nat /\ pool'.free \in Nat /\ pool'.armed \in Nat
        /\ Buffers \in Nat
    BY <1>0, <1>6, ServerAssumption
  <2>4. /\ pool'.free + pool'.armed = pool.free + pool.armed - 1
        /\ pool.free + pool.armed + Cardinality(Held) = Buffers
    BY <1>0, <1>6, <2>3 DEF BuffersAccounted
  <2> DEFINE a == pool.free  b == pool.armed  c1 == pool'.free  d1 == pool'.armed
             h == Cardinality(Held)  h1 == Cardinality(Held')
  <2>5. h1 = h + 1 /\ h \in Nat /\ a \in Nat /\ b \in Nat /\ c1 \in Nat /\ d1 \in Nat
        /\ c1 + d1 = a + b - 1 /\ a + b + h = Buffers
    BY <2>1, <2>2, <2>3, <2>4, Zenon
  <2> HIDE DEF a, b, c1, d1, h, h1
  <2>6. c1 + d1 + h1 = Buffers
    BY <2>5
  <2> QED BY <2>6, Zenon DEF BuffersAccounted, c1, d1, h1
<1>10. TurnsInv'
  <2>1. window # 1
    <3>1. window = 1 => Len(requests) <= 1
      BY <1>0, Zenon DEF RelyInv, TurnsInv
    <3>2. ~(Len(requests) <= 1)
      BY <1>0, <1>1, <1>2
    <3> QED BY <3>1, <3>2, Zenon
  <2> QED BY <1>1, <2>1, Zenon DEF TurnsInv
<1>11. FALSE \in BOOLEAN
  OBVIOUS
<1>12. \A k \in DOMAIN s :
         /\ s[k].id = requests[k].id /\ s[k].op = requests[k].op
         /\ s[k].value = requests[k].value /\ s[k].acks = requests[k].acks
  BY <1>3, <1>4, Zenon
<1>13. s \in Seq(Requests) /\ DOMAIN s = DOMAIN requests
  BY <1>3, Zenon
<1> QED BY <1>1, <1>5, <1>6, <1>9, <1>10, <1>11, <1>12, <1>13, PipeIdle

LEMMA HeadOfChain ==
  ASSUME NEW s \in Seq(Requests), NEW e \in 1 .. Len(s)
  PROVE  Head(SubSeq(s, 1, e)) = s[1]
<1> DEFINE c == SubSeq(s, 1, e)
<1>1. Len(s) \in Nat /\ e \in Int /\ 1 <= e /\ e <= Len(s)
  BY LenProperties
<1>2. \A k \in 1 .. e : s[k] \in Requests
  BY <1>1, ElementOfSeq
<1>3. /\ c \in Seq(Requests) /\ Len(c) = e
      /\ \A k \in 1 .. e - 1 + 1 : c[k] = s[1 + k - 1]
  BY <1>1, <1>2, SubSeqProperties
<1> HIDE DEF c
<1>4. c[1] = s[1]
  BY <1>1, <1>3
<1>5. Head(c) = c[1]
  BY <1>1, <1>3
<1> QED BY <1>4, <1>5, Zenon DEF c


\* The callback looks at the first request of the chain; the others are gone.
LEMMA StepInOrder ==
  ASSUME ServerIInv, NEW n \in DOMAIN requests, NEW e \in n .. Len(requests), InOrder(n, e)
  PROVE  ServerIInv'
<1>0. /\ ServerTypeOK /\ BuffersAccounted /\ RelyInv /\ AckInv /\ IdsInv
      /\ pool \in [free : Nat, armed : 0 .. RingSize]
      /\ Len(unsent) \in Nat /\ Len(flight) \in Nat
      /\ Len(requests) \in Nat /\ DOMAIN requests = 1 .. Len(requests)
      /\ \A k \in DOMAIN requests : requests[k] \in Requests
  BY Typed DEF RelyInv
<1>a. /\ unsent \in Seq(Answers) /\ flight \in Seq(Answers) /\ requests \in Seq(Requests)
      /\ net \in {"wire", "lost", "heard"}
  BY <1>0, Zenon DEF ServerTypeOK
<1>b. /\ e \in 1 .. Len(requests) /\ n \in 1 .. Len(requests) /\ n <= e
      /\ 1 \in 1 .. Len(requests) /\ 1 \in DOMAIN requests
  BY <1>0
<1> DEFINE chain == SubSeq(requests, 1, e)
           c == SubSeq(requests, 1, n)
           s == SubSeq(requests, e + 1, Len(requests))
           r == requests[1]
           rest == StillUnacked(c)
           answered == r.op # "deaf"
           written == answered /\ Fits(rest)
           answer == [id |-> r.id, value |-> Said(r)]
           queue == IF written THEN Append(unsent, answer) ELSE unsent
           push == answered /\ ~written
\* The chain, the segment and what is left.
<1>1. Head(chain) = r
  BY <1>a, <1>b, HeadOfChain, Zenon
<1>2. /\ pool.armed > 0 /\ ReadData(1, 1 + Cardinality(Held \cap (1 .. e)))
      /\ register' = IF r.op = "write" THEN r.value ELSE register
      /\ rebooting' = (rebooting \/ r.op = "reboot")
      /\ Output(queue, rest, push) /\ requests' = Forward(s)
      /\ UNCHANGED <<window, outstanding, view, at>>
  BY <1>1, Zenon DEF InOrder, modbus_recv_cb, AnswerTo, clientVars
<1> HIDE DEF chain
<1>3. /\ s \in Seq(Requests) /\ Len(s) = Len(requests) - e
      /\ DOMAIN s = 1 .. Len(requests) - e
      /\ \A k \in 1 .. Len(requests) - e : s[k] = requests[e + k] /\ e + k \in DOMAIN requests
  <2>1. \A k \in e + 1 .. Len(requests) : requests[k] \in Requests
    <3>1. \A k \in 1 .. Len(requests) : requests[k] \in Requests
      BY <1>0, ElementOfSeq, Zenon
    <3>2. \A k \in e + 1 .. Len(requests) : k \in 1 .. Len(requests)
      BY <1>b
    <3> QED BY <3>1, <3>2, Zenon
  <2>2. e + 1 \in Int /\ Len(requests) \in Int
    BY <1>b
  <2>3. /\ s \in Seq(Requests)
        /\ Len(s) = IF e + 1 <= Len(requests) THEN Len(requests) - (e + 1) + 1 ELSE 0
        /\ \A k \in 1 .. Len(requests) - (e + 1) + 1 : s[k] = requests[e + 1 + k - 1]
    BY <2>1, <2>2, SubSeqProperties
  <2> HIDE DEF s
  <2>4. Len(s) = Len(requests) - e
    <3>1. CASE e + 1 <= Len(requests)
      BY <1>0, <1>b, <2>3, <3>1
    <3>2. CASE ~(e + 1 <= Len(requests))
      <4>1. Len(requests) = e
        <5>1. e \in Nat /\ Len(requests) \in Nat /\ e <= Len(requests)
          BY <1>0, <1>b
        <5> QED BY <3>2, <5>1
      <4>2. Len(s) = 0
        BY <2>3, <3>2, Zenon
      <4> QED BY <1>b, <4>1, <4>2
    <3> QED BY <3>1, <3>2
  <2>5. DOMAIN s = 1 .. Len(s)
    BY <2>3, LenProperties
  <2>6. \A k \in 1 .. Len(requests) - e :
          /\ k \in 1 .. Len(requests) - (e + 1) + 1
          /\ e + 1 + k - 1 = e + k /\ e + k \in 1 .. Len(requests)
    <3>1. e \in Int /\ Len(requests) \in Int /\ 0 <= e
      BY <1>b
    <3> SUFFICES ASSUME NEW k \in 1 .. Len(requests) - e
                 PROVE  /\ k \in 1 .. Len(requests) - (e + 1) + 1
                        /\ e + 1 + k - 1 = e + k /\ e + k \in 1 .. Len(requests)
      OBVIOUS
    <3>2. k \in Int /\ 1 <= k /\ k <= Len(requests) - e
      BY <3>1
    <3> QED BY <3>1, <3>2
  <2>7. \A k \in 1 .. Len(requests) - e : s[k] = requests[e + k] /\ e + k \in DOMAIN requests
    BY <1>0, <2>3, <2>6
  <2> QED BY <2>3, <2>4, <2>5, <2>7
<1>4. /\ DOMAIN c = 1 .. n /\ \A k \in 1 .. n : c[k] = requests[k] /\ k \in DOMAIN requests
  <2>1. \A k \in 1 .. n : requests[k] \in Requests /\ k \in DOMAIN requests
    BY <1>0, <1>b
  <2>2. /\ c \in Seq(Requests) /\ Len(c) = n
        /\ \A k \in 1 .. n - 1 + 1 : c[k] = requests[1 + k - 1]
    BY <1>b, <2>1, SubSeqProperties
  <2> HIDE DEF c
  <2>3. DOMAIN c = 1 .. n
    BY <2>2, LenProperties
  <2>4. \A k \in 1 .. n : c[k] = requests[k]
    BY <1>b, <2>2
  <2> QED BY <2>1, <2>3, <2>4
<1> HIDE DEF s, c
<1>5. /\ rest \in Seq(Answers) /\ (rest = flight \/ (rest = << >> /\ net = "heard"))
      /\ Len(rest) <= Len(flight) /\ Len(rest) \in Nat
      /\ IdsOf(rest) \subseteq IdsOf(flight)
  <2>1. (\E k \in DOMAIN c : c[k].acks) => net = "heard"
    BY <1>0, <1>4, Zenon DEF AckInv
  <2> QED BY <1>0, <2>1, UnackedFacts
\* The identifiers.
<1>6. r \in Requests /\ r.id \in IdsOf(requests)
  BY <1>0, <1>b DEF IdsOf
<1>7. r.id \notin IdsOf(flight) /\ r.id \notin IdsOf(unsent)
  BY <1>0, <1>6 DEF IdsInv
<1>8. IdsOf(s) \subseteq IdsOf(requests) /\ r.id \notin IdsOf(s)
  <2>1. \A k \in DOMAIN s : s[k].id \in IdsOf(requests)
    BY <1>3, Zenon DEF IdsOf
  <2>2. \A k \in DOMAIN s : s[k].id # r.id
    <3> SUFFICES ASSUME NEW k \in DOMAIN s, s[k].id = r.id PROVE FALSE
      OBVIOUS
    <3>1. requests[e + k].id = requests[1].id /\ e + k \in DOMAIN requests
      BY <1>3
    <3>2. e + k = 1
      BY <1>0, <1>b, <3>1, Zenon DEF IdsInv
    <3> QED BY <1>b, <1>3, <3>2
  <2> QED BY <2>1, <2>2 DEF IdsOf
<1>9. /\ answer \in Answers /\ answer.id = r.id /\ answer.value = Said(r)
      /\ r.op = "write" => r.value \in Values /\ Said(r) = r.value
      /\ r.op = "read" => Said(r) = register
      /\ r.op # "write" /\ r.op # "read" => Said(r) = None
  <2>1. r.op = "write" => r.value \in Values
    BY <1>0, <1>b, Zenon DEF RelyInv, WriteInv
  <2>2. /\ r.op = "write" => Said(r) = r.value
        /\ r.op = "read" => Said(r) = register
        /\ r.op # "write" /\ r.op # "read" => Said(r) = None
    BY DEF Said
  <2>3. Said(r) \in Values \cup {None}
    BY <1>0, <2>1, <2>2 DEF ServerTypeOK
  <2> QED BY <1>6, <2>1, <2>2, <2>3 DEF Answers, Requests
<1> HIDE DEF r, answer
<1>10. /\ written => queue = Append(unsent, answer)
       /\ ~written => queue = unsent
  BY Zenon
<1>11. /\ queue \in Seq(Answers) /\ push \in BOOLEAN
       /\ written => IdsOf(queue) = IdsOf(unsent) \cup {r.id}
       /\ Len(queue) + Len(rest) <= SendQueue
  <2>1. push \in BOOLEAN
    BY Zenon
  <2>2. CASE written
    <3>1. /\ queue = Append(unsent, answer) /\ Len(unsent) + Len(rest) < SendQueue
      BY <1>10, <2>2, Zenon DEF Fits
    <3>2. queue \in Seq(Answers) /\ Len(queue) = Len(unsent) + 1
      BY <1>a, <1>9, <3>1, AppendProperties
    <3>3. IdsOf(queue) = IdsOf(unsent) \cup {r.id}
      BY <1>a, <1>9, <3>1, IdsOfAppend
    <3>4. Len(queue) + Len(rest) <= SendQueue
      <4> HIDE DEF queue, rest
      <4> QED BY <1>0, <1>5, <3>1, <3>2, ServerAssumption
    <3> QED BY <2>1, <3>2, <3>3, <3>4, Zenon
  <2>3. CASE ~written
    <3>1. queue = unsent
      BY <1>10, <2>3, Zenon
    <3>2. Len(unsent) + Len(rest) <= SendQueue
      <4>1. Len(unsent) + Len(flight) <= SendQueue
        BY <1>0, Zenon DEF ServerTypeOK
      <4> HIDE DEF rest
      <4> QED BY <1>0, <1>5, <4>1, ServerAssumption
    <3> QED BY <1>a, <2>1, <2>3, <3>1, <3>2, Zenon
  <2> QED BY <2>2, <2>3, Zenon
<1>12. IdsOf(queue) \subseteq IdsOf(unsent) \cup {r.id}
  BY <1>10, <1>11
<1> HIDE DEF queue, push, rest, written
<1>13. /\ IdsOf(queue) \cap IdsOf(flight) = {}
       /\ IdsOf(s) \cap (IdsOf(queue) \cup IdsOf(flight)) = {}
  BY <1>0, <1>7, <1>8, <1>12 DEF IdsInv
<1>14. /\ \A k \in DOMAIN s : s[k].acks => flight # << >> /\ net = "heard"
       /\ \A k, l \in DOMAIN s : s[k].id = s[l].id => k = l
  <2>1. \A k \in DOMAIN s : s[k].acks => flight # << >> /\ net = "heard"
    BY <1>0, <1>3, Zenon DEF AckInv
  <2>2. \A k, l \in DOMAIN s : s[k].id = s[l].id => k = l
    <3> SUFFICES ASSUME NEW k \in DOMAIN s, NEW l \in DOMAIN s, s[k].id = s[l].id PROVE k = l
      OBVIOUS
    <3>1. /\ requests[e + k].id = requests[e + l].id
          /\ e + k \in DOMAIN requests /\ e + l \in DOMAIN requests
      BY <1>3
    <3>2. e + k = e + l
      BY <1>0, <3>1, Zenon DEF IdsInv
    <3> QED BY <1>b, <1>3, <3>2
  <2> QED BY <2>1, <2>2
<1>15. /\ IdsInv' /\ AckInv' /\ requests' \in Seq(Requests) /\ IdsOf(requests') = IdsOf(s)
       /\ IdsOf(flight') \cup IdsOf(unsent') \subseteq IdsOf(queue) \cup IdsOf(flight)
       /\ \A w, v : WillKnow(flight', unsent', outstanding, w, v)
                      => WillKnow(flight, queue, outstanding, w, v)
  <2>1. /\ rest \in Seq(Answers) /\ (rest = flight \/ (rest = << >> /\ net = "heard"))
        /\ queue \in Seq(Answers) /\ push \in BOOLEAN /\ s \in Seq(Requests)
    BY <1>3, <1>5, <1>11, Zenon
  <2>2. /\ Output(queue, rest, push) /\ requests' = Forward(s) /\ outstanding' = outstanding
    BY <1>2, Zenon
  <2>3. ServerTypeOK /\ AckInv
    BY <1>0, Zenon
  <2>4. Piped(queue, rest, push, s)
    BY <1>13, <1>14, <2>1, <2>2, Zenon DEF Piped
  <2> QED BY <2>3, <2>4, PipeIds, Zenon
<1>16. /\ DOMAIN requests' = 1 .. Len(requests) - e /\ Len(requests') = Len(requests) - e
       /\ \A k \in 1 .. Len(requests) - e :
            /\ requests'[k].id = requests[e + k].id /\ requests'[k].op = requests[e + k].op
            /\ requests'[k].value = requests[e + k].value
            /\ requests'[k].held = requests[e + k].held /\ e + k \in DOMAIN requests
  <2>1. requests' = Forward(s) /\ s \in Seq(Requests)
    BY <1>2, <1>3, Zenon
  <2>2. /\ Len(requests') = Len(s) /\ DOMAIN requests' = DOMAIN s
        /\ \A k \in DOMAIN s :
             /\ requests'[k].id = s[k].id /\ requests'[k].op = s[k].op
             /\ requests'[k].value = s[k].value /\ requests'[k].held = s[k].held
    BY <2>1, ForwardFacts, Zenon
  <2> QED BY <1>3, <2>2, Zenon
<1>17. WriteInv'
  BY <1>0, <1>16, Zenon DEF RelyInv, WriteInv
<1>18. StaleInv'
  <2> SUFFICES ASSUME NEW j \in DOMAIN requests', requests'[j].id \notin outstanding
               PROVE  /\ \A i \in 1 .. j : requests'[i].id \notin outstanding
                      /\ view = None
                      /\ (IdsOf(flight') \cup IdsOf(unsent')) \cap outstanding = {}
    BY <1>2, Zenon DEF StaleInv
  <2>1. e + j \in DOMAIN requests /\ requests[e + j].id \notin outstanding
    BY <1>16, Zenon
  <2>2. /\ \A i \in 1 .. e + j : requests[i].id \notin outstanding
        /\ view = None /\ (IdsOf(flight) \cup IdsOf(unsent)) \cap outstanding = {}
    BY <1>0, <2>1, Zenon DEF RelyInv, StaleInv
  <2>3. r.id \notin outstanding
    <3>1. 1 \in 1 .. e + j
      BY <1>b, <1>16
    <3> QED BY <2>2, <3>1, Zenon DEF r
  <2>4. \A i \in 1 .. j : i \in 1 .. Len(requests) - e /\ e + i \in 1 .. e + j
    BY <1>b, <1>16
  <2>5. \A i \in 1 .. j : requests'[i].id \notin outstanding
    BY <1>16, <2>2, <2>4, Zenon
  <2>6. (IdsOf(flight') \cup IdsOf(unsent')) \cap outstanding = {}
    BY <1>12, <1>15, <2>2, <2>3
  <2> QED BY <2>2, <2>5, <2>6, Zenon
<1>19. KnowInv'
  <2> SUFFICES ASSUME Covered', NEW v \in Values,
                      WillKnow(flight', unsent', outstanding, view, v)
               PROVE  v = register'
    BY <1>2, Zenon DEF KnowInv
  <2>1. WillKnow(flight, queue, outstanding, view, v)
    BY <1>15, Zenon
  <2>2. CASE r.id \notin outstanding
    <3>1. view = None /\ (IdsOf(flight) \cup IdsOf(unsent)) \cap outstanding = {}
      BY <1>0, <1>b, <2>2, Zenon DEF r, RelyInv, StaleInv
    <3>2. IdsOf(flight) \cap outstanding = {} /\ IdsOf(queue) \cap outstanding = {}
      BY <1>12, <2>2, <3>1
    <3>3. v = None
      BY <2>1, <3>1, <3>2, NothingTold, Zenon DEF WillKnow
    <3> QED BY <3>3, ServerAssumption
  <2>3. CASE r.id \in outstanding
    <3>1. outstanding \subseteq IdsOf(s) \cup IdsOf(queue) \cup IdsOf(flight)
      <4>1. outstanding \subseteq IdsOf(requests') \cup IdsOf(flight') \cup IdsOf(unsent')
        BY <1>2, Zenon DEF Covered
      <4> QED BY <1>15, <4>1
    <3>2. written
      <4> SUFFICES ASSUME ~written PROVE FALSE
        OBVIOUS
      <4>1. queue = unsent
        BY <1>10, Zenon
      <4> QED BY <1>7, <1>8, <2>3, <3>1, <4>1
    <3>3. Covered
      <4>1. \A i \in DOMAIN requests : requests[i].id \in outstanding
        <5> SUFFICES ASSUME NEW i \in DOMAIN requests, requests[i].id \notin outstanding
                     PROVE  FALSE
          OBVIOUS
        <5>1. 1 \in 1 .. i
          BY <1>0
        <5> QED BY <1>0, <2>3, <5>1, Zenon DEF r, RelyInv, StaleInv
      <4>2. IdsOf(requests) \subseteq outstanding
        BY <4>1 DEF IdsOf
      <4>3. outstanding \subseteq IdsOf(requests) \cup IdsOf(flight) \cup IdsOf(unsent)
        BY <1>6, <1>8, <1>12, <3>1
      <4> QED BY <4>2, <4>3, Zenon DEF Covered
    <3>4. WillKnow(flight, unsent, outstanding, view, v) => v = register
      BY <1>0, <3>3, Zenon DEF RelyInv, KnowInv
    <3>5. /\ Told(queue, outstanding) = {} =>
               Told(unsent, outstanding) = {} /\ ~(r.id \in outstanding /\ Said(r) # None)
          /\ LastTold(queue, outstanding, v) =>
               \/ r.id \in outstanding /\ Said(r) = v /\ v # None
               \/ /\ ~(r.id \in outstanding /\ Said(r) # None)
                  /\ LastTold(unsent, outstanding, v)
      <4>1. queue = Append(unsent, answer)
        BY <1>10, <3>2, Zenon
      <4>2. unsent \in Seq(Answers) /\ answer \in Answers
        BY <1>a, <1>9, Zenon
      <4> QED BY <1>9, <4>1, <4>2, ToldAppend, Zenon
    <3>6. CASE Said(r) # None
      <4>1. v = Said(r)
        BY <2>1, <2>3, <3>5, <3>6, Zenon DEF WillKnow
      <4> QED BY <1>2, <1>9, <3>6, <4>1, Zenon
    <3>7. CASE Said(r) = None
      <4>1. r.op # "write"
        BY <1>9, <3>7, ServerAssumption, Zenon
      <4>2. WillKnow(flight, unsent, outstanding, view, v)
        BY <2>1, <3>5, <3>7, Zenon DEF WillKnow
      <4> QED BY <1>2, <3>4, <4>1, <4>2, Zenon
    <3> QED BY <3>6, <3>7, Zenon
  <2> QED BY <2>2, <2>3, Zenon
<1>20. TurnsInv'
  <2> SUFFICES ASSUME window = 1 PROVE TurnsInv'
    BY <1>2, Zenon DEF TurnsInv
  <2>1. /\ unsent = << >> /\ Len(requests) <= 1
        /\ requests # << >> =>
             outstanding # {} /\ (flight # << >> => net = "heard" /\ requests[1].acks)
    BY <1>0, Zenon DEF RelyInv, TurnsInv
  <2>2. Len(requests) = 1 /\ e = 1 /\ n = 1 /\ requests # << >>
    BY <1>0, <1>a, <1>b, <2>1, EmptySeq
  <2>3. rest = << >>
    <3>1. 1 \in DOMAIN c /\ c[1] = requests[1]
      BY <1>4, <2>2
    <3> QED BY <2>1, <2>2, <3>1, Zenon DEF rest, StillUnacked
  <2>4. unsent' = << >>
    BY <1>2, <2>3, Zenon DEF Output
  <2>5. Len(requests') = 0 /\ requests' = << >>
    BY <1>15, <1>16, <2>2, EmptySeq
  <2> QED BY <1>2, <2>1, <2>2, <2>4, <2>5 DEF TurnsInv
\* The buffers.
<1>21. /\ IsFiniteSet(Held) /\ Cardinality(Held) \in Nat
       /\ Cardinality(Held \cap (1 .. e)) \in Nat
  <2>1. IsFiniteSet(Held) /\ Cardinality(Held) \in Nat
    BY <1>a, HeldFinite
  <2>2. IsFiniteSet(Held \cap (1 .. e))
    BY <2>1, FS_Subset
  <2> QED BY <2>1, <2>2, FS_CardinalityType
<1> DEFINE kept == Cardinality(Held \cap (1 .. e))
<1>22. /\ pool' \in [free : Nat, armed : 0 .. RingSize]
       /\ pool'.free + pool'.armed = pool.free + pool.armed - 1 + (1 + kept)
       /\ RxAllocStatus' \in {"OK", "ERROR"}
  <2>1. 1 \in 0 .. pool.armed /\ 1 + kept \in Nat
    BY <1>0, <1>2, <1>21
  <2> QED BY <1>0, <1>2, <2>1, ReadDataFacts
<1>23. Cardinality(Held') = Cardinality(Held) - kept
  <2>1. \A i \in 1 .. Len(requests) - e : requests'[i].held = requests[e + i].held
    BY <1>16, Zenon
  <2>2. requests \in Seq(Requests) /\ e \in 1 .. Len(requests)
        /\ DOMAIN requests' = 1 .. Len(requests) - e
    BY <1>a, <1>b, <1>16, Zenon
  <2> QED BY <2>1, <2>2, HeldBehind
<1>24. BuffersAccounted'
  <2>1. /\ pool.free \in Nat /\ pool.armed \in Nat /\ pool'.free \in Nat /\ pool'.armed \in Nat
        /\ Buffers \in Nat /\ pool.free + pool.armed + Cardinality(Held) = Buffers
    BY <1>0, <1>22, ServerAssumption DEF BuffersAccounted
  <2>2. Cardinality(Held) \in Nat /\ kept \in Nat
    BY <1>21
  <2> HIDE DEF kept
  <2>3. pool'.free + pool'.armed + Cardinality(Held') = Buffers
    <3> DEFINE free == pool.free
               armed == pool.armed
               held == Cardinality(Held)
    <3>1. pool'.free + pool'.armed = free + armed - 1 + (1 + kept)
      BY <1>22
    <3>2. Cardinality(Held') = held - kept
      BY <1>23
    <3>3. free \in Nat /\ armed \in Nat /\ held \in Nat /\ free + armed + held = Buffers
      BY <2>1, <2>2
    <3> HIDE DEF free, armed, held
    <3>4. (free + armed - 1 + (1 + kept)) + (held - kept) = Buffers
      BY <2>1, <2>2, <3>3
    <3> QED BY <3>1, <3>2, <3>4, Zenon
  <2> QED BY <2>3 DEF BuffersAccounted
<1>25. /\ unsent' \in Seq(Answers) /\ flight' \in Seq(Answers)
       /\ net' \in {"wire", "lost", "heard"}
       /\ Len(unsent') + Len(flight') <= SendQueue
  <2>1. /\ queue \in Seq(Answers) /\ rest \in Seq(Answers) /\ push \in BOOLEAN
        /\ Output(queue, rest, push) /\ net \in {"wire", "lost", "heard"}
    BY <1>2, <1>5, <1>11, <1>a, Zenon
  <2>2. /\ unsent' \in Seq(Answers) /\ flight' \in Seq(Answers)
        /\ net' \in {"wire", "lost", "heard"}
        /\ Len(unsent') + Len(flight') = Len(queue) + Len(rest)
    BY <2>1, OutputFacts, Zenon
  <2> QED BY <1>11, <2>2, Zenon
<1>26. /\ window' = window /\ outstanding' \subseteq Ids /\ view' \in Values \cup {None}
       /\ register' \in Values /\ rebooting' \in BOOLEAN /\ at' \in {"lwip", "dying"}
  <2>1. register' \in Values
    BY <1>0, <1>2, <1>9 DEF ServerTypeOK
  <2>2. rebooting' \in BOOLEAN
    BY <1>2, Zenon
  <2> QED BY <1>0, <1>2, <2>1, <2>2, Zenon DEF ServerTypeOK
<1>27. ServerInv'
  BY <1>15, <1>22, <1>24, <1>25, <1>26, StepTypes, Zenon
<1> QED BY <1>15, <1>17, <1>18, <1>19, <1>20, <1>27, Zenon DEF ServerIInv

LEMMA NextServer ==
  ASSUME ServerIInv, [ServerNext]_serverVars
  PROVE  ServerIInv'
<1>1. CASE \E op \in Ops \ {"write"} : Ask(op, None)
  <2> PICK op \in Ops \ {"write"} : Ask(op, None)
    BY <1>1
  <2>1. op \in Ops /\ None \in Values \cup {None} /\ (op = "write" => None \in Values)
    OBVIOUS
  <2> QED BY <2>1, StepAsk, Zenon
<1>2. CASE \E v \in Values : Ask("write", v)
  <2> PICK v \in Values : Ask("write", v)
    BY <1>2
  <2>1. "write" \in Ops /\ v \in Values \cup {None}
    BY DEF Ops
  <2> QED BY <2>1, StepAsk, Zenon
<1>3. CASE \E i \in DOMAIN requests : OutOfOrder(i)
  BY <1>3, StepOutOfOrder, Zenon
<1>4. CASE Arrive
  BY <1>4, StepInOrder, Zenon DEF Arrive
<1>5. CASE Hear \/ GiveUp
  BY <1>5, StepHear, StepGiveUp, Zenon
<1>6. CASE Poll \/ Lose \/ Retransmit \/ Arbitrate
  BY <1>6, StepQuietly, Zenon
<1>7. CASE OoseqTimeout \/ Ack
  BY <1>7, StepOoseq, StepAck, Zenon
<1>8. CASE Break \/ Reset
  BY <1>8, StepDisconnect, Zenon
<1>9. CASE UNCHANGED serverVars
  <2>0. ServerTypeOK /\ BuffersAccounted /\ RelyInv /\ pool \in [free : Nat, armed : 0 .. RingSize]
    BY Typed, Zenon
  <2>1. /\ UNCHANGED <<window, outstanding, view, requests, pool, RxAllocStatus, unsent,
                       flight, net, register, rebooting, at>>
    BY <1>9, Zenon DEF serverVars, clientVars, rxVars, txVars
  <2>2. requests \in Seq(Requests) /\ requests' \in Seq(Requests)
    BY <2>0, <2>1, Zenon DEF ServerTypeOK
  <2>3. RelyInv'
    BY <2>0, <2>1, <2>2, RelyFrame, Zenon
  <2>4. BuffersAccounted'
    BY <2>0, <2>1, SameHeld, Zenon
  <2>5. /\ pool' \in [free : Nat, armed : 0 .. RingSize] /\ RxAllocStatus' \in {"OK", "ERROR"}
        /\ net' \in {"wire", "lost", "heard"} /\ rebooting' \in BOOLEAN
        /\ at' \in {"lwip", "dying"}
    BY <2>0, <2>1, Zenon DEF ServerTypeOK
  <2> QED BY <2>1, <2>2, <2>3, <2>4, <2>5, FrameTypes, Zenon
<1> QED BY <1>1, <1>2, <1>3, <1>4, <1>5, <1>6, <1>7, <1>8, <1>9, Zenon DEF ServerNext

-----------------------------------------------------------------------------
(* What the server promises. *)

\* The invariant that carries the others: identifiers stay apart, stale requests
\* are in front, and what the answers under way will tell is what the callback has
\* made of the register (modbus_recv_cb, app_modbus.c:103-252).
THEOREM ServerInvariant == ServerSpec => []ServerIInv
<1>1. ServerInit => ServerIInv
  BY InitServer
<1>2. ServerIInv /\ [ServerNext]_serverVars => ServerIInv'
  BY NextServer
<1> QED BY <1>1, <1>2, PTL DEF ServerSpec

\* Whatever the sizes of ring and pool and however long the chains, every receive
\* buffer is free, in a descriptor or kept out of order, and in one of them only
\* (ethernetif.c:412, :670); the queues keep their types and their limits.
THEOREM BuffersStay == ServerSpec => []ServerInv
<1>1. ServerIInv => ServerInv
  BY Zenon DEF ServerIInv
<1> QED BY <1>1, ServerInvariant, PTL

\* A client with no answer due knows the register, with any window: although the
\* callback skips requests of a chain (app_modbus.c:126) and drops answers that do
\* not fit the send queue (app_modbus.c:249).
THEOREM ViewIsHonest == ServerSpec => []ViewHonest
<1>1. ServerIInv => ViewHonest
  <2> SUFFICES ASSUME ServerIInv, Quiet, outstanding = {}, view # None PROVE view = register
    BY DEF ViewHonest
  <2>1. KnowInv /\ view \in Values
    BY Zenon DEF ServerIInv, ServerInv, ServerTypeOK
  <2>2. requests = << >>
    BY Zenon DEF Quiet
  <2>3. Covered
    BY <2>2, IdsOfEmpty DEF Covered
  <2>4. Told(flight, outstanding) = {} /\ Told(unsent, outstanding) = {}
    <3>1. IdsOf(flight) \cap outstanding = {} /\ IdsOf(unsent) \cap outstanding = {}
      OBVIOUS
    <3> QED BY <3>1, NothingTold, Zenon
  <2> QED BY <2>1, <2>3, <2>4, Zenon DEF KnowInv, WillKnow
<1> QED BY <1>1, ServerInvariant, PTL

\* The echo of a client that takes turns is on the line before the delay in which
\* lwIP does not run (main.c:300-313): its request acknowledged the answer before,
\* so that Nagle's rule had nothing to wait for.
THEOREM EchoIsOut == ServerSpec => []EchoBeforeReboot
<1>1. ServerIInv => EchoBeforeReboot
  BY Zenon DEF ServerIInv, TurnsInv, EchoBeforeReboot
<1> QED BY <1>1, ServerInvariant, PTL
-----------------------------------------------------------------------------
(* The receiver that is deaf. *)

Deaf == RxAllocStatus = "ERROR" => pool.free = 0 /\ pool.armed < RingSize

\* Whoever is deaf keeps buffers out of order.
LEMMA DeafHolds ==
  ASSUME ServerIInv, Deaf, RxAllocStatus = "ERROR"
  PROVE  Held # {}
<1>1. ServerTypeOK /\ BuffersAccounted
  BY Typed, Zenon
<1>2. pool.free = 0 /\ pool.armed < RingSize /\ pool.armed \in Nat
  BY <1>1 DEF Deaf, ServerTypeOK
<1>3. RingSize \in Nat /\ Buffers \in Nat /\ Buffers > RingSize
  BY ServerAssumption
<1>4. Cardinality(Held) # 0
  <2>1. pool.free + pool.armed + Cardinality(Held) = Buffers
    BY <1>1 DEF BuffersAccounted
  <2> QED BY <1>2, <1>3, <2>1
<1>5. Cardinality({}) = 0
  BY FS_EmptySet
<1> QED BY <1>4, <1>5, Zenon

\* A receiver that hears becomes deaf with an empty pool and a gap in the ring.
LEMMA ReadDataDeaf ==
  ASSUME ServerTypeOK, RxAllocStatus = "OK",
         NEW taken \in 0 .. pool.armed, NEW buffers \in Nat, ReadData(taken, buffers)
  PROVE  Deaf'
<1> DEFINE lacking == RingSize - (pool.armed - taken)
           given == IF lacking <= pool.free THEN lacking ELSE pool.free
<1>1. pool.free \in Nat /\ pool.armed \in 0 .. RingSize /\ RingSize \in Nat
  BY ServerAssumption DEF ServerTypeOK
<1>2. /\ pool' = [free |-> pool.free - given + buffers, armed |-> pool.armed - taken + given]
      /\ RxAllocStatus' = StatusAfter(buffers, given < lacking)
  BY DEF ReadData, FreedOf
<1> SUFFICES ASSUME RxAllocStatus' = "ERROR" PROVE pool'.free = 0 /\ pool'.armed < RingSize
  BY DEF Deaf
<1>3. buffers = 0 /\ given < lacking
  BY <1>2 DEF StatusAfter
<1>4. lacking \in Nat /\ given = pool.free /\ lacking = RingSize - (pool.armed - taken)
  BY <1>1, <1>3
<1>5. pool'.free = pool.free - given + buffers /\ pool'.armed = pool.armed - taken + given
  BY <1>2
<1> HIDE DEF lacking, given
<1>6. pool'.free = 0
  BY <1>1, <1>3, <1>4, <1>5
<1>7. pool'.armed < RingSize
  BY <1>1, <1>3, <1>4, <1>5
<1> QED BY <1>6, <1>7

LEMMA NextDeaf ==
  ASSUME ServerIInv, Deaf, [ServerNext]_serverVars
  PROVE  Deaf'
<1>0. /\ ServerTypeOK /\ BuffersAccounted /\ requests \in Seq(Requests)
      /\ RxAllocStatus \in {"OK", "ERROR"}
      /\ pool.free \in Nat /\ pool.armed \in Nat
      /\ pool = [free |-> pool.free, armed |-> pool.armed]
  BY Typed DEF ServerTypeOK
<1>a. IsFiniteSet(Held) /\ Cardinality(Held) \in Nat
  BY <1>0, HeldFinite
<1>1. CASE UNCHANGED <<pool, RxAllocStatus>>
  BY <1>1, Zenon DEF Deaf
<1>2. CASE Poll
  <2>1. ReadData(0, 0) /\ RxAllocStatus = "OK" /\ 0 \in 0 .. pool.armed /\ 0 \in Nat
    BY <1>0, <1>2 DEF Poll, Receives
  <2> QED BY <1>0, <2>1, ReadDataDeaf, Zenon
<1>3. ASSUME NEW i \in DOMAIN requests, OutOfOrder(i) PROVE Deaf'
  <2>1. ReadData(1, 0) /\ RxAllocStatus = "OK" /\ pool.armed > 0
    BY <1>3, Zenon DEF OutOfOrder, Receives
  <2>2. 1 \in 0 .. pool.armed /\ 0 \in Nat
    BY <1>0, <2>1
  <2> QED BY <1>0, <2>1, <2>2, ReadDataDeaf, Zenon
<1>4. ASSUME NEW n, NEW end, InOrder(n, end) PROVE Deaf'
  <2> DEFINE kept == Cardinality(Held \cap (1 .. end))
  <2>1. ReadData(1, 1 + kept) /\ RxAllocStatus = "OK" /\ pool.armed > 0
    BY <1>4, Zenon DEF InOrder, Receives
  <2>2. IsFiniteSet(Held \cap (1 .. end))
    BY <1>a, FS_Subset
  <2>3. kept \in Nat
    BY <2>2, FS_CardinalityType
  <2>4. 1 \in 0 .. pool.armed /\ 1 + kept \in Nat
    BY <1>0, <2>1, <2>3
  <2> QED BY <1>0, <2>1, <2>4, ReadDataDeaf, Zenon
<1>5. CASE OoseqTimeout \/ Break
  <2>1. /\ pool' = [pool EXCEPT !.free = @ + Cardinality(Held)]
        /\ RxAllocStatus' = StatusAfter(Cardinality(Held), FALSE)
    BY <1>5, Zenon DEF OoseqTimeout, Break
  <2>2. CASE Held = {}
    <3>1. Cardinality(Held) = 0
      BY <2>2, FS_EmptySet
    <3>2. RxAllocStatus' = RxAllocStatus
      BY <2>1, <3>1 DEF StatusAfter
    <3>3. RxAllocStatus # "ERROR"
      BY <2>2, DeafHolds, Zenon
    <3> QED BY <3>2, <3>3, Zenon DEF Deaf
  <2>3. CASE Held # {}
    <3>1. Cardinality(Held) > 0
      <4>1. Cardinality(Held) # 0
        BY <1>a, <2>3, FS_EmptySet
      <4> QED BY <1>a, <4>1
    <3>2. RxAllocStatus' = "OK"
      BY <2>1, <3>1 DEF StatusAfter
    <3> QED BY <3>2 DEF Deaf
  <2> QED BY <2>2, <2>3
<1>6. CASE Reset
  BY <1>6 DEF Reset, Deaf
<1>7. CASE \/ \E op \in Ops \ {"write"} : Ask(op, None)
           \/ \E v \in Values : Ask("write", v)
           \/ Hear \/ GiveUp \/ Ack \/ Lose \/ Retransmit \/ Arbitrate
           \/ UNCHANGED serverVars
  <2>1. UNCHANGED <<pool, RxAllocStatus>>
    BY <1>7, Zenon DEF Ask, Hear, GiveUp, Ack, Lose, Retransmit, Arbitrate, rxVars, serverVars
  <2> QED BY <1>1, <2>1, Zenon
<1> QED BY <1>2, <1>3, <1>4, <1>5, <1>6, <1>7, Zenon DEF ServerNext, Arrive

\* A receiver that is deaf can be helped: buffers are kept out of order, and the
\* timer of lwIP gives them back (ethernetif.c:298, :670).
THEOREM DeafCanRecover == ServerSpec => []DeafHoldsBuffers
<1>1. ServerInit => Deaf
  BY DEF ServerInit, Deaf
<1>2. ServerIInv /\ Deaf /\ [ServerNext]_serverVars => Deaf'
  BY NextDeaf
<1>3. ServerIInv /\ Deaf => DeafHoldsBuffers
  BY DeafHolds DEF Deaf, DeafHoldsBuffers
<1> QED BY <1>1, <1>2, <1>3, ServerInvariant, PTL DEF ServerSpec

-----------------------------------------------------------------------------
(* The refinement of RemoteRegister: requests and answers. *)

PlainRequests == [id : Ids, op : Ops, value : Values \cup {None}]

LEMMA PlainFacts ==
  ASSUME NEW s \in Seq(Requests)
  PROVE  /\ PlainOf(s) \in Seq(PlainRequests)
         /\ Len(PlainOf(s)) = Len(s) /\ DOMAIN PlainOf(s) = DOMAIN s
         /\ \A i \in DOMAIN s : PlainOf(s)[i] = Plain(s[i])
<1> DEFINE t == PlainOf(s)
<1>1. /\ Len(s) \in Nat /\ DOMAIN s = 1 .. Len(s)
      /\ \A i \in 1 .. Len(s) : s[i] \in Requests
  BY LenProperties, ElementOfSeq
<1>2. DOMAIN t = DOMAIN s /\ \A i \in DOMAIN s : t[i] = Plain(s[i])
  BY DEF PlainOf
<1>3. \A i \in 1 .. Len(s) : Plain(s[i]) \in PlainRequests
  BY <1>1 DEF Plain, Requests, PlainRequests
<1>4. t = [i \in 1 .. Len(s) |-> Plain(s[i])]
  BY <1>1 DEF PlainOf
<1> HIDE DEF t
<1>5. t \in [1 .. Len(s) -> PlainRequests]
  BY <1>3, <1>4
<1>6. t \in Seq(PlainRequests)
  BY <1>1, <1>5, SeqDef
<1>7. Len(t) = Len(s)
  <2>1. Len(t) \in Nat /\ DOMAIN t = 1 .. Len(t)
    BY <1>6, LenProperties
  <2> QED BY <1>1, <1>2, <2>1
<1> QED BY <1>2, <1>6, <1>7 DEF t

\* What lwIP notes of a segment does not show.
LEMMA SamePlain ==
  ASSUME NEW s \in Seq(Requests), NEW t \in Seq(Requests), DOMAIN t = DOMAIN s,
         \A i \in DOMAIN s : t[i].id = s[i].id /\ t[i].op = s[i].op /\ t[i].value = s[i].value
  PROVE  PlainOf(t) = PlainOf(s)
<1>1. \A i \in DOMAIN s : Plain(t[i]) = Plain(s[i])
  BY DEF Plain
<1> HIDE DEF Plain
<1> QED BY <1>1 DEF PlainOf

LEMMA PlainEmpty == PlainOf(<< >>) = << >>
<1>1. << >> \in Seq(Requests) /\ Len(<< >>) = 0
  BY EmptySeq
<1>2. PlainOf(<< >>) \in Seq(PlainRequests) /\ Len(PlainOf(<< >>)) = 0
  BY <1>1, PlainFacts
<1> QED BY <1>2, EmptySeq

LEMMA PlainAppend ==
  ASSUME NEW s \in Seq(Requests), NEW e \in Requests
  PROVE  PlainOf(Append(s, e)) = Append(PlainOf(s), Plain(e))
<1> DEFINE t == Append(s, e)
           p == PlainOf(s)
           q == Append(p, Plain(e))
<1>1. /\ t \in Seq(Requests) /\ Len(t) = Len(s) + 1 /\ t[Len(s) + 1] = e
      /\ \A i \in 1 .. Len(s) : t[i] = s[i]
  BY AppendProperties
<1>2. /\ p \in Seq(PlainRequests) /\ Len(p) = Len(s)
      /\ \A i \in DOMAIN s : p[i] = Plain(s[i])
  BY PlainFacts
<1>3. Plain(e) \in PlainRequests
  BY DEF Plain, Requests, PlainRequests
<1>4. /\ q \in Seq(PlainRequests) /\ Len(q) = Len(p) + 1 /\ q[Len(p) + 1] = Plain(e)
      /\ \A i \in 1 .. Len(p) : q[i] = p[i]
  BY <1>2, <1>3, AppendProperties
<1>5. /\ PlainOf(t) \in Seq(PlainRequests) /\ Len(PlainOf(t)) = Len(t)
      /\ \A i \in DOMAIN t : PlainOf(t)[i] = Plain(t[i])
  BY <1>1, PlainFacts
<1>6. Len(s) \in Nat /\ DOMAIN s = 1 .. Len(s) /\ DOMAIN t = 1 .. Len(t)
  BY <1>1, LenProperties
<1> HIDE DEF t, p, q
<1>7. Len(PlainOf(t)) = Len(q)
  BY <1>1, <1>2, <1>4, <1>5
<1>8. \A i \in 1 .. Len(PlainOf(t)) : PlainOf(t)[i] = q[i]
  <2> SUFFICES ASSUME NEW i \in 1 .. Len(PlainOf(t)) PROVE PlainOf(t)[i] = q[i]
    OBVIOUS
  <2>1. i \in DOMAIN t /\ (i \in 1 .. Len(s) \/ i = Len(s) + 1)
    BY <1>1, <1>5, <1>6
  <2>2. PlainOf(t)[i] = Plain(t[i])
    BY <1>5, <2>1, Zenon
  <2>3. CASE i \in 1 .. Len(s)
    BY <1>1, <1>2, <1>4, <1>6, <2>2, <2>3, Zenon
  <2>4. CASE i = Len(s) + 1
    BY <1>1, <1>2, <1>4, <2>2, <2>4, Zenon
  <2> QED BY <2>1, <2>3, <2>4
<1>9. PlainOf(t) = q
  BY <1>4, <1>5, <1>7, <1>8, SeqEqual
<1> QED BY <1>9 DEF t, p, q

LEMMA PlainRest ==
  ASSUME NEW s \in Seq(Requests), NEW e \in 1 .. Len(s)
  PROVE  /\ SubSeq(s, e + 1, Len(s)) \in Seq(Requests)
         /\ PlainOf(SubSeq(s, e + 1, Len(s))) = SubSeq(PlainOf(s), e + 1, Len(PlainOf(s)))
<1> DEFINE m == Len(s)
           t == SubSeq(s, e + 1, m)
           p == PlainOf(s)
           q == SubSeq(p, e + 1, m)
<1>1. m \in Nat /\ DOMAIN s = 1 .. m /\ \A i \in 1 .. m : s[i] \in Requests
  BY LenProperties, ElementOfSeq
<1>2. /\ p \in Seq(PlainRequests) /\ Len(p) = m
      /\ \A i \in 1 .. m : p[i] = Plain(s[i])
  BY <1>1, PlainFacts
<1>3. \A i \in 1 .. m : p[i] \in PlainRequests
  BY <1>2, ElementOfSeq
<1> HIDE DEF m, p
<1>4. e \in Nat /\ 1 <= e /\ e <= m /\ e + 1 \in Int /\ m \in Int
  BY <1>1 DEF m
<1>5. \A i \in e + 1 .. m : i \in 1 .. m
  BY <1>4
<1>6. /\ t \in Seq(Requests)
      /\ Len(t) = IF e + 1 <= m THEN m - (e + 1) + 1 ELSE 0
      /\ \A i \in 1 .. m - (e + 1) + 1 : t[i] = s[e + 1 + i - 1]
  BY <1>1, <1>4, <1>5, SubSeqProperties
<1>7. /\ q \in Seq(PlainRequests)
      /\ Len(q) = IF e + 1 <= m THEN m - (e + 1) + 1 ELSE 0
      /\ \A i \in 1 .. m - (e + 1) + 1 : q[i] = p[e + 1 + i - 1]
  BY <1>3, <1>4, <1>5, SubSeqProperties
<1> HIDE DEF t, q
<1>8. /\ PlainOf(t) \in Seq(PlainRequests) /\ Len(PlainOf(t)) = Len(t)
      /\ \A i \in 1 .. Len(t) : PlainOf(t)[i] = Plain(t[i])
  BY <1>6, PlainFacts, LenProperties
<1>9. \A i \in 1 .. Len(t) : PlainOf(t)[i] = q[i]
  <2> SUFFICES ASSUME NEW i \in 1 .. Len(t) PROVE PlainOf(t)[i] = q[i]
    OBVIOUS
  <2>1. i \in 1 .. m - (e + 1) + 1 /\ e + 1 + i - 1 \in 1 .. m
    <3>1. Len(t) = m - e
      BY <1>4, <1>6
    <3>2. i \in Int /\ 1 <= i /\ i <= m - e
      BY <1>4, <3>1
    <3> QED BY <1>4, <3>2
  <2> QED BY <1>2, <1>6, <1>7, <1>8, <2>1, Zenon
<1>10. PlainOf(t) = q
  BY <1>6, <1>7, <1>8, <1>9, SeqEqual
<1> QED BY <1>2, <1>6, <1>10 DEF t, q, p, m

LEMMA RestOfConcat ==
  ASSUME NEW s \in Seq(Answers), NEW t \in Seq(Answers)
  PROVE  SubSeq(s \o t, Len(s) + 1, Len(s \o t)) = t
<1> DEFINE u == s \o t
           q == SubSeq(u, Len(s) + 1, Len(u))
           n == Len(s)
<1>1. /\ u \in Seq(Answers) /\ n \in Nat /\ Len(t) \in Nat
      /\ Len(u) = n + Len(t) /\ \A i \in 1 .. Len(t) : u[n + i] = t[i]
  BY ConcatAt
<1>2. \A i \in 1 .. Len(u) : u[i] \in Answers
  BY <1>1, ElementOfSeq
<1> HIDE DEF u, n
<1>3. \A i \in n + 1 .. Len(u) : i \in 1 .. Len(u)
  BY <1>1
<1>4. n + 1 \in Int /\ Len(u) \in Int
  BY <1>1
<1>5. /\ q \in Seq(Answers)
      /\ Len(q) = IF n + 1 <= Len(u) THEN Len(u) - (n + 1) + 1 ELSE 0
      /\ \A i \in 1 .. Len(u) - (n + 1) + 1 : q[i] = u[n + 1 + i - 1]
  <2>1. q = SubSeq(u, n + 1, Len(u))
    BY DEF n
  <2> HIDE DEF q
  <2> QED BY <1>2, <1>3, <1>4, <2>1, SubSeqProperties
<1> HIDE DEF q
<1>6. Len(q) = Len(t)
  BY <1>1, <1>5
<1>7. \A i \in 1 .. Len(q) : q[i] = t[i]
  <2> SUFFICES ASSUME NEW i \in 1 .. Len(q) PROVE q[i] = t[i]
    OBVIOUS
  <2>1. i \in 1 .. Len(t) /\ i \in Int
    BY <1>6
  <2>2. i \in 1 .. Len(u) - (n + 1) + 1 /\ n + 1 + i - 1 = n + i
    BY <1>1, <2>1
  <2> QED BY <1>1, <1>5, <2>1, <2>2, Zenon
<1> QED BY <1>5, <1>6, <1>7, SeqEqual DEF q, u

\* What a client may have heard and the server may forget.
LEMMA Forgotten ==
  ASSUME ServerIInv, NEW rest, rest = flight \/ (rest = << >> /\ net = "heard")
  PROVE  \E k \in 0 .. Len(flight \o unsent) :
           Register!Heard(k) /\ Register!After(k) = rest \o unsent
<1> DEFINE u == flight \o unsent
           n == Len(flight)
<1>1. /\ flight \in Seq(Answers) /\ unsent \in Seq(Answers)
      /\ AckInv
  BY Typed DEF ServerTypeOK, RelyInv
<1>2. /\ u \in Seq(Answers) /\ n \in Nat /\ Len(unsent) \in Nat /\ Len(u) = n + Len(unsent)
      /\ DOMAIN flight = 1 .. n /\ \A i \in 1 .. n : u[i] = flight[i]
  BY <1>1, ConcatAt
<1>3. CASE rest = flight
  <2>1. 0 \in 0 .. Len(u) /\ 0 + 1 = 1 /\ \A i : i \notin 1 .. 0
    BY <1>2
  <2>2. Register!Heard(0)
    BY <2>1, Zenon DEF Register!Heard
  <2>3. SubSeq(u, 1, Len(u)) = u
    BY <1>2, SubSeqFull, Zenon
  <2>4. Register!After(0) = rest \o unsent
    BY <1>3, <2>1, <2>3, Zenon DEF Register!After
  <2> QED BY <2>1, <2>2, <2>4, Zenon
<1>4. CASE rest = << >> /\ net = "heard"
  <2>1. n \in 0 .. Len(u)
    BY <1>2
  <2>2. IdsOf(flight) \cap outstanding = {}
    BY <1>1, <1>4, Zenon DEF AckInv
  <2>3. \A i \in 1 .. n : u[i].id \notin outstanding
    <3>1. \A i \in 1 .. n : flight[i].id \in IdsOf(flight)
      BY <1>2, Zenon DEF IdsOf
    <3> QED BY <1>2, <2>2, <3>1, Zenon
  <2>4. Register!Heard(n)
    BY <2>3, Zenon DEF Register!Heard
  <2>5. SubSeq(u, n + 1, Len(u)) = unsent
    BY <1>1, RestOfConcat, Zenon
  <2>6. << >> \o unsent = unsent
    BY <1>1, ConcatEmptySeq, Zenon
  <2>7. Register!After(n) = rest \o unsent
    BY <1>4, <2>5, <2>6, Zenon DEF Register!After
  <2> QED BY <2>1, <2>4, <2>7, Zenon
<1> QED BY <1>3, <1>4

\* Output moves answers, in their order.
LEMMA OutputJoined ==
  ASSUME NEW queue \in Seq(Answers), NEW rest \in Seq(Answers), NEW push \in BOOLEAN,
         Output(queue, rest, push), net \in {"wire", "lost", "heard"}
  PROVE  flight' \o unsent' = rest \o queue
<1>1. CASE unsent' = queue /\ flight' = rest
  BY <1>1, Zenon
<1>2. CASE unsent' = << >> /\ flight' = rest \o queue
  <2>1. rest \o queue \in Seq(Answers)
    BY ConcatProperties, Zenon
  <2>2. (rest \o queue) \o << >> = rest \o queue
    BY <2>1, ConcatEmptySeq, Zenon
  <2> QED BY <1>2, <2>2, Zenon
<1> QED BY <1>1, <1>2, OutputForm, Zenon

\* A step that only moves or forgets answers is a step of the register or none.
LEMMA DiscardImplements ==
  ASSUME ServerIInv, NEW rest \in Seq(Answers),
         rest = flight \/ (rest = << >> /\ net = "heard"),
         Output(unsent, rest, FALSE),
         PlainOf(requests)' = PlainOf(requests),
         UNCHANGED <<outstanding, view, register, rebooting, at>>
  PROVE  Register!Discard
<1>1. unsent \in Seq(Answers) /\ net \in {"wire", "lost", "heard"} /\ FALSE \in BOOLEAN
  BY Typed DEF ServerTypeOK
<1>2. (flight \o unsent)' = rest \o unsent
  BY <1>1, OutputJoined, Zenon
<1>3. PICK k \in 0 .. Len(flight \o unsent) :
        Register!Heard(k) /\ Register!After(k) = rest \o unsent
  BY Forgotten, Zenon
<1>4. (rebooting \/ at = "dying")' = (rebooting \/ at = "dying")
  BY Zenon
<1> QED BY <1>2, <1>3, <1>4, Zenon DEF Register!Discard

LEMMA AskImplements ==
  ASSUME ServerIInv, NEW op \in Ops, NEW v \in Values \cup {None},
         op = "write" => v \in Values, op # "write" => v = None, Ask(op, v)
  PROVE  Register!Request
<1> DEFINE x == CHOOSE i \in FreeIds : TRUE
           e == [id |-> x, op |-> op, value |-> v, held |-> FALSE,
                 acks |-> flight # <<>> /\ net = "heard"]
<1>1. /\ requests \in Seq(Requests) /\ flight \in Seq(Answers) /\ unsent \in Seq(Answers)
  BY Typed, Zenon DEF ServerTypeOK
<1>2. /\ FreeIds # {} /\ requests' = Append(requests, e)
      /\ outstanding' = outstanding \cup {x}
      /\ UNCHANGED <<view, flight, unsent, register, rebooting, at>>
  BY Zenon DEF Ask, txVars
<1>3. x \in FreeIds
  BY <1>2, Zenon
<1> HIDE DEF x
<1>4. /\ x \in Ids /\ x \notin outstanding /\ x \notin IdsOf(requests)
      /\ x \notin IdsOf(unsent) /\ x \notin IdsOf(flight)
  BY <1>3 DEF FreeIds
<1>5. x \in Ids \ Register!Used
  <2>1. /\ DOMAIN PlainOf(requests) = DOMAIN requests
        /\ \A i \in DOMAIN requests : PlainOf(requests)[i].id = requests[i].id
    <3>1. \A i \in DOMAIN requests : PlainOf(requests)[i] = Plain(requests[i])
      BY <1>1, PlainFacts, Zenon
    <3>2. \A r : Plain(r).id = r.id
      BY DEF Plain
    <3> QED BY <1>1, <3>1, <3>2, PlainFacts, Zenon
  <2>2. x \notin {PlainOf(requests)[i].id : i \in DOMAIN PlainOf(requests)}
    BY <1>4, <2>1, Zenon DEF IdsOf
  <2>3. x \notin IdsOf(flight \o unsent)
    BY <1>1, <1>4, IdsOfConcat
  <2> QED BY <1>4, <2>2, <2>3, Zenon DEF Register!Used, IdsOf
<1>6. e \in Requests /\ Plain(e) = [id |-> x, op |-> op, value |-> v]
  BY <1>4 DEF Requests, Plain
<1>7. PlainOf(requests)' = Append(PlainOf(requests), [id |-> x, op |-> op, value |-> v])
  <2>1. PlainOf(requests)' = PlainOf(requests')
    BY DEF PlainOf, Plain
  <2>2. PlainOf(Append(requests, e)) = Append(PlainOf(requests), Plain(e))
    BY <1>1, <1>6, PlainAppend, Zenon
  <2> QED BY <1>2, <1>6, <2>1, <2>2, Zenon
<1> HIDE DEF e
<1>8. Register!AskFor(x, op, v)
  BY <1>2, <1>7, Zenon DEF Register!AskFor
<1>9. \/ op \in {"read", "reboot", "deaf"} /\ v = None
      \/ op = "write" /\ v \in Values
  BY DEF Ops
<1> QED BY <1>5, <1>8, <1>9, Zenon DEF Register!Request

LEMMA HearImplements ==
  ASSUME ServerIInv, Hear
  PROVE  Register!HearAnswers
<1> DEFINE u == flight \o unsent
           n == Len(flight)
<1>1. flight \in Seq(Answers) /\ unsent \in Seq(Answers)
  BY Typed, Zenon DEF ServerTypeOK
<1>2. /\ n \in Nat /\ Len(unsent) \in Nat /\ Len(u) = n + Len(unsent)
      /\ DOMAIN flight = 1 .. n /\ \A i \in 1 .. n : u[i] = flight[i]
  BY <1>1, ConcatAt
<1>3. /\ flight # << >> /\ outstanding' = outstanding \ IdsOf(flight)
      /\ \/ Told(flight, outstanding) = {} /\ view' = view
         \/ \E v \in Values : LastTold(flight, outstanding, v) /\ view' = v
      /\ UNCHANGED <<requests, unsent, flight, register, rebooting, at>>
  BY Zenon DEF Hear, rxVars
<1>4. n \in 1 .. Len(u)
  <2>1. n # 0
    BY <1>1, <1>3, EmptySeq
  <2> QED BY <1>2, <2>1
<1>5. Register!Telling(n) = Told(flight, outstanding)
  BY <1>2, Zenon DEF Register!Telling, Told
<1>6. {u[i].id : i \in 1 .. n} = IdsOf(flight)
  BY <1>2, Zenon DEF IdsOf
<1>7. \/ Register!Telling(n) = {} /\ view' = view
      \/ \E i \in Register!Telling(n) :
           (\A j \in Register!Telling(n) : j <= i) /\ view' = u[i].value
  <2>1. CASE Told(flight, outstanding) = {} /\ view' = view
    BY <1>5, <2>1, Zenon
  <2>2. ASSUME NEW v \in Values, LastTold(flight, outstanding, v), view' = v
        PROVE  \E i \in Register!Telling(n) :
                 (\A j \in Register!Telling(n) : j <= i) /\ view' = u[i].value
    <3>1. PICK i \in Told(flight, outstanding) :
            flight[i].value = v /\ \A j \in Told(flight, outstanding) : j <= i
      BY <2>2, Zenon DEF LastTold
    <3>2. u[i] = flight[i]
      BY <1>2, <3>1, Zenon DEF Told
    <3> QED BY <1>5, <2>2, <3>1, <3>2, Zenon
  <2> QED BY <1>3, <2>1, <2>2, Zenon
<1>8. /\ PlainOf(requests)' = PlainOf(requests) /\ (flight \o unsent)' = flight \o unsent
      /\ (rebooting \/ at = "dying")' = (rebooting \/ at = "dying")
  BY <1>3, Zenon DEF PlainOf, Plain
<1>9. Register!HearFirst(n)
  BY <1>3, <1>6, <1>7, <1>8, Zenon DEF Register!HearFirst
<1> QED BY <1>4, <1>9, Zenon DEF Register!HearAnswers

LEMMA AppendToConcat ==
  ASSUME NEW s \in Seq(Answers), NEW t \in Seq(Answers), NEW e \in Answers
  PROVE  s \o Append(t, e) = Append(s \o t, e)
<1> DEFINE one == <<e>>
<1>1. Append(t, e) = t \o one
  BY AppendIsConcat
<1>2. s \o t \in Seq(Answers)
  BY ConcatProperties, Zenon
<1>3. Append(s \o t, e) = (s \o t) \o one
  BY <1>2, AppendIsConcat
<1>4. one \in Seq(Answers)
  OBVIOUS
<1> HIDE DEF one
<1>5. (s \o t) \o one = s \o (t \o one)
  BY <1>4, ConcatAssociative
<1> QED BY <1>1, <1>3, <1>5, Zenon

\* The flight without what the first n requests acknowledge.
LEMMA UnackedPrefix ==
  ASSUME ServerIInv, NEW n \in 1 .. Len(requests)
  PROVE  /\ StillUnacked(SubSeq(requests, 1, n)) \in Seq(Answers)
         /\ \/ StillUnacked(SubSeq(requests, 1, n)) = flight
            \/ StillUnacked(SubSeq(requests, 1, n)) = << >> /\ net = "heard"
<1> DEFINE c == SubSeq(requests, 1, n)
<1>1. /\ ServerTypeOK /\ AckInv /\ DOMAIN requests = 1 .. Len(requests)
      /\ Len(requests) \in Nat /\ \A k \in DOMAIN requests : requests[k] \in Requests
  BY Typed DEF RelyInv
<1>2. \A k \in 1 .. n : k \in DOMAIN requests /\ requests[k] \in Requests
  BY <1>1
<1>3. /\ c \in Seq(Requests) /\ Len(c) = n
      /\ \A k \in 1 .. n - 1 + 1 : c[k] = requests[1 + k - 1]
  BY <1>1, <1>2, SubSeqProperties
<1> HIDE DEF c
<1>4. DOMAIN c = 1 .. n
  BY <1>3, LenProperties
<1>5. \A k \in 1 .. n : c[k] = requests[k]
  BY <1>1, <1>3
<1>6. (\E k \in DOMAIN c : c[k].acks) => net = "heard"
  BY <1>1, <1>2, <1>4, <1>5, Zenon DEF AckInv
<1> QED BY <1>1, <1>6, UnackedFacts, Zenon DEF c

\* The callback takes the first request of a chain and loses those behind it.
LEMMA ServeImplements ==
  ASSUME ServerIInv, NEW n \in DOMAIN requests, NEW e \in n .. Len(requests), InOrder(n, e)
  PROVE  Register!Serve
<1> DEFINE s == SubSeq(requests, e + 1, Len(requests))
           r == requests[1]
           rest == StillUnacked(SubSeq(requests, 1, n))
           answered == r.op # "deaf"
           written == answered /\ Fits(rest)
           answer == [id |-> r.id, value |-> Said(r)]
           queue == IF written THEN Append(unsent, answer) ELSE unsent
           push == answered /\ ~written
           p == PlainOf(requests)
           u == flight \o unsent
<1>1. /\ requests \in Seq(Requests) /\ flight \in Seq(Answers) /\ unsent \in Seq(Answers)
      /\ net \in {"wire", "lost", "heard"} /\ register \in Values /\ WriteInv
      /\ Len(requests) \in Nat /\ DOMAIN requests = 1 .. Len(requests)
  BY Typed DEF ServerTypeOK, RelyInv
<1>2. /\ e \in 1 .. Len(requests) /\ n \in 1 .. Len(requests)
      /\ 1 \in 1 .. Len(requests) /\ e \in DOMAIN requests
  BY <1>1
<1>3. Head(SubSeq(requests, 1, e)) = r
  BY <1>1, <1>2, HeadOfChain, Zenon
<1>4. /\ register' = IF r.op = "write" THEN r.value ELSE register
      /\ rebooting' = (rebooting \/ r.op = "reboot")
      /\ Output(queue, rest, push) /\ requests' = Forward(s)
      /\ UNCHANGED <<outstanding, view, at>>
  BY <1>3, Zenon DEF InOrder, modbus_recv_cb, AnswerTo, clientVars
\* The requests.
<1>5. r \in Requests /\ p[1] = Plain(r) /\ DOMAIN p = DOMAIN requests
  BY <1>1, <1>2, PlainFacts, ElementOfSeq, Zenon
<1>6. Plain(r).id = r.id /\ Plain(r).op = r.op /\ Plain(r).value = r.value
  BY DEF Plain
<1>7. PlainOf(requests)' = SubSeq(p, e + 1, Len(p))
  <2>1. s \in Seq(Requests) /\ PlainOf(s) = SubSeq(p, e + 1, Len(p))
    BY <1>1, <1>2, PlainRest, Zenon
  <2> HIDE DEF s
  <2>2. /\ Forward(s) \in Seq(Requests) /\ DOMAIN Forward(s) = DOMAIN s
        /\ \A i \in DOMAIN s :
             /\ Forward(s)[i].id = s[i].id /\ Forward(s)[i].op = s[i].op
             /\ Forward(s)[i].value = s[i].value
    BY <2>1, ForwardFacts, Zenon
  <2>3. PlainOf(Forward(s)) = PlainOf(s)
    BY <2>1, <2>2, SamePlain, Zenon
  <2>4. PlainOf(requests)' = PlainOf(requests')
    BY DEF PlainOf, Plain
  <2> QED BY <1>4, <2>1, <2>3, <2>4, Zenon
\* The answers.
<1>8. rest \in Seq(Answers) /\ (rest = flight \/ (rest = << >> /\ net = "heard"))
  BY <1>2, UnackedPrefix, Zenon
<1>9. PICK k \in 0 .. Len(u) : Register!Heard(k) /\ Register!After(k) = rest \o unsent
  BY <1>8, Forgotten, Zenon
<1>10. answer \in Answers /\ answer = Register!Reply(p[1])
  <2>1. Said(r) \in Values \cup {None}
    <3>1. r.op = "write" => r.value \in Values
      BY <1>1, <1>2, Zenon DEF WriteInv
    <3> QED BY <1>1, <3>1 DEF Said
  <2>2. answer \in Answers
    BY <1>5, <2>1 DEF Answers, Requests
  <2>3. Register!Reply(p[1]) = [id |-> r.id, value |-> Said(r)]
    BY <1>5, <1>6 DEF Register!Reply, Said
  <2> QED BY <2>2, <2>3, Zenon
<1>11. queue \in Seq(Answers) /\ push \in BOOLEAN
  BY <1>1, <1>10, AppendProperties, Zenon
<1>12. (flight \o unsent)' = rest \o queue
  BY <1>1, <1>4, <1>8, <1>11, OutputJoined, Zenon
<1> HIDE DEF rest, answer, r
<1>13. \/ (flight \o unsent)' = Register!After(k)
       \/ answered /\ (flight \o unsent)' = Append(Register!After(k), Register!Reply(p[1]))
  <2>1. CASE ~written
    BY <1>9, <1>12, <2>1, Zenon
  <2>2. CASE written
    <3>1. rest \o Append(unsent, answer) = Append(rest \o unsent, answer)
      BY <1>1, <1>8, <1>10, AppendToConcat, Zenon
    <3> QED BY <1>9, <1>10, <1>12, <2>2, <3>1, Zenon
  <2> QED BY <2>1, <2>2, Zenon
<1>14. (rebooting \/ at = "dying")' = ((rebooting \/ at = "dying") \/ r.op = "reboot")
  BY <1>4, Zenon
<1> HIDE DEF p, u
<1>15. Register!CarryOut(e, k)
  BY <1>4, <1>5, <1>6, <1>7, <1>13, <1>14, Zenon DEF Register!CarryOut, p, u
<1> QED BY <1>2, <1>5, <1>9, <1>15, Zenon DEF Register!Serve, p, u

\* The segment that overtakes and the one that only acknowledges.
LEMMA OvertakeImplements ==
  ASSUME ServerIInv, NEW i \in DOMAIN requests, OutOfOrder(i)
  PROVE  Register!Discard
<1> DEFINE s == [requests EXCEPT ![i].held = TRUE]
           c == <<requests[i]>>
           rest == StillUnacked(c)
<1>1. /\ ServerTypeOK /\ AckInv /\ requests \in Seq(Requests)
      /\ Len(requests) \in Nat /\ DOMAIN requests = 1 .. Len(requests)
      /\ \A k \in DOMAIN requests : requests[k] \in Requests
  BY Typed DEF RelyInv, ServerTypeOK
<1>2. /\ Output(unsent, rest, FALSE) /\ requests' = Forward(s)
      /\ UNCHANGED <<outstanding, view, register, rebooting, at>>
  BY Zenon DEF OutOfOrder, clientVars
<1>3. /\ s \in Seq(Requests) /\ DOMAIN s = DOMAIN requests
      /\ \A k \in DOMAIN requests :
           s[k].id = requests[k].id /\ s[k].op = requests[k].op /\ s[k].value = requests[k].value
  <2>1. [requests[i] EXCEPT !.held = TRUE] \in Requests
    BY <1>1 DEF Requests
  <2>2. /\ DOMAIN s = DOMAIN requests
        /\ \A k \in DOMAIN requests :
             s[k] = IF k = i THEN [requests[i] EXCEPT !.held = TRUE] ELSE requests[k]
    BY <1>1
  <2>3. s \in [1 .. Len(requests) -> Requests]
    BY <1>1, <2>1
  <2>4. s \in Seq(Requests)
    BY <1>1, <2>3, SeqDef
  <2> HIDE DEF s
  <2>5. \A k \in DOMAIN requests :
          s[k].id = requests[k].id /\ s[k].op = requests[k].op /\ s[k].value = requests[k].value
    BY <1>1, <2>2 DEF Requests
  <2> QED BY <2>2, <2>4, <2>5
<1>4. rest \in Seq(Answers) /\ (rest = flight \/ (rest = << >> /\ net = "heard"))
  <2>1. \A k \in DOMAIN c : c[k] = requests[i]
    OBVIOUS
  <2> HIDE DEF c
  <2>2. (\E k \in DOMAIN c : c[k].acks) => net = "heard"
    BY <1>1, <2>1, Zenon DEF AckInv
  <2> QED BY <1>1, <2>2, UnackedFacts, Zenon
<1> HIDE DEF s, rest
<1>5. PlainOf(requests)' = PlainOf(requests)
  <2>1. /\ Forward(s) \in Seq(Requests) /\ DOMAIN Forward(s) = DOMAIN requests
        /\ \A k \in DOMAIN requests :
             /\ Forward(s)[k].id = requests[k].id /\ Forward(s)[k].op = requests[k].op
             /\ Forward(s)[k].value = requests[k].value
    <3>1. /\ Forward(s) \in Seq(Requests) /\ DOMAIN Forward(s) = DOMAIN s
          /\ \A k \in DOMAIN s :
               /\ Forward(s)[k].id = s[k].id /\ Forward(s)[k].op = s[k].op
               /\ Forward(s)[k].value = s[k].value
      BY <1>3, ForwardFacts, Zenon
    <3>2. DOMAIN s = DOMAIN requests
      BY <1>3, Zenon
    <3> QED BY <1>3, <3>1, <3>2, Zenon
  <2>2. PlainOf(Forward(s)) = PlainOf(requests)
    BY <1>1, <2>1, SamePlain, Zenon
  <2>3. PlainOf(requests)' = PlainOf(requests')
    BY DEF PlainOf, Plain
  <2> QED BY <1>2, <2>2, <2>3, Zenon
<1> QED BY <1>2, <1>4, <1>5, DiscardImplements, Zenon

LEMMA AckImplements ==
  ASSUME ServerIInv, Ack
  PROVE  Register!Discard
<1>1. requests \in Seq(Requests) /\ << >> \in Seq(Answers)
  BY Typed, EmptySeq DEF ServerTypeOK
<1>2. /\ net = "heard" /\ Output(unsent, << >>, FALSE) /\ requests' = Forward(requests)
      /\ UNCHANGED <<outstanding, view, register, rebooting, at>>
  BY Zenon DEF Ack, clientVars
<1>3. PlainOf(requests)' = PlainOf(requests)
  <2>1. /\ Forward(requests) \in Seq(Requests)
        /\ DOMAIN Forward(requests) = DOMAIN requests
        /\ \A k \in DOMAIN requests :
             /\ Forward(requests)[k].id = requests[k].id
             /\ Forward(requests)[k].op = requests[k].op
             /\ Forward(requests)[k].value = requests[k].value
    BY <1>1, ForwardFacts, Zenon
  <2>2. PlainOf(Forward(requests)) = PlainOf(requests)
    BY <1>1, <2>1, SamePlain, Zenon
  <2>3. PlainOf(requests)' = PlainOf(requests')
    BY DEF PlainOf, Plain
  <2> QED BY <1>2, <2>2, <2>3, Zenon
<1> QED BY <1>1, <1>2, <1>3, DiscardImplements, Zenon

\* The timer that drops what is kept out of order changes no request.
LEMMA OoseqImplements ==
  ASSUME ServerIInv, OoseqTimeout
  PROVE  UNCHANGED Register!registerVars
<1> DEFINE t == [i \in DOMAIN requests |-> [requests[i] EXCEPT !.held = FALSE]]
<1>1. /\ requests \in Seq(Requests)
      /\ Len(requests) \in Nat /\ DOMAIN requests = 1 .. Len(requests)
      /\ \A k \in DOMAIN requests : requests[k] \in Requests
  BY Typed DEF ServerTypeOK
<1>2. requests' = t /\ UNCHANGED <<outstanding, view, flight, unsent, register, rebooting, at>>
  BY Zenon DEF OoseqTimeout, clientVars, txVars
<1>3. /\ DOMAIN t = DOMAIN requests
      /\ \A k \in DOMAIN requests :
           /\ t[k] \in Requests
           /\ t[k].id = requests[k].id /\ t[k].op = requests[k].op /\ t[k].value = requests[k].value
  BY <1>1 DEF Requests
<1>4. t \in Seq(Requests)
  <2>1. t \in [1 .. Len(requests) -> Requests]
    BY <1>1, <1>3
  <2> QED BY <1>1, <2>1, SeqDef
<1> HIDE DEF t
<1>5. PlainOf(t) = PlainOf(requests)
  BY <1>1, <1>3, <1>4, SamePlain, Zenon
<1>6. PlainOf(requests)' = PlainOf(requests')
  BY DEF PlainOf, Plain
<1> QED BY <1>2, <1>5, <1>6, Zenon DEF Register!registerVars

LEMMA GoneImplements ==
  ASSUME Disconnected
  PROVE  Register!Gone
<1>1. /\ outstanding' = {} /\ view' = None
      /\ requests' = << >> /\ flight' = << >> /\ unsent' = << >>
  BY Zenon DEF Disconnected
<1>2. PlainOf(requests)' = << >>
  <2>1. PlainOf(requests)' = PlainOf(requests')
    BY DEF PlainOf, Plain
  <2> QED BY <1>1, <2>1, PlainEmpty, Zenon
<1>3. (flight \o unsent)' = << >>
  <2>1. << >> \o << >> = << >>
    BY EmptySeq, ConcatEmptySeq
  <2> QED BY <1>1, <2>1, Zenon
<1> QED BY <1>1, <1>2, <1>3, Zenon DEF Register!Gone

\* The flag is down during the delay, where nothing sets it.
Lowered == at = "dying" => ~rebooting

LEMMA NextLowered ==
  ASSUME Lowered, [ServerNext]_serverVars
  PROVE  Lowered'
<1>1. CASE Arbitrate \/ Reset
  BY <1>1 DEF Arbitrate, Reset, Lowered
<1>2. CASE UNCHANGED <<rebooting, at>>
  BY <1>2, Zenon DEF Lowered
<1>3. ASSUME NEW n, NEW e, InOrder(n, e) PROVE Lowered'
  BY <1>3 DEF InOrder, Receives, Lowered
<1>4. CASE \/ \E op \in Ops \ {"write"} : Ask(op, None)
           \/ \E v \in Values : Ask("write", v)
           \/ \E i \in DOMAIN requests : OutOfOrder(i)
           \/ Hear \/ GiveUp \/ Poll \/ OoseqTimeout \/ Ack \/ Lose \/ Retransmit \/ Break
           \/ UNCHANGED serverVars
  <2>1. UNCHANGED <<rebooting, at>>
    BY <1>4, Zenon DEF Ask, OutOfOrder, Hear, GiveUp, Poll, OoseqTimeout, Ack, Lose,
                       Retransmit, Break, serverVars
  <2> QED BY <1>2, <2>1, Zenon
<1> QED BY <1>1, <1>3, <1>4, Zenon DEF ServerNext, Arrive

LEMMA NextImplements ==
  ASSUME ServerIInv, Lowered, [ServerNext]_serverVars
  PROVE  Register!RegisterNext \/ UNCHANGED Register!registerVars
<1>1. ASSUME NEW op \in Ops \ {"write"}, Ask(op, None) PROVE Register!Request
  <2>1. op \in Ops /\ op # "write" /\ None \in Values \cup {None}
    BY Zenon
  <2> QED BY <1>1, <2>1, AskImplements, Zenon
<1>2. ASSUME NEW v \in Values, Ask("write", v) PROVE Register!Request
  <2>1. "write" \in Ops /\ v \in Values \cup {None}
    BY DEF Ops
  <2> QED BY <1>2, <2>1, AskImplements, Zenon
<1>3. CASE Hear
  BY <1>3, HearImplements, Zenon DEF Register!RegisterNext
<1>4. CASE \/ (\E i \in DOMAIN requests : OutOfOrder(i)) \/ Ack
  BY <1>4, OvertakeImplements, AckImplements, Zenon DEF Register!RegisterNext
<1>5. CASE Arrive
  BY <1>5, ServeImplements, Zenon DEF Arrive, Register!RegisterNext
<1>6. CASE GiveUp
  <2>1. /\ outstanding' = {} /\ view' = None
        /\ UNCHANGED <<requests, flight, unsent, register, rebooting, at>>
    BY <1>6, Zenon DEF GiveUp, rxVars, txVars
  <2>2. Register!Forget
    BY <2>1, Zenon DEF Register!Forget, PlainOf, Plain
  <2> QED BY <2>2, Zenon DEF Register!RegisterNext
<1>7. CASE Break
  <2>1. Register!Gone /\ UNCHANGED <<register, rebooting, at>>
    BY <1>7, GoneImplements, Zenon DEF Break
  <2>2. Register!Disconnect
    BY <2>1, Zenon DEF Register!Disconnect
  <2> QED BY <2>2, Zenon DEF Register!RegisterNext
<1>8. CASE Reset
  <2>1. /\ at = "dying" /\ at' = "lwip" /\ register' = Saved /\ rebooting' = rebooting
        /\ Register!Gone
    BY <1>8, GoneImplements, Zenon DEF Reset
  <2>2. (rebooting \/ at = "dying") /\ (rebooting \/ at = "dying")' = FALSE
    BY <2>1 DEF Lowered
  <2>3. Register!Restart
    BY <2>1, <2>2, Zenon DEF Register!Restart
  <2> QED BY <2>3, Zenon DEF Register!RegisterNext
<1>9. CASE OoseqTimeout
  BY <1>9, OoseqImplements, Zenon
<1>10. CASE Poll \/ Lose \/ Retransmit \/ Arbitrate \/ UNCHANGED serverVars
  <2>1. UNCHANGED <<outstanding, view, requests, flight, unsent, register>>
    BY <1>10, Zenon DEF Poll, Lose, Retransmit, Arbitrate, serverVars, clientVars, rxVars, txVars
  <2>2. (rebooting \/ at = "dying")' = (rebooting \/ at = "dying")
    <3>1. CASE Arbitrate
      BY <3>1 DEF Arbitrate
    <3>2. CASE Poll \/ Lose \/ Retransmit \/ UNCHANGED serverVars
      <4>1. rebooting' = rebooting /\ at' = at
        BY <3>2, Zenon DEF Poll, Lose, Retransmit, serverVars
      <4> QED BY <4>1, Zenon
    <3> QED BY <1>10, <3>1, <3>2
  <2> QED BY <2>1, <2>2, Zenon DEF Register!registerVars, PlainOf, Plain
<1> QED BY <1>1, <1>2, <1>3, <1>4, <1>5, <1>6, <1>7, <1>8, <1>9, <1>10, Zenon
        DEF ServerNext, Register!RegisterNext

\* Whatever overtakes, is lost, chained, skipped or sent again on the way, the
\* register is written by the requests of its client in their order and each at
\* most once, and what the client hears of it was so when its request was carried
\* out (modbus_recv_cb, app_modbus.c:103-252).
THEOREM RegisterRefined == ServerSpec => ImplementsRegister
<1>1. ServerInit => Register!RegisterInit /\ Lowered
  <2> SUFFICES ASSUME ServerInit PROVE Register!RegisterInit /\ Lowered
    OBVIOUS
  <2>1. /\ outstanding = {} /\ view = None /\ requests = << >> /\ flight = << >>
        /\ unsent = << >> /\ register = Saved /\ rebooting = FALSE /\ at = "lwip"
    BY Zenon DEF ServerInit
  <2>2. << >> \o << >> = << >>
    BY EmptySeq, ConcatEmptySeq
  <2>3. (rebooting \/ at = "dying") = FALSE
    BY <2>1
  <2>4. Register!RegisterInit
    BY <2>1, <2>2, <2>3, PlainEmpty, Zenon DEF Register!RegisterInit
  <2> QED BY <2>1, <2>4 DEF Lowered
<1>2. Lowered /\ [ServerNext]_serverVars => Lowered'
  BY NextLowered
<1>3. ServerIInv /\ Lowered /\ [ServerNext]_serverVars
        => [Register!RegisterNext]_(Register!registerVars)
  BY NextImplements
<1> QED BY <1>1, <1>2, <1>3, ServerInvariant, PTL
        DEF ServerSpec, ImplementsRegister, Register!RegisterSpec
=============================================================================
