---------------------------- MODULE MotorProofs ----------------------------
(***************************************************************************)
(* The drive, for every value of the constants.  MotorIInv is inductive;   *)
(* each property of MotorProperties proved here follows from it.  No proof *)
(* needs the fairness of MotorSpec, so that the theorems are about         *)
(* MotorSafety and hold of the drive inside the firmware (MainLoopProofs). *)
(***************************************************************************)
EXTENDS MotorProperties, TLAPS

-----------------------------------------------------------------------------
(* Arithmetic. *)

\* Division of naturals, as HAL_Motor_SetFrequency's argument is converted.
LEMMA DivNat ==
  ASSUME NEW a \in Nat, NEW d \in Nat \ {0}
  PROVE  /\ a \div d \in Nat
         /\ a >= d => a \div d >= 1
BY SMT

LEMMA DivMono ==
  ASSUME NEW a \in Nat, NEW b \in Nat, NEW d \in Nat \ {0}, a <= b
  PROVE  a \div d <= b \div d
BY SMT

\* What fits d times into b fits into its quotient.
LEMMA DivLargest ==
  ASSUME NEW a \in Nat, NEW b \in Nat, NEW d \in Nat \ {0}, d * a <= b
  PROVE  a <= b \div d
BY SMT

\* A product of positive numbers is positive, and products are monotonic.
LEMMA MulPos ==
  ASSUME NEW a \in Nat \ {0}, NEW b \in Nat \ {0}
  PROVE  a * b \in Nat \ {0}
BY SMT

LEMMA MulMono ==
  ASSUME NEW a \in Nat, NEW b \in Nat, NEW c \in Nat, a <= b
  PROVE  a * c <= b * c /\ c * a <= c * b
BY SMT

LEMMA MulStrict ==
  ASSUME NEW a \in Int, NEW b \in Int, NEW c \in Nat \ {0}
  PROVE  c * a \in Int /\ c * b \in Int /\ (c * a <= c * b <=> a <= b)
BY SMT

\* One more tick is one more step.
LEMMA MulStep ==
  ASSUME NEW k \in Nat, NEW s \in Int
  PROVE  /\ k * s \in Int /\ (k + 1) * s \in Int
         /\ (k + 1) * s = k * s + s
BY SMT

LEMMA AbsNat ==
  ASSUME NEW x \in Int
  PROVE  /\ Abs(x) \in Nat /\ Abs(-x) = Abs(x)
         /\ x >= 0 => Abs(x) = x
BY SMT DEF Abs

\* Errors add up, also those multiplied by p.
LEMMA Chain ==
  ASSUME NEW p \in Nat, NEW a \in Int, NEW b \in Int, NEW c \in Int,
         NEW u \in Int, NEW v \in Int, p * Abs(a - b) <= u, p * Abs(b - c) <= v
  PROVE  p * Abs(a - c) <= u + v
<1>1. /\ Abs(a - b) \in Nat /\ Abs(b - c) \in Nat /\ Abs(a - c) \in Nat
      /\ Abs(a - c) <= Abs(a - b) + Abs(b - c)
  BY SMT DEF Abs
<1> DEFINE x == Abs(a - b)  y == Abs(b - c)  z == Abs(a - c)
<1>2. x \in Nat /\ y \in Nat /\ z \in Nat /\ z <= x + y /\ p * x <= u /\ p * y <= v
  BY <1>1
<1> HIDE DEF x, y, z
<1>3. p * z <= p * (x + y)
  <2>1. x + y \in Nat
    BY <1>2
  <2> QED BY <1>2, <2>1, MulMono
<1>4. p * (x + y) = p * x + p * y /\ p * x \in Nat /\ p * y \in Nat /\ p * z \in Nat
  BY <1>2, SMT
<1>5. p * z <= u + v
  BY <1>2, <1>3, <1>4
<1> QED BY <1>5 DEF z

-----------------------------------------------------------------------------
(* Rounding to the nearest float. *)

LEMMA FloatIsInt ==
  /\ Floats \subseteq Int /\ 0 \in Floats /\ Grain \in Floats
  /\ Grain \in Nat \ {0} /\ Precision \in Nat \ {0}
  /\ \A f \in Floats : -f \in Floats
  /\ TicksCounted \in Nat /\ TicksCounted > 1
BY FloatAssumption

\* A rounded value is a float, and none is nearer.
LEMMA RoundedIsNearest ==
  ASSUME NEW n \in Int, NEW d \in Nat \ {0}, NEW f \in Rounded(n, d), NEW g \in Floats
  PROVE  /\ f \in Floats /\ f \in Int /\ g \in Int
         /\ Abs(d * f - n) <= Abs(d * g - n)
<1>1. f \in Exact(n, d) \/ f \in Nearest(n, d)
  BY Zenon DEF Rounded
<1>2. CASE f \in Exact(n, d)
  <2>1. f \in Floats /\ f \in Int /\ g \in Int /\ d * f = n
    BY <1>2, FloatIsInt DEF Exact
  <2>2. d * g \in Int
    BY <2>1
  <2>3. Abs(d * f - n) = 0 /\ Abs(d * g - n) >= 0
    BY <2>1, <2>2 DEF Abs
  <2> QED BY <2>1, <2>3
<1>3. CASE f \in Nearest(n, d)
  BY <1>3, FloatIsInt DEF Nearest
<1> QED BY <1>1, <1>2, <1>3

\* Rounding does not cross a float.
LEMMA RoundsUp ==
  ASSUME NEW n \in Int, NEW d \in Nat \ {0}, NEW f \in Rounded(n, d), NEW g \in Floats,
         d * g <= n
  PROVE  g <= f
<1>1. f \in Int /\ g \in Int /\ Abs(d * f - n) <= Abs(d * g - n)
  BY RoundedIsNearest
<1>2. d * f \in Int /\ d * g \in Int /\ (d * g <= d * f <=> g <= f)
  BY <1>1, MulStrict
<1>3. d * g <= d * f
  BY <1>1, <1>2, SMT DEF Abs
<1> QED BY <1>2, <1>3

LEMMA RoundsDown ==
  ASSUME NEW n \in Int, NEW d \in Nat \ {0}, NEW f \in Rounded(n, d), NEW g \in Floats,
         n <= d * g
  PROVE  f <= g
<1>1. f \in Int /\ g \in Int /\ Abs(d * f - n) <= Abs(d * g - n)
  BY RoundedIsNearest
<1>2. d * f \in Int /\ d * g \in Int /\ (d * f <= d * g <=> f <= g)
  BY <1>1, MulStrict
<1>3. d * f <= d * g
  BY <1>1, <1>2, SMT DEF Abs
<1> QED BY <1>2, <1>3

\* Rounding keeps the order of different numbers.
LEMMA RoundedMono ==
  ASSUME NEW d \in Nat \ {0}, NEW n1 \in Int, NEW n2 \in Int, n1 < n2,
         NEW f1 \in Rounded(n1, d), NEW f2 \in Rounded(n2, d)
  PROVE  f1 <= f2
<1>1. f1 \in Floats /\ f2 \in Floats /\ f1 \in Int /\ f2 \in Int
  BY RoundedIsNearest, FloatIsInt
<1>2. Abs(d * f1 - n1) <= Abs(d * f2 - n1) /\ Abs(d * f2 - n2) <= Abs(d * f1 - n2)
  BY <1>1, RoundedIsNearest
<1>3. d * f1 \in Int /\ d * f2 \in Int /\ (d * f1 <= d * f2 <=> f1 <= f2)
  BY <1>1, MulStrict
<1>4. d * f1 <= d * f2
  BY <1>2, <1>3, SMT DEF Abs
<1> QED BY <1>3, <1>4

\* A sum in the range of the floats is off by 1/Precision of itself at most.
LEMMA SumError ==
  ASSUME NEW g \in Floats, NEW x \in Nat, x <= g, NEW f \in Rounded(x, 1)
  PROVE  Precision * Abs(f - x) <= x
<1>1. PICK c \in Floats : Precision * Abs(c - x) <= x
  <2>1. x \in 0 .. g
    BY FloatIsInt
  <2> QED BY <2>1, FloatAssumption
<1>2. f \in Int /\ c \in Int /\ Abs(1 * f - x) <= Abs(1 * c - x)
  BY RoundedIsNearest
<1>3. /\ Abs(f - x) <= Abs(c - x)
      /\ Abs(f - x) \in Nat /\ Abs(c - x) \in Nat
  <2>1. 1 * f = f /\ 1 * c = c /\ f - x \in Int /\ c - x \in Int
    BY <1>2
  <2> QED BY <1>2, <2>1, AbsNat
<1>4. Precision * Abs(f - x) <= Precision * Abs(c - x)
  BY <1>3, FloatIsInt, MulMono
<1>5. Precision * Abs(f - x) \in Nat /\ Precision * Abs(c - x) \in Nat
  BY <1>3, FloatIsInt, SMT
<1> QED BY <1>1, <1>4, <1>5

\* A quotient is off by as much, and by one unit where floats are denormal.
LEMMA QuotientError ==
  ASSUME NEW n \in Nat, n \in Floats, NEW d \in Nat \ {0}, NEW f \in Rounded(n, d)
  PROVE  Precision * Abs(d * f - n) <= n + Precision * d
<1> DEFINE k == n \div d
<1>1. k \in Nat /\ k <= n /\ d * k <= n /\ n <= d * k + d
  BY SMT
<1> HIDE DEF k
<1>2. PICK c \in Floats : Precision * Abs(c - k) <= k
  <2>1. k \in 0 .. n
    BY <1>1
  <2> QED BY <2>1, FloatAssumption
<1>3. f \in Int /\ c \in Int /\ Abs(d * f - n) <= Abs(d * c - n)
  BY RoundedIsNearest
<1> DEFINE e == Abs(c - k)
<1>4. e \in Nat /\ Precision * e <= k /\ c - k <= e /\ k - c <= e
  BY <1>1, <1>2, <1>3, SMT DEF Abs
<1> HIDE DEF e
<1>5. Abs(d * c - n) <= d * e + d
  <2>1. d * c \in Int /\ d * k \in Int /\ d * e \in Nat
    BY <1>1, <1>3, <1>4, SMT
  <2>2. d * c <= d * (k + e) /\ d * (k - e) <= d * c
    <3>1. c <= k + e /\ k - e <= c /\ k + e \in Int /\ k - e \in Int
      BY <1>1, <1>3, <1>4
    <3> QED BY <1>3, <3>1, MulStrict
  <2>3. d * (k + e) = d * k + d * e /\ d * (k - e) = d * k - d * e
    BY <1>1, <1>4, SMT
  <2> QED BY <1>1, <2>1, <2>2, <2>3, SMT DEF Abs
<1>6. Precision * Abs(d * f - n) <= Precision * (d * e + d)
  <2>1. d * f \in Int /\ d * c \in Int /\ d * e + d \in Nat
    BY <1>3, <1>4, SMT
  <2>2. Abs(d * f - n) \in Nat /\ Abs(d * c - n) \in Nat
    BY <2>1, AbsNat
  <2>3. Abs(d * f - n) <= d * e + d
    BY <1>3, <1>5, <2>1, <2>2
  <2> QED BY <2>1, <2>2, <2>3, FloatIsInt, MulMono
<1>7. Precision * (d * e + d) <= n + Precision * d
  <2>1. Precision * (d * e + d) = d * (Precision * e) + Precision * d
    BY <1>4, FloatIsInt, SMT
  <2>2. d * (Precision * e) <= d * k
    <3>1. Precision * e \in Nat
      BY <1>4, FloatIsInt, SMT
    <3> QED BY <1>1, <1>4, <3>1, MulMono
  <2>3. d * (Precision * e) \in Int /\ d * k \in Int /\ Precision * d \in Int
    BY <1>1, <1>4, FloatIsInt, SMT
  <2> QED BY <1>1, <2>1, <2>2, <2>3
<1>8. /\ Precision * Abs(d * f - n) \in Int /\ Precision * (d * e + d) \in Int
      /\ n + Precision * d \in Int
  <2>1. d * f - n \in Int /\ d * e + d \in Int
    BY <1>3, <1>4, SMT
  <2>2. Abs(d * f - n) \in Int
    BY <2>1, AbsNat
  <2> QED BY <2>1, <2>2, FloatIsInt, SMT
<1> QED BY <1>6, <1>7, <1>8

-----------------------------------------------------------------------------
(* What CalculateProfile computes. *)

\* The start frequency is at least 1 Hz.
LEMMA StartsAtOneHz ==
  ASSUME NEW m \in Nat, m >= MinMicrosteps, NEW start \in FreqOf(MinStartRPM, m)
  PROVE  start \in Floats /\ start \in Int /\ Grain <= start
<1>1. UnitsPerHz \in Nat \ {0} /\ MinStartRPM \in Nat /\ MinMicrosteps \in Nat
  BY DriveAssumption
<1>2. UnitsPerHz <= MinStartRPM * m
  <2>1. MinStartRPM * MinMicrosteps <= MinStartRPM * m
    BY <1>1, MulMono
  <2>2. UnitsPerHz <= MinStartRPM * MinMicrosteps
    BY DriveAssumption
  <2>3. MinStartRPM * MinMicrosteps \in Int /\ MinStartRPM * m \in Int
    BY <1>1, SMT
  <2> QED BY <1>1, <2>1, <2>2, <2>3
<1>3. MinStartRPM * m \in Nat
  BY <1>1, SMT
<1>4. UnitsPerHz * Grain <= (MinStartRPM * m) * Grain
  BY <1>1, <1>2, <1>3, FloatIsInt, MulMono
<1>5. (MinStartRPM * m) * Grain \in Int
  BY <1>3, FloatIsInt, SMT
<1>6. start \in Rounded((MinStartRPM * m) * Grain, UnitsPerHz)
  BY DEF FreqOf
<1> QED BY <1>1, <1>4, <1>5, <1>6, FloatIsInt, RoundedIsNearest, RoundsUp

\* A greater RPM has no smaller frequency, and 0 has 0 Hz.
LEMMA FreqMono ==
  ASSUME NEW m \in Nat \ {0}, NEW t \in Nat, NEW start \in FreqOf(MinStartRPM, m),
         NEW target \in FreqOf(t, m)
  PROVE  /\ target \in Floats /\ target \in Int
         /\ t > MinStartRPM => start <= target
         /\ t = 0 => target = 0
<1> DEFINE n1 == MinStartRPM * m * Grain  n2 == t * m * Grain
<1>1. UnitsPerHz \in Nat \ {0} /\ MinStartRPM \in Nat /\ 0 \in Floats /\ Grain \in Nat \ {0}
  BY DriveAssumption, FloatIsInt
<1>2. n1 \in Int /\ n2 \in Int /\ (t = 0 => n2 = 0)
  BY <1>1, SMT
<1>3. start \in Rounded(n1, UnitsPerHz) /\ target \in Rounded(n2, UnitsPerHz)
  BY DEF FreqOf
<1>4. t > MinStartRPM => n1 < n2
  <2>1. m * Grain \in Nat \ {0}
    BY <1>1, MulPos
  <2>2. n1 = (m * Grain) * MinStartRPM /\ n2 = (m * Grain) * t
    BY <1>1, SMT
  <2>3. (m * Grain) * t <= (m * Grain) * MinStartRPM <=> t <= MinStartRPM
    BY <1>1, <2>1, MulStrict
  <2> QED BY <1>1, <1>2, <2>2, <2>3
<1> HIDE DEF n1, n2
<1>5. target \in Floats /\ target \in Int
  BY <1>1, <1>2, <1>3, RoundedIsNearest
<1>6. ASSUME t = 0 PROVE target = 0
  <2>1. UnitsPerHz * 0 = 0
    BY <1>1
  <2>2. target <= 0 /\ 0 <= target
    BY <1>1, <1>2, <1>3, <1>6, <2>1, RoundsUp, RoundsDown
  <2> QED BY <1>5, <2>2
<1> QED BY <1>1, <1>2, <1>3, <1>4, <1>5, <1>6, RoundedMono

\* A rising profile: totalMs steps are the climb, up to three roundings of its
\* height and one of a denormal step.
LEMMA RisingProfile ==
  ASSUME NEW T \in Nat \ {0}, NEW start \in Floats, NEW target \in Floats,
         0 <= start, start <= target,
         NEW delta \in Rounded(target - start, 1), NEW step \in Rounded(delta, T)
  PROVE  /\ step \in Floats /\ 0 <= step
         /\ Precision * Abs(T * step - (target - start))
              <= 3 * (target - start) + Precision * T
<1> DEFINE D == target - start
<1>1. D \in Nat /\ D <= target /\ start \in Int /\ target \in Int
  BY FloatIsInt
<1>2. delta \in Rounded(D, 1)
  OBVIOUS
<1> HIDE DEF D
<1>3. delta \in Floats /\ delta \in Int /\ 0 <= delta
  BY <1>1, <1>2, FloatIsInt, RoundedIsNearest, RoundsUp
<1>4. Precision * Abs(delta - D) <= D
  BY <1>1, <1>2, SumError
<1>5. delta <= 2 * D
  <2>1. Abs(delta - D) \in Nat /\ delta - D <= Abs(delta - D)
    BY <1>1, <1>3, SMT DEF Abs
  <2>2. 1 * Abs(delta - D) <= Precision * Abs(delta - D)
    BY <2>1, FloatIsInt, MulMono
  <2>3. Precision * Abs(delta - D) \in Int
    BY <2>1, FloatIsInt, SMT
  <2> QED BY <1>1, <1>3, <1>4, <2>1, <2>2, <2>3
<1>6. step \in Floats /\ step \in Int /\ 0 <= step
  <2>1. T * 0 <= delta
    BY <1>3
  <2> QED BY <1>3, <2>1, FloatIsInt, RoundedIsNearest, RoundsUp
<1>7. Precision * Abs(T * step - delta) <= delta + Precision * T
  BY <1>3, QuotientError
<1>8. Precision * Abs(T * step - D) <= (delta + Precision * T) + D
  <2> DEFINE x == T * step  u == delta + Precision * T
  <2>1. x \in Int /\ u \in Int /\ Precision \in Nat /\ D \in Int
    BY <1>1, <1>3, <1>6, FloatIsInt, SMT
  <2>2. Precision * Abs(x - delta) <= u
    BY <1>7
  <2> HIDE DEF x, u
  <2>3. Precision * Abs(x - D) <= u + D
    BY <1>3, <1>4, <2>1, <2>2, Chain
  <2> QED BY <2>3 DEF x, u
<1>9. Precision * Abs(T * step - D) <= 3 * D + Precision * T
  <2>1. T * step - D \in Int /\ Precision * T \in Int
    BY <1>1, <1>6, FloatIsInt, SMT
  <2>2. Abs(T * step - D) \in Int
    BY <2>1, AbsNat
  <2>3. Precision * Abs(T * step - D) \in Int
    BY <2>2, FloatIsInt, SMT
  <2> QED BY <1>1, <1>3, <1>5, <1>8, <2>1, <2>3
<1> QED BY <1>6, <1>9 DEF D

\* The profile before a client has asked for an RPM in range: it falls.
LEMMA FallingProfile ==
  ASSUME NEW T \in Nat \ {0}, NEW start \in Floats, 0 <= start,
         NEW delta \in Rounded(0 - start, 1), NEW step \in Rounded(delta, T)
  PROVE  /\ step \in Floats /\ step <= 0 /\ 0 <= start + step
<1>1. start \in Int /\ -start \in Floats /\ 0 \in Floats /\ -start \in Int
  BY FloatIsInt
<1>2. delta = -start
  <2>1. 0 - start \in Int /\ 1 * (-start) = 0 - start
    BY <1>1
  <2>2. delta <= -start /\ -start <= delta /\ delta \in Int
    BY <1>1, <2>1, RoundedIsNearest, RoundsUp, RoundsDown
  <2> QED BY <1>1, <2>2
<1>3. T * 0 = 0 /\ T * (-start) <= -start
  <2>1. T * (-start) = -(T * start) /\ T * start \in Int
    BY <1>1, SMT
  <2>2. 1 * start <= T * start
    BY <1>1, MulMono
  <2> QED BY <1>1, <2>1, <2>2
<1>4. step \in Floats /\ step \in Int /\ step <= 0 /\ -start <= step
  BY <1>1, <1>2, <1>3, RoundedIsNearest, RoundsUp, RoundsDown
<1> QED BY <1>1, <1>4

\* The frequencies of a profile.
LEMMA ProfileFacts ==
  ASSUME NEW m \in Nat, m >= MinMicrosteps, NEW t \in Nat, t = 0 \/ t > MinStartRPM,
         NEW T \in Nat \ {0},
         NEW start \in FreqOf(MinStartRPM, m), NEW target \in FreqOf(t, m),
         NEW delta \in Rounded(target - start, 1), NEW step \in Rounded(delta, T)
  PROVE  /\ start \in Floats /\ target \in Floats /\ step \in Floats
         /\ Grain <= start
         /\ t # 0 => /\ start <= target /\ 0 <= step
                     /\ Precision * Abs(T * step - (target - start))
                          <= 3 * (target - start) + Precision * T
         /\ t = 0 => target = 0 /\ step <= 0 /\ 0 <= start + step
<1>1. m \in Nat \ {0} /\ MinStartRPM \in Nat
  BY DriveAssumption
<1>2. start \in Floats /\ start \in Int /\ Grain <= start /\ 0 <= start
  BY StartsAtOneHz, FloatIsInt
<1>3. /\ target \in Floats /\ target \in Int
      /\ t > MinStartRPM => start <= target
      /\ t = 0 => target = 0
  BY <1>1, FreqMono
<1>4. CASE t # 0
  BY <1>2, <1>3, <1>4, RisingProfile
<1>5. CASE t = 0
  BY <1>2, <1>3, <1>5, FallingProfile
<1> QED BY <1>2, <1>3, <1>4, <1>5

\* A frequency from 1 Hz up is not 0 in the timer.
LEMMA HzFacts ==
  ASSUME NEW f \in Int, 0 <= f
  PROVE  /\ Hz(f) \in Nat
         /\ Grain <= f => Hz(f) >= 1
BY FloatIsInt, DivNat DEF Hz

LEMMA HzMono ==
  ASSUME NEW f \in Int, 0 <= f, NEW g \in Int, f <= g
  PROVE  Hz(f) <= Hz(g)
BY FloatIsInt, DivMono DEF Hz

-----------------------------------------------------------------------------
(* The ticks of a ramp. *)

\* One more tick: its error v adds to those of the k ticks before it.
LEMMA LineTick ==
  ASSUME NEW k \in Nat, NEW s \in Int, NEW b \in Int, NEW c \in Int, NEW d \in Int,
         NEW t \in Nat, NEW v \in Int,
         Precision * Abs(c - (b + k * s)) <= k * t, Precision * Abs(d - (c + s)) <= v
  PROVE  Precision * Abs(d - (b + (k + 1) * s)) <= v + k * t
<1> DEFINE x == c + s  y == b + (k + 1) * s
<1>1. x \in Int /\ y \in Int /\ k * t \in Int /\ Precision \in Nat
  BY FloatIsInt, MulStep
<1>2. x - y = c - (b + k * s)
  BY MulStep
<1>3. Precision * Abs(d - x) <= v /\ Precision * Abs(x - y) <= k * t
  BY <1>2
<1> HIDE DEF x, y
<1>4. Precision * Abs(d - y) <= v + k * t
  BY <1>1, <1>3, Chain
<1> QED BY <1>4 DEF y

\* What a tick reads, gathered from the invariant.
LEMMA TickFacts ==
  ASSUME MotorIInv, Moving
  PROVE  /\ shaft.startFreq \in Int /\ shaft.startFreq \in Floats
         /\ shaft.targetFreq \in Int /\ shaft.targetFreq \in Floats
         /\ shaft.accelStepPerMs \in Int /\ shaft.accelStepPerMs \in Floats
         /\ shaft.totalMs \in Nat \ {0}
         /\ currentFreq \in Int /\ currentFreq \in Floats /\ 0 <= currentFreq
         /\ legFreq \in Int /\ legTicks \in Nat
         /\ 0 <= shaft.startFreq /\ Grain <= shaft.startFreq
         /\ ProfileSet => /\ 0 <= shaft.accelStepPerMs
                          /\ shaft.startFreq <= shaft.targetFreq /\ shaft.targetFreq \in Nat
                          /\ shaft.startFreq <= currentFreq
                          /\ currentFreq <= shaft.targetFreq
<1>1. /\ shaft.startFreq \in Floats /\ shaft.targetFreq \in Floats
      /\ shaft.accelStepPerMs \in Floats /\ shaft.totalMs \in Nat \ {0}
      /\ currentFreq \in Floats /\ legFreq \in Floats /\ legTicks \in Nat
  BY DEF MotorIInv, TypeOK, ShaftType, RampType
<1>2. 0 <= currentFreq /\ Grain <= shaft.startFreq
  BY DEF MotorIInv, ProfileInv, FreqInv
<1>3. ProfileSet => /\ 0 <= shaft.accelStepPerMs /\ shaft.startFreq <= shaft.targetFreq
                    /\ shaft.startFreq <= currentFreq /\ currentFreq <= shaft.targetFreq
  BY DEF MotorIInv, ProfileInv, RampNearLine
<1>4. /\ shaft.startFreq \in Int /\ shaft.targetFreq \in Int /\ shaft.accelStepPerMs \in Int
      /\ currentFreq \in Int /\ legFreq \in Int
  BY <1>1, FloatIsInt
<1>5. 0 <= shaft.startFreq
  BY <1>2, <1>4, FloatIsInt
<1>6. ProfileSet => shaft.targetFreq \in Nat
  BY <1>3, <1>4, <1>5
<1> QED BY <1>1, <1>2, <1>3, <1>4, <1>5, <1>6, Zenon

\* One tick of the climb reaches targetFreq, or adds a step up to one rounding.
LEMMA ClimbTick ==
  ASSUME MotorIInv, ProfileSet, TickAccelerate
  PROVE  /\ currentFreq' \in Floats /\ currentFreq <= currentFreq'
         /\ currentFreq' <= shaft.targetFreq
         /\ currentState' \in {"ACCELERATING", "CRUISING"}
         /\ currentState' = "CRUISING" => currentFreq' = shaft.targetFreq
         /\ \/ /\ shaft.targetFreq <= currentFreq + shaft.accelStepPerMs
               /\ currentState' = "CRUISING"
            \/ Precision * Abs(currentFreq' - (currentFreq + shaft.accelStepPerMs))
                 <= shaft.targetFreq
<1> DEFINE x == currentFreq + shaft.accelStepPerMs
<1>1. currentState = "ACCELERATING" /\ Moving
  BY DEF TickAccelerate, Moving
<1>2. PICK f \in Rounded(x, 1) :
        IF Arrived(f)
          THEN currentFreq' = shaft.targetFreq /\ currentState' = "CRUISING"
          ELSE currentFreq' = f /\ UNCHANGED currentState
  BY DEF TickAccelerate, Faster
<1>3. /\ x \in Nat /\ currentFreq <= x
      /\ currentFreq \in Floats /\ currentFreq \in Int /\ currentFreq <= shaft.targetFreq
      /\ shaft.targetFreq \in Floats /\ shaft.targetFreq \in Int
  BY <1>1, TickFacts
<1> HIDE DEF x
<1>4. f \in Floats /\ f \in Int /\ currentFreq <= f
  <2>1. 1 * currentFreq <= x
    BY <1>3
  <2> QED BY <1>3, <2>1, RoundedIsNearest, RoundsUp
<1>5. CASE shaft.targetFreq <= x
  <2>1. 1 * shaft.targetFreq <= x
    BY <1>3, <1>5
  <2>2. shaft.targetFreq <= f
    BY <1>3, <2>1, RoundsUp
  <2> QED BY <1>2, <1>3, <1>5, <2>2 DEF Arrived, x
<1>6. CASE x <= shaft.targetFreq
  <2>1. x <= 1 * shaft.targetFreq
    BY <1>3, <1>6
  <2>2. f <= shaft.targetFreq
    BY <1>3, <2>1, RoundsDown
  <2>3. Precision * Abs(f - x) <= x
    BY <1>3, <1>6, SumError
  <2>4. Precision * Abs(f - x) <= shaft.targetFreq
    <3>1. f - x \in Int
      BY <1>3, <1>4
    <3>2. Abs(f - x) \in Nat
      BY <3>1, AbsNat
    <3>3. Precision * Abs(f - x) \in Int
      BY <3>2, FloatIsInt, SMT
    <3> QED BY <1>3, <1>6, <2>3, <3>3
  <2>5. CASE Arrived(f)
    <3>1. f = shaft.targetFreq
      BY <1>3, <1>4, <2>2, <2>5 DEF Arrived
    <3> QED BY <1>2, <1>3, <2>4, <2>5, <3>1 DEF x
  <2>6. CASE ~Arrived(f)
    BY <1>1, <1>2, <1>3, <1>4, <2>2, <2>4, <2>6 DEF x
  <2> QED BY <2>5, <2>6
<1> QED BY <1>3, <1>5, <1>6

\* One tick of the descent ends it, or takes a step away up to one rounding.
LEMMA DescentTick ==
  ASSUME MotorIInv, ProfileSet, TickDecelerate
  PROVE  /\ currentFreq' \in Floats /\ currentFreq' <= currentFreq
         /\ currentState' \in {"DECELERATING", "STOPPED"}
         /\ currentState' = "STOPPED" <=> currentFreq' <= shaft.startFreq
         /\ \/ /\ currentFreq - shaft.accelStepPerMs <= shaft.startFreq
               /\ currentFreq' <= shaft.startFreq
            \/ /\ shaft.startFreq <= currentFreq'
               /\ Precision * Abs(currentFreq' - (currentFreq - shaft.accelStepPerMs))
                    <= shaft.targetFreq
<1> DEFINE y == currentFreq - shaft.accelStepPerMs
<1>1. currentState = "DECELERATING" /\ Moving
  BY DEF TickDecelerate, Moving
<1>2. /\ currentFreq' \in Rounded(y, 1)
      /\ currentState' = IF currentFreq' <= shaft.startFreq THEN "STOPPED" ELSE "DECELERATING"
  BY <1>1 DEF TickDecelerate, Slower, Rested, ShutDown
<1>3. /\ y \in Int /\ y <= currentFreq
      /\ currentFreq \in Floats /\ currentFreq \in Int /\ currentFreq <= shaft.targetFreq
      /\ shaft.targetFreq \in Floats /\ shaft.targetFreq \in Int
      /\ shaft.startFreq \in Floats /\ shaft.startFreq \in Int /\ 0 <= shaft.startFreq
  BY <1>1, TickFacts
<1> HIDE DEF y
<1>4. currentFreq' \in Floats /\ currentFreq' \in Int /\ currentFreq' <= currentFreq
  <2>1. y <= 1 * currentFreq
    BY <1>3
  <2> QED BY <1>2, <1>3, <2>1, RoundedIsNearest, RoundsDown
<1>5. CASE y <= shaft.startFreq
  <2>1. y <= 1 * shaft.startFreq
    BY <1>3, <1>5
  <2>2. currentFreq' <= shaft.startFreq
    BY <1>2, <1>3, <2>1, RoundsDown
  <2> QED BY <1>2, <1>4, <1>5, <2>2 DEF y
<1>6. CASE shaft.startFreq <= y
  <2>1. 1 * shaft.startFreq <= y /\ y \in Nat /\ y <= shaft.targetFreq
    BY <1>3, <1>6
  <2>2. shaft.startFreq <= currentFreq'
    BY <1>2, <1>3, <2>1, RoundsUp
  <2>3. Precision * Abs(currentFreq' - y) <= y
    BY <1>2, <1>3, <2>1, SumError
  <2>4. Precision * Abs(currentFreq' - y) <= shaft.targetFreq
    <3>1. currentFreq' - y \in Int
      BY <1>3, <1>4
    <3>2. Abs(currentFreq' - y) \in Nat
      BY <3>1, AbsNat
    <3>3. Precision * Abs(currentFreq' - y) \in Int
      BY <3>2, FloatIsInt, SMT
    <3> QED BY <1>3, <2>1, <2>3, <3>3
  <2> QED BY <1>2, <1>3, <1>4, <2>2, <2>4 DEF y
<1> QED BY <1>3, <1>5, <1>6

\* Without a profile the climb is over with its first tick, at 0 Hz, and a
\* descent gets faster.
LEMMA FallingClimb ==
  ASSUME MotorIInv, ~ProfileSet, TickAccelerate
  PROVE  currentFreq' = 0 /\ currentState' = "CRUISING"
<1> DEFINE x == currentFreq + shaft.accelStepPerMs
<1>1. currentState = "ACCELERATING" /\ Moving
  BY DEF TickAccelerate, Moving
<1>2. PICK f \in Rounded(x, 1) :
        IF Arrived(f)
          THEN currentFreq' = shaft.targetFreq /\ currentState' = "CRUISING"
          ELSE currentFreq' = f /\ UNCHANGED currentState
  BY DEF TickAccelerate, Faster
<1>3. x \in Int /\ 0 <= x /\ shaft.targetFreq = 0
  BY <1>1, TickFacts DEF MotorIInv, FreqInv, ProfileInv
<1> HIDE DEF x
<1>4. 0 <= f
  BY <1>3, FloatIsInt, RoundsUp
<1> QED BY <1>2, <1>3, <1>4 DEF Arrived

LEMMA FallingDescent ==
  ASSUME MotorIInv, ~ProfileSet, TickDecelerate
  PROVE  /\ currentFreq' \in Floats /\ 0 <= currentFreq'
         /\ currentState' \in {"DECELERATING", "STOPPED"}
         /\ currentState' = "STOPPED" <=> currentFreq' <= shaft.startFreq
<1> DEFINE y == currentFreq - shaft.accelStepPerMs
<1>1. currentState = "DECELERATING" /\ Moving
  BY DEF TickDecelerate, Moving
<1>2. /\ currentFreq' \in Rounded(y, 1)
      /\ currentState' = IF currentFreq' <= shaft.startFreq THEN "STOPPED" ELSE "DECELERATING"
  BY <1>1 DEF TickDecelerate, Slower, Rested, ShutDown
<1>3. y \in Int /\ 1 * 0 <= y
  BY <1>1, TickFacts DEF MotorIInv, ProfileInv
<1> HIDE DEF y
<1>4. currentFreq' \in Floats /\ currentFreq' \in Int /\ 0 <= currentFreq'
  BY <1>2, <1>3, FloatIsInt, RoundedIsNearest, RoundsUp
<1> QED BY <1>2, <1>4

-----------------------------------------------------------------------------
(* The inductive invariant. *)

LEMMA InitInv == MotorInit => MotorIInv
<1> SUFFICES ASSUME MotorInit PROVE MotorIInv
  OBVIOUS
<1>1. TypeOK
  <2>1. ShaftType
    BY DriveAssumption, FloatIsInt DEF MotorInit, ShaftType
  <2>2. PinType
    BY Zenon DEF MotorInit, PinType
  <2>3. RampType
    BY FloatIsInt DEF MotorInit, RampType, States, Places
  <2> QED BY <2>1, <2>2, <2>3 DEF TypeOK
<1>2. ProfileInv
  BY DriveAssumption, SMT DEF MotorInit, ProfileInv, ProfileSet, Moving
<1>3. FreqInv /\ PlaceInv /\ PulseGate /\ RampNearLine /\ WindowInv /\ CruiseInv
  BY DEF MotorInit, FreqInv, PlaceInv, PulseGate, RampNearLine, WindowInv, CruiseInv,
         Moving, InStart
<1> QED BY <1>1, <1>2, <1>3 DEF MotorIInv

\* CalculateProfile happens at rest: only the shape of the profile is at stake.
LEMMA ProfileStep ==
  ASSUME MotorIInv, NEW rpm \in RpmRegs, NEW accel \in AccelRegs,
         NEW ms \in MicrostepRegs, RequestProfile(rpm, accel, ms)
  PROVE  MotorIInv'
<1> DEFINE m == NewMicrosteps(ms)  t == NewRPM(rpm)  T == RampMs(accel)
<1>1. PICK start \in FreqOf(MinStartRPM, m), target \in FreqOf(t, m) :
      \E delta \in Rounded(target - start, 1) : \E step \in Rounded(delta, T) :
        shaft' = Profile(m, t, T, start, target, step)
  BY Zenon DEF RequestProfile, CalculateProfile
<1>11. PICK delta \in Rounded(target - start, 1) : \E step \in Rounded(delta, T) :
        shaft' = Profile(m, t, T, start, target, step)
  BY <1>1
<1>2. PICK step \in Rounded(delta, T) :
        shaft' = Profile(m, t, T, start, target, step)
  BY <1>11
<1>3. /\ m \in Nat /\ m >= MinMicrosteps
      /\ t \in Nat /\ (t = 0 \/ t > MinStartRPM)
  BY DriveAssumption, RegisterAssumption, SMT
     DEF MotorIInv, TypeOK, ShaftType, ProfileInv, ProfileSet, ClampedRPM, NewMicrosteps, NewRPM
<1>4. T \in Nat \ {0}
  BY DriveAssumption, RegisterAssumption, MulPos, SMT DEF RampMs
<1>5. /\ currentState = "STOPPED" /\ currentState' = "STOPPED" /\ mpc' = "profiled"
      /\ UNCHANGED <<currentFreq, arr, ccr, timerOn, enabled, dir, startTicked, legFreq,
                     legTicks>>
  BY DEF RequestProfile, CalculateProfile, ProfileStates
<1> HIDE DEF m, t, T
<1>6. /\ start \in Floats /\ target \in Floats /\ step \in Floats
      /\ Grain <= start
      /\ t # 0 => /\ start <= target /\ 0 <= step
                  /\ Precision * Abs(T * step - (target - start))
                       <= 3 * (target - start) + Precision * T
      /\ t = 0 => target = 0 /\ step <= 0 /\ 0 <= start + step
  BY <1>3, <1>4, ProfileFacts
<1>7. /\ shaft'.microsteps = m /\ shaft'.targetRPM = t /\ shaft'.totalMs = T
      /\ shaft'.startFreq = start /\ shaft'.targetFreq = target
      /\ shaft'.accelStepPerMs = step
  BY <1>2 DEF Profile
<1>8. TypeOK'
  <2>1. ShaftType'
    BY <1>2, <1>3, <1>4, <1>6 DEF ShaftType, Profile
  <2>2. PinType'
    BY <1>5, Zenon DEF MotorIInv, TypeOK, PinType
  <2>3. RampType'
    BY <1>5 DEF MotorIInv, TypeOK, RampType, Places
  <2> QED BY <2>1, <2>2, <2>3 DEF TypeOK
<1>9. ProfileInv'
  BY <1>3, <1>6, <1>7, Zenon DEF ProfileInv, ProfileSet
<1>10. (FreqInv /\ PlaceInv /\ PulseGate /\ RampNearLine /\ WindowInv /\ CruiseInv)'
  BY <1>5 DEF MotorIInv, FreqInv, PlaceInv, PulseGate, RampNearLine, WindowInv, CruiseInv,
              Moving, InStart
<1> QED BY <1>8, <1>9, <1>10 DEF MotorIInv

\* A leg that begins is on its line.
LEMMA LegStart ==
  ASSUME NEW f \in Int, NEW s \in Int, NEW t \in Int
  PROVE  /\ Precision * Abs(f - (f + 0 * s)) <= 0 * t
         /\ Precision * Abs(f - (f - 0 * s)) <= 0 * t
<1>1. f - (f + 0 * s) = 0 /\ f - (f - 0 * s) = 0 /\ 0 * t = 0
  BY SMT
<1>2. Abs(0) = 0 /\ Precision * 0 = 0
  BY FloatIsInt, SMT DEF Abs
<1> QED BY <1>1, <1>2

\* The steps of App_Motor_Start.
LEMMA ArmStep ==
  ASSUME MotorIInv, NEW d \in BOOLEAN, StartArm(d)
  PROVE  MotorIInv'
<1>1. currentState = "STOPPED" /\ ~timerOn /\ ~enabled
  BY DEF MotorIInv, PlaceInv, PulseGate, StartArm, Moving
<1>2. TypeOK'
  <2>1. ShaftType' /\ RampType'
    BY FloatIsInt
       DEF MotorIInv, TypeOK, ShaftType, RampType, StartArm, States, Places
  <2>2. PinType'
    BY Zenon DEF MotorIInv, TypeOK, PinType, StartArm
  <2> QED BY <2>1, <2>2 DEF TypeOK
<1>3. PlaceInv' /\ PulseGate' /\ WindowInv' /\ CruiseInv'
  BY <1>1 DEF MotorIInv, PlaceInv, PulseGate, WindowInv, CruiseInv,
              StartArm, Moving, InStart, ProfileSet
<1>4. ProfileInv'
  BY <1>1, Zenon DEF MotorIInv, ProfileInv, StartArm, Moving, ProfileSet
<1>5. RampNearLine' /\ FreqInv'
  <2>1. /\ shaft' = shaft /\ currentFreq' = shaft.startFreq /\ legTicks' = 0
        /\ currentState' = "ACCELERATING" /\ mpc = "profiled"
    BY DEF StartArm
  <2>2. /\ shaft.startFreq \in Int /\ shaft.accelStepPerMs \in Int
        /\ shaft.targetFreq \in Int
    BY FloatIsInt DEF MotorIInv, TypeOK, ShaftType
  <2>3. Grain <= shaft.startFreq /\ (ProfileSet => shaft.startFreq <= shaft.targetFreq)
    BY <2>1 DEF MotorIInv, ProfileInv
  <2>4. Precision * Abs(shaft.startFreq - (shaft.startFreq + 0 * shaft.accelStepPerMs))
          <= 0 * shaft.targetFreq
    BY <2>2, LegStart
  <2>5. FreqInv'
    BY <2>1, <2>2, <2>3, FloatIsInt DEF FreqInv
  <2>6. RampNearLine'
    BY <2>1, <2>2, <2>3, <2>4
       DEF RampNearLine, ClimbNearLine, CruiseNearLine, DescentNearLine, ProfileSet
  <2> QED BY <2>5, <2>6
<1> QED BY <1>2, <1>3, <1>4, <1>5 DEF MotorIInv

LEMMA TimerSteps ==
  ASSUME MotorIInv, StartSetArr \/ StartSetCcr \/ StartTimer
  PROVE  MotorIInv'
<1>1. InStart /\ shaft' = shaft /\ currentState' = currentState
      /\ currentFreq' = currentFreq /\ legTicks' = legTicks /\ legFreq' = legFreq
      /\ startTicked' = startTicked /\ dir' = dir /\ enabled' = enabled
  BY DEF StartSetArr, StartSetCcr, StartTimer, InStart
<1>2. Moving /\ mpc # "idle"
  BY <1>1 DEF MotorIInv, PlaceInv, InStart, Moving
<1>3. Hz(shaft.startFreq) \in Nat /\ Hz(shaft.startFreq) >= 1
  BY <1>2, HzFacts, TickFacts
<1>4. TypeOK'
  <2>1. ShaftType' /\ RampType'
    BY <1>1, <1>3 DEF MotorIInv, TypeOK, ShaftType, RampType, Places,
                      StartSetArr, StartSetCcr, StartTimer
  <2>2. PinType'
    BY <1>1, Zenon DEF MotorIInv, TypeOK, PinType, StartSetArr, StartSetCcr, StartTimer
  <2> QED BY <2>1, <2>2 DEF TypeOK
<1>5. ProfileInv' /\ FreqInv'
  BY <1>1, <1>2, Zenon DEF MotorIInv, ProfileInv, FreqInv, Moving, ProfileSet
<1>6. RampNearLine'
  BY <1>1, Zenon DEF MotorIInv, RampNearLine, ClimbNearLine, CruiseNearLine, DescentNearLine,
                     Moving, ProfileSet
<1>7. PlaceInv' /\ PulseGate' /\ WindowInv' /\ CruiseInv'
  BY <1>1, <1>3 DEF MotorIInv, PlaceInv, PulseGate, WindowInv, CruiseInv, ProfileSet,
                    StartSetArr, StartSetCcr, StartTimer, Moving, InStart
<1> QED BY <1>4, <1>5, <1>6, <1>7 DEF MotorIInv

LEMMA StopStep ==
  ASSUME MotorIInv, Stop
  PROVE  MotorIInv'
<1>1. /\ Moving /\ mpc = "idle" /\ currentState' = "DECELERATING"
      /\ legFreq' = currentFreq /\ legTicks' = 0
      /\ UNCHANGED <<shaft, currentFreq, arr, ccr, timerOn, enabled, dir, mpc, startTicked>>
  BY DEF Stop, StoppableStates, Moving
<1>2. TypeOK'
  <2>1. ShaftType' /\ RampType'
    BY <1>1, FloatIsInt DEF MotorIInv, TypeOK, ShaftType, RampType, States
  <2>2. PinType'
    BY <1>1, Zenon DEF MotorIInv, TypeOK, PinType
  <2> QED BY <2>1, <2>2 DEF TypeOK
<1>3. ProfileInv'
  BY <1>1, Zenon DEF MotorIInv, ProfileInv, ProfileSet
<1>4. (FreqInv /\ PlaceInv /\ PulseGate /\ WindowInv /\ CruiseInv)'
  BY <1>1 DEF MotorIInv, FreqInv, PlaceInv, PulseGate, WindowInv, CruiseInv, Moving, InStart
<1>5. RampNearLine'
  <2>1. Precision * Abs(currentFreq - (currentFreq - 0 * shaft.accelStepPerMs))
          <= 0 * shaft.targetFreq
    BY <1>1, TickFacts, LegStart
  <2>2. ProfileSet => shaft.startFreq <= currentFreq /\ currentFreq <= shaft.targetFreq
    BY <1>1, TickFacts
  <2> QED BY <1>1, <2>1, <2>2
          DEF RampNearLine, ClimbNearLine, CruiseNearLine, DescentNearLine, ProfileSet
<1> QED BY <1>2, <1>3, <1>4, <1>5 DEF MotorIInv

\* SetFrequency from the tick: both registers, or neither for 0 Hz.
LEMMA SetFrequencyFacts ==
  ASSUME arr \in Nat, ccr \in Nat, NEW f \in Int, 0 <= f, SetFrequency(f)
  PROVE  /\ arr' \in Nat /\ ccr' \in Nat
         /\ arr # 0 => arr' # 0
         /\ ccr # 0 => ccr' # 0
         /\ Grain <= f => arr' = Hz(f) /\ ccr' = Hz(f)
<1>1. Hz(f) \in Nat /\ (Grain <= f => Hz(f) >= 1)
  BY HzFacts
<1> QED BY <1>1 DEF SetFrequency

\* The history variable counts ticks until it is full.
LEMMA TickCount ==
  ASSUME RampType, legTicks' = OneMoreTick
  PROVE  /\ legTicks' \in Nat /\ legTicks' <= TicksCounted
         /\ legTicks' < TicksCounted => legTicks < TicksCounted /\ legTicks' = legTicks + 1
         /\ legTicks = 0 => legTicks' = 1
         /\ legTicks' > 1 => legTicks # 0
BY FloatIsInt DEF RampType, OneMoreTick

\* A tick keeps the ramp near its line.
LEMMA ClimbLine ==
  ASSUME MotorIInv, ProfileSet, TickAccelerate
  PROVE  RampNearLine'
<1> DEFINE s == shaft.accelStepPerMs  k == legTicks  b == shaft.startFreq
           t == shaft.targetFreq  c == currentFreq  d == currentFreq'
<1>1. /\ currentState = "ACCELERATING" /\ Moving /\ shaft' = shaft /\ legTicks' = OneMoreTick
      /\ legFreq' = legFreq
  BY DEF TickAccelerate, Moving
<1>2. /\ s \in Int /\ 0 <= s /\ k \in Nat /\ b \in Int /\ t \in Nat /\ c \in Int
      /\ b <= c /\ c <= t
  BY <1>1, TickFacts
<1>3. /\ d \in Int /\ c <= d /\ d <= t
      /\ currentState' \in {"ACCELERATING", "CRUISING"}
      /\ currentState' = "CRUISING" => d = t
      /\ \/ t <= c + s /\ currentState' = "CRUISING"
         \/ Precision * Abs(d - (c + s)) <= t
  BY ClimbTick, FloatIsInt
<1>4. RampType
  BY DEF MotorIInv, TypeOK
<1>5. legTicks' < TicksCounted =>
        legTicks' = k + 1 /\ Precision * Abs(c - (b + k * s)) <= k * t
  BY <1>1, <1>4, TickCount DEF MotorIInv, RampNearLine, ClimbNearLine
<1>6. b <= d
  BY <1>2, <1>3
<1> HIDE DEF s, k, b, t, c, d
<1>7. ASSUME legTicks' < TicksCounted
      PROVE  /\ currentState' = "ACCELERATING"
                  => Precision * Abs(d - (b + (k + 1) * s)) <= (k + 1) * t
             /\ currentState' = "CRUISING"
                  => Precision * Abs(t - (b + (k + 1) * s)) <= Precision * s + (k + 1) * t
  <2>1. (k + 1) * t = k * t + t /\ k * t \in Int /\ Precision * s \in Nat
    BY <1>2, FloatIsInt, MulStep, SMT
  <2>4. t \in Int /\ Precision * Abs(c - (b + k * s)) <= k * t
    BY <1>2, <1>5, <1>7
  <2>2. CASE Precision * Abs(d - (c + s)) <= t
    <3>1. Precision * Abs(d - (b + (k + 1) * s)) <= t + k * t
      BY <1>2, <1>3, <2>4, <2>2, LineTick, Zenon
    <3>2. b + (k + 1) * s \in Int
      BY <1>2, MulStep
    <3>3. Abs(d - (b + (k + 1) * s)) \in Int
      BY <1>3, <3>2, AbsNat
    <3>4. Precision * Abs(d - (b + (k + 1) * s)) \in Int
      BY <3>3, FloatIsInt, SMT
    <3>5. Precision * Abs(d - (b + (k + 1) * s)) <= (k + 1) * t
      BY <1>2, <2>1, <3>1
    <3>6. ASSUME currentState' = "CRUISING"
          PROVE  Precision * Abs(t - (b + (k + 1) * s)) <= Precision * s + (k + 1) * t
      <4>1. d = t
        BY <1>3, <3>6
      <4>2. Precision * Abs(d - (b + (k + 1) * s)) <= Precision * s + (k + 1) * t
        <5>1. (k + 1) * t \in Int
          BY <1>2, <2>1
        <5> QED BY <2>1, <3>4, <3>5, <5>1
      <4> QED BY <4>1, <4>2
    <3> QED BY <3>5, <3>6
  <2>3. CASE t <= c + s /\ currentState' = "CRUISING"
    <3>1. Precision * Abs(t - (c + s)) <= Precision * s
      <4>1. Abs(t - (c + s)) \in Nat /\ Abs(t - (c + s)) <= s
        BY <1>2, <2>3, SMT DEF Abs
      <4> QED BY <1>2, <4>1, FloatIsInt, MulMono
    <3>2. Precision * Abs(t - (b + (k + 1) * s)) <= Precision * s + k * t
      <4>1. Precision * s \in Int
        BY <2>1
      <4> QED BY <1>2, <2>4, <3>1, <4>1, LineTick, Zenon
    <3>3. b + (k + 1) * s \in Int
      BY <1>2, MulStep
    <3>4. Abs(t - (b + (k + 1) * s)) \in Int
      BY <1>2, <3>3, AbsNat
    <3>5. Precision * Abs(t - (b + (k + 1) * s)) \in Int
      BY <3>4, FloatIsInt, SMT
    <3> QED BY <1>2, <2>1, <2>3, <3>2, <3>5
  <2> QED BY <1>3, <2>2, <2>3
<1>8. ClimbNearLine'
  BY <1>1, <1>5, <1>7 DEF ClimbNearLine, s, k, b, t, d
<1>9. CruiseNearLine'
  BY <1>1, <1>3, <1>5, <1>7 DEF CruiseNearLine, s, k, b, t, d
<1>10. DescentNearLine'
  BY <1>3 DEF DescentNearLine
<1> QED BY <1>1, <1>3, <1>6, <1>8, <1>9, <1>10 DEF RampNearLine, b, t, d

\* The descent, and where it ends.
LEMMA DescentDrift ==
  ASSUME MotorIInv, ProfileSet, TickDecelerate, legTicks' < TicksCounted
  PROVE  /\ currentState' = "DECELERATING" =>
              Precision * Abs(currentFreq' - (legFreq - legTicks' * shaft.accelStepPerMs))
                <= legTicks' * shaft.targetFreq
         /\ currentState' = "STOPPED" =>
              Precision * Abs(legFreq - shaft.startFreq - legTicks' * shaft.accelStepPerMs)
                <= Precision * shaft.accelStepPerMs + legTicks' * shaft.targetFreq
<1> DEFINE s == shaft.accelStepPerMs  k == legTicks  b == shaft.startFreq  l == legFreq
           t == shaft.targetFreq  c == currentFreq  d == currentFreq'  n == -s
<1>1. currentState = "DECELERATING" /\ Moving /\ legTicks' = OneMoreTick
  BY DEF TickDecelerate, Moving
<1>2. /\ s \in Int /\ 0 <= s /\ k \in Nat /\ b \in Int /\ t \in Nat /\ c \in Int
      /\ b <= c /\ l \in Int /\ n \in Int /\ t \in Int
  BY <1>1, TickFacts
<1>3. /\ d \in Int
      /\ currentState' = "STOPPED" <=> d <= b
      /\ \/ c - s <= b /\ d <= b
         \/ b <= d /\ Precision * Abs(d - (c - s)) <= t
  BY DescentTick, FloatIsInt
<1>4. /\ legTicks' = k + 1 /\ Precision * Abs(c - (l - k * s)) <= k * t
  <2>1. RampType
    BY DEF MotorIInv, TypeOK
  <2> QED BY <1>1, <2>1, TickCount DEF MotorIInv, RampNearLine, DescentNearLine
<1> HIDE DEF s, k, b, l, t, c, d
<1>5. /\ k * n = -(k * s) /\ (k + 1) * n = -((k + 1) * s)
      /\ k * s \in Int /\ (k + 1) * s \in Int
      /\ (k + 1) * t = k * t + t /\ k * t \in Int /\ Precision * s \in Nat
  BY <1>2, FloatIsInt, MulStep, SMT
<1>6. l + k * n = l - k * s /\ l + (k + 1) * n = l - (k + 1) * s /\ c + n = c - s
  BY <1>2, <1>5
<1>7. Precision * Abs(c - (l + k * n)) <= k * t
  BY <1>4, <1>6
<1> HIDE DEF n
<1>8. CASE b <= d /\ Precision * Abs(d - (c - s)) <= t
  <2>1. Precision * Abs(d - (c + n)) <= t
    BY <1>6, <1>8
  <2>2. Precision * Abs(d - (l + (k + 1) * n)) <= t + k * t
    BY <1>2, <1>3, <1>7, <2>1, LineTick, Zenon
  <2>3. Precision * Abs(d - (l - (k + 1) * s)) <= (k + 1) * t
    BY <1>2, <1>5, <1>6, <2>2
  <2>4. ASSUME currentState' = "STOPPED"
        PROVE  Precision * Abs(l - b - (k + 1) * s) <= Precision * s + (k + 1) * t
    <3>1. d = b
      BY <1>2, <1>3, <1>8, <2>4
    <3>2. /\ l - b - (k + 1) * s = -(b - (l - (k + 1) * s))
          /\ b - (l - (k + 1) * s) \in Int
      BY <1>2, <1>5
    <3>3. Abs(l - b - (k + 1) * s) = Abs(d - (l - (k + 1) * s))
      BY <3>1, <3>2, AbsNat
    <3>4. Precision * Abs(d - (l - (k + 1) * s)) \in Int
      <4>1. Abs(d - (l - (k + 1) * s)) \in Int
        BY <3>1, <3>2, AbsNat
      <4> QED BY <4>1, FloatIsInt, SMT
    <3>5. (k + 1) * t \in Int
      BY <1>2, <1>5
    <3>6. Precision * Abs(d - (l - (k + 1) * s)) <= Precision * s + (k + 1) * t
      BY <1>5, <2>3, <3>4, <3>5
    <3> QED BY <3>3, <3>6
  <2> QED BY <1>4, <2>3, <2>4 DEF s, k, b, l, t, d
<1>9. CASE c - s <= b /\ d <= b
  <2>1. Precision * Abs(b - (c + n)) <= Precision * s
    <3>1. Abs(b - (c + n)) \in Nat /\ Abs(b - (c + n)) <= s
      BY <1>2, <1>6, <1>9, SMT DEF Abs
    <3> QED BY <1>2, <3>1, FloatIsInt, MulMono
  <2>2. Precision * Abs(b - (l + (k + 1) * n)) <= Precision * s + k * t
    <3>1. Precision * s \in Int
      BY <1>5
    <3> QED BY <1>2, <1>7, <2>1, <3>1, LineTick, Zenon
  <2>3. /\ l - b - (k + 1) * s = -(b - (l + (k + 1) * n))
        /\ b - (l + (k + 1) * n) \in Int
    BY <1>2, <1>5, <1>6
  <2>4. Abs(l - b - (k + 1) * s) = Abs(b - (l + (k + 1) * n))
    BY <2>3, AbsNat
  <2>5. Precision * Abs(b - (l + (k + 1) * n)) \in Int
    <3>1. Abs(b - (l + (k + 1) * n)) \in Int
      BY <2>3, AbsNat
    <3> QED BY <3>1, FloatIsInt, SMT
  <2>6. Precision * Abs(b - (l + (k + 1) * n)) <= Precision * s + (k + 1) * t
    BY <1>2, <1>5, <2>2, <2>5
  <2>7. Precision * Abs(l - b - (k + 1) * s) <= Precision * s + (k + 1) * t
    BY <2>4, <2>6
  <2>8. currentState' = "STOPPED"
    BY <1>3, <1>9
  <2> QED BY <1>4, <2>7, <2>8 DEF s, k, b, l, t, d
<1> QED BY <1>3, <1>8, <1>9

LEMMA DescentLine ==
  ASSUME MotorIInv, ProfileSet, TickDecelerate
  PROVE  RampNearLine'
<1>1. /\ currentState = "DECELERATING" /\ Moving /\ shaft' = shaft /\ legFreq' = legFreq
      /\ legTicks' = OneMoreTick
  BY DEF TickDecelerate, Moving
<1>2. /\ currentFreq' \in Int /\ currentFreq' <= currentFreq
      /\ currentState' \in {"DECELERATING", "STOPPED"}
      /\ currentState' = "STOPPED" <=> currentFreq' <= shaft.startFreq
  BY DescentTick, FloatIsInt
<1>3. /\ shaft.startFreq \in Int /\ shaft.targetFreq \in Int /\ currentFreq \in Int
      /\ currentFreq <= shaft.targetFreq
  BY <1>1, TickFacts
<1>4. shaft.startFreq <= legFreq /\ legFreq <= shaft.targetFreq
  BY <1>1 DEF MotorIInv, RampNearLine, DescentNearLine
<1>5. CASE currentState' = "STOPPED"
  BY <1>5 DEF RampNearLine, Moving
<1>6. CASE currentState' = "DECELERATING"
  <2>1. shaft.startFreq <= currentFreq' /\ currentFreq' <= shaft.targetFreq
    BY <1>2, <1>3, <1>6
  <2>2. DescentNearLine'
    BY <1>1, <1>4, <1>6, DescentDrift DEF DescentNearLine
  <2>3. ClimbNearLine' /\ CruiseNearLine'
    BY <1>6 DEF ClimbNearLine, CruiseNearLine
  <2> QED BY <1>1, <2>1, <2>2, <2>3 DEF RampNearLine
<1> QED BY <1>2, <1>5, <1>6

LEMMA AccelerateStep ==
  ASSUME MotorIInv, TickAccelerate
  PROVE  MotorIInv'
<1>1. /\ currentState = "ACCELERATING" /\ Moving
      /\ shaft' = shaft /\ timerOn' = timerOn /\ enabled' = enabled /\ dir' = dir
      /\ mpc' = mpc /\ legFreq' = legFreq /\ legTicks' = OneMoreTick
      /\ InStart => ~startTicked
      /\ SetFrequency(currentFreq')
      /\ startTicked' = InStart
  BY DEF TickAccelerate, TickMayFall, Moving
<1>2. ShaftType /\ PinType /\ RampType
  BY DEF MotorIInv, TypeOK
<1>3. /\ currentFreq' \in Floats /\ 0 <= currentFreq'
      /\ currentState' \in {"ACCELERATING", "CRUISING"}
      /\ ~ProfileSet => currentState' = "CRUISING"
      /\ ProfileSet /\ currentState' = "CRUISING" => currentFreq' = shaft.targetFreq
  <2>1. CASE ProfileSet
    <3>1. /\ currentFreq' \in Floats /\ currentFreq <= currentFreq'
          /\ currentState' \in {"ACCELERATING", "CRUISING"}
          /\ currentState' = "CRUISING" => currentFreq' = shaft.targetFreq
      BY <2>1, ClimbTick
    <3>2. 0 <= currentFreq /\ currentFreq \in Int
      BY <1>1, TickFacts
    <3> QED BY <2>1, <3>1, <3>2, FloatIsInt
  <2>2. CASE ~ProfileSet
    BY <2>2, FallingClimb, FloatIsInt
  <2> QED BY <2>1, <2>2
<1>4. /\ arr' \in Nat /\ ccr' \in Nat
      /\ arr # 0 => arr' # 0
      /\ ccr # 0 => ccr' # 0
      /\ Grain <= currentFreq' => arr' = Hz(currentFreq') /\ ccr' = Hz(currentFreq')
  BY <1>1, <1>2, <1>3, FloatIsInt, SetFrequencyFacts DEF RampType
<1>5. /\ legTicks' \in Nat /\ legTicks' <= TicksCounted
      /\ legTicks = 0 => legTicks' = 1
      /\ legTicks' > 1 => legTicks # 0
  BY <1>1, <1>2, TickCount
<1>6. TypeOK'
  <2>1. ShaftType' /\ RampType'
    BY <1>1, <1>2, <1>3, <1>4, <1>5 DEF ShaftType, RampType, States
  <2>2. PinType'
    <3>1. InStart \in BOOLEAN
      BY DEF InStart
    <3> QED BY <1>1, <1>2, <3>1, Zenon DEF PinType
  <2> QED BY <2>1, <2>2 DEF TypeOK
<1>7. ProfileInv'
  BY <1>1, Zenon DEF MotorIInv, ProfileInv, ProfileSet, Moving
<1>8. FreqInv'
  BY <1>1, <1>3 DEF FreqInv, ProfileSet
<1>9. PlaceInv' /\ PulseGate'
  BY <1>1, <1>3, <1>4 DEF MotorIInv, PlaceInv, PulseGate, Moving, InStart
<1>10. RampNearLine'
  <2>1. CASE ProfileSet
    BY <2>1, ClimbLine
  <2>2. CASE ~ProfileSet
    BY <1>1, <2>2 DEF RampNearLine, ProfileSet
  <2> QED BY <2>1, <2>2
<1>11. WindowInv'
  <2>1. InStart' => InStart
    BY <1>1 DEF InStart
  <2>2. InStart => legTicks = 0
    BY <1>1 DEF MotorIInv, WindowInv
  <2> QED BY <1>1, <1>5, <2>1, <2>2 DEF WindowInv
<1>12. CruiseInv'
  <2> SUFFICES ASSUME ProfileSet, legTicks' > 1, currentState' = "CRUISING"
               PROVE  ~InStart /\ arr' = Hz(shaft.targetFreq) /\ ccr' = Hz(shaft.targetFreq)
    BY <1>1 DEF CruiseInv, ProfileSet, InStart, Hz
  <2>1. ~InStart
    BY <1>1, <1>5 DEF MotorIInv, WindowInv
  <2>2. Grain <= shaft.targetFreq
    BY <1>1, TickFacts, FloatIsInt
  <2> QED BY <1>3, <1>4, <2>1, <2>2
<1> QED BY <1>6, <1>7, <1>8, <1>9, <1>10, <1>11, <1>12 DEF MotorIInv

LEMMA DecelerateStep ==
  ASSUME MotorIInv, TickDecelerate
  PROVE  MotorIInv'
<1>1. /\ currentState = "DECELERATING" /\ Moving /\ ~InStart
      /\ shaft' = shaft /\ dir' = dir /\ mpc' = mpc
      /\ legFreq' = legFreq /\ legTicks' = OneMoreTick
      /\ currentState' = "STOPPED" =>
           timerOn' = FALSE /\ enabled' = FALSE /\ arr' = arr /\ ccr' = ccr
      /\ currentState' = "DECELERATING" =>
           SetFrequency(currentFreq') /\ timerOn' = timerOn /\ enabled' = enabled
  BY DEF MotorIInv, PlaceInv, TickDecelerate, ShutDown, Moving
<1>2. ShaftType /\ PinType /\ RampType
  BY DEF MotorIInv, TypeOK
<1>3. /\ currentFreq' \in Floats
      /\ currentState' \in {"DECELERATING", "STOPPED"}
      /\ currentState' = "DECELERATING" => 0 <= currentFreq'
  <2>1. CASE ProfileSet
    <3>1. /\ currentFreq' \in Floats /\ currentState' \in {"DECELERATING", "STOPPED"}
          /\ currentState' = "STOPPED" <=> currentFreq' <= shaft.startFreq
      BY <2>1, DescentTick
    <3>2. shaft.startFreq \in Int /\ 0 <= shaft.startFreq
      BY <1>1, TickFacts
    <3> QED BY <3>1, <3>2, FloatIsInt
  <2>2. CASE ~ProfileSet
    BY <2>2, FallingDescent
  <2> QED BY <2>1, <2>2
<1>4. /\ arr' \in Nat /\ ccr' \in Nat
      /\ arr # 0 => arr' # 0
      /\ ccr # 0 => ccr' # 0
  <2>1. CASE currentState' = "STOPPED"
    BY <1>1, <1>2, <2>1 DEF RampType
  <2>2. CASE currentState' = "DECELERATING"
    BY <1>1, <1>2, <1>3, <2>2, FloatIsInt, SetFrequencyFacts DEF RampType
  <2> QED BY <1>3, <2>1, <2>2
<1>5. TypeOK'
  <2>1. ShaftType' /\ RampType'
    BY <1>1, <1>2, <1>3, <1>4, TickCount DEF ShaftType, RampType, States
  <2>2. PinType'
    <3>1. startTicked' \in BOOLEAN
      BY DEF TickDecelerate, InStart
    <3> QED BY <1>1, <1>2, <1>3, <3>1, Zenon DEF PinType
  <2> QED BY <2>1, <2>2 DEF TypeOK
<1>6. ProfileInv' /\ PlaceInv' /\ PulseGate' /\ WindowInv' /\ CruiseInv'
  <2>1. ~InStart'
    BY <1>1 DEF InStart
  <2>2. ProfileInv'
    BY <1>1, Zenon DEF MotorIInv, ProfileInv, ProfileSet, Moving
  <2>3. PlaceInv' /\ WindowInv' /\ CruiseInv'
    BY <1>1, <1>3, <1>4, <2>1 DEF MotorIInv, PlaceInv, WindowInv, CruiseInv, Moving
  <2>4. PulseGate'
    <3>1. CASE currentState' = "STOPPED"
      BY <1>1, <2>1, <3>1 DEF PulseGate, Moving
    <3>2. CASE currentState' = "DECELERATING"
      BY <1>1, <1>4, <3>2 DEF MotorIInv, PulseGate, Moving
    <3> QED BY <1>3, <3>1, <3>2
  <2> QED BY <2>2, <2>3, <2>4
<1>7. FreqInv'
  BY <1>1, <1>3 DEF FreqInv, Moving
<1>8. RampNearLine'
  <2>1. CASE ProfileSet
    BY <2>1, DescentLine
  <2>2. CASE ~ProfileSet
    BY <1>1, <2>2 DEF RampNearLine, ProfileSet
  <2> QED BY <2>1, <2>2
<1> QED BY <1>5, <1>6, <1>7, <1>8 DEF MotorIInv

LEMMA ResetStep ==
  ASSUME MotorReset
  PROVE  MotorIInv'
<1>1. TypeOK'
  <2>1. ShaftType'
    BY DriveAssumption, FloatIsInt DEF MotorReset, ShaftType
  <2>2. PinType'
    BY Zenon DEF MotorReset, PinType
  <2>3. RampType'
    BY FloatIsInt DEF MotorReset, RampType, States, Places
  <2> QED BY <2>1, <2>2, <2>3 DEF TypeOK
<1>2. ProfileInv'
  BY DriveAssumption, SMT DEF MotorReset, ProfileInv, ProfileSet, Moving
<1>3. (FreqInv /\ PlaceInv /\ PulseGate /\ RampNearLine /\ WindowInv /\ CruiseInv)'
  BY DEF MotorReset, FreqInv, PlaceInv, PulseGate, RampNearLine, WindowInv, CruiseInv,
         Moving, InStart
<1> QED BY <1>1, <1>2, <1>3 DEF MotorIInv

LEMMA StutterStep ==
  ASSUME MotorIInv, UNCHANGED motorVars
  PROVE  MotorIInv'
<1>1. TypeOK' /\ FreqInv' /\ PlaceInv' /\ PulseGate' /\ WindowInv' /\ CruiseInv'
  BY DEF motorVars, MotorIInv, TypeOK, ShaftType, PinType, RampType, FreqInv,
         PlaceInv, PulseGate, WindowInv, CruiseInv, Moving, InStart, ProfileSet
<1>2. ProfileInv'
  BY Zenon DEF motorVars, MotorIInv, ProfileInv, Moving, ProfileSet
<1>3. RampNearLine'
  BY Zenon DEF motorVars, MotorIInv, RampNearLine, ClimbNearLine, CruiseNearLine,
               DescentNearLine, Moving, ProfileSet
<1> QED BY <1>1, <1>2, <1>3 DEF MotorIInv

LEMMA NextInv == MotorIInv /\ [MotorNext]_motorVars => MotorIInv'
<1> SUFFICES ASSUME MotorIInv, [MotorNext]_motorVars PROVE MotorIInv'
  OBVIOUS
<1>1. ASSUME NEW rpm \in RpmRegs, NEW accel \in AccelRegs, NEW ms \in MicrostepRegs,
             RpmAllowed(rpm) /\ RequestProfile(rpm, accel, ms)
      PROVE  MotorIInv'
  BY <1>1, ProfileStep
<1>2. CASE StartSteps
  BY <1>2, ArmStep, TimerSteps DEF StartSteps
<1>3. CASE Stop
  BY <1>3, StopStep
<1>4. CASE KinematicTick
  BY <1>4, AccelerateStep, DecelerateStep DEF KinematicTick
<1>5. CASE MotorReset
  BY <1>5, ResetStep
<1>6. CASE UNCHANGED motorVars
  BY <1>6, StutterStep
<1> QED BY <1>1, <1>2, <1>3, <1>4, <1>5, <1>6 DEF MotorNext

\* The strengthened invariant holds in every reachable state.
THEOREM MotorInvariant == MotorSafety => []MotorIInv
<1> QED BY InitInv, NextInv, PTL DEF MotorSafety

-----------------------------------------------------------------------------
(* The invariants of MotorProperties. *)

\* The statics and registers keep their types (app_motor.c:29-42); EN and STEP
\* follow the motion (app_motor.c:99-108, 149-151).
THEOREM PulsesGated == MotorSafety => []MotorInv
<1>1. MotorIInv => MotorInv
  BY DEF MotorIInv, MotorInv
<1> QED BY <1>1, MotorInvariant, PTL

\* Every leg of a ramp stays near its straight line, off by the roundings of its
\* ticks only, and between the two frequencies (app_motor.c:134-138, 145-147).
THEOREM RampStaysNear == MotorSafety => []RampNearLine
<1>1. MotorIInv => RampNearLine
  BY DEF MotorIInv
<1> QED BY <1>1, MotorInvariant, PTL

\* With a climb of more than one tick the race of App_Motor_Start with SysTick
\* leaves no trace in a cruising motor (app_motor.c:103-108, 136-142).
THEOREM CruiseReached == MotorSafety => []CruiseAtTarget
<1>1. MotorIInv => CruiseAtTarget
  BY DEF MotorIInv, CruiseInv, CruiseAtTarget
<1> QED BY <1>1, MotorInvariant, PTL

-----------------------------------------------------------------------------
(* The action properties. *)

\* DIR and the profile change at rest only (app_motor.c:60, 99).
THEOREM ChangesAtRest == MotorSafety => OnlyAtRest
<1>1. MotorIInv /\ [MotorNext]_motorVars
        => [(dir' # dir \/ shaft' # shaft) => currentState = "STOPPED" \/ MotorReset]_motorVars
  BY DEF MotorIInv, PlaceInv, Moving, motorVars, MotorNext, RequestProfile, CalculateProfile,
         ProfileStates, StartSteps, StartArm, StartSetArr, StartSetCcr, StartTimer, Stop,
         KinematicTick, TickAccelerate, TickDecelerate
<1> QED BY <1>1, MotorInvariant, PTL DEF MotorSafety, OnlyAtRest

\* The ticks of a climb against the configured time: what CruiseNearLine and
\* the profile say together.
LEMMA ClimbCount ==
  ASSUME MotorIInv, ProfileSet, TickAccelerate, currentState' = "CRUISING"
  PROVE  ClimbOnTime
<1> DEFINE s == shaft.accelStepPerMs  k == legTicks'  b == shaft.startFreq
           t == shaft.targetFreq  T == shaft.totalMs  D == t - b
<1>1. Moving /\ shaft' = shaft /\ legTicks' = OneMoreTick
  BY DEF TickAccelerate, Moving
<1>2. /\ s \in Int /\ 0 <= s /\ k \in Nat /\ b \in Int /\ t \in Int /\ T \in Nat \ {0}
      /\ Precision \in Nat
  <2>1. RampType
    BY DEF MotorIInv, TypeOK
  <2> QED BY <1>1, <2>1, TickFacts, TickCount, FloatIsInt
<1> SUFFICES ASSUME k < TicksCounted
             PROVE  Precision * (Abs(k - T) * s)
                      <= Precision * s + k * t + 3 * D + Precision * T
  BY DEF ClimbOnTime
<1>3. Precision * Abs(t - (b + k * s)) <= Precision * s + k * t
  BY <1>1, ClimbLine DEF RampNearLine, CruiseNearLine, ProfileSet, Moving
<1>4. Precision * Abs(T * s - D) <= 3 * D + Precision * T
  BY <1>1 DEF MotorIInv, ProfileInv
<1> HIDE DEF s, k, b, t, T
<1>5. k * s \in Int /\ T * s \in Int /\ D \in Int /\ Precision * s \in Int /\ k * t \in Int
      /\ Precision * T \in Int
  BY <1>2, SMT
<1>6. Precision * Abs(k * s - D) <= Precision * s + k * t
  <2>1. k * s - D = -(t - (b + k * s)) /\ t - (b + k * s) \in Int
    BY <1>2, <1>5
  <2>2. Abs(k * s - D) = Abs(t - (b + k * s))
    BY <2>1, AbsNat
  <2> QED BY <1>3, <2>2
<1>7. Precision * Abs(D - T * s) <= 3 * D + Precision * T
  <2>1. D - T * s = -(T * s - D) /\ T * s - D \in Int
    BY <1>5
  <2>2. Abs(D - T * s) = Abs(T * s - D)
    BY <2>1, AbsNat
  <2> QED BY <1>4, <2>2
<1>8. Precision * Abs(k * s - T * s) <= (Precision * s + k * t) + (3 * D + Precision * T)
  <2> DEFINE u == Precision * s + k * t  v == 3 * D + Precision * T
  <2>1. u \in Int /\ v \in Int
    BY <1>5
  <2> HIDE DEF u, v, D
  <2>2. Precision * Abs(k * s - D) <= u /\ Precision * Abs(D - T * s) <= v
    BY <1>6, <1>7 DEF u, v
  <2>3. Precision * Abs(k * s - T * s) <= u + v
    BY <1>2, <1>5, <2>1, <2>2, Chain, Zenon
  <2> QED BY <2>3 DEF u, v
<1>9. Abs(k * s - T * s) = Abs(k - T) * s
  <2>1. CASE k >= T
    <3>1. (k - T) * s = k * s - T * s
      BY <1>2, SMT
    <3>2. T * s <= k * s
      BY <1>2, <2>1, MulMono
    <3> QED BY <1>2, <1>5, <2>1, <3>1, <3>2 DEF Abs
  <2>2. CASE k < T
    <3>1. (-(k - T)) * s = T * s - k * s
      BY <1>2, SMT
    <3>2. k * s <= T * s
      BY <1>2, <2>2, MulMono
    <3> QED BY <1>2, <1>5, <2>2, <3>1, <3>2 DEF Abs
  <2> QED BY <1>2, <2>1, <2>2
<1>10. (Precision * s + k * t) + (3 * D + Precision * T)
         = Precision * s + k * t + 3 * D + Precision * T
  BY <1>2, <1>5
<1> QED BY <1>8, <1>9, <1>10

\* A climb takes the acceleration time, and a descent the time of its height, up
\* to one tick and the roundings (app_motor.c:85-90, 134-147).
THEOREM RampsOnTime == MotorSafety => RampOnTime
<1>1. MotorIInv /\ [MotorNext]_motorVars
        => [/\ ProfileSet /\ currentState = "ACCELERATING" /\ currentState' = "CRUISING"
                 => ClimbOnTime
            /\ ProfileSet /\ currentState = "DECELERATING" /\ currentState' = "STOPPED"
                 => DescentOnTime \/ MotorReset]_motorVars
  <2> SUFFICES ASSUME MotorIInv, MotorNext, ProfileSet
               PROVE  /\ currentState = "ACCELERATING" /\ currentState' = "CRUISING"
                           => ClimbOnTime
                      /\ currentState = "DECELERATING" /\ currentState' = "STOPPED"
                           => DescentOnTime \/ MotorReset
    OBVIOUS
  <2> USE DEF MotorNext, RequestProfile, CalculateProfile, ProfileStates, StartSteps, StartArm,
              StartSetArr, StartSetCcr, StartTimer, Stop, KinematicTick
  <2>1. ASSUME currentState = "ACCELERATING", currentState' = "CRUISING"
        PROVE  ClimbOnTime
    <3>1. TickAccelerate
      BY <2>1 DEF TickDecelerate, MotorReset
    <3> QED BY <2>1, <3>1, ClimbCount
  <2>2. ASSUME currentState = "DECELERATING", currentState' = "STOPPED"
        PROVE  DescentOnTime \/ MotorReset
    <3>1. TickDecelerate \/ MotorReset
      BY <2>2 DEF TickAccelerate
    <3> QED BY <2>2, <3>1, DescentDrift DEF DescentOnTime
  <2> QED BY <2>1, <2>2
<1> QED BY <1>1, MotorInvariant, PTL DEF MotorSafety, RampOnTime

-----------------------------------------------------------------------------
(* The pulse rate. *)

LEMMA DivDiff ==
  ASSUME NEW a \in Nat, NEW b \in Nat, NEW e \in Nat, NEW d \in Nat \ {0},
         a <= b, b <= a + e
  PROVE  /\ a \div d <= b \div d
         /\ b \div d <= a \div d + (e \div d + 1)
BY SMT

LEMMA TwoSteps ==
  ASSUME NEW f \in Nat, NEW c \in Nat, NEW d \in Nat, NEW n \in Nat,
         f <= c, f = c \/ c <= f + n, d <= c + n, c <= d + n
  PROVE  d <= f + 2 * n /\ f <= d + 2 * n
BY SMT

LEMMA AbsBound ==
  ASSUME NEW x \in Nat, NEW y \in Nat, NEW z \in Nat, x <= y, y <= x + z
  PROVE  Abs(y - x) <= z /\ Abs(x - y) <= z
BY SMT DEF Abs

\* No rounding of a ramp is off by more than RoundingError.
LEMMA ErrorFacts ==
  ASSUME shaft.targetFreq \in Nat
  PROVE  /\ RoundingError \in Nat
         /\ \A x \in Int : Precision * Abs(x) <= shaft.targetFreq
                             => x <= RoundingError /\ -x <= RoundingError
<1>1. RoundingError \in Nat
  BY FloatIsInt, DivNat DEF RoundingError
<1>2. ASSUME NEW x \in Int, Precision * Abs(x) <= shaft.targetFreq
      PROVE  x <= RoundingError /\ -x <= RoundingError
  <2>1. Abs(x) \in Nat /\ x <= Abs(x) /\ -x <= Abs(x)
    BY SMT DEF Abs
  <2>2. Abs(x) <= RoundingError
    BY <1>2, <2>1, FloatIsInt, DivLargest DEF RoundingError
  <2> QED BY <1>1, <2>1, <2>2
<1> QED BY <1>1, <1>2

\* A tick that does not end the motion changes currentFreq by a step and a
\* rounding at most.
LEMMA TickStep ==
  ASSUME MotorIInv, ProfileSet, KinematicTick, Moving'
  PROVE  LET n == shaft.accelStepPerMs + RoundingError
         IN  /\ currentFreq' \in Int /\ shaft.startFreq <= currentFreq'
             /\ currentFreq' <= currentFreq + n /\ currentFreq <= currentFreq' + n
             /\ SetFrequency(currentFreq')
<1> DEFINE s == shaft.accelStepPerMs  c == currentFreq  d == currentFreq'
<1>1. Moving /\ shaft' = shaft
  BY DEF KinematicTick, TickAccelerate, TickDecelerate, Moving
<1>2. /\ s \in Int /\ 0 <= s /\ c \in Int /\ shaft.startFreq \in Int
      /\ shaft.targetFreq \in Nat /\ shaft.startFreq <= c
  BY <1>1, TickFacts
<1>3. /\ RoundingError \in Nat
      /\ \A x \in Int : Precision * Abs(x) <= shaft.targetFreq
                          => x <= RoundingError /\ -x <= RoundingError
  BY <1>2, ErrorFacts
<1> HIDE DEF s, c, d
<1>4. CASE TickAccelerate
  <2>1. /\ d \in Int /\ c <= d /\ d <= shaft.targetFreq
        /\ \/ shaft.targetFreq <= c + s
           \/ Precision * Abs(d - (c + s)) <= shaft.targetFreq
    BY <1>4, ClimbTick, FloatIsInt DEF s, c, d
  <2>2. d <= c + s \/ d - (c + s) <= RoundingError
    <3>1. d - (c + s) \in Int
      BY <1>2, <2>1
    <3> QED BY <1>2, <1>3, <2>1, <3>1
  <2>3. SetFrequency(d)
    BY <1>4 DEF TickAccelerate, d
  <2>4. shaft.startFreq <= d /\ d <= c + (s + RoundingError) /\ c <= d + (s + RoundingError)
    BY <1>2, <1>3, <2>1, <2>2
  <2> QED BY <2>1, <2>3, <2>4 DEF s, c, d
<1>5. CASE TickDecelerate
  <2>1. /\ d \in Int /\ d <= c
        /\ currentState' = "STOPPED" <=> d <= shaft.startFreq
        /\ \/ c - s <= shaft.startFreq /\ d <= shaft.startFreq
           \/ shaft.startFreq <= d /\ Precision * Abs(d - (c - s)) <= shaft.targetFreq
    BY <1>5, DescentTick, FloatIsInt DEF s, c, d
  <2>2. ~(d <= shaft.startFreq)
    BY <2>1 DEF Moving
  <2>3. -(d - (c - s)) <= RoundingError
    <3>1. d - (c - s) \in Int
      BY <1>2, <2>1
    <3> QED BY <1>3, <2>1, <2>2, <3>1
  <2>4. SetFrequency(d)
    BY <1>5, <2>2 DEF TickDecelerate, Rested, d
  <2>5. shaft.startFreq <= d /\ d <= c + (s + RoundingError) /\ c <= d + (s + RoundingError)
    BY <1>2, <1>3, <2>1, <2>2, <2>3
  <2> QED BY <2>1, <2>4, <2>5 DEF s, c, d
<1> QED BY <1>4, <1>5 DEF KinematicTick

LEMMA InitRate == MotorInit => RateInv
BY DEF MotorInit, RateInv, Moving

\* ... and leaves Hz(currentFreq) in the timer.
LEMMA TickRate ==
  ASSUME MotorIInv, ProfileSet, KinematicTick, Moving'
  PROVE  arr' = Hz(currentFreq') /\ shaft' = shaft
<1>1. Moving /\ shaft' = shaft
  BY DEF KinematicTick, TickAccelerate, TickDecelerate, Moving
<1>2. /\ currentFreq' \in Int /\ shaft.startFreq <= currentFreq'
      /\ SetFrequency(currentFreq')
  BY TickStep
<1>3. Grain <= currentFreq' /\ 0 <= currentFreq'
  BY <1>1, <1>2, TickFacts, FloatIsInt
<1>4. arr \in Nat /\ ccr \in Nat
  BY DEF MotorIInv, TypeOK, RampType
<1> QED BY <1>1, <1>2, <1>3, <1>4, SetFrequencyFacts

LEMMA NextRate == MotorIInv /\ RateInv /\ [MotorNext]_motorVars => RateInv'
<1> SUFFICES ASSUME MotorIInv, RateInv, [MotorNext]_motorVars, ProfileSet', Moving'
             PROVE  /\ InStart' => WithinAStep'
                    /\ mpc' # "arr" => \/ arr' = Hz(currentFreq)'
                                       \/ (arr' = Hz(shaft.startFreq)' /\ WithinAStep')
  BY DEF RateInv
<1>1. ASSUME NEW rpm \in RpmRegs, NEW accel \in AccelRegs, NEW ms \in MicrostepRegs,
             RequestProfile(rpm, accel, ms)
      PROVE  FALSE
  BY <1>1 DEF RequestProfile, CalculateProfile, ProfileStates, Moving
<1>2. CASE StartSteps
  <2>1. ASSUME NEW d \in BOOLEAN, StartArm(d)
        PROVE  mpc' = "arr" /\ WithinAStep'
    <3>1. /\ currentFreq' = shaft.startFreq /\ shaft' = shaft /\ mpc = "profiled"
          /\ mpc' = "arr"
      BY <2>1 DEF StartArm
    <3>2. /\ shaft.startFreq \in Int /\ shaft.targetFreq \in Int
          /\ shaft.accelStepPerMs \in Int
      BY FloatIsInt DEF MotorIInv, TypeOK, ShaftType
    <3>3. 0 <= shaft.accelStepPerMs /\ 0 <= shaft.targetFreq
      BY <3>1, <3>2, FloatIsInt DEF MotorIInv, ProfileInv, ProfileSet
    <3>4. RoundingError \in Nat /\ RoundingError' = RoundingError
      BY <3>1, <3>2, <3>3, ErrorFacts DEF RoundingError
    <3> QED BY <3>1, <3>2, <3>3, <3>4 DEF WithinAStep
  <2>2. CASE StartSetArr
    <3>1. InStart /\ shaft' = shaft /\ currentFreq' = currentFreq /\ Moving /\ ProfileSet
      BY <2>2 DEF StartSetArr, InStart, Moving, ProfileSet
    <3>2. Hz(shaft.startFreq) >= 1 /\ Hz(shaft.startFreq) \in Nat
      BY <3>1, HzFacts, TickFacts
    <3>3. arr' = Hz(shaft.startFreq)
      BY <2>2, <3>2 DEF StartSetArr
    <3>4. WithinAStep'
      BY <3>1 DEF RateInv, RoundingError, WithinAStep
    <3> QED BY <3>1, <3>3, <3>4 DEF Hz
  <2>3. CASE StartSetCcr \/ StartTimer
    <3>1. /\ InStart /\ shaft' = shaft /\ currentFreq' = currentFreq /\ arr' = arr
          /\ Moving /\ ProfileSet /\ mpc # "arr"
      BY <2>3 DEF StartSetCcr, StartTimer, InStart, Moving, ProfileSet
    <3> QED BY <3>1 DEF RateInv, RoundingError, WithinAStep, Hz
  <2> QED BY <1>2, <2>1, <2>2, <2>3 DEF StartSteps
<1>3. CASE Stop
  <2>1. /\ shaft' = shaft /\ currentFreq' = currentFreq /\ arr' = arr /\ mpc' = mpc
        /\ Moving /\ ProfileSet
    BY <1>3 DEF Stop, StoppableStates, Moving, ProfileSet
  <2> QED BY <2>1 DEF RateInv, RoundingError, WithinAStep, Hz, InStart
<1>4. CASE KinematicTick
  <2>1. ProfileSet /\ shaft' = shaft /\ mpc' = mpc /\ Moving
    BY <1>4 DEF KinematicTick, TickAccelerate, TickDecelerate, ProfileSet, Moving
  <2>2. arr' = Hz(currentFreq)'
    BY <1>4, <2>1, TickRate DEF Hz
  <2>3. ASSUME InStart' PROVE WithinAStep'
    <3>1. InStart /\ ~startTicked
      BY <1>4, <2>1, <2>3
         DEF InStart, KinematicTick, TickAccelerate, TickDecelerate, TickMayFall
    <3>2. currentFreq = shaft.startFreq
      BY <3>1 DEF MotorIInv, WindowInv
    <3>3. currentFreq' <= shaft.startFreq + (shaft.accelStepPerMs + RoundingError)
      BY <1>4, <2>1, <3>2, TickStep
    <3>4. /\ shaft.startFreq \in Int /\ shaft.accelStepPerMs \in Int /\ RoundingError \in Nat
          /\ RoundingError' = RoundingError
      BY <2>1, TickFacts, ErrorFacts DEF RoundingError
    <3> QED BY <2>1, <3>3, <3>4 DEF WithinAStep
  <2> QED BY <2>2, <2>3
<1>5. CASE MotorReset
  BY <1>5 DEF MotorReset, Moving
<1>6. CASE UNCHANGED motorVars
  <2>1. /\ shaft' = shaft /\ currentFreq' = currentFreq /\ arr' = arr /\ mpc' = mpc
        /\ Moving /\ ProfileSet
    BY <1>6 DEF motorVars, Moving, ProfileSet
  <2> QED BY <2>1 DEF RateInv, RoundingError, WithinAStep, Hz, InStart
<1> QED BY <1>1, <1>2, <1>3, <1>4, <1>5, <1>6 DEF MotorNext

LEMMA RateInvariant == MotorSafety => [](MotorIInv /\ RateInv)
<1>1. MotorInit => MotorIInv /\ RateInv
  BY InitInv, InitRate
<1>2. MotorIInv /\ RateInv /\ [MotorNext]_motorVars => (MotorIInv /\ RateInv)'
  BY NextInv, NextRate
<1> QED BY <1>1, <1>2, PTL DEF MotorSafety

\* The rate a turning motor pulses at is that of currentFreq, or that of
\* startFreq with currentFreq at most one step and a rounding further.
LEMMA RateBounds ==
  ASSUME MotorIInv, RateInv, ProfileSet, timerOn
  PROVE  \E f \in Nat :
           /\ arr = Hz(f) /\ f <= currentFreq
           /\ \/ f = currentFreq
              \/ currentFreq <= f + (shaft.accelStepPerMs + RoundingError)
           /\ f = currentFreq \/ f = shaft.startFreq
<1>1. Moving /\ mpc # "arr"
  BY DEF MotorIInv, PulseGate, PlaceInv, InStart
<1>2. /\ currentFreq \in Nat /\ shaft.startFreq \in Nat /\ shaft.startFreq <= currentFreq
      /\ shaft.accelStepPerMs \in Int /\ RoundingError \in Nat
  BY <1>1, TickFacts, ErrorFacts
<1>3. CASE arr = Hz(currentFreq)
  BY <1>2, <1>3
<1>4. CASE /\ arr = Hz(shaft.startFreq)
           /\ WithinAStep
  <2>1. currentFreq <= shaft.startFreq + (shaft.accelStepPerMs + RoundingError)
    BY <1>2, <1>4 DEF WithinAStep
  <2> QED BY <1>2, <1>4, <2>1
<1> QED BY <1>1, <1>3, <1>4 DEF RateInv

\* Pulses end at the foot of the ramp (app_motor.c:147-151).
THEOREM HaltsGently == MotorSafety => GentleHalt
<1>1. MotorIInv /\ RateInv /\ [MotorNext]_motorVars
        => [ProfileSet /\ timerOn /\ ~timerOn'
              => \/ arr <= Hz(shaft.startFreq + shaft.accelStepPerMs + RoundingError)
                 \/ MotorReset]_motorVars
  <2> SUFFICES ASSUME MotorIInv, RateInv, MotorNext, ProfileSet, timerOn, ~timerOn',
                      ~MotorReset
               PROVE  arr <= Hz(shaft.startFreq + shaft.accelStepPerMs + RoundingError)
    OBVIOUS
  <2> DEFINE b == shaft.startFreq  s == shaft.accelStepPerMs  c == currentFreq
             d == currentFreq'
  <2>1. TickDecelerate /\ currentState' = "STOPPED" /\ Moving
    BY DEF MotorNext, RequestProfile, CalculateProfile, StartSteps, StartArm, StartSetArr,
           StartSetCcr, StartTimer, Stop, KinematicTick, TickAccelerate, TickDecelerate, Moving
  <2>2. /\ b \in Nat /\ s \in Nat /\ c \in Nat /\ RoundingError \in Nat
        /\ \A x \in Int : Precision * Abs(x) <= shaft.targetFreq
                            => x <= RoundingError /\ -x <= RoundingError
    BY <2>1, TickFacts, ErrorFacts
  <2>3. /\ d \in Int /\ d <= b
        /\ c - s <= b \/ (b <= d /\ Precision * Abs(d - (c - s)) <= shaft.targetFreq)
    <3>1. d \in Floats /\ (currentState' = "STOPPED" => d <= b)
      BY <2>1, DescentTick
    <3>2. c - s <= b \/ (b <= d /\ Precision * Abs(d - (c - s)) <= shaft.targetFreq)
      BY <2>1, DescentTick
    <3> HIDE DEF b, s, c, d
    <3> QED BY <2>1, <3>1, <3>2, FloatIsInt
  <2> HIDE DEF b, s, c, d
  <2>4. c <= b + s + RoundingError
    <3>1. CASE c - s <= b
      BY <2>2, <3>1
    <3>2. CASE b <= d /\ Precision * Abs(d - (c - s)) <= shaft.targetFreq
      <4>1. d - (c - s) \in Int
        BY <2>2, <2>3
      <4>2. -(d - (c - s)) <= RoundingError
        BY <2>2, <3>2, <4>1
      <4> QED BY <2>2, <2>3, <3>2, <4>2
    <3> QED BY <2>3, <3>1, <3>2
  <2>5. PICK f \in Nat : arr = Hz(f) /\ f <= c
    BY RateBounds DEF c
  <2>6. f <= b + s + RoundingError /\ b + s + RoundingError \in Int
    BY <2>2, <2>4, <2>5
  <2> QED BY <2>5, <2>6, HzMono DEF b, s
<1> QED BY <1>1, RateInvariant, PTL DEF MotorSafety, GentleHalt

\* No tick changes the pulse rate by more than two steps of the ramp and their
\* roundings (app_motor.c:103-108, 134, 145).
THEOREM SlewIsBounded == MotorSafety => SlewBounded
<1>1. MotorIInv /\ RateInv /\ [MotorNext]_motorVars
        => [ProfileSet /\ timerOn /\ timerOn' => Abs(arr' - arr) <= Slew(2)]_motorVars
  <2> SUFFICES ASSUME MotorIInv, RateInv, MotorNext, ProfileSet, timerOn, timerOn'
               PROVE  Abs(arr' - arr) <= Slew(2)
    OBVIOUS
  <2> DEFINE n == shaft.accelStepPerMs + RoundingError
  <2>1. Moving
    BY DEF MotorIInv, PulseGate
  <2>2. /\ n \in Nat /\ 2 * n \in Nat /\ currentFreq \in Nat
    BY <2>1, TickFacts, ErrorFacts
  <2>3. CASE arr' = arr
    <3>1. (2 * n) \div Grain \in Nat
      BY <2>2, FloatIsInt, DivNat
    <3> HIDE DEF n
    <3>2. arr' - arr = 0
      BY <2>3 DEF MotorIInv, TypeOK, RampType
    <3> QED BY <3>1, <3>2 DEF Abs, Slew, n
  <2>4. CASE arr' # arr
    <3>1. KinematicTick /\ Moving'
      <4>1. ~InStart
        BY DEF MotorIInv, PlaceInv
      <4>2. KinematicTick
        BY <2>4, <4>1 DEF MotorNext, RequestProfile, CalculateProfile, StartSteps, StartArm,
             StartSetArr, StartSetCcr, StartTimer, Stop, MotorReset, InStart
      <4> QED BY <4>2 DEF KinematicTick, TickAccelerate, TickDecelerate, ShutDown, Moving
    <3>2. /\ currentFreq' \in Int /\ shaft.startFreq <= currentFreq'
          /\ currentFreq' <= currentFreq + n /\ currentFreq <= currentFreq' + n
      BY <3>1, TickStep
    <3>3. arr' = currentFreq' \div Grain
      BY <3>1, TickRate DEF Hz
    <3>4. PICK f \in Nat : /\ arr = f \div Grain /\ f <= currentFreq
                           /\ f = currentFreq \/ currentFreq <= f + n
      BY RateBounds DEF Hz
    <3>5. shaft.startFreq \in Nat
      BY <2>1, TickFacts
    <3> HIDE DEF n
    <3>6. /\ currentFreq' \in Nat
          /\ currentFreq' <= f + 2 * n /\ f <= currentFreq' + 2 * n
      <4>1. currentFreq' \in Nat
        BY <3>2, <3>5
      <4> QED BY <2>2, <3>2, <3>4, <4>1, TwoSteps
    <3>7. (2 * n) \div Grain + 1 \in Nat /\ f \div Grain \in Nat /\ currentFreq' \div Grain \in Nat
      <4>1. (2 * n) \div Grain \in Nat /\ f \div Grain \in Nat
            /\ currentFreq' \div Grain \in Nat
        BY <2>2, <3>6, FloatIsInt, DivNat, Zenon
      <4> QED BY <4>1
    <3>8. Abs(arr' - arr) <= (2 * n) \div Grain + 1
      <4>1. CASE f <= currentFreq'
        <5>1. /\ f \div Grain <= currentFreq' \div Grain
              /\ currentFreq' \div Grain <= f \div Grain + ((2 * n) \div Grain + 1)
          BY <2>2, <3>6, <4>1, FloatIsInt, DivDiff, Zenon
        <5> QED BY <3>3, <3>4, <3>7, <5>1, AbsBound
      <4>2. CASE currentFreq' <= f
        <5>1. /\ currentFreq' \div Grain <= f \div Grain
              /\ f \div Grain <= currentFreq' \div Grain + ((2 * n) \div Grain + 1)
          BY <2>2, <3>6, <4>2, FloatIsInt, DivDiff, Zenon
        <5> QED BY <3>3, <3>4, <3>7, <5>1, AbsBound
      <4> QED BY <3>6, <4>1, <4>2
    <3> QED BY <3>8 DEF Slew, n
  <2> QED BY <2>3, <2>4
<1> QED BY <1>1, RateInvariant, PTL DEF MotorSafety, SlewBounded

-----------------------------------------------------------------------------
(* The drive implements the life cycle. *)

\* Every step of the drive is a step of MotionPhases or leaves its variables
\* alone (the liveness part of ImplementsPhases is left to the model checker).
THEOREM LifeCycle == MotorSafety => PhasesSafety
<1>1. MotorInit => Phases!PhaseInit
  BY DEF MotorInit, Phases!PhaseInit, PhaseOf, States
<1>2. MotorIInv /\ [MotorNext]_motorVars
        => [Phases!PhaseNext]_<<PhaseOf[currentState], dir, timerOn>>
  <2> SUFFICES ASSUME MotorIInv, [MotorNext]_motorVars
               PROVE  \/ Phases!PhaseNext
                      \/ UNCHANGED <<PhaseOf[currentState], dir, timerOn>>
    OBVIOUS
  <2> USE DEF PhaseOf, States
  <2>1. ASSUME NEW rpm, NEW accel, NEW ms, RequestProfile(rpm, accel, ms)
        PROVE  UNCHANGED <<PhaseOf[currentState], dir, timerOn>>
    BY <2>1 DEF RequestProfile, CalculateProfile
  <2>2. ASSUME NEW d \in BOOLEAN, StartArm(d) PROVE Phases!Launch
    BY <2>2 DEF StartArm, Phases!Launch, MotorIInv, PlaceInv, PulseGate, Moving
  <2>3. StartSetArr \/ StartSetCcr => UNCHANGED <<PhaseOf[currentState], dir, timerOn>>
    BY DEF StartSetArr, StartSetCcr
  <2>4. StartTimer => Phases!Energise
    BY DEF StartTimer, Phases!Energise, MotorIInv, PlaceInv, InStart
  <2>5. Stop => Phases!Halt
    BY DEF Stop, StoppableStates, Phases!Halt, MotorIInv, PulseGate, Moving, InStart
  <2>6. TickAccelerate => Phases!Arrive \/ UNCHANGED <<PhaseOf[currentState], dir, timerOn>>
    BY DEF TickAccelerate, Phases!Arrive
  <2>7. TickDecelerate => Phases!Land \/ UNCHANGED <<PhaseOf[currentState], dir, timerOn>>
    BY DEF TickDecelerate, ShutDown, Phases!Land, MotorIInv, PulseGate, PlaceInv, Moving
  <2>8. MotorReset => Phases!PowerCut
    BY DEF MotorReset, Phases!PowerCut
  <2>9. UNCHANGED motorVars => UNCHANGED <<PhaseOf[currentState], dir, timerOn>>
    BY DEF motorVars
  <2> QED BY <2>1, <2>2, <2>3, <2>4, <2>5, <2>6, <2>7, <2>8, <2>9
          DEF MotorNext, StartSteps, KinematicTick, Phases!PhaseNext
<1> QED BY <1>1, <1>2, MotorInvariant, PTL DEF MotorSafety, PhasesSafety
-----------------------------------------------------------------------------
(* The claims of the source that the drive breaks, without what breaks them. *)

\* Every motion has a profile that a client asked for.
RangeInv == FirstRpmInRange /\ (Moving \/ mpc # "idle") => ProfileSet

LEMMA NextRange == MotorIInv /\ RangeInv /\ [MotorNext]_motorVars => RangeInv'
<1> SUFFICES ASSUME MotorIInv, RangeInv, [MotorNext]_motorVars, FirstRpmInRange,
                    (Moving \/ mpc # "idle")'
             PROVE  ProfileSet'
  BY DEF RangeInv
<1>1. ASSUME NEW rpm \in RpmRegs, NEW accel \in AccelRegs, NEW ms \in MicrostepRegs,
             RpmAllowed(rpm), RequestProfile(rpm, accel, ms)
      PROVE  ProfileSet'
  <2>1. ClampedRPM(rpm) \in Nat \ {0}
    BY DriveAssumption, RegisterAssumption, SMT DEF ClampedRPM
  <2>2. shaft'.targetRPM = NewRPM(rpm)
    BY <1>1 DEF RequestProfile, CalculateProfile, Profile
  <2>3. NewRPM(rpm) = IF ClampedRPM(rpm) < MaxRPM THEN ClampedRPM(rpm) ELSE shaft.targetRPM
    BY DEF NewRPM
  <2> QED BY <2>3, <1>1, <2>1, <2>2 DEF RpmAllowed, ProfileSet
<1>2. CASE MotorReset
  BY <1>2 DEF MotorReset, Moving
<1>3. CASE StartSteps \/ Stop \/ KinematicTick \/ UNCHANGED motorVars
  <2>1. shaft' = shaft /\ (Moving \/ mpc # "idle")
    BY <1>3 DEF motorVars, StartSteps, StartArm, StartSetArr, StartSetCcr, StartTimer, Stop,
                StoppableStates, KinematicTick, TickAccelerate, TickDecelerate, Moving
  <2> QED BY <2>1 DEF RangeInv, ProfileSet
<1> QED BY <1>1, <1>2, <1>3 DEF MotorNext

\* With a first RPM in range a decelerating motor never gets faster
\* (main.c:351): the run stop_first_fast shows that it may without.
THEOREM DescentSlows ==
  ASSUME FirstRpmInRange
  PROVE  MotorSafety => DecelerationSlows
<1>1. MotorInit => RangeInv
  BY DEF MotorInit, RangeInv, Moving
<1>2. MotorIInv /\ RangeInv /\ [MotorNext]_motorVars
        => [currentState = "DECELERATING" => currentFreq' <= currentFreq]_motorVars
  <2> SUFFICES ASSUME MotorIInv, RangeInv, MotorNext, currentState = "DECELERATING"
               PROVE  currentFreq' <= currentFreq
    OBVIOUS
  <2>1. currentFreq \in Nat /\ mpc # "profiled" /\ ProfileSet
    BY TickFacts DEF RangeInv, Moving, MotorIInv, PlaceInv
  <2>2. CASE TickDecelerate
    BY <2>1, <2>2, DescentTick
  <2>3. CASE MotorReset
    BY <2>1, <2>3, SMT DEF MotorReset
  <2>4. currentFreq' = currentFreq \/ TickDecelerate \/ MotorReset
    BY <2>1 DEF MotorNext, RequestProfile, ProfileStates, StartSteps, StartArm, StartSetArr,
                StartSetCcr, StartTimer, Stop, KinematicTick, TickAccelerate
  <2> QED BY <2>1, <2>2, <2>3, <2>4, SMT
<1> QED BY <1>1, <1>2, NextRange, MotorInvariant, PTL DEF MotorSafety, DecelerationSlows

\* A step that the rounding of a sum cannot lose raises the frequency at every
\* tick of a climb (app_motor.c:134): the run lost_step shows what may become of
\* a smaller one.
THEOREM SteepRampsClimb == MotorSafety => SteepClimbRises
<1>1. MotorIInv /\ [MotorNext]_motorVars
        => [/\ ProfileSet /\ shaft.targetFreq < Precision * shaft.accelStepPerMs
            /\ TickAccelerate
            => currentFreq' > currentFreq \/ currentState' = "CRUISING"]_motorVars
  <2> SUFFICES ASSUME MotorIInv, ProfileSet, TickAccelerate,
                      shaft.targetFreq < Precision * shaft.accelStepPerMs,
                      currentState' # "CRUISING"
               PROVE  currentFreq' > currentFreq
    OBVIOUS
  <2> DEFINE s == shaft.accelStepPerMs  t == shaft.targetFreq  c == currentFreq
             d == currentFreq'
  <2>1. s \in Int /\ 0 <= s /\ t \in Int /\ c \in Int
    BY TickFacts DEF TickAccelerate, Moving
  <2>2. d \in Int /\ c <= d /\ Precision * Abs(d - (c + s)) <= t
    BY ClimbTick, FloatIsInt
  <2>3. t < Precision * s
    OBVIOUS
  <2> HIDE DEF s, t, c, d
  <2>4. c # d
    <3> SUFFICES ASSUME c = d PROVE FALSE
      OBVIOUS
    <3>1. Abs(d - (c + s)) = s
      BY <2>1, <2>2 DEF Abs
    <3>2. Precision * s \in Int
      BY <2>1, FloatIsInt, SMT
    <3> QED BY <2>1, <2>2, <2>3, <3>1, <3>2
  <2>5. d > c
    BY <2>1, <2>2, <2>4
  <2> QED BY <2>5 DEF c, d
<1> QED BY <1>1, MotorInvariant, PTL DEF MotorSafety, SteepClimbRises

\* One tick of at least two does not climb a wide profile.
LEMMA WideTakesTwo ==
  ASSUME NEW P \in Nat \ {0}, NEW T \in Nat, T > 1, NEW D \in Nat, NEW t \in Nat,
         NEW s \in Nat, P * Abs(T * s - D) <= 3 * D + P * T, P * D <= P * s + t
  PROVE  P * D <= 2 * t + 3 * D + 2 * P
<1> DEFINE u == P * s - P  x == P * D  v == P * T
<1>1. P * D \in Nat /\ P * s \in Nat /\ P * T \in Nat /\ T * s \in Nat /\ P * (T * s) \in Nat
  BY SMT
<1>2. P * (T * s) <= x + 3 * D + v
  <2>1. T * s - D <= Abs(T * s - D) /\ Abs(T * s - D) \in Nat
    BY <1>1, SMT DEF Abs
  <2>2. P * (T * s - D) <= P * Abs(T * s - D)
    BY <1>1, <2>1, MulStrict
  <2>3. P * (T * s - D) = P * (T * s) - P * D
    BY <1>1, SMT
  <2>4. P * Abs(T * s - D) \in Int
    BY <2>1, SMT
  <2> QED BY <1>1, <2>2, <2>3, <2>4
<1>3. T * u = P * (T * s) - v
  BY SMT
<1>4. u \in Int /\ x \in Nat /\ x <= u + P + t /\ T * u <= x + 3 * D
  BY <1>1, <1>2, <1>3
<1> HIDE DEF u, x, v
<1>5. CASE u <= 0
  BY <1>4, <1>5 DEF x
<1>6. CASE u >= 0
  <2>1. 2 * u <= T * u /\ T * u \in Int
    BY <1>4, <1>6, MulMono, SMT
  <2>2. x <= 2 * t + 3 * D + 2 * P
    BY <1>4, <2>1
  <2> QED BY <2>2 DEF x
<1> QED BY <1>4, <1>5, <1>6

\* Every climb takes more than one tick.
LongInv ==
  /\ ProfileSet => shaft.totalMs > 1
  /\ ProfileSet /\ currentState = "CRUISING" => legTicks > 1

LEMMA NextLong ==
  ASSUME \A accel \in AccelRegs : RampMs(accel) > 1,
         MotorIInv, ProfileSet => Wide, LongInv, [MotorNext]_motorVars
  PROVE  LongInv'
<1>1. ASSUME NEW rpm \in RpmRegs, NEW accel \in AccelRegs, NEW ms \in MicrostepRegs,
             RequestProfile(rpm, accel, ms)
      PROVE  LongInv'
  <2>1. shaft'.totalMs = RampMs(accel) /\ currentState' = "STOPPED"
    BY <1>1 DEF RequestProfile, CalculateProfile, ProfileStates, Profile
  <2> QED BY <2>1 DEF LongInv
<1>2. CASE MotorReset
  BY <1>2 DEF MotorReset, LongInv, ProfileSet
<1>3. CASE StartSteps \/ Stop \/ TickDecelerate \/ UNCHANGED motorVars
  <2>1. /\ shaft' = shaft
        /\ currentState' = "CRUISING" => currentState = "CRUISING" /\ legTicks' = legTicks
    BY <1>3 DEF motorVars, StartSteps, StartArm, StartSetArr, StartSetCcr, StartTimer, Stop,
                TickDecelerate
  <2> QED BY <2>1 DEF LongInv, ProfileSet
<1>4. CASE TickAccelerate
  <2>1. /\ currentState = "ACCELERATING" /\ Moving /\ shaft' = shaft
        /\ legTicks' = OneMoreTick
    BY <1>4 DEF TickAccelerate, Moving
  <2>2. ASSUME ProfileSet, currentState' = "CRUISING", legTicks = 0 PROVE FALSE
    <3> DEFINE b == shaft.startFreq  s == shaft.accelStepPerMs  t == shaft.targetFreq
               T == shaft.totalMs  D == t - b
    <3>1. /\ b \in Int /\ 0 <= b /\ t \in Nat /\ s \in Nat /\ T \in Nat /\ T > 1 /\ b <= t
          /\ D \in Nat /\ currentFreq \in Int
      BY <2>1, <2>2, TickFacts DEF LongInv
    <3>2. Precision * Abs(T * s - D) <= 3 * D + Precision * T
      BY <2>1, <2>2 DEF MotorIInv, ProfileInv
    <3>3. currentFreq = b
      <4>1. Precision * Abs(currentFreq - (b + 0 * s)) <= 0 * t
        BY <2>1, <2>2, FloatIsInt DEF MotorIInv, RampNearLine, ClimbNearLine
      <4> HIDE DEF b, s, t
      <4>2. currentFreq - (b + 0 * s) = currentFreq - b /\ 0 * t = 0
        BY <3>1, SMT
      <4>3. Precision * Abs(currentFreq - b) <= 0
        BY <4>1, <4>2
      <4>4. Abs(currentFreq - b) \in Nat
        BY <3>1, AbsNat
      <4>5. Abs(currentFreq - b) = 0
        <5>1. Abs(currentFreq - b) # 0 => Precision * Abs(currentFreq - b) \in Nat \ {0}
          BY <4>4, FloatIsInt, MulPos
        <5> QED BY <4>3, <5>1
      <4> QED BY <3>1, <4>5 DEF Abs
    <3>4. \/ t <= b + s
          \/ Precision * Abs(t - (b + s)) <= t
      BY <1>4, <2>2, <3>3, ClimbTick
    <3>5. Precision * D > 2 * t + 3 * D + 2 * Precision
      BY <2>2 DEF Wide
    <3> HIDE DEF b, s, t, T, D
    <3>6. Precision * D <= Precision * s + t
      <4>1. Precision * s \in Nat /\ Precision * D \in Nat /\ Precision \in Nat \ {0}
        BY <3>1, FloatIsInt, SMT
      <4>2. CASE t <= b + s
        <5>1. D <= s
          BY <3>1, <4>2 DEF D
        <5>2. Precision * D <= Precision * s
          BY <3>1, <4>1, <5>1, MulMono
        <5> QED BY <3>1, <4>1, <5>2
      <4>3. CASE Precision * Abs(t - (b + s)) <= t
        <5>1. D - s <= Abs(t - (b + s)) /\ Abs(t - (b + s)) \in Nat
          BY <3>1, SMT DEF Abs, D
        <5>2. Precision * (D - s) <= Precision * Abs(t - (b + s))
          BY <3>1, <4>1, <5>1, MulStrict
        <5>3. Precision * (D - s) = Precision * D - Precision * s
          BY <3>1, <4>1, SMT
        <5>4. Precision * Abs(t - (b + s)) \in Int
          BY <4>1, <5>1, SMT
        <5> QED BY <3>1, <4>1, <4>3, <5>2, <5>3, <5>4
      <4> QED BY <3>4, <4>2, <4>3
    <3>7. Precision * D <= 2 * t + 3 * D + 2 * Precision
      BY <3>1, <3>2, <3>6, FloatIsInt, WideTakesTwo
    <3>8. Precision * D \in Int
      BY <3>1, FloatIsInt, SMT
    <3> QED BY <3>1, <3>5, <3>7, <3>8, FloatIsInt
  <2>3. legTicks \in Nat
    BY DEF MotorIInv, TypeOK, RampType
  <2> QED BY <2>1, <2>2, <2>3, FloatIsInt DEF LongInv, OneMoreTick, ProfileSet
<1> QED BY <1>1, <1>2, <1>3, <1>4 DEF MotorNext, KinematicTick

\* A cruising motor pulses at the target frequency (app_motor.c:141) if no
\* client asks for a climb of a single tick and no profile is so narrow that
\* the roundings end its climb with the first: the run start_race shows what
\* may become of one.
THEOREM LongRampsArrive ==
  ASSUME \A accel \in AccelRegs : RampMs(accel) > 1
  PROVE  MotorSafety /\ [](ProfileSet => Wide) => []CruiseAlwaysAtTarget
<1>1. MotorInit => LongInv
  BY DEF MotorInit, LongInv, ProfileSet
<1>2. MotorIInv /\ (ProfileSet => Wide) /\ LongInv /\ [MotorNext]_motorVars => LongInv'
  BY NextLong
<1>3. LongInv /\ CruiseAtTarget => CruiseAlwaysAtTarget
  BY DEF LongInv, CruiseAtTarget, CruiseAlwaysAtTarget
<1> QED BY <1>1, <1>2, <1>3, MotorInvariant, CruiseReached, PTL DEF MotorSafety
=============================================================================
