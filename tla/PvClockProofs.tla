--------------------------- MODULE PvClockProofs ---------------------------
(***************************************************************************)
(* The clock of Assignment 3, for every pair of rates, every wall clock,   *)
(* every number of updates and every place where they meet a read.         *)
(***************************************************************************)
EXTENDS PvClock, TLAPS

----------------------------------------------------------------------------
(* Arithmetic.                                                             *)

LEMMA ModIn == ASSUME NEW x \in Int, NEW w \in Nat \ {0} PROVE x % w \in 0..(w - 1)
  OBVIOUS

LEMMA ModSmall == ASSUME NEW x \in Nat, NEW w \in Nat, x < w PROVE x % w = x
  OBVIOUS

\* A difference of two words is right although the order of its operands in
\* time is not known.
LEMMA ModDifference ==
    ASSUME NEW a \in Nat, NEW b \in Nat, NEW w \in Nat, a <= b, b < w
    PROVE  /\ (b - a) % w = b - a
           /\ (((0 - a) % w) + b) % w = b - a
  <1>1. CASE a = 0
    <2>1. (0 - a) % w = 0 BY <1>1, ModSmall
    <2> QED BY <1>1, <2>1, ModSmall
  <1>2. CASE a > 0
    <2>1. (0 - a) % w = w - a BY <1>2
    <2>2. w <= (w - a) + b /\ (w - a) + b < 2 * w BY <1>2
    <2>3. ((w - a) + b) % w = b - a
      <3> DEFINE x == (w - a) + b
      <3>1. x \in Int /\ w <= x /\ x < 2 * w BY <2>2
      <3> HIDE DEF x
      <3>2. x % w = x - w BY <3>1
      <3> QED BY <3>2 DEF x
    <2> QED BY <2>1, <2>3, ModSmall
  <1> QED BY <1>1, <1>2

LEMMA TimesMono ==
    ASSUME NEW a \in Nat, NEW b \in Nat, NEW c \in Nat, a <= b
    PROVE  a * c \in Nat /\ b * c \in Nat /\ a * c <= b * c
  OBVIOUS

LEMMA DivMono ==
    ASSUME NEW a \in Nat, NEW b \in Nat, NEW c \in Nat \ {0}, a <= b
    PROVE  a \div c \in Nat /\ b \div c \in Nat /\ a \div c <= b \div c /\ a \div c <= a
  OBVIOUS

LEMMA DivBack ==
    ASSUME NEW a \in Nat, NEW c \in Nat \ {0}, NEW s \in Nat, a \div c >= s
    PROVE  a >= s * c
  OBVIOUS

LEMMA DivZero == ASSUME NEW c \in Nat \ {0} PROVE 0 \div c = 0
  OBVIOUS

----------------------------------------------------------------------------
(* The conversion of a difference of the counter.                          *)

Passed(q, d) == Mul64_32(Shift(d, q.shift), q.mul)

\* A rate that all pairs keep to.
Keeps(s) == \A r \in Rates, d \in 0..MaxTsc :
               (Shift(d, r.shift) * r.mul) \div Unit <= s * d
Speed == CHOOSE s \in 0..Word : s * MaxTsc < Word /\ Keeps(s)

LEMMA SpeedType == Speed \in Nat /\ Speed * MaxTsc < Word /\ Keeps(Speed)
  <1>1. \E s \in 0..Word : s * MaxTsc < Word /\ Keeps(s)
    BY WideAssumption DEF Keeps
  <1>2. Speed \in 0..Word /\ Speed * MaxTsc < Word /\ Keeps(Speed)
    BY <1>1 DEF Speed
  <1> QED BY <1>2, RatesAssumption

\* The shifts that occur are those of the pairs.
LEMMA PowerType ==
    ASSUME NEW h \in Shifts
    PROVE  /\ h \in Int
           /\ h < 0 => 2^(-h) \in Nat \ {0}
           /\ h >= 0 => 2^h \in Nat \ {0}
  BY RatesAssumption, PowerAssumption DEF Shifts

LEMMA ShiftType ==
    ASSUME NEW h \in Shifts, NEW d \in Times
    PROVE  Shift(d, h) \in Times
  <1>1. Word \in Nat \ {0} BY RatesAssumption
  <1>2. CASE h < 0
    <2>1. 2^(-h) \in Nat \ {0} BY <1>2, PowerType
    <2>2. d \div 2^(-h) \in Nat /\ d \div 2^(-h) <= d
      BY <2>1, DivMono DEF Times
    <2> QED BY <1>1, <1>2, <2>2 DEF Shift, Times
  <1>3. CASE h >= 0
    <2>1. h \in Int /\ 2^h \in Nat BY <1>3, PowerType
    <2>2. d * 2^h \in Int BY <2>1 DEF Times
    <2>3. Shift(d, h) = (d * 2^h) % Word BY <1>3, <2>1 DEF Shift
    <2>4. (d * 2^h) % Word \in 0..(Word - 1) BY <1>1, <2>2, ModIn
    <2> QED BY <2>3, <2>4 DEF Times
  <1> QED BY <1>2, <1>3, PowerType

LEMMA MulType ==
    ASSUME NEW m \in Muls, NEW d \in Times
    PROVE  Mul64_32(d, m) \in Times
  <1>1. Word \in Nat \ {0} /\ Unit \in Nat \ {0} BY RatesAssumption
  <1>2. m \in Nat BY RatesAssumption DEF Muls
  <1>3. d * m \in Nat BY <1>2, TimesMono DEF Times
  <1>4. (d * m) \div Unit \in Int BY <1>1, <1>3, DivMono
  <1> QED BY <1>1, <1>4, ModIn DEF Mul64_32, Times

\* A shift within the counter's range keeps every bit and the order.
LEMMA ShiftMono ==
    ASSUME NEW q \in Rates, NEW c \in 0..MaxTsc, NEW d \in 0..MaxTsc, c <= d
    PROVE  /\ Shift(c, q.shift) \in Nat /\ Shift(d, q.shift) \in Nat
           /\ Shift(c, q.shift) <= Shift(d, q.shift)
           /\ c = 0 => Shift(c, q.shift) = 0
  <1>1. q.shift \in Shifts BY DEF Shifts
  <1>2. Word \in Nat \ {0} /\ MaxTsc \in Nat BY RatesAssumption
  <1>3. CASE q.shift < 0
    <2> DEFINE p == 2^(-q.shift)
    <2>1. p \in Nat \ {0} BY <1>1, <1>3, PowerType
    <2>2. Shift(c, q.shift) = c \div p /\ Shift(d, q.shift) = d \div p
      BY <1>3 DEF Shift
    <2> HIDE DEF p
    <2>3. c \in Nat /\ d \in Nat BY <1>2
    <2>4. c \div p \in Nat /\ d \div p \in Nat /\ c \div p <= d \div p
      BY <2>1, <2>3, DivMono
    <2>5. c = 0 => c \div p = 0 BY <2>1, DivZero
    <2> QED BY <2>2, <2>4, <2>5
  <1>4. CASE q.shift >= 0
    <2> DEFINE p == 2^q.shift
    <2>1. p \in Nat \ {0} BY <1>1, <1>4, PowerType
    <2>2. Shift(c, q.shift) = (c * p) % Word /\ Shift(d, q.shift) = (d * p) % Word
      BY <1>1, <1>4, PowerType DEF Shift
    <2>3. MaxTsc * p < Word BY <1>4, WideAssumption
    <2> HIDE DEF p
    <2>4. c * p \in Nat /\ d * p \in Nat /\ c * p <= d * p /\ d * p <= MaxTsc * p
          /\ MaxTsc * p \in Nat
      BY <1>2, <2>1, TimesMono
    <2>5. (c * p) % Word = c * p /\ (d * p) % Word = d * p
      BY <1>2, <2>3, <2>4, ModSmall
    <2>6. c = 0 => c * p = 0 BY <2>1
    <2> QED BY <2>2, <2>4, <2>5, <2>6
  <1> QED BY <1>1, <1>3, <1>4, PowerType

\* Within the counter's range the clock does not wrap and does not run back.
LEMMA PassedMono ==
    ASSUME NEW q \in Rates, NEW c \in 0..MaxTsc, NEW d \in 0..MaxTsc, c <= d
    PROVE  /\ Passed(q, c) \in Nat /\ Passed(q, d) \in Nat
           /\ Passed(q, c) <= Passed(q, d)
           /\ Passed(q, d) <= Speed * d
           /\ c = 0 => Passed(q, c) = 0
  <1> DEFINE x == Shift(c, q.shift)
             y == Shift(d, q.shift)
             m == q.mul
             u == (x * m) \div Unit
             v == (y * m) \div Unit
  <1>1. x \in Nat /\ y \in Nat /\ x <= y /\ (c = 0 => x = 0) BY ShiftMono
  <1>2. m \in Nat /\ Unit \in Nat \ {0} /\ Word \in Nat /\ MaxTsc \in Nat BY RatesAssumption
  <1>3. v <= Speed * d BY SpeedType DEF Keeps
  <1>4. Passed(q, c) = u % Word /\ Passed(q, d) = v % Word BY DEF Passed, Mul64_32
  <1> HIDE DEF x, y, m
  <1>5. x * m \in Nat /\ y * m \in Nat /\ x * m <= y * m BY <1>1, <1>2, TimesMono
  <1>6. u \in Nat /\ v \in Nat /\ u <= v BY <1>2, <1>5, DivMono
  <1>7. c = 0 => u = 0
    <2>1. c = 0 => x * m = 0 BY <1>1, <1>2
    <2> QED BY <1>2, <2>1, DivZero
  <1> HIDE DEF u, v
  <1>8. Speed * d \in Nat /\ Speed * d <= Speed * MaxTsc /\ Speed * MaxTsc \in Nat
    <2>1. d * Speed \in Nat /\ d * Speed <= MaxTsc * Speed /\ MaxTsc * Speed \in Nat
      BY <1>2, SpeedType, TimesMono
    <2>2. d * Speed = Speed * d /\ MaxTsc * Speed = Speed * MaxTsc
      BY <1>2, SpeedType
    <2> QED BY <2>1, <2>2
  <1>9. u < Word /\ v < Word BY <1>2, <1>3, <1>6, <1>8, SpeedType
  <1>10. u % Word = u /\ v % Word = v BY <1>2, <1>6, <1>9, ModSmall
  <1> QED BY <1>3, <1>4, <1>6, <1>7, <1>10

----------------------------------------------------------------------------
(* The hypervisor's side.                                                  *)

HostStates == {"idle", "tsc_timestamp", "system_time", "mul", "shift", "end"}
WallStates == {"idle", "sec", "nsec", "end"}
TiType == [version : Nat, tsc_timestamp : Instants, system_time : Times,
           mul : Muls, shift : Shifts]
WcType == [version : Nat, sec : Nat, nsec : Nat]

\* A record that a clock may follow: one pair of rates, and a start that the
\* clock can have reached by then.
Runs(r) ==
    /\ r \in TimeRecord
    /\ \E q \in Rates : r.mul = q.mul /\ r.shift = q.shift
    /\ r.system_time <= Speed * r.tsc_timestamp

\* A version is even between updates and counts them.
Counts(version, n, max, at) ==
    version + 2 * n = 2 * max - (IF at = "idle" THEN 0 ELSE 1)

\* The fields of ti that the update under way has brought to ticking.
Stored ==
    /\ host \in {"system_time", "mul", "shift", "end", "idle"} =>
          ti.tsc_timestamp = ticking.tsc_timestamp
    /\ host \in {"mul", "shift", "end", "idle"} => ti.system_time = ticking.system_time
    /\ host \in {"shift", "end", "idle"} => ti.mul = ticking.mul
    /\ host \in {"end", "idle"} => ti.shift = ticking.shift

WallStored ==
    /\ whost \in {"nsec", "end", "idle"} => wc.sec = setting.sec
    /\ whost \in {"end", "idle"} => wc.nsec = setting.nsec

HostInv ==
    /\ tsc \in Instants
    /\ Runs(ticking) /\ ticking.tsc_timestamp <= tsc
    /\ ti \in TiType /\ wc \in WcType /\ setting \in WallClocks
    /\ left \in [ti : Nat, wc : Nat]
    /\ host \in HostStates /\ whost \in WallStates
    /\ Counts(ti.version, left.ti, MaxUpdates.ti, host)
    /\ Counts(wc.version, left.wc, MaxUpdates.wc, whost)
    /\ Stored /\ WallStored

\* What the clock shows while a record is in force.
LEMMA ValueMono ==
    ASSUME NEW r, Runs(r), NEW c \in Instants, NEW d \in Instants,
           r.tsc_timestamp <= c, c <= d
    PROVE  /\ Value(r, c) \in Nat /\ Value(r, d) \in Nat /\ Value(r, c) <= Value(r, d)
           /\ Value(r, d) <= Speed * d /\ Value(r, d) < Word
           /\ Value(r, r.tsc_timestamp) = r.system_time
  <1>1. PICK q \in Rates : r.mul = q.mul /\ r.shift = q.shift BY DEF Runs
  <1>2. \A e : Value(r, e) = Passed(q, e - r.tsc_timestamp) + r.system_time
    BY <1>1 DEF Value, Passed
  <1>3. PICK t, st : t = r.tsc_timestamp /\ st = r.system_time OBVIOUS
  <1>4. t \in 0..MaxTsc /\ st \in Nat /\ st <= Speed * t
    BY <1>3 DEF Runs, TimeRecord, Instants, Times
  <1>5. MaxTsc \in Nat /\ Word \in Nat /\ c \in 0..MaxTsc /\ d \in 0..MaxTsc
    BY RatesAssumption DEF Instants
  <1>6. c - t \in 0..MaxTsc /\ d - t \in 0..MaxTsc /\ c - t <= d - t /\ 0 \in 0..MaxTsc
    BY <1>3, <1>4, <1>5
  <1>7. /\ Passed(q, c - t) \in Nat /\ Passed(q, d - t) \in Nat
        /\ Passed(q, c - t) <= Passed(q, d - t)
        /\ Passed(q, d - t) <= Speed * (d - t)
    BY <1>6, PassedMono
  <1>8. Passed(q, 0) = 0
    BY <1>6, PassedMono
  <1>9. Value(r, c) = Passed(q, c - t) + st /\ Value(r, d) = Passed(q, d - t) + st
    BY <1>2, <1>3
  <1>10. Value(r, t) = st
    <2>1. t - t = 0 BY <1>4
    <2>2. Value(r, t) = Passed(q, 0) + st BY <1>2, <1>3, <2>1
    <2> QED BY <1>4, <1>8, <2>2
  <1>11. Value(r, d) <= Speed * d
    <2>1. Speed * (d - t) + Speed * t = Speed * d
      BY <1>4, <1>5, SpeedType
    <2>2. Speed * (d - t) \in Int /\ Speed * t \in Int
      BY <1>4, <1>5, SpeedType
    <2> QED BY <1>4, <1>7, <1>9, <2>1, <2>2
  <1>12. Speed * d <= Speed * MaxTsc /\ Speed * d \in Nat /\ Speed * MaxTsc \in Nat
    <2>1. d * Speed \in Nat /\ d * Speed <= MaxTsc * Speed /\ MaxTsc * Speed \in Nat
      BY <1>5, SpeedType, TimesMono
    <2>2. d * Speed = Speed * d /\ MaxTsc * Speed = Speed * MaxTsc
      BY <1>5, SpeedType
    <2> QED BY <2>1, <2>2
  <1>13. Value(r, d) < Word
    BY <1>4, <1>5, <1>7, <1>9, <1>11, <1>12, SpeedType
  <1> QED BY <1>3, <1>4, <1>7, <1>9, <1>10, <1>11, <1>13

LEMMA ClockType ==
    ASSUME HostInv
    PROVE  Clock \in Times /\ Clock <= Speed * tsc
  <1>1. Clock \in Nat /\ Clock < Word /\ Clock <= Speed * tsc
    <2>1. ticking.tsc_timestamp <= tsc /\ tsc <= tsc /\ tsc \in Instants /\ Runs(ticking)
      BY RatesAssumption DEF HostInv, Instants
    <2> QED BY <2>1, ValueMono DEF Clock
  <1> QED BY <1>1, RatesAssumption DEF Times

LEMMA HostInit == Init => HostInv
  <1> SUFFICES ASSUME Init PROVE HostInv
    OBVIOUS
  <1>1. PICK q \in Rates : ticking = [tsc_timestamp |-> 0, system_time |-> 0,
                                      mul |-> q.mul, shift |-> q.shift]
    BY DEF Init
  <1>2. q.mul \in Muls /\ q.shift \in Shifts BY DEF Muls, Shifts
  <1>3. 0 \in Instants /\ 0 \in Times /\ Speed \in Nat
    BY RatesAssumption, SpeedType DEF Instants, Times
  <1>4. Runs(ticking)
    BY <1>1, <1>2, <1>3 DEF Runs, TimeRecord
  <1>5. tsc = 0 /\ ticking.tsc_timestamp <= tsc
    BY <1>1 DEF Init
  <1>6. ti = [version |-> 0, tsc_timestamp |-> 0, system_time |-> 0,
              mul |-> q.mul, shift |-> q.shift]
    BY <1>1 DEF Init
  <1>7. ti \in TiType BY <1>2, <1>3, <1>6 DEF TiType
  <1>8. setting \in WallClocks /\ wc = [version |-> 0, sec |-> setting.sec, nsec |-> setting.nsec]
    BY DEF Init
  <1>9. wc \in WcType BY <1>8, WallAssumption DEF WcType
  <1>10. left \in [ti : Nat, wc : Nat] /\ left = MaxUpdates /\ host = "idle" /\ whost = "idle"
    BY RatesAssumption DEF Init
  <1>11. Counts(ti.version, left.ti, MaxUpdates.ti, host) /\ Counts(wc.version, left.wc, MaxUpdates.wc, whost)
    BY <1>6, <1>8, <1>10 DEF Counts
  <1>12. Stored /\ WallStored
    BY <1>1, <1>6, <1>8 DEF Stored, WallStored
  <1> QED BY <1>3, <1>4, <1>5, <1>7, <1>8, <1>9, <1>10, <1>11, <1>12
          DEF HostInv, HostStates, WallStates

LEMMA TickHost ==
    ASSUME HostInv, Tick
    PROVE  HostInv'
  <1>1. UNCHANGED hostVars /\ tsc' = tsc + 1 /\ tsc < MaxTsc /\ tsc \in Instants
    BY RatesAssumption DEF Tick, HostInv, Instants
  <1>2. tsc' \in Instants /\ tsc <= tsc'
    BY <1>1, RatesAssumption DEF Instants
  <1>3. ticking.tsc_timestamp <= tsc' /\ ticking' = ticking
    BY <1>1, <1>2, RatesAssumption DEF HostInv, Runs, TimeRecord, Instants, hostVars
  <1> QED BY <1>1, <1>2, <1>3 DEF HostInv, hostVars, Stored, WallStored

LEMMA BeginHost ==
    ASSUME HostInv, TimeBegin
    PROVE  HostInv' /\ Clock' = Clock
  <1>1. PICK q \in Rates :
          ticking' = [tsc_timestamp |-> tsc, system_time |-> Clock,
                      mul |-> q.mul, shift |-> q.shift]
    BY DEF TimeBegin
  <1>2. q.mul \in Muls /\ q.shift \in Shifts BY DEF Muls, Shifts
  <1>3. Runs(ticking') /\ ticking'.tsc_timestamp = tsc /\ ticking'.system_time = Clock
    BY <1>1, <1>2, ClockType DEF Runs, TimeRecord, HostInv
  <1>4. Clock' = Clock
    <2>1. tsc' = tsc BY DEF TimeBegin
    <2>2. tsc \in Instants /\ tsc <= tsc BY RatesAssumption DEF HostInv, Instants
    <2>3. Value(ticking', tsc) = Clock BY <1>3, <2>2, ValueMono
    <2> QED BY <2>1, <2>3 DEF Clock
  <1>5. /\ host = "idle" /\ host' = "tsc_timestamp" /\ left.ti > 0
        /\ ti' = [ti EXCEPT !.version = ti.version + 1]
        /\ left' = [left EXCEPT !.ti = left.ti - 1]
        /\ UNCHANGED <<tsc, wc, setting, whost>>
    BY DEF TimeBegin
  <1>6. ti' \in TiType /\ ti'.version = ti.version + 1
    BY <1>5 DEF HostInv, TiType
  <1>7. left' \in [ti : Nat, wc : Nat] /\ left'.ti = left.ti - 1 /\ left'.wc = left.wc
    BY <1>5 DEF HostInv
  <1>9. Counts(ti'.version, left'.ti, MaxUpdates.ti, host')
    <2>1. ti.version \in Nat /\ left.ti \in Nat /\ MaxUpdates.ti \in Nat
      BY RatesAssumption DEF HostInv, TiType
    <2>2. ti.version + 2 * left.ti = 2 * MaxUpdates.ti
      BY <1>5, <2>1 DEF HostInv, Counts
    <2> QED BY <1>5, <1>6, <1>7, <2>1, <2>2 DEF Counts
  <1>10. ticking'.tsc_timestamp <= tsc'
    BY <1>3, <1>5, RatesAssumption DEF HostInv, Instants
  <1>11. Stored' /\ WallStored'
    BY <1>5 DEF Stored, WallStored, HostInv
  <1> QED BY <1>3, <1>4, <1>5, <1>6, <1>7, <1>9, <1>10, <1>11 DEF HostInv, HostStates

LEMMA StoreHost ==
    ASSUME HostInv, TimeEnd \/ TimeStore("tsc_timestamp", "system_time")
                    \/ TimeStore("system_time", "mul") \/ TimeStore("mul", "shift")
                    \/ TimeStore("shift", "end")
    PROVE  HostInv' /\ Clock' = Clock
  <1>1. UNCHANGED <<tsc, ticking, wc, setting, left, whost>>
    BY DEF TimeEnd, TimeStore
  <1>2. Clock' = Clock BY <1>1 DEF Clock, Value
  <1>3. /\ ticking.tsc_timestamp \in Instants /\ ticking.system_time \in Times
        /\ ticking.mul \in Muls /\ ticking.shift \in Shifts
        /\ ti \in TiType
    BY DEF HostInv, Runs, TimeRecord
  <1>4. CASE TimeEnd
    <2>1. ti' = [ti EXCEPT !.version = ti.version + 1] /\ host = "end" /\ host' = "idle"
      BY <1>4 DEF TimeEnd
    <2>2. ti' \in TiType /\ ti'.version = ti.version + 1
      BY <1>3, <2>1 DEF TiType
    <2>3. Counts(ti'.version, left.ti, MaxUpdates.ti, host')
      <3>1. ti.version \in Nat /\ left.ti \in Nat /\ MaxUpdates.ti \in Nat
        BY RatesAssumption DEF HostInv, TiType
      <3> QED BY <2>1, <2>2, <3>1 DEF HostInv, Counts
    <2>4. Stored'
      BY <1>1, <1>3, <2>1 DEF HostInv, Stored, TiType
    <2> QED BY <1>1, <1>2, <2>1, <2>2, <2>3, <2>4 DEF HostInv, HostStates, WallStored
  <1>5. CASE TimeStore("tsc_timestamp", "system_time")
    <2>1. /\ ti' = [ti EXCEPT !.tsc_timestamp = ticking.tsc_timestamp]
          /\ host = "tsc_timestamp" /\ host' = "system_time"
      BY <1>5 DEF TimeStore
    <2>2. ti' \in TiType /\ ti'.version = ti.version
      BY <1>3, <2>1 DEF TiType
    <2>3. Stored'
      BY <1>1, <1>3, <2>1 DEF HostInv, Stored, TiType
    <2> QED BY <1>1, <1>2, <2>1, <2>2, <2>3 DEF HostInv, HostStates, WallStored, Counts
  <1>6. CASE TimeStore("system_time", "mul")
    <2>1. /\ ti' = [ti EXCEPT !.system_time = ticking.system_time]
          /\ host = "system_time" /\ host' = "mul"
      BY <1>6 DEF TimeStore
    <2>2. ti' \in TiType /\ ti'.version = ti.version
      BY <1>3, <2>1 DEF TiType
    <2>3. Stored'
      BY <1>1, <1>3, <2>1 DEF HostInv, Stored, TiType
    <2> QED BY <1>1, <1>2, <2>1, <2>2, <2>3 DEF HostInv, HostStates, WallStored, Counts
  <1>7. CASE TimeStore("mul", "shift")
    <2>1. /\ ti' = [ti EXCEPT !.mul = ticking.mul]
          /\ host = "mul" /\ host' = "shift"
      BY <1>7 DEF TimeStore
    <2>2. ti' \in TiType /\ ti'.version = ti.version
      BY <1>3, <2>1 DEF TiType
    <2>3. Stored'
      BY <1>1, <1>3, <2>1 DEF HostInv, Stored, TiType
    <2> QED BY <1>1, <1>2, <2>1, <2>2, <2>3 DEF HostInv, HostStates, WallStored, Counts
  <1>8. CASE TimeStore("shift", "end")
    <2>1. /\ ti' = [ti EXCEPT !.shift = ticking.shift]
          /\ host = "shift" /\ host' = "end"
      BY <1>8 DEF TimeStore
    <2>2. ti' \in TiType /\ ti'.version = ti.version
      BY <1>3, <2>1 DEF TiType
    <2>3. Stored'
      BY <1>1, <1>3, <2>1 DEF HostInv, Stored, TiType
    <2> QED BY <1>1, <1>2, <2>1, <2>2, <2>3 DEF HostInv, HostStates, WallStored, Counts
  <1> QED BY <1>4, <1>5, <1>6, <1>7, <1>8

LEMMA WallHost ==
    ASSUME HostInv, WallUpdate
    PROVE  HostInv' /\ Clock' = Clock
  <1>1. UNCHANGED <<tsc, ti, ticking, host>>
    BY DEF WallUpdate, WallBegin, WallStore, WallEnd
  <1>2. Clock' = Clock BY <1>1 DEF Clock, Value
  <1>3. /\ wc \in WcType /\ setting \in WallClocks /\ setting.sec \in Nat /\ setting.nsec \in Nat
        /\ wc.version \in Nat /\ left.wc \in Nat /\ MaxUpdates.wc \in Nat
    BY WallAssumption, RatesAssumption DEF HostInv, WcType
  <1>4. CASE WallBegin
    <2>1. /\ wc' = [wc EXCEPT !.version = wc.version + 1] /\ whost = "idle" /\ whost' = "sec"
          /\ left' = [left EXCEPT !.wc = left.wc - 1] /\ left.wc > 0 /\ setting' \in WallClocks
      BY <1>4 DEF WallBegin
    <2>2. wc' \in WcType /\ wc'.version = wc.version + 1
      BY <1>3, <2>1 DEF WcType
    <2>3. left' \in [ti : Nat, wc : Nat] /\ left'.ti = left.ti /\ left'.wc = left.wc - 1
      BY <1>3, <2>1 DEF HostInv
    <2>4. Counts(wc'.version, left'.wc, MaxUpdates.wc, whost')
      BY <1>3, <2>1, <2>2, <2>3 DEF HostInv, Counts
    <2>5. WallStored' /\ Stored'
      BY <1>1, <2>1 DEF WallStored, Stored, HostInv
    <2> QED BY <1>1, <1>2, <2>1, <2>2, <2>3, <2>4, <2>5 DEF HostInv, WallStates
  <1>5. CASE WallStore("sec", "nsec")
    <2>1. /\ wc' = [wc EXCEPT !.sec = setting.sec] /\ whost = "sec" /\ whost' = "nsec"
          /\ UNCHANGED <<setting, left>>
      BY <1>5 DEF WallStore
    <2>2. wc' \in WcType /\ wc'.version = wc.version /\ WallStored'
      BY <1>3, <2>1 DEF WcType, WallStored, HostInv
    <2> QED BY <1>1, <1>2, <2>1, <2>2 DEF HostInv, WallStates, Stored, Counts
  <1>6. CASE WallStore("nsec", "end")
    <2>1. /\ wc' = [wc EXCEPT !.nsec = setting.nsec] /\ whost = "nsec" /\ whost' = "end"
          /\ UNCHANGED <<setting, left>>
      BY <1>6 DEF WallStore
    <2>2. wc' \in WcType /\ wc'.version = wc.version /\ WallStored'
      BY <1>3, <2>1 DEF WcType, WallStored, HostInv
    <2> QED BY <1>1, <1>2, <2>1, <2>2 DEF HostInv, WallStates, Stored, Counts
  <1>7. CASE WallEnd
    <2>1. /\ wc' = [wc EXCEPT !.version = wc.version + 1] /\ whost = "end" /\ whost' = "idle"
          /\ UNCHANGED <<setting, left>>
      BY <1>7 DEF WallEnd
    <2>2. wc' \in WcType /\ wc'.version = wc.version + 1 /\ WallStored'
      BY <1>3, <2>1 DEF WcType, WallStored, HostInv
    <2>3. Counts(wc'.version, left.wc, MaxUpdates.wc, whost')
      BY <1>3, <2>1, <2>2 DEF HostInv, Counts
    <2> QED BY <1>1, <1>2, <2>1, <2>2, <2>3 DEF HostInv, WallStates, Stored
  <1> QED BY <1>4, <1>5, <1>6, <1>7 DEF WallUpdate

\* The guest only reads the records.
LEMMA GuestFrame ==
    ASSUME Guest
    PROVE  UNCHANGED <<tsc, hostVars>>
  BY DEF Guest, MonotonicRead, WallRead, KernelStart, ReadVersion, ReadTsc, ReadTimestamp,
         ReadSign, ReadShift, ReadMul, ReadSystemTime, CheckEven, CheckSame, WallVersion,
         WallSec, WallNsec, WallEven, WallSame, CallWall, CallWait, WaitStart, WaitAgain,
         WaitEnd, Done, guestRest, vars

LEMMA HostFrame ==
    ASSUME HostInv, UNCHANGED <<tsc, hostVars>>
    PROVE  HostInv' /\ Clock' = Clock
  BY DEF HostInv, hostVars, Stored, WallStored, Clock, Value

LEMMA HostStep == HostInv /\ [Next]_vars => HostInv'
  <1> SUFFICES ASSUME HostInv, [Next]_vars PROVE HostInv'
    OBVIOUS
  <1>1. CASE Tick BY <1>1, TickHost
  <1>2. CASE TimeUpdate BY <1>2, BeginHost, StoreHost DEF TimeUpdate
  <1>3. CASE WallUpdate BY <1>3, WallHost
  <1>4. CASE Guest BY <1>4, GuestFrame, HostFrame
  <1>5. CASE UNCHANGED vars BY <1>5, HostFrame DEF vars
  <1> QED BY <1>1, <1>2, <1>3, <1>4, <1>5 DEF Next

\* What the two records hold at every point of an update.
THEOREM HostInvariance == Spec => []HostInv
  <1> QED BY HostInit, HostStep, PTL DEF Spec

\* The clock does not run back, across updates.
LEMMA ClockMono == HostInv /\ [Next]_vars => Clock \in Nat /\ Clock' \in Nat /\ Clock <= Clock'
  <1> SUFFICES ASSUME HostInv, [Next]_vars PROVE Clock \in Nat /\ Clock' \in Nat /\ Clock <= Clock'
    OBVIOUS
  <1>1. Clock \in Nat BY ClockType, RatesAssumption DEF Times
  <1>2. CASE Tick
    <2>1. tsc' = tsc + 1 /\ ticking' = ticking BY <1>2 DEF Tick, hostVars
    <2>2. tsc \in Instants /\ tsc' \in Instants /\ Runs(ticking) /\ ticking.tsc_timestamp <= tsc
      BY <1>2, TickHost DEF HostInv
    <2>3. tsc <= tsc' BY <2>1, <2>2, RatesAssumption DEF Instants
    <2>4. /\ Value(ticking, tsc) \in Nat /\ Value(ticking, tsc') \in Nat
          /\ Value(ticking, tsc) <= Value(ticking, tsc')
      BY <2>2, <2>3, ValueMono
    <2>5. Clock' = Value(ticking, tsc') BY <2>1 DEF Clock, Value
    <2> QED BY <2>4, <2>5 DEF Clock
  <1>3. CASE ~Tick
    <2>1. Clock' = Clock
      BY <1>3, BeginHost, StoreHost, WallHost, GuestFrame, HostFrame DEF Next, TimeUpdate, vars
    <2> QED BY <1>1, <2>1
  <1> QED BY <1>2, <1>3

----------------------------------------------------------------------------
(* The guest's side.                                                       *)

ReadPcs == {"version", "delta", "timestamp", "tsc", "sign", "shift", "mul",
            "system_time", "even", "same", "return"}
WallPcs == {"wc_version", "wc_sec", "wc_nsec", "wc_even", "wc_same", "wc_return"}
LocType == [version : Nat, value : Times, negative : BOOLEAN]

GuestInv ==
    /\ job \in {"first", "wall", "wait", "waiting", "last"}
    /\ pc \in ReadPcs \cup WallPcs /\ (pc \in WallPcs <=> job = "wall")
    /\ loc \in LocType /\ time \in Times
    /\ since \in [call : Nat, wait : Nat]
    /\ since.wait <= since.call /\ since.call <= Clock

\* A record that is not being updated, and was not since the loop read its
\* version, is the one that is in force.
Steady == loc.version = ti.version /\ host = "idle"
WallSteady == loc.version = wc.version /\ whost = "idle"

\* pvclock_wc_read: what it has of the wall clock in force.
WallInv ==
    /\ job = "wall" => Nsecs(setting) \in seen
    /\ pc \in {"wc_sec", "wc_nsec", "wc_even", "wc_same"} => loc.version <= wc.version
    /\ pc = "wc_same" /\ loc.version = wc.version => whost = "idle"
    /\ WallSteady /\ pc = "wc_nsec" => loc.value = setting.sec * NsecPerSec
    /\ WallSteady /\ pc \in {"wc_even", "wc_same"} => loc.value = Nsecs(setting)
    /\ pc = "wc_return" => loc.value \in seen

\* A moment of the call at which the record in force was in force.
During(t) ==
    t \in Instants /\ ticking.tsc_timestamp <= t /\ t <= tsc /\ since.call <= Value(ticking, t)

\* pvclock_monotonic_read: what it has of the clock at such a moment.
Partial ==
    LET ts == ticking.tsc_timestamp
        Gone(t) == Shift(t - ts, ticking.shift)
    IN  /\ pc = "tsc" => loc.value = (0 - ts) % Word
        /\ pc = "timestamp" => \E t \in Instants : During(t) /\ loc.value = t
        /\ pc \in {"sign", "shift"} => \E t \in Instants : During(t) /\ loc.value = t - ts
        /\ pc = "shift" => loc.negative = (ticking.shift < 0)
        /\ pc = "mul" => \E t \in Instants : During(t) /\ loc.value = Gone(t)
        /\ pc = "system_time" =>
              \E t \in Instants : During(t) /\ loc.value = Mul64_32(Gone(t), ticking.mul)
        /\ pc \in {"even", "same"} =>
              \E t \in Instants : During(t) /\ loc.value = Value(ticking, t)

ReadInv ==
    /\ pc \in {"version", "delta"} => loc.value = 0
    /\ pc \in ReadPcs \ {"version", "return"} => loc.version <= ti.version
    /\ pc = "same" /\ loc.version = ti.version => host = "idle"
    /\ Steady => Partial
    /\ pc = "return" => since.call <= loc.value /\ loc.value <= Clock

WaitInv ==
    /\ job = "waiting" => since.wait <= time /\ time <= since.call
    /\ job = "last" => Clock - since.wait >= Secs * NsecPerSec

LEMMA GuestInit == Init => GuestInv
  <1> SUFFICES ASSUME Init PROVE GuestInv
    OBVIOUS
  <1>1. Clock \in Nat
    BY HostInit, ClockType, RatesAssumption DEF Times
  <1>2. 0 \in Times /\ NoLocals \in LocType
    BY RatesAssumption DEF Times, LocType, NoLocals
  <1> QED BY <1>1, <1>2 DEF Init, GuestInv, ReadPcs, WallPcs

LEMMA ReadFrame ==
    ASSUME MonotonicRead \/ WallRead
    PROVE  UNCHANGED <<tsc, ti, ticking, wc, setting, left, host, whost, job, time, since, seen>>
  BY DEF MonotonicRead, WallRead, ReadVersion, ReadTsc, ReadTimestamp,
         ReadSign, ReadShift, ReadMul, ReadSystemTime, CheckEven, CheckSame, WallVersion,
         WallSec, WallNsec, WallEven, WallSame, guestRest, hostVars

LEMMA LocStep ==
    ASSUME HostInv, loc \in LocType, MonotonicRead \/ WallRead
    PROVE  loc' \in LocType
  <1>1. /\ loc.value \in Times /\ loc.value \in Int /\ loc.version \in Nat
        /\ loc.negative \in BOOLEAN /\ tsc \in Int
    BY DEF LocType, Times, HostInv, Instants
  <1>2. /\ ti.version \in Nat /\ ti.tsc_timestamp \in Int /\ ti.system_time \in Int
        /\ ti.mul \in Muls /\ ti.shift \in Shifts /\ wc \in WcType
    BY DEF HostInv, TiType, Instants, Times
  <1>3. wc.version \in Nat /\ wc.sec \in Nat /\ wc.nsec \in Nat
    BY <1>2 DEF WcType
  <1>4. Word \in Nat \ {0} /\ NsecPerSec \in Nat BY RatesAssumption
  <1>5. \A x \in Int : x % Word \in Times BY <1>4, ModIn DEF Times
  <1>6. NoLocals \in LocType BY <1>4 DEF NoLocals, LocType, Times
  <1>7. ASSUME NEW v \in Times, loc' = [loc EXCEPT !.value = v]
        PROVE  loc' \in LocType
    BY <1>7 DEF LocType
  <1>8. CASE ReadVersion \/ WallVersion
    BY <1>2, <1>3, <1>8 DEF ReadVersion, WallVersion, LocType
  <1>9. CASE ReadTsc
    BY <1>1, <1>5, <1>7, <1>9 DEF ReadTsc
  <1>10. CASE ReadTimestamp
    BY <1>1, <1>2, <1>5, <1>7, <1>10 DEF ReadTimestamp
  <1>11. CASE ReadSign
    <2>1. (ti.shift < 0) \in BOOLEAN OBVIOUS
    <2>2. loc' = [loc EXCEPT !.negative = (ti.shift < 0)] BY <1>11 DEF ReadSign
    <2> QED BY <2>1, <2>2 DEF LocType
  <1>12. CASE ReadShift
    <2>1. Shift(loc.value, ti.shift) \in Times BY <1>1, <1>2, ShiftType
    <2>2. 0 \in Times /\ Word - 1 \in Times BY <1>4 DEF Times
    <2>3. \E v \in Times : loc' = [loc EXCEPT !.value = v, !.negative = FALSE]
      BY <1>12, <2>1, <2>2 DEF ReadShift
    <2> QED BY <2>3 DEF LocType
  <1>13. CASE ReadMul
    <2>1. Mul64_32(loc.value, ti.mul) \in Times BY <1>1, <1>2, MulType
    <2> QED BY <1>7, <1>13, <2>1 DEF ReadMul
  <1>14. CASE ReadSystemTime
    BY <1>1, <1>2, <1>5, <1>7, <1>14 DEF ReadSystemTime
  <1>15. CASE WallSec
    <2>1. wc.sec * NsecPerSec \in Int BY <1>3, <1>4
    <2> QED BY <1>5, <1>7, <1>15, <2>1 DEF WallSec
  <1>16. CASE WallNsec
    BY <1>1, <1>3, <1>5, <1>7, <1>16 DEF WallNsec
  <1>17. CASE CheckEven \/ CheckSame \/ WallEven \/ WallSame
    BY <1>6, <1>17 DEF CheckEven, CheckSame, WallEven, WallSame
  <1> QED BY <1>8, <1>9, <1>10, <1>11, <1>12, <1>13, <1>14, <1>15, <1>16, <1>17
          DEF MonotonicRead, WallRead

LEMMA GuestInvStep == HostInv /\ GuestInv /\ [Next]_vars => GuestInv'
  <1> SUFFICES ASSUME HostInv, GuestInv, [Next]_vars PROVE GuestInv'
    OBVIOUS
  <1>1. Clock \in Nat /\ Clock' \in Nat /\ Clock <= Clock' BY ClockMono
  <1>2. since.call \in Nat /\ since.wait \in Nat BY DEF GuestInv
  <1>3. CASE UNCHANGED guestVars
    BY <1>1, <1>2, <1>3 DEF GuestInv, guestVars
  <1>4. CASE MonotonicRead
    <2>1. pc \in ReadPcs \ {"return"} /\ pc' \in ReadPcs
      BY <1>4 DEF MonotonicRead, ReadVersion, ReadTsc, ReadTimestamp, ReadSign, ReadShift,
                  ReadMul, ReadSystemTime, CheckEven, CheckSame, ReadPcs
    <2>2. ReadPcs \cap WallPcs = {} BY DEF ReadPcs, WallPcs
    <2>3. loc' \in LocType BY <1>4, LocStep DEF GuestInv
    <2>4. UNCHANGED <<job, time, since>> BY <1>4, ReadFrame
    <2> QED BY <1>1, <1>2, <2>1, <2>2, <2>3, <2>4 DEF GuestInv
  <1>5. CASE WallRead
    <2>1. pc \in WallPcs /\ pc' \in WallPcs
      BY <1>5 DEF WallRead, WallVersion, WallSec, WallNsec, WallEven, WallSame, WallPcs
    <2>3. loc' \in LocType BY <1>5, LocStep DEF GuestInv
    <2>4. UNCHANGED <<job, time, since>> BY <1>5, ReadFrame
    <2> QED BY <1>1, <1>2, <2>1, <2>3, <2>4 DEF GuestInv
  <1>6. CASE CallWall \/ CallWait \/ WaitStart \/ WaitAgain \/ WaitEnd
    <2>1. NoLocals \in LocType BY RatesAssumption DEF NoLocals, LocType, Times
    <2>2. Result \in Times BY DEF GuestInv, LocType, Result
    <2>3. CASE CallWall
      BY <1>1, <1>2, <2>1, <2>3 DEF CallWall, GuestInv, ReadPcs, WallPcs
    <2>4. CASE CallWait
      BY <1>1, <1>2, <2>1, <2>4 DEF CallWait, GuestInv, ReadPcs, WallPcs
    <2>5. CASE WaitStart \/ WaitAgain \/ WaitEnd
      <3>1. /\ job' \in {"waiting", "last"} /\ pc' = "version" /\ loc' = NoLocals
            /\ since' = [since EXCEPT !.call = Clock] /\ time' \in {time, Result}
        BY <2>5 DEF WaitStart, WaitAgain, WaitEnd, Call
      <3>2. since' \in [call : Nat, wait : Nat] /\ since'.call = Clock /\ since'.wait = since.wait
        BY <1>1, <3>1 DEF GuestInv
      <3>3. time' \in Times BY <2>2, <3>1 DEF GuestInv
      <3>4. since'.wait <= since'.call /\ since'.call <= Clock'
        BY <1>1, <1>2, <3>2 DEF GuestInv
      <3> QED BY <2>1, <3>1, <3>2, <3>3, <3>4 DEF GuestInv, ReadPcs, WallPcs
    <2> QED BY <1>6, <2>3, <2>4, <2>5
  <1>7. CASE Tick \/ TimeUpdate \/ WallUpdate \/ Done \/ UNCHANGED vars
    BY <1>3, <1>7 DEF Tick, TimeUpdate, TimeBegin, TimeStore, TimeEnd, WallUpdate, WallBegin,
                      WallStore, WallEnd, Done, vars
  <1> QED BY <1>4, <1>5, <1>6, <1>7 DEF Next, Guest, KernelStart

\* Every variable of the guest keeps its type, and the clock at the call is
\* not ahead of the clock.
THEOREM GuestInvariance == Spec => []GuestInv
  <1> QED BY GuestInit, GuestInvStep, HostInvariance, PTL DEF Spec

----------------------------------------------------------------------------
(* pvclock_wc_read.                                                        *)

LEMMA WallInit == Init => WallInv
  BY DEF Init, WallInv

\* The versions of the wall clock: even between updates.
LEMMA WallParity ==
    ASSUME HostInv
    PROVE  wc.version \in Nat /\ (wc.version % 2 = 0 <=> whost = "idle")
  <1>1. wc.version \in Nat /\ left.wc \in Nat /\ MaxUpdates.wc \in Nat
    BY RatesAssumption DEF HostInv, WcType
  <1>2. wc.version + 2 * left.wc = 2 * MaxUpdates.wc - (IF whost = "idle" THEN 0 ELSE 1)
    BY DEF HostInv, Counts
  <1> QED BY <1>1, <1>2

LEMMA WallUpdateStep ==
    ASSUME HostInv, GuestInv, WallInv, WallUpdate
    PROVE  WallInv'
  <1>1. /\ UNCHANGED <<job, pc, loc>> /\ wc.version \in Nat /\ loc.version \in Nat
    BY WallParity DEF WallUpdate, WallBegin, WallStore, WallEnd, guestVars, GuestInv, LocType
  <1>2. CASE WallBegin
    <2>1. /\ wc'.version = wc.version + 1 /\ whost' = "sec"
          /\ seen' = seen \cup {Nsecs(setting')}
      BY <1>2 DEF WallBegin, HostInv, WcType
    <2> QED BY <1>1, <2>1 DEF WallInv, WallSteady
  <1>3. CASE WallStore("sec", "nsec") \/ WallStore("nsec", "end")
    <2>1. /\ wc'.version = wc.version /\ whost' # "idle" /\ whost # "idle"
          /\ UNCHANGED <<setting, seen>>
      BY <1>3 DEF WallStore, HostInv, WcType
    <2> QED BY <1>1, <2>1 DEF WallInv, WallSteady, Nsecs
  <1>4. CASE WallEnd
    <2>1. wc'.version = wc.version + 1 /\ UNCHANGED <<setting, seen>>
      BY <1>4 DEF WallEnd, HostInv, WcType
    <2> QED BY <1>1, <2>1 DEF WallInv, WallSteady, Nsecs
  <1> QED BY <1>2, <1>3, <1>4 DEF WallUpdate

LEMMA WallReadStep ==
    ASSUME HostInv, GuestInv, WallInv, WallRead
    PROVE  WallInv'
  <1>1. UNCHANGED <<wc, setting, whost, job, seen>>
    BY ReadFrame
  <1>2. job = "wall" /\ Nsecs(setting) \in seen
    BY DEF WallRead, WallVersion, WallSec, WallNsec, WallEven, WallSame, GuestInv, WallPcs,
           WallInv
  <1>3. /\ setting.sec \in Nat /\ setting.nsec \in Nat /\ Nsecs(setting) < Word
        /\ Nsecs(setting) = setting.sec * NsecPerSec + setting.nsec
        /\ setting.sec * NsecPerSec \in Nat /\ Word \in Nat
    BY WallAssumption, RatesAssumption, TimesMono DEF HostInv, Nsecs
  <1>4. loc.version \in Nat /\ wc.version \in Nat /\ (wc.version % 2 = 0 <=> whost = "idle")
    BY WallParity DEF GuestInv, LocType
  <1>5. /\ Nsecs(setting') = Nsecs(setting)
        /\ job' = "wall" => Nsecs(setting') \in seen'
    BY <1>1, <1>2
  <1>6. CASE WallVersion
    <2>1. pc' = "wc_sec" /\ loc'.version = wc.version
      BY <1>6 DEF WallVersion, GuestInv, LocType
    <2> QED BY <1>1, <1>4, <1>5, <2>1 DEF WallInv
  <1>7. CASE WallSec
    <2>1. /\ pc = "wc_sec" /\ pc' = "wc_nsec" /\ loc'.version = loc.version
          /\ loc'.value = (wc.sec * NsecPerSec) % Word
      BY <1>7 DEF WallSec, GuestInv, LocType
    <2>2. WallSteady => wc.sec = setting.sec
      BY DEF HostInv, WallStored, WallSteady
    <2>3. (setting.sec * NsecPerSec) % Word = setting.sec * NsecPerSec
      BY <1>3, ModSmall
    <2>4. WallSteady' => WallSteady
      BY <1>1, <2>1 DEF WallSteady
    <2>5. WallSteady' => loc'.value = setting'.sec * NsecPerSec
      BY <1>1, <2>1, <2>2, <2>3, <2>4
    <2> QED BY <1>1, <1>4, <1>5, <2>1, <2>5 DEF WallInv
  <1>8. CASE WallNsec
    <2>1. /\ pc = "wc_nsec" /\ pc' = "wc_even" /\ loc'.version = loc.version
          /\ loc'.value = (loc.value + wc.nsec) % Word
      BY <1>8 DEF WallNsec, GuestInv, LocType
    <2>2. WallSteady => wc.nsec = setting.nsec /\ loc.value = setting.sec * NsecPerSec
      BY <2>1 DEF HostInv, WallStored, WallSteady, WallInv
    <2>3. Nsecs(setting) % Word = Nsecs(setting)
      BY <1>3, ModSmall
    <2>4. WallSteady' => WallSteady
      BY <1>1, <2>1 DEF WallSteady
    <2>5. WallSteady' => loc'.value = Nsecs(setting')
      BY <1>3, <1>5, <2>1, <2>2, <2>3, <2>4
    <2> QED BY <1>1, <1>4, <1>5, <2>1, <2>5 DEF WallInv
  <1>9. CASE WallEven
    <2>1. CASE wc.version % 2 = 0 /\ pc' = "wc_same" /\ UNCHANGED loc
      <3>1. pc = "wc_even" BY <1>9 DEF WallEven
      <3>2. WallSteady' <=> WallSteady BY <1>1, <2>1 DEF WallSteady
      <3> QED BY <1>1, <1>4, <1>5, <2>1, <3>1, <3>2 DEF WallInv
    <2>2. CASE pc' = "wc_version"
      BY <1>5, <2>2 DEF WallInv
    <2> QED BY <1>9, <2>1, <2>2 DEF WallEven
  <1>10. CASE WallSame
    <2>1. CASE wc.version = loc.version /\ pc' = "wc_return" /\ UNCHANGED loc
      <3>1. pc = "wc_same" /\ WallSteady
        BY <1>10, <2>1 DEF WallSame, WallInv, WallSteady
      <3>2. loc'.value = Nsecs(setting) BY <2>1, <3>1 DEF WallInv
      <3> QED BY <1>1, <1>2, <1>5, <2>1, <3>2 DEF WallInv
    <2>2. CASE pc' = "wc_version"
      BY <1>5, <2>2 DEF WallInv
    <2> QED BY <1>10, <2>1, <2>2 DEF WallSame
  <1> QED BY <1>6, <1>7, <1>8, <1>9, <1>10 DEF WallRead

LEMMA WallStep == HostInv /\ GuestInv /\ WallInv /\ [Next]_vars => WallInv'
  <1> SUFFICES ASSUME HostInv, GuestInv, WallInv, [Next]_vars PROVE WallInv'
    OBVIOUS
  <1>1. CASE WallUpdate BY <1>1, WallUpdateStep
  <1>2. CASE WallRead BY <1>2, WallReadStep
  <1>3. CASE UNCHANGED <<wc, setting, whost, job, pc, loc, seen>>
    BY <1>3 DEF WallInv, WallSteady, Nsecs
  <1>4. CASE MonotonicRead
    <2>1. pc' \in ReadPcs /\ job' = job /\ job # "wall"
      BY <1>4, ReadFrame DEF MonotonicRead, ReadVersion, ReadTsc, ReadTimestamp, ReadSign,
           ReadShift, ReadMul, ReadSystemTime, CheckEven, CheckSame, ReadPcs, WallPcs, GuestInv
    <2> QED BY <2>1 DEF WallInv, ReadPcs
  <1>5. CASE CallWall
    BY <1>5 DEF CallWall, hostVars, WallInv, Nsecs
  <1>6. CASE CallWait \/ WaitStart \/ WaitAgain \/ WaitEnd
    BY <1>6 DEF CallWait, WaitStart, WaitAgain, WaitEnd, Call, WallInv
  <1>7. CASE Tick \/ TimeUpdate \/ Done \/ UNCHANGED vars
    BY <1>3, <1>7 DEF Tick, TimeUpdate, TimeBegin, TimeStore, TimeEnd, Done, vars, hostVars,
                      guestVars
  <1> QED BY <1>1, <1>2, <1>4, <1>5, <1>6, <1>7 DEF Next, Guest, KernelStart

\* kernel.c:240-257: what pvclock_wc_read returns was in force during the
\* call, whatever updates the loop met.
THEOREM WallWhole == Spec => []WallClockWhole
  <1>1. Spec => []WallInv
    BY WallInit, WallStep, HostInvariance, GuestInvariance, PTL DEF Spec
  <1>2. WallInv => WallClockWhole
    BY DEF WallInv, WallClockWhole, Result
  <1> QED BY <1>1, <1>2, PTL

----------------------------------------------------------------------------
(* pvclock_monotonic_read.                                                 *)

LEMMA ReadInit == Init => ReadInv
  BY DEF Init, ReadInv, Steady, NoLocals, Partial

LEMMA ReadParity ==
    ASSUME HostInv
    PROVE  ti.version \in Nat /\ (ti.version % 2 = 0 <=> host = "idle")
  <1>1. ti.version \in Nat /\ left.ti \in Nat /\ MaxUpdates.ti \in Nat
    BY RatesAssumption DEF HostInv, TiType
  <1>2. ti.version + 2 * left.ti = 2 * MaxUpdates.ti - (IF host = "idle" THEN 0 ELSE 1)
    BY DEF HostInv, Counts
  <1> QED BY <1>1, <1>2

\* Where the guest is in no loop of pvclock_monotonic_read.
LEMMA NoPartial ==
    ASSUME pc \in {"version", "delta", "return"} \cup WallPcs
    PROVE  Partial
  BY DEF Partial, WallPcs

LEMMA TickRead ==
    ASSUME HostInv, GuestInv, ReadInv, Tick
    PROVE  ReadInv'
  <1>1. /\ UNCHANGED <<ti, ticking, host, pc, loc, since>> /\ tsc' = tsc + 1
    BY DEF Tick, hostVars, guestVars
  <1>2. Clock \in Nat /\ Clock' \in Nat /\ Clock <= Clock'
    BY ClockMono DEF Next
  <1>3. tsc \in Nat BY RatesAssumption DEF HostInv, Instants
  <1>4. \A t \in Instants : During(t) => During(t)'
    BY <1>1, <1>3, RatesAssumption DEF During, Instants, Value
  <1>5. Partial => Partial'
    BY <1>1, <1>4 DEF Partial, Value
  <1>6. Steady' <=> Steady BY <1>1 DEF Steady
  <1>7. loc.value \in Nat /\ since.call \in Nat
    BY RatesAssumption DEF GuestInv, LocType, Times
  <1> QED BY <1>1, <1>2, <1>5, <1>6, <1>7 DEF ReadInv

LEMMA UpdateRead ==
    ASSUME HostInv, GuestInv, ReadInv, TimeUpdate
    PROVE  ReadInv'
  <1>1. /\ UNCHANGED <<pc, loc, since>> /\ ti.version \in Nat /\ loc.version \in Nat
    BY ReadParity DEF TimeUpdate, TimeBegin, TimeStore, TimeEnd, guestVars, GuestInv, LocType
  <1>2. Clock' = Clock BY BeginHost, StoreHost DEF TimeUpdate
  <1>3. pc \in ReadPcs \cup WallPcs BY DEF GuestInv
  <1>4. CASE TimeBegin \/ TimeEnd
    <2>1. ti'.version = ti.version + 1
      BY <1>4 DEF TimeBegin, TimeEnd, HostInv, TiType
    <2>2. CASE pc \in ReadPcs \ {"version", "return"}
      <3>1. loc.version <= ti.version BY <2>2 DEF ReadInv
      <3>2. ~Steady' /\ loc'.version # ti'.version /\ loc'.version <= ti'.version
        BY <1>1, <2>1, <3>1 DEF Steady
      <3> QED BY <1>1, <1>2, <3>2 DEF ReadInv
    <2>3. CASE pc \in {"version", "return"} \cup WallPcs
      <3>1. pc' \in {"version", "return"} \cup WallPcs BY <1>1, <2>3
      <3>2. Partial' BY <3>1 DEF Partial, WallPcs
      <3> QED BY <1>1, <1>2, <2>3, <3>1, <3>2 DEF ReadInv, ReadPcs, WallPcs
    <2> QED BY <1>3, <2>2, <2>3
  <1>5. CASE ~(TimeBegin \/ TimeEnd)
    <2>1. ti'.version = ti.version /\ host # "idle" /\ host' # "idle"
      BY <1>5 DEF TimeUpdate, TimeStore, HostInv, TiType
    <2> QED BY <1>1, <1>2, <2>1 DEF ReadInv, Steady
  <1> QED BY <1>4, <1>5

\* The steps of the loop, each from what it reads.
LEMMA LoopFacts ==
    ASSUME HostInv, GuestInv, ReadInv, MonotonicRead
    PROVE  /\ UNCHANGED <<tsc, ti, ticking, host, since>>
           /\ \A t \in Instants : During(t) => During(t)' /\ Value(ticking, t)' = Value(ticking, t)
           /\ Clock' = Clock
           /\ tsc \in Instants /\ During(tsc) /\ Runs(ticking)
           /\ loc \in LocType /\ loc.version \in Nat /\ loc.value \in Nat /\ ti.version \in Nat
           /\ Steady => /\ ti.tsc_timestamp = ticking.tsc_timestamp
                        /\ ti.system_time = ticking.system_time
                        /\ ti.mul = ticking.mul /\ ti.shift = ticking.shift
           /\ MaxTsc \in Nat /\ Word \in Nat /\ MaxTsc < Word
           /\ ticking.tsc_timestamp \in Nat
  <1>1. UNCHANGED <<tsc, ti, ticking, host, since>> BY ReadFrame
  <1>2. Clock' = Clock BY <1>1 DEF Clock, Value
  <1>3. \A t \in Instants : During(t) => During(t)' /\ Value(ticking, t)' = Value(ticking, t)
    BY <1>1 DEF During, Value
  <1>4. MaxTsc \in Nat /\ Word \in Nat /\ MaxTsc < Word BY RatesAssumption, WideAssumption
  <1>5. tsc \in Instants /\ During(tsc)
    BY <1>4 DEF HostInv, GuestInv, During, Clock, Instants
  <1>6. loc \in LocType /\ loc.version \in Nat /\ loc.value \in Nat /\ ti.version \in Nat
    BY <1>4, ReadParity DEF GuestInv, LocType, Times
  <1>7. Steady => /\ ti.tsc_timestamp = ticking.tsc_timestamp
                  /\ ti.system_time = ticking.system_time
                  /\ ti.mul = ticking.mul /\ ti.shift = ticking.shift
    BY DEF Steady, HostInv, Stored
  <1>8. Runs(ticking) /\ ticking.tsc_timestamp \in Nat
    BY <1>4 DEF HostInv, Runs, TimeRecord, Instants
  <1> QED BY <1>1, <1>2, <1>3, <1>4, <1>5, <1>6, <1>7, <1>8

LEMMA VersionRead ==
    ASSUME HostInv, GuestInv, ReadInv, ReadVersion
    PROVE  ReadInv'
  <1>1. pc = "version" /\ pc' = "delta" /\ loc' = [loc EXCEPT !.version = ti.version]
    BY DEF ReadVersion
  <1>2. MonotonicRead BY DEF MonotonicRead
  <1>3. loc'.version = ti.version /\ loc'.value = 0 /\ ti' = ti /\ ti.version \in Nat
    BY <1>1, <1>2, LoopFacts DEF LocType, ReadInv
  <1>4. Partial' BY <1>1 DEF Partial
  <1> QED BY <1>1, <1>3, <1>4 DEF ReadInv

\* A step inside the loop keeps the version: what is left to show is Partial.
LEMMA InnerRead ==
    ASSUME HostInv, GuestInv, ReadInv, MonotonicRead,
           pc \in ReadPcs \ {"version", "return"},
           pc' \in ReadPcs \ {"version", "delta", "same", "return"},
           loc'.version = loc.version, Steady => Partial'
    PROVE  ReadInv'
  <1>1. UNCHANGED <<ti, host>> BY LoopFacts
  <1>2. Steady' => Steady BY <1>1 DEF Steady
  <1> QED BY <1>1, <1>2 DEF ReadInv

LEMMA TscRead ==
    ASSUME HostInv, GuestInv, ReadInv, ReadTsc
    PROVE  ReadInv'
  <1>0. MonotonicRead BY DEF MonotonicRead
  <1>1. /\ pc \in {"delta", "tsc"} /\ pc' = IF pc = "delta" THEN "timestamp" ELSE "sign"
        /\ loc'.version = loc.version /\ loc'.value = (loc.value + tsc) % Word
    BY <1>0, LoopFacts DEF ReadTsc, LocType
  <1>2. tsc \in Nat /\ tsc < Word /\ tsc \in Instants /\ During(tsc)'
    BY <1>0, LoopFacts DEF Instants
  <1>3. CASE pc = "delta"
    <2>1. loc'.value = tsc BY <1>1, <1>2, <1>3, <1>0, LoopFacts, ModSmall DEF ReadInv
    <2>2. \E t \in Instants : During(t)' /\ loc'.value = t
      <3>1. PICK t \in Instants : t = tsc BY <1>2
      <3>2. During(t)' BY <1>0, <3>1, LoopFacts
      <3> QED BY <2>1, <3>1, <3>2
    <2>3. pc' = "timestamp" BY <1>1, <1>3
    <2>4. Partial' BY <2>2, <2>3 DEF Partial
    <2> QED BY <1>0, <1>1, <1>3, <2>4, InnerRead DEF ReadPcs
  <1>4. CASE pc = "tsc"
    <2>1. Steady => loc.value = (0 - ticking.tsc_timestamp) % Word
      BY <1>4 DEF ReadInv, Partial
    <2>2. ticking.tsc_timestamp <= tsc /\ ticking.tsc_timestamp \in Nat /\ Word \in Nat
      BY <1>0, LoopFacts DEF HostInv
    <2>3. (((0 - ticking.tsc_timestamp) % Word) + tsc) % Word = tsc - ticking.tsc_timestamp
      BY <1>2, <2>2, ModDifference
    <2>4. Steady => loc'.value = tsc - ticking'.tsc_timestamp
      BY <1>1, <2>1, <2>3, <1>0, LoopFacts
    <2>5. Steady => \E t \in Instants : During(t)' /\ loc'.value = t - ticking'.tsc_timestamp
      <3>1. PICK t \in Instants : t = tsc BY <1>2
      <3>2. During(t)' BY <1>0, <3>1, LoopFacts
      <3> QED BY <2>4, <3>1, <3>2
    <2>6. pc' = "sign" BY <1>1, <1>4
    <2>7. Steady => Partial' BY <2>5, <2>6 DEF Partial
    <2> QED BY <1>0, <1>1, <1>4, <2>7, InnerRead DEF ReadPcs
  <1> QED BY <1>1, <1>3, <1>4

LEMMA TimestampRead ==
    ASSUME HostInv, GuestInv, ReadInv, ReadTimestamp
    PROVE  ReadInv'
  <1>0. MonotonicRead BY DEF MonotonicRead
  <1>1. /\ pc \in {"delta", "timestamp"} /\ pc' = IF pc = "delta" THEN "tsc" ELSE "sign"
        /\ loc'.version = loc.version /\ loc'.value = (loc.value - ti.tsc_timestamp) % Word
    BY <1>0, LoopFacts DEF ReadTimestamp, LocType
  <1>2. ticking' = ticking /\ (Steady => ti.tsc_timestamp = ticking.tsc_timestamp)
    BY <1>0, LoopFacts
  <1>3. CASE pc = "delta"
    <2>1. loc.value = 0 BY <1>3 DEF ReadInv
    <2>2. Steady => loc'.value = (0 - ticking'.tsc_timestamp) % Word
      BY <1>1, <1>2, <2>1
    <2>3. Steady => Partial' BY <1>1, <1>3, <2>2 DEF Partial
    <2> QED BY <1>0, <1>1, <1>3, <2>3, InnerRead DEF ReadPcs
  <1>4. CASE pc = "timestamp"
    <2>1. Steady => \E t \in Instants : During(t) /\ loc.value = t
      BY <1>4 DEF ReadInv, Partial
    <2>2. ASSUME NEW t \in Instants, During(t)
          PROVE  (t - ticking.tsc_timestamp) % Word = t - ticking.tsc_timestamp
      <3>1. /\ t \in Nat /\ t < Word /\ ticking.tsc_timestamp \in Nat
            /\ ticking.tsc_timestamp <= t /\ Word \in Nat
        BY <1>0, <2>2, LoopFacts DEF During, Instants
      <3> QED BY <3>1, ModDifference
    <2>3. Steady => \E t \in Instants : During(t)' /\ loc'.value = t - ticking'.tsc_timestamp
      BY <1>0, <1>1, <1>2, <2>1, <2>2, LoopFacts
    <2>4. Steady => Partial' BY <1>1, <1>4, <2>3 DEF Partial
    <2> QED BY <1>0, <1>1, <1>4, <2>4, InnerRead DEF ReadPcs
  <1> QED BY <1>1, <1>3, <1>4

LEMMA SignRead ==
    ASSUME HostInv, GuestInv, ReadInv, ReadSign
    PROVE  ReadInv'
  <1>0. MonotonicRead BY DEF MonotonicRead
  <1>1. /\ pc = "sign" /\ pc' = "shift" /\ loc'.version = loc.version /\ loc'.value = loc.value
        /\ loc'.negative = (ti.shift < 0)
    BY <1>0, LoopFacts DEF ReadSign, LocType
  <1>2. ticking' = ticking /\ (Steady => ti.shift = ticking.shift)
    BY <1>0, LoopFacts
  <1>3. Steady => \E t \in Instants : During(t) /\ loc.value = t - ticking.tsc_timestamp
    BY <1>1 DEF ReadInv, Partial
  <1>4. Steady => \E t \in Instants : During(t)' /\ loc'.value = t - ticking'.tsc_timestamp
    BY <1>0, <1>1, <1>2, <1>3, LoopFacts
  <1>5. Steady => Partial' BY <1>1, <1>2, <1>4 DEF Partial
  <1> QED BY <1>0, <1>1, <1>5, InnerRead DEF ReadPcs

LEMMA ShiftRead ==
    ASSUME HostInv, GuestInv, ReadInv, ReadShift
    PROVE  ReadInv'
  <1>0. MonotonicRead BY DEF MonotonicRead
  <1>1. /\ pc = "shift" /\ pc' = "mul" /\ loc'.version = loc.version
        /\ loc.negative = (ti.shift < 0) => loc'.value = Shift(loc.value, ti.shift)
    BY <1>0, LoopFacts DEF ReadShift, LocType
  <1>2. ticking' = ticking /\ (Steady => ti.shift = ticking.shift)
    BY <1>0, LoopFacts
  <1>3. Steady => /\ loc.negative = (ti.shift < 0)
                  /\ \E t \in Instants : During(t) /\ loc.value = t - ticking.tsc_timestamp
    BY <1>1, <1>2 DEF ReadInv, Partial
  <1>4. Steady => \E t \in Instants :
           During(t)' /\ loc'.value = Shift(t - ticking'.tsc_timestamp, ticking'.shift)
    BY <1>0, <1>1, <1>2, <1>3, LoopFacts
  <1>5. Steady => Partial' BY <1>1, <1>4 DEF Partial
  <1> QED BY <1>0, <1>1, <1>5, InnerRead DEF ReadPcs

LEMMA MulRead ==
    ASSUME HostInv, GuestInv, ReadInv, ReadMul
    PROVE  ReadInv'
  <1>0. MonotonicRead BY DEF MonotonicRead
  <1>1. /\ pc = "mul" /\ pc' = "system_time" /\ loc'.version = loc.version
        /\ loc'.value = Mul64_32(loc.value, ti.mul)
    BY <1>0, LoopFacts DEF ReadMul, LocType
  <1>2. ticking' = ticking /\ (Steady => ti.mul = ticking.mul)
    BY <1>0, LoopFacts
  <1>3. Steady => \E t \in Instants :
           During(t) /\ loc.value = Shift(t - ticking.tsc_timestamp, ticking.shift)
    BY <1>1 DEF ReadInv, Partial
  <1>4. Steady => \E t \in Instants :
           /\ During(t)'
           /\ loc'.value = Mul64_32(Shift(t - ticking'.tsc_timestamp, ticking'.shift), ticking'.mul)
    BY <1>0, <1>1, <1>2, <1>3, LoopFacts
  <1>5. Steady => Partial' BY <1>1, <1>4 DEF Partial
  <1> QED BY <1>0, <1>1, <1>5, InnerRead DEF ReadPcs

LEMMA SystemTimeRead ==
    ASSUME HostInv, GuestInv, ReadInv, ReadSystemTime
    PROVE  ReadInv'
  <1>0. MonotonicRead BY DEF MonotonicRead
  <1>1. /\ pc = "system_time" /\ pc' = "even" /\ loc'.version = loc.version
        /\ loc'.value = (loc.value + ti.system_time) % Word
    BY <1>0, LoopFacts DEF ReadSystemTime, LocType
  <1>2. ticking' = ticking /\ (Steady => ti.system_time = ticking.system_time)
    BY <1>0, LoopFacts
  <1>3. Steady => \E t \in Instants :
           /\ During(t)
           /\ loc.value = Mul64_32(Shift(t - ticking.tsc_timestamp, ticking.shift), ticking.mul)
    BY <1>1 DEF ReadInv, Partial
  <1>4. Steady => \E t \in Instants :
           During(t) /\ loc.value + ti.system_time = Value(ticking, t)
    BY <1>2, <1>3 DEF Value
  <1>5. ASSUME NEW t \in Instants, During(t)
        PROVE  Value(ticking, t) % Word = Value(ticking, t)
    <2>1. t <= t /\ ticking.tsc_timestamp <= t /\ Runs(ticking)
      BY <1>0, <1>5, LoopFacts DEF During, Instants
    <2>2. Value(ticking, t) \in Nat /\ Value(ticking, t) < Word
      BY <2>1, ValueMono
    <2> QED BY <1>0, <2>2, LoopFacts, ModSmall
  <1>6. Steady => \E t \in Instants : During(t)' /\ loc'.value = Value(ticking, t)'
    BY <1>0, <1>1, <1>4, <1>5, LoopFacts
  <1>7. Steady => Partial' BY <1>1, <1>6 DEF Partial
  <1> QED BY <1>0, <1>1, <1>7, InnerRead DEF ReadPcs

LEMMA EvenRead ==
    ASSUME HostInv, GuestInv, ReadInv, CheckEven
    PROVE  ReadInv'
  <1>0. MonotonicRead BY DEF MonotonicRead
  <1>1. pc = "even" /\ UNCHANGED <<ti, host>> BY <1>0, LoopFacts DEF CheckEven
  <1>2. CASE ti.version % 2 = 0 /\ pc' = "same" /\ UNCHANGED loc
    <2>1. host = "idle" /\ loc.version <= ti.version
      BY <1>1, <1>2, ReadParity DEF ReadInv, ReadPcs
    <2>2. Steady => \E t \in Instants : During(t) /\ loc.value = Value(ticking, t)
      BY <1>1 DEF ReadInv, Partial
    <2>3. Steady => \E t \in Instants : During(t)' /\ loc'.value = Value(ticking, t)'
      BY <1>0, <1>2, <2>2, LoopFacts
    <2>4. Steady => Partial' BY <1>2, <2>3 DEF Partial
    <2>5. Steady' => Steady BY <1>1, <1>2 DEF Steady
    <2> QED BY <1>1, <1>2, <2>1, <2>4, <2>5 DEF ReadInv
  <1>3. CASE pc' = "version" /\ loc' = NoLocals
    <2>1. Partial' BY <1>3 DEF Partial
    <2> QED BY <1>3, <2>1 DEF ReadInv, NoLocals
  <1> QED BY <1>2, <1>3 DEF CheckEven

LEMMA SameRead ==
    ASSUME HostInv, GuestInv, ReadInv, CheckSame
    PROVE  ReadInv'
  <1>0. MonotonicRead BY DEF MonotonicRead
  <1>1. CASE ti.version = loc.version /\ pc' = "return" /\ UNCHANGED loc
    <2>1. pc = "same" BY DEF CheckSame
    <2>2. Steady BY <1>1, <2>1 DEF ReadInv, Steady
    <2>3. PICK t \in Instants : During(t) /\ loc.value = Value(ticking, t)
      BY <2>1, <2>2 DEF ReadInv, Partial
    <2>4. /\ ticking.tsc_timestamp <= t /\ t <= tsc /\ tsc \in Instants /\ Runs(ticking)
          /\ since.call <= loc.value
      BY <1>0, <2>3, LoopFacts DEF During
    <2>5. Value(ticking, t) <= Clock
      BY <2>4, ValueMono DEF Clock
    <2>6. Clock' = Clock /\ since' = since BY <1>0, LoopFacts
    <2>7. Partial' BY <1>1 DEF Partial
    <2> QED BY <1>1, <2>3, <2>4, <2>5, <2>6, <2>7 DEF ReadInv
  <1>2. CASE pc' = "version" /\ loc' = NoLocals
    <2>1. Partial' BY <1>2 DEF Partial
    <2> QED BY <1>2, <2>1 DEF ReadInv, NoLocals
  <1> QED BY <1>1, <1>2 DEF CheckSame

LEMMA ReadStep == HostInv /\ GuestInv /\ ReadInv /\ [Next]_vars => ReadInv'
  <1> SUFFICES ASSUME HostInv, GuestInv, ReadInv, [Next]_vars PROVE ReadInv'
    OBVIOUS
  <1>1. CASE Tick BY <1>1, TickRead
  <1>2. CASE TimeUpdate BY <1>2, UpdateRead
  <1>3. CASE MonotonicRead
    BY <1>3, VersionRead, TscRead, TimestampRead, SignRead, ShiftRead, MulRead,
       SystemTimeRead, EvenRead, SameRead DEF MonotonicRead
  <1>4. CASE UNCHANGED <<tsc, ti, ticking, host, pc, loc, since>>
    BY <1>4 DEF ReadInv, Steady, Partial, During, Clock, Value
  <1>5. CASE WallRead
    <2>1. pc' \in WallPcs
      BY <1>5 DEF WallRead, WallVersion, WallSec, WallNsec, WallEven, WallSame, WallPcs
    <2> QED BY <2>1 DEF ReadInv, Partial, ReadPcs, WallPcs
  <1>6. CASE CallWall \/ CallWait \/ WaitStart \/ WaitAgain \/ WaitEnd
    <2>1. pc' \in {"version", "wc_version"} /\ loc'.value = 0
      BY <1>6 DEF CallWall, CallWait, WaitStart, WaitAgain, WaitEnd, Call, NoLocals
    <2> QED BY <2>1 DEF ReadInv, Partial, ReadPcs
  <1>7. CASE WallUpdate \/ Done \/ UNCHANGED vars
    BY <1>4, <1>7 DEF WallUpdate, WallBegin, WallStore, WallEnd, Done, vars, hostVars, guestVars
  <1> QED BY <1>1, <1>2, <1>3, <1>5, <1>6, <1>7 DEF Next, Guest, KernelStart

THEOREM ReadInvariance == Spec => []ReadInv
  <1> QED BY ReadInit, ReadStep, HostInvariance, GuestInvariance, PTL DEF Spec

\* kernel.c:217-238: what pvclock_monotonic_read returns is what the clock
\* showed at a moment of the call, whatever updates the loop met and wherever
\* they met it.
THEOREM ReadsAreCurrent == Spec => []ReadIsCurrent
  <1>1. ReadInv => ReadIsCurrent
    BY DEF ReadInv, ReadIsCurrent, Result
  <1> QED BY <1>1, ReadInvariance, PTL

----------------------------------------------------------------------------
(* wait.                                                                   *)

LEMMA WaitInit == Init => WaitInv
  BY DEF Init, WaitInv

LEMMA EndWait ==
    ASSUME GuestInv, ReadInv, WaitInv, WaitEnd, Clock' = Clock, Clock \in Nat
    PROVE  WaitInv'
  <1>1. /\ job = "waiting" /\ pc = "return" /\ Elapsed >= Secs /\ job' = "last"
        /\ since' = [since EXCEPT !.call = Clock]
    BY DEF WaitEnd, Call
  <1>2. /\ since.wait \in Nat /\ since.call \in Nat /\ time \in Nat /\ Result \in Nat
        /\ Result < Word /\ Word \in Nat /\ NsecPerSec \in Nat \ {0} /\ Secs \in Nat
    BY RatesAssumption DEF GuestInv, LocType, Times, Result
  <1>3. since.wait <= time /\ time <= since.call /\ since.call <= Result /\ Result <= Clock
    BY <1>1 DEF WaitInv, ReadInv, Result
  <1>4. (Result - time) % Word = Result - time
    <2>1. PICK r \in Nat : r = Result BY <1>2
    <2>2. PICK t \in Nat : t = time BY <1>2
    <2>3. t <= r /\ r < Word BY <1>2, <1>3, <2>1, <2>2
    <2>4. (r - t) % Word = r - t BY <1>2, <2>3, ModDifference
    <2> QED BY <2>1, <2>2, <2>4
  <1>5. Result - time \in Nat BY <1>2, <1>3
  <1>6. (Result - time) \div NsecPerSec >= Secs
    BY <1>1, <1>4 DEF Elapsed
  <1>7. Result - time >= Secs * NsecPerSec
    BY <1>2, <1>5, <1>6, DivBack
  <1>8. Secs * NsecPerSec \in Nat
    BY <1>2, TimesMono
  <1>9. Clock - since.wait >= Secs * NsecPerSec
    BY <1>2, <1>3, <1>7, <1>8
  <1>10. since'.wait = since.wait BY <1>1 DEF GuestInv
  <1> QED BY <1>1, <1>9, <1>10 DEF WaitInv

LEMMA WaitStep == HostInv /\ GuestInv /\ ReadInv /\ WaitInv /\ [Next]_vars => WaitInv'
  <1> SUFFICES ASSUME HostInv, GuestInv, ReadInv, WaitInv, [Next]_vars PROVE WaitInv'
    OBVIOUS
  <1>1. Clock \in Nat /\ Clock' \in Nat /\ Clock <= Clock' BY ClockMono
  <1>2. since.wait \in Nat /\ since.call \in Nat BY DEF GuestInv
  <1>3. Secs * NsecPerSec \in Nat BY RatesAssumption, TimesMono
  <1>4. CASE UNCHANGED <<job, time, since>>
    BY <1>1, <1>2, <1>3, <1>4 DEF WaitInv
  <1>5. CASE CallWall \/ CallWait
    BY <1>5 DEF CallWall, CallWait, WaitInv
  <1>6. CASE WaitStart
    <2>1. /\ pc = "return" /\ job' = "waiting" /\ time' = Result
          /\ since' = [since EXCEPT !.call = Clock]
      BY <1>6 DEF WaitStart, Call
    <2>2. since'.wait = since.wait /\ since'.call = Clock BY <2>1 DEF GuestInv
    <2>3. since.wait <= since.call /\ since.call <= Result /\ Result <= Clock /\ Result \in Nat
      BY <2>1, RatesAssumption DEF GuestInv, ReadInv, Result, LocType, Times
    <2> QED BY <1>1, <1>2, <2>1, <2>2, <2>3 DEF WaitInv
  <1>7. CASE WaitAgain
    <2>1. /\ job = "waiting" /\ job' = "waiting" /\ time' = time
          /\ since' = [since EXCEPT !.call = Clock]
      BY <1>7 DEF WaitAgain, Call
    <2>2. since'.wait = since.wait /\ since'.call = Clock BY <2>1 DEF GuestInv
    <2>3. since.wait <= time /\ time <= since.call /\ since.call <= Clock /\ time \in Nat
      BY <2>1, RatesAssumption DEF GuestInv, WaitInv, Times
    <2> QED BY <1>1, <1>2, <2>1, <2>2, <2>3 DEF WaitInv
  <1>8. CASE WaitEnd
    <2>1. Clock' = Clock BY <1>8, GuestFrame, HostFrame DEF Guest, KernelStart
    <2> QED BY <1>1, <1>8, <2>1, EndWait
  <1>9. CASE MonotonicRead \/ WallRead BY <1>4, <1>9, ReadFrame
  <1>10. CASE Tick \/ TimeUpdate \/ WallUpdate \/ Done \/ UNCHANGED vars
    BY <1>4, <1>10 DEF Tick, TimeUpdate, TimeBegin, TimeStore, TimeEnd, WallUpdate, WallBegin,
                       WallStore, WallEnd, Done, vars, guestVars
  <1> QED BY <1>5, <1>6, <1>7, <1>8, <1>9, <1>10 DEF Next, Guest, KernelStart

\* kernel.c:259-266: wait returns no earlier than it was asked to, although
\* its subtraction is unsigned.
THEOREM WaitsLongEnough == Spec => []WaitIsLongEnough
  <1>1. Spec => []WaitInv
    BY WaitInit, WaitStep, HostInvariance, GuestInvariance, ReadInvariance, PTL DEF Spec
  <1>2. WaitInv => WaitIsLongEnough
    BY DEF WaitInv, WaitIsLongEnough
  <1> QED BY <1>1, <1>2, PTL

----------------------------------------------------------------------------
(* How long a read takes.                                                  *)

\* The steps a pass of either loop has to its return.
PassLeft ==
    CASE pc = "version"                             -> 9
      [] pc = "delta"                               -> 8
      [] pc \in {"timestamp", "tsc"}                -> 7
      [] pc = "sign"                                -> 6
      [] pc \in {"shift", "wc_version"}             -> 5
      [] pc \in {"mul", "wc_sec"}                   -> 4
      [] pc \in {"system_time", "wc_nsec"}          -> 3
      [] pc \in {"even", "wc_even"}                 -> 2
      [] pc \in {"same", "wc_same"}                 -> 1
      [] OTHER                                      -> 0

\* No update is under way, and none came since the loop read the version.
Undisturbed ==
    /\ MonotonicRead => host = "idle" /\ (pc = "version" \/ loc.version = ti.version)
    /\ WallRead => whost = "idle" /\ (pc = "wc_version" \/ loc.version = wc.version)

\* The loops go round again only for an update, and the steps of the
\* hypervisor and of time do not move a read.
PassAdvances ==
    /\ (MonotonicRead \/ WallRead) /\ Undisturbed => PassLeft' < PassLeft
    /\ Tick \/ TimeUpdate \/ WallUpdate => PassLeft' = PassLeft

LEMMA PassStep == HostInv /\ Next => PassAdvances
  <1> SUFFICES ASSUME HostInv, Next PROVE PassAdvances OBVIOUS
  <1>1. ASSUME MonotonicRead, Undisturbed PROVE PassLeft' < PassLeft
    <2>1. host = "idle" /\ ti.version % 2 = 0 /\ (pc = "version" \/ loc.version = ti.version)
      BY <1>1, ReadParity DEF Undisturbed
    <2>2. \/ pc = "version" /\ pc' = "delta"
          \/ pc = "delta" /\ pc' \in {"timestamp", "tsc"}
          \/ pc \in {"timestamp", "tsc"} /\ pc' = "sign"
          \/ pc = "sign" /\ pc' = "shift"
          \/ pc = "shift" /\ pc' = "mul"
          \/ pc = "mul" /\ pc' = "system_time"
          \/ pc = "system_time" /\ pc' = "even"
          \/ pc = "even" /\ pc' = "same"
          \/ pc = "same" /\ pc' = "return"
      BY <1>1, <2>1 DEF MonotonicRead, ReadVersion, ReadTsc, ReadTimestamp, ReadSign,
         ReadShift, ReadMul, ReadSystemTime, CheckEven, CheckSame
    <2> QED BY <2>2 DEF PassLeft
  <1>2. ASSUME WallRead, Undisturbed PROVE PassLeft' < PassLeft
    <2>1. whost = "idle" /\ wc.version % 2 = 0 /\ (pc = "wc_version" \/ loc.version = wc.version)
      BY <1>2, WallParity DEF Undisturbed
    <2>2. \/ pc = "wc_version" /\ pc' = "wc_sec"
          \/ pc = "wc_sec" /\ pc' = "wc_nsec"
          \/ pc = "wc_nsec" /\ pc' = "wc_even"
          \/ pc = "wc_even" /\ pc' = "wc_same"
          \/ pc = "wc_same" /\ pc' = "wc_return"
      BY <1>2, <2>1 DEF WallRead, WallVersion, WallSec, WallNsec, WallEven, WallSame
    <2> QED BY <2>2 DEF PassLeft
  <1>3. ASSUME Tick \/ TimeUpdate \/ WallUpdate PROVE PassLeft' = PassLeft
    <2>1. pc' = pc
      BY <1>3 DEF Tick, TimeUpdate, TimeBegin, TimeStore, TimeEnd, WallUpdate, WallBegin,
         WallStore, WallEnd, guestVars
    <2> QED BY <2>1 DEF PassLeft
  <1> QED BY <1>1, <1>2, <1>3 DEF PassAdvances

\* kernel.c:217-257: pvclock_monotonic_read and pvclock_wc_read retry for an update
\* only.  While the hypervisor leaves the record alone a pass advances with every
\* step of the guest, so it returns, after nine steps and five.
THEOREM PassesReturn == Spec => [][PassAdvances]_vars
  <1>1. HostInv /\ [Next]_vars => [PassAdvances]_vars BY PassStep
  <1> QED BY <1>1, HostInvariance, PTL DEF Spec

----------------------------------------------------------------------------
(* The types.                                                              *)

\* The clock, its records and the locals of the reads keep to their words.
THEOREM Typed == Spec => []TypeOK
  <1>1. HostInv /\ GuestInv => TypeOK
    <2> SUFFICES ASSUME HostInv, GuestInv PROVE TypeOK
      OBVIOUS
    <2>1. /\ tsc \in Instants /\ ticking \in TimeRecord /\ setting \in WallClocks
          /\ host \in {"idle", "tsc_timestamp", "system_time", "mul", "shift", "end"}
          /\ whost \in {"idle", "sec", "nsec", "end"}
      BY DEF HostInv, Runs, HostStates, WallStates
    <2>2. [f \in DOMAIN ticking |-> ti[f]] \in TimeRecord
      <3>1. DOMAIN ticking = {"tsc_timestamp", "system_time", "mul", "shift"}
        BY <2>1 DEF TimeRecord
      <3>2. /\ ti.tsc_timestamp \in Instants /\ ti.system_time \in Times
            /\ ti.mul \in Muls /\ ti.shift \in Shifts
        BY DEF HostInv, TiType
      <3>3. [f \in DOMAIN ticking |-> ti[f]] =
               [tsc_timestamp |-> ti.tsc_timestamp, system_time |-> ti.system_time,
                mul |-> ti.mul, shift |-> ti.shift]
        BY <3>1
      <3> QED BY <3>2, <3>3 DEF TimeRecord
    <2>3. /\ ti.version \in 0..(2 * MaxUpdates.ti) /\ wc.version \in 0..(2 * MaxUpdates.wc)
          /\ left.ti \in 0..MaxUpdates.ti /\ left.wc \in 0..MaxUpdates.wc
      <3>1. /\ ti.version \in Nat /\ wc.version \in Nat /\ left.ti \in Nat /\ left.wc \in Nat
            /\ MaxUpdates.ti \in Nat /\ MaxUpdates.wc \in Nat
        BY RatesAssumption DEF HostInv, TiType, WcType
      <3> QED BY <3>1 DEF HostInv, Counts
    <2>4. /\ job \in {"first", "wall", "wait", "waiting", "last"}
          /\ loc.value \in Times /\ time \in Times
      BY DEF GuestInv, LocType
    <2> QED BY <2>1, <2>2, <2>3, <2>4 DEF TypeOK
  <1> QED BY <1>1, HostInvariance, GuestInvariance, PTL
=============================================================================
