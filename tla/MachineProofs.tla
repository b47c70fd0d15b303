--------------------------- MODULE MachineProofs ---------------------------
(***************************************************************************)
(* Proofs about the load of the machine, for any modulus of its counters   *)
(* that is large enough, and about the catalog and the profiles, for any   *)
(* machines.                                                               *)
(***************************************************************************)
EXTENDS SystemStats, Catalog, SequenceTheorems, TLAPS

-----------------------------------------------------------------------------
(* The load.                                                               *)

(* Remainders and quotients.                                               *)

LEMMA DivMod ==
    ASSUME NEW m \in Nat \ {0}, NEW x \in Int
    PROVE  x \div m \in Int /\ x % m \in 0..(m - 1) /\ x = m * (x \div m) + (x % m)
OBVIOUS

(* A remainder is the only number below the modulus that differs by a      *)
(* multiple of it.                                                         *)
LEMMA ModUnique ==
    ASSUME NEW m \in Nat \ {0}, NEW x \in Int, NEW q \in Int, NEW r \in 0..(m - 1),
           x = m * q + r
    PROVE  x % m = r
<1> DEFINE d == x \div m
           s == x % m
<1>1. d \in Int /\ x = m * d + s /\ s \in 0..(m - 1)
  BY DivMod
<1> HIDE DEF d, s
<1>2. m * (q - d) = s - r
  BY <1>1
<1>3. q = d
  <2>1. CASE q - d >= 1
    <3>1. m * (q - d) >= m
      BY <1>1, <2>1
    <3> QED  BY <3>1, <1>1, <1>2
  <2>2. CASE q - d <= -1
    <3>1. m * (q - d) <= -m
      BY <1>1, <2>2
    <3> QED  BY <3>1, <1>1, <1>2
  <2> QED  BY <1>1, <2>1, <2>2
<1> QED  BY <1>1, <1>3 DEF s

(* Numbers that differ by a multiple have the same remainder.              *)
LEMMA SameRemainder ==
    ASSUME NEW m \in Nat \ {0}, NEW x \in Int, NEW y \in Int, NEW c \in Int,
           x = y + m * c
    PROVE  x % m = y % m
<1> DEFINE q == y \div m
           r == y % m
<1>1. q \in Int /\ r \in 0..(m - 1) /\ y = m * q + r
  BY DivMod
<1> HIDE DEF q, r
<1>2. q + c \in Int /\ x = m * (q + c) + r
  BY <1>1
<1>3. x % m = r
  BY <1>1, <1>2, ModUnique
<1> QED  BY <1>3 DEF r

(* A number is its remainder and a multiple.                               *)
LEMMA IsRemainder ==
    ASSUME NEW m \in Nat \ {0}, NEW x \in Int
    PROVE  \E c \in Int : x % m = x + m * c
<1> DEFINE q == x \div m
           r == x % m
<1>1. q \in Int /\ r \in Int /\ x = m * q + r
  BY DivMod
<1> HIDE DEF q, r
<1>2. -q \in Int /\ r = x + m * (-q)
  BY <1>1
<1> QED  BY <1>2 DEF r

(* What an operand gains, its difference gains as well.                    *)
LEMMA DifferenceGains ==
    ASSUME NEW m \in Nat \ {0}, NEW x \in Int, NEW y \in Int, NEW z \in Int
    PROVE  (((x + z) % m) - y) % m = (((x - y) % m) + z) % m
<1> DEFINE w == x + z
           d == x - y
           v == w % m
           e == d % m
<1>1. w \in Int /\ d \in Int
  OBVIOUS
<1>2. v \in Int /\ e \in Int
  BY <1>1, DivMod
<1>3. PICK a \in Int : v = w + m * a
  BY <1>1, IsRemainder
<1>4. PICK b \in Int : e = d + m * b
  BY <1>1, IsRemainder
<1>5. v - y \in Int /\ e + z \in Int /\ a - b \in Int /\ v - y = (e + z) + m * (a - b)
  <2> HIDE DEF v, e
  <2>1. v = x + z + m * a /\ e = x - y + m * b
    BY <1>3, <1>4
  <2> QED  BY <1>2, <2>1
<1> HIDE DEF v, e
<1>6. (v - y) % m = (e + z) % m
  BY <1>5, SameRemainder
<1> QED  BY <1>6 DEF v, e, w, d

(* The sum of two remainders, again as a remainder.                        *)
LEMMA SumOfRemainders ==
    ASSUME NEW m \in Nat \ {0}, NEW x \in Int, NEW y \in Int
    PROVE  ((x % m) + (y % m)) % m = (x + y) % m
<1> DEFINE v == x % m
           e == y % m
<1>1. v \in Int /\ e \in Int
  BY DivMod
<1>2. PICK a \in Int : v = x + m * a
  BY IsRemainder
<1>3. PICK b \in Int : e = y + m * b
  BY IsRemainder
<1> HIDE DEF v, e
<1>4. v + e \in Int /\ x + y \in Int /\ a + b \in Int /\ v + e = (x + y) + m * (a + b)
  BY <1>1, <1>2, <1>3
<1>5. (v + e) % m = (x + y) % m
  BY <1>4, SameRemainder
<1> QED  BY <1>5 DEF v, e

LEMMA SmallMod ==
    ASSUME NEW m \in Nat \ {0}, NEW x \in 0..(m - 1)
    PROVE  x % m = x
OBVIOUS

(* A quotient by a divisor that is within a hundredth, or is not.          *)
LEMMA Quotient ==
    ASSUME NEW x \in Nat, NEW t \in Nat \ {0}
    PROVE  /\ x \div t \in Nat
           /\ x <= 100 * t => x \div t <= 100
           /\ x >= 100 * t => x \div t >= 100
<1> DEFINE q == x \div t
           r == x % t
<1>1. q \in Int /\ r \in 0..(t - 1) /\ x = t * q + r
  BY DivMod
<1> HIDE DEF q, r
<1>2. q >= 0
  <2> SUFFICES ASSUME q <= -1 PROVE FALSE
    BY <1>1
  <2>1. t * q <= -t
    BY <1>1
  <2> QED  BY <1>1, <2>1
<1>3. ASSUME x <= 100 * t PROVE q <= 100
  <2> SUFFICES ASSUME q >= 101 PROVE FALSE
    BY <1>1
  <2>1. t * q >= 101 * t
    BY <1>1
  <2> QED  BY <1>1, <1>3, <2>1
<1>4. ASSUME x >= 100 * t PROVE q >= 100
  <2> SUFFICES ASSUME q <= 99 PROVE FALSE
    BY <1>1
  <2>1. t * q <= 99 * t
    BY <1>1
  <2> QED  BY <1>1, <1>4, <2>1
<1> QED  BY <1>1, <1>2, <1>3, <1>4 DEF q
-----------------------------------------------------------------------------
(* A load is a percentage.                                                 *)
LEMMA ClampType == ASSUME NEW n \in Int PROVE Clamp(n) \in 0..100
BY DEF Clamp

LEMMA MinusType ==
    ASSUME NEW x \in Int, NEW y \in Int
    PROVE  Minus(x, y) \in 0..(Modulus - 1)
<1>1. x - y \in Int
  OBVIOUS
<1> QED  BY <1>1, DivMod, ModulusAssumption DEF Minus

LEMMA MinusInt == ASSUME NEW x \in Int, NEW y \in Int PROVE Minus(x, y) \in Int
<1>1. Minus(x, y) \in 0..(Modulus - 1)
  BY MinusType
<1> QED  BY <1>1, ModulusAssumption

LEMMA PercentType ==
    ASSUME NEW i \in Int, NEW k \in Int, NEW u \in Int
    PROVE  Percent(i, k, u) \in 0..100
<1> DEFINE t == (k + u) % Modulus
           n == Minus(t, i)
<1>1. k + u \in Int /\ Modulus \in Nat \ {0}
  BY ModulusAssumption
<1>2. t \in 0..(Modulus - 1)
  BY <1>1, DivMod
<1> HIDE DEF t
<1>3. t \in Nat /\ n \in Nat
  <2>1. t \in Int
    BY <1>2
  <2>2. n \in 0..(Modulus - 1)
    BY <2>1, MinusType
  <2> QED  BY <1>1, <1>2, <2>2
<1> HIDE DEF n
<1>4. CASE t = 0
  BY <1>4 DEF Percent, t
<1>5. CASE t # 0
  <2>1. n * 100 \in Nat
    BY <1>3
  <2>2. (n * 100) \div t \in Nat
    BY <2>1, <1>3, <1>5, Quotient
  <2>3. Clamp((n * 100) \div t) \in 0..100
    BY <2>2, ClampType
  <2> QED  BY <2>3, <1>5 DEF Percent, t, n
<1> QED  BY <1>4, <1>5

(* The load computed from what has passed, while that is no wrap's length. *)
Share(i, t) ==
    IF t = 0 THEN 0 ELSE IF i <= t THEN ((t - i) * 100) \div t ELSE 100

LEMMA PercentShare ==
    ASSUME NEW i \in 0..MaxSpan, NEW t \in 0..MaxSpan, NEW k \in Int, NEW u \in Int,
           (k + u) % Modulus = t
    PROVE  Percent(i, k, u) = Share(i, t)
<1> DEFINE n == Minus(t, i)
<1>1. Modulus \in Nat \ {0} /\ MaxSpan \in Nat /\ 2 * MaxSpan < Modulus
  BY ModulusAssumption, StepAssumption, NoWrapAssumption
<1>2. CASE t = 0
  BY <1>2 DEF Percent, Share
<1>3. CASE t # 0 /\ i <= t
  <2>1. t - i \in 0..(Modulus - 1)
    BY <1>1, <1>3
  <2>2. n = t - i
    BY <1>1, <2>1, SmallMod DEF Minus
  <2>3. n * 100 \in Nat /\ n * 100 <= 100 * t /\ t \in Nat \ {0}
    BY <1>1, <1>3, <2>2
  <2>4. (n * 100) \div t \in Nat /\ (n * 100) \div t <= 100
    BY <2>3, Quotient
  <2> HIDE DEF n
  <2> DEFINE q == (n * 100) \div t
  <2>5. Percent(i, k, u) = Clamp(q)
    BY <1>3 DEF Percent, n
  <2> HIDE DEF q
  <2>6. q \in Nat /\ q <= 100
    BY <2>4 DEF q
  <2>7. Clamp(q) = q
    BY <2>6 DEF Clamp
  <2>8. q = ((t - i) * 100) \div t
    BY <2>2 DEF q
  <2> QED  BY <1>3, <2>5, <2>7, <2>8 DEF Share
<1>4. CASE t # 0 /\ i > t
  <2>1. (t - i) + Modulus \in 0..(Modulus - 1) /\ t - i \in Int
    BY <1>1, <1>4
  <2>2. n = (t - i) + Modulus
    <3> DEFINE d == t - i
               z == d + Modulus
    <3>1. z \in 0..(Modulus - 1) /\ z \in Int /\ d \in Int /\ z = d + Modulus * 1
      BY <1>1, <2>1
    <3> HIDE DEF d, z
    <3>2. z % Modulus = d % Modulus
      BY <1>1, <3>1, SameRemainder
    <3>3. z % Modulus = z
      BY <1>1, <3>1, SmallMod
    <3> QED  BY <3>2, <3>3 DEF Minus, z, d
  <2>3. n * 100 \in Nat /\ n * 100 >= 100 * t /\ t \in Nat \ {0}
    BY <1>1, <1>4, <2>2
  <2>4. (n * 100) \div t \in Nat /\ (n * 100) \div t >= 100
    BY <2>3, Quotient
  <2> HIDE DEF n
  <2> DEFINE q == (n * 100) \div t
  <2>5. Percent(i, k, u) = Clamp(q)
    BY <1>4 DEF Percent, n
  <2> HIDE DEF q
  <2>6. q \in Nat /\ q >= 100
    BY <2>4 DEF q
  <2>7. Clamp(q) = 100
    BY <2>6 DEF Clamp
  <2>8. ~(i <= t)
    BY <1>1, <1>4
  <2> QED  BY <1>4, <2>5, <2>7, <2>8 DEF Share
<1> QED  BY <1>1, <1>2, <1>3, <1>4
-----------------------------------------------------------------------------
(* The invariant.                                                          *)

StatsInv == StatsTypeOK /\ BaselineBehind /\ PercentIsHonest

LEMMA StatsInitInv == StatsInit => StatsInv
<1> SUFFICES ASSUME StatsInit PROVE StatsInv
  OBVIOUS
<1>1. StatsTypeOK
  BY StepAssumption
  DEF StatsInit, StatsTypeOK, NoSpan, Span, Load
<1>2. BaselineBehind /\ PercentIsHonest
  BY DEF StatsInit, BaselineBehind, PercentIsHonest
<1> QED  BY <1>1, <1>2 DEF StatsInv

LEMMA TimeStep ==
    ASSUME StatsInv, NEW idle \in 0..MaxStep, NEW kernel \in 0..MaxStep,
           NEW user \in 0..MaxStep, TimePasses(idle, kernel, user)
    PROVE  StatsInv'
<1> USE DEF StatsInv
<1>1. /\ counters.idle \in Int /\ counters.kernel \in Int /\ counters.user \in Int
      /\ span.idle \in Nat /\ span.total \in Nat
      /\ idle \in Nat /\ kernel \in Nat /\ user \in Nat
      /\ Modulus \in Nat \ {0} /\ MaxSpan \in Nat /\ 2 * MaxSpan < Modulus
  BY StepAssumption, ModulusAssumption, NoWrapAssumption DEF StatsTypeOK, Counters, Span
<1>2. /\ counters'.idle = (counters.idle + idle) % Modulus
      /\ counters'.kernel = (counters.kernel + kernel) % Modulus
      /\ counters'.user = (counters.user + user) % Modulus
      /\ span'.idle = span.idle + idle
      /\ span'.total = span.total + kernel + user
  BY DEF TimePasses
<1>3. StatsTypeOK'
  <2>1. counters' \in Counters
    <3>1. \A x, y \in Int : (x + y) % Modulus \in 0..(Modulus - 1)
      <4> SUFFICES ASSUME NEW x \in Int, NEW y \in Int
                   PROVE  (x + y) % Modulus \in 0..(Modulus - 1)
        OBVIOUS
      <4>1. x + y \in Int
        OBVIOUS
      <4> QED  BY <1>1, <4>1, DivMod
    <3> QED  BY <1>1, <3>1 DEF TimePasses, Counters
  <2>2. span' \in Span
    BY <1>1 DEF TimePasses, Span
  <2> QED  BY <2>1, <2>2 DEF StatsTypeOK, TimePasses
<1>4. BaselineBehind'
  <2> SUFFICES ASSUME baseline # Never PROVE BaselineBehind'
    BY DEF BaselineBehind, TimePasses
  <2>1. baseline.idle \in Int /\ baseline.kernel \in Int /\ baseline.user \in Int
    BY DEF StatsTypeOK, Counters
  <2>2. Minus(counters'.idle, baseline.idle) = span'.idle
    <3>1. Minus(counters'.idle, baseline.idle) = (span.idle + idle) % Modulus
      BY <1>1, <1>2, <2>1, DifferenceGains DEF BaselineBehind, Minus
    <3>2. span.idle + idle \in 0..(Modulus - 1)
      BY <1>1 DEF TimePasses
    <3> QED  BY <1>1, <1>2, <3>1, <3>2, SmallMod
  <2>3. (Minus(counters'.kernel, baseline.kernel) + Minus(counters'.user, baseline.user))
            % Modulus = span'.total
    <3> DEFINE k == Minus(counters.kernel, baseline.kernel)
               u == Minus(counters.user, baseline.user)
    <3>1. k \in Int /\ u \in Int
      BY <1>1, <2>1, MinusInt
    <3>2. Minus(counters'.kernel, baseline.kernel) = (k + kernel) % Modulus
      BY <1>1, <1>2, <2>1, DifferenceGains DEF Minus
    <3>3. Minus(counters'.user, baseline.user) = (u + user) % Modulus
      BY <1>1, <1>2, <2>1, DifferenceGains DEF Minus
    <3>4. (k + u) % Modulus = span.total
      BY DEF BaselineBehind
    <3>5. span.total + kernel + user \in 0..(Modulus - 1)
      BY <1>1 DEF TimePasses
    <3> DEFINE t == span.total
               s == k + u
               a == k + kernel
               b == u + user
               e == a + b
               n == t + kernel + user
    <3>6. t \in Int /\ s % Modulus = t /\ n \in 0..(Modulus - 1)
      BY <1>1, <3>4, <3>5
    <3> HIDE DEF k, u, t
    <3>7. s \in Int /\ a \in Int /\ b \in Int /\ e \in Int /\ n \in Int
      BY <1>1, <3>1, <3>6
    <3> HIDE DEF s
    <3>8. PICK c \in Int : t = s + Modulus * c
      BY <1>1, <3>6, <3>7, IsRemainder
    <3>9. n = e + Modulus * c
      BY <1>1, <3>1, <3>6, <3>8 DEF s
    <3> HIDE DEF e, n
    <3>10. n % Modulus = e % Modulus
      BY <1>1, <3>7, <3>9, SameRemainder
    <3>11. n % Modulus = n
      BY <1>1, <3>6, SmallMod
    <3> HIDE DEF a, b
    <3>12. ((a % Modulus) + (b % Modulus)) % Modulus = e % Modulus
      BY <1>1, <3>7, SumOfRemainders DEF e
    <3> QED  BY <1>2, <3>2, <3>3, <3>10, <3>11, <3>12 DEF t, a, b, n
  <2> QED  BY <2>2, <2>3 DEF BaselineBehind, TimePasses
<1>5. PercentIsHonest'
  BY DEF PercentIsHonest, TimePasses
<1> QED  BY <1>3, <1>4, <1>5

LEMMA SampleStep ==
    ASSUME StatsInv, NEW answered \in BOOLEAN, NEW load \in {0, 100},
           NEW total \in {Never, 0, MaxTotal}, Sample(answered, load, total)
    PROVE  StatsInv'
<1> USE DEF StatsInv
<1> DEFINE cpu == IF answered /\ baseline # Never THEN SampleCpu(baseline, counters) ELSE 0
           i == Minus(counters.idle, baseline.idle)
           k == Minus(counters.kernel, baseline.kernel)
           u == Minus(counters.user, baseline.user)
<1>1. /\ counters.idle \in Int /\ counters.kernel \in Int /\ counters.user \in Int
      /\ Modulus \in Nat \ {0} /\ MaxSpan \in Nat
  BY StepAssumption, ModulusAssumption DEF StatsTypeOK, Counters
<1>2. ASSUME baseline # Never PROVE i \in Int /\ k \in Int /\ u \in Int
  <2>1. baseline.idle \in Int /\ baseline.kernel \in Int /\ baseline.user \in Int
    BY <1>2 DEF StatsTypeOK, Counters
  <2>2. i \in Int
    BY ONLY <1>1, <2>1, MinusInt
  <2>3. k \in Int
    BY ONLY <1>1, <2>1, MinusInt
  <2>4. u \in Int
    BY ONLY <1>1, <2>1, MinusInt
  <2> QED  BY <2>2, <2>3, <2>4
<1>3. cpu \in 0..100
  <2>1. ASSUME baseline # Never PROVE Percent(i, k, u) \in 0..100
    <3> HIDE DEF i, k, u
    <3> QED  BY <1>2, <2>1, PercentType
  <2> QED  BY <2>1 DEF SampleCpu
<1>4. SampleGpu(total) \in (0..100) \cup {Never}
  BY ClampType, StepAssumption DEF SampleGpu
<1>5. StatsTypeOK'
  <2> HIDE DEF cpu
  <2>1. snapshot' = [cpu |-> cpu, ram |-> SampleRam(load), gpu |-> SampleGpu(total)]
    BY DEF Sample, cpu
  <2>2. snapshot' \in [cpu : Load, ram : Load, gpu : Load \cup {Never}]
    BY <1>3, <1>4, <2>1 DEF SampleRam, Load
  <2>3. span' \in Span /\ measured' \in Span \cup {Never}
    BY <1>1 DEF Sample, StatsTypeOK, NoSpan, Span
  <2>4. baseline' \in Counters \cup {Never}
    BY DEF Sample, StatsTypeOK
  <2> QED  BY <2>2, <2>3, <2>4 DEF Sample, StatsTypeOK
<1>6. BaselineBehind'
  <2>1. CASE answered
    <3>1. baseline' = counters /\ counters' = counters /\ span' = NoSpan
      BY <2>1 DEF Sample
    <3>2. \A x \in Int : Minus(x, x) = 0
      <4>1. \A x \in Int : x - x = 0
        OBVIOUS
      <4>2. 0 % Modulus = 0
        BY <1>1, SmallMod
      <4> QED  BY <4>1, <4>2 DEF Minus
    <3>3. (0 + 0) % Modulus = 0
      <4>1. 0 + 0 = 0 /\ 0 \in 0..(Modulus - 1)
        BY <1>1
      <4> QED  BY <1>1, <4>1, SmallMod
    <3> QED  BY <1>1, <3>1, <3>2, <3>3 DEF BaselineBehind, NoSpan
  <2>2. CASE ~answered
    BY <2>2 DEF Sample, BaselineBehind
  <2> QED  BY <2>1, <2>2
<1>7. PercentIsHonest'
  <2> SUFFICES ASSUME answered, baseline # Never PROVE PercentIsHonest'
    BY DEF Sample, PercentIsHonest
  <2>1. measured' = span /\ snapshot'.cpu = Percent(i, k, u)
    BY DEF Sample, SampleCpu
  <2>2. i = span.idle /\ (k + u) % Modulus = span.total
    BY DEF BaselineBehind
  <2>3. span.idle \in 0..MaxSpan /\ span.total \in 0..MaxSpan
    BY DEF StatsTypeOK, Span
  <2> DEFINE t == span.total
  <2>4. i \in 0..MaxSpan /\ t \in 0..MaxSpan /\ (k + u) % Modulus = t /\ k \in Int /\ u \in Int
    BY <1>2, <2>2, <2>3
  <2> HIDE DEF i, k, u, t
  <2>5. Percent(i, k, u) = Share(i, t)
    BY ONLY <2>4, PercentShare
  <2> QED  BY <2>1, <2>2, <2>5 DEF PercentIsHonest, Share, t
<1> QED  BY <1>5, <1>6, <1>7

LEMMA StatsInvariant == StatsSpec => []StatsInv
<1>1. StatsInv /\ [StatsNext]_statsVars => StatsInv'
  <2> SUFFICES ASSUME StatsInv, [StatsNext]_statsVars PROVE StatsInv'
    OBVIOUS
  <2>1. CASE UNCHANGED statsVars
    BY <2>1 DEF statsVars, StatsInv, StatsTypeOK, BaselineBehind, PercentIsHonest
  <2> QED  BY <2>1, TimeStep, SampleStep DEF StatsNext
<1> QED  BY StatsInitInv, <1>1, PTL DEF StatsSpec

(* Whatever the counters do, every load is a percentage.                   *)
THEOREM LoadsArePercentages == StatsSpec => []StatsTypeOK
<1>1. StatsInv => StatsTypeOK
  BY DEF StatsInv
<1> QED  BY StatsInvariant, <1>1, PTL

(* The load of the processor is that of the time since the sample before,  *)
(* also over a wrap of a counter.                                          *)
THEOREM LoadIsHonest == StatsSpec => []PercentIsHonest
<1>1. StatsInv => PercentIsHonest
  BY DEF StatsInv
<1> QED  BY StatsInvariant, <1>1, PTL

-----------------------------------------------------------------------------
(* What is learned of a machine, and what of it when it answers less.      *)

(* A field of two records side by side is that of the first that has it.   *)
LEMMA BesideLeft ==
    ASSUME NEW r, NEW s, NEW f \in DOMAIN r
    PROVE  f \in DOMAIN Beside(r, s) /\ Beside(r, s)[f] = r[f]
BY DEF Beside

LEMMA BesideRight ==
    ASSUME NEW r, NEW s, NEW f \in DOMAIN s, f \notin DOMAIN r
    PROVE  f \in DOMAIN Beside(r, s) /\ Beside(r, s)[f] = s[f]
BY DEF Beside

(* What the catalog and the profiles read of an inventory.                 *)
Learned(inventory, m) ==
    /\ inventory.logicalProcessors = m.cpus
    /\ inventory.totalPhysical = Else(m.ram, 0)
    /\ inventory.gpuLikelyDiscrete = ReadGpu(m).gpuLikelyDiscrete
    /\ inventory.displayRefreshHz = ReadDisplay(m).displayRefreshHz
    /\ inventory.displayMaxRefreshHz = ReadDisplay(m).displayMaxRefreshHz
    /\ inventory.isLaptop = ReadPower(m).isLaptop
    /\ inventory.drives = ReadStorage(m).drives

(* Each of them is made of the answers of its own query.                   *)
LEMMA InventoryFields ==
    ASSUME NEW m
    PROVE  Learned(ReadSystemInventory(m), m)
<1> DEFINE r1 == ReadOs(m)
           r2 == ReadCpu(m)
           r3 == ReadMemory(m)
           r4 == ReadGpu(m)
           r5 == ReadDisplay(m)
           r6 == ReadPower(m)
           r7 == ReadStorage(m)
           s6 == Beside(r6, r7)
           s5 == Beside(r5, s6)
           s4 == Beside(r4, s5)
           s3 == Beside(r3, s4)
           s2 == Beside(r2, s3)
           s1 == Beside(r1, s2)
<1>1. /\ DOMAIN r1 = {"osBuild"} /\ DOMAIN r2 = {"logicalProcessors", "physicalCores"}
      /\ DOMAIN r3 = {"totalPhysical"} /\ DOMAIN r4 = {"gpuDedicated", "gpuLikelyDiscrete"}
  BY DEF ReadOs, ReadCpu, ReadMemory, ReadGpu
<1>2. /\ DOMAIN r5 = {"displayRefreshHz", "displayMaxRefreshHz"}
      /\ DOMAIN r6 = {"isLaptop", "onBattery"} /\ DOMAIN r7 = {"drives"}
  BY DEF ReadDisplay, ReadPower, ReadStorage
<1>3. r2.logicalProcessors = m.cpus /\ r3.totalPhysical = Else(m.ram, 0)
  BY DEF ReadCpu, ReadMemory
<1>4. ReadSystemInventory(m) = s1
  BY DEF ReadSystemInventory
<1> HIDE DEF r1, r2, r3, r4, r5, r6, r7
<1>5. /\ "drives" \in DOMAIN s6 /\ s6["drives"] = r7["drives"]
      /\ "isLaptop" \in DOMAIN s6 /\ s6["isLaptop"] = r6["isLaptop"]
  BY <1>2, BesideLeft, BesideRight
<1> HIDE DEF s6
<1>6. /\ \A f \in {"drives", "isLaptop"} : f \in DOMAIN s5 /\ s5[f] = s6[f]
      /\ \A f \in DOMAIN r5 : f \in DOMAIN s5 /\ s5[f] = r5[f]
  BY <1>2, <1>5, BesideLeft, BesideRight
<1> HIDE DEF s5
<1>7. /\ \A f \in {"drives", "isLaptop", "displayRefreshHz", "displayMaxRefreshHz"} :
            f \in DOMAIN s4 /\ s4[f] = s5[f]
      /\ "gpuLikelyDiscrete" \in DOMAIN s4 /\ s4["gpuLikelyDiscrete"] = r4["gpuLikelyDiscrete"]
  BY <1>1, <1>2, <1>6, BesideLeft, BesideRight
<1> HIDE DEF s4
<1>8. /\ \A f \in {"drives", "isLaptop", "displayRefreshHz", "displayMaxRefreshHz",
                   "gpuLikelyDiscrete"} :
            f \in DOMAIN s3 /\ s3[f] = s4[f]
      /\ "totalPhysical" \in DOMAIN s3 /\ s3["totalPhysical"] = r3["totalPhysical"]
  BY <1>1, <1>7, BesideLeft, BesideRight
<1> HIDE DEF s3
<1>9. /\ \A f \in {"drives", "isLaptop", "displayRefreshHz", "displayMaxRefreshHz",
                   "gpuLikelyDiscrete", "totalPhysical"} :
            f \in DOMAIN s2 /\ s2[f] = s3[f]
      /\ "logicalProcessors" \in DOMAIN s2
      /\ s2["logicalProcessors"] = r2["logicalProcessors"]
  BY <1>1, <1>8, BesideLeft, BesideRight
<1> HIDE DEF s2
<1>10. \A f \in {"drives", "isLaptop", "displayRefreshHz", "displayMaxRefreshHz",
                 "gpuLikelyDiscrete", "totalPhysical", "logicalProcessors"} :
            s1[f] = s2[f]
  BY <1>1, <1>9, BesideRight
<1> HIDE DEF s1
<1>11. /\ s1.drives = r7.drives /\ s1.isLaptop = r6.isLaptop
       /\ s1.displayRefreshHz = r5.displayRefreshHz
       /\ s1.displayMaxRefreshHz = r5.displayMaxRefreshHz
  BY <1>2, <1>5, <1>6, <1>7, <1>8, <1>9, <1>10
<1>12. /\ s1.gpuLikelyDiscrete = r4.gpuLikelyDiscrete /\ s1.totalPhysical = r3.totalPhysical
       /\ s1.logicalProcessors = r2.logicalProcessors
  BY <1>7, <1>8, <1>9, <1>10
<1> QED
  BY <1>3, <1>4, <1>11, <1>12 DEF Learned, r4, r5, r6, r7

-----------------------------------------------------------------------------
(* No reason for advice or for an entry that is not one on the other       *)
(* machine as well.                                                        *)
Quieter(q, inventory) ==
    /\ LowMemory(q) => LowMemory(inventory)
    /\ FewCores(q) => FewCores(inventory)
    /\ DisplayBelowItsRefresh(q) => DisplayBelowItsRefresh(inventory)
    /\ SystemDriveLowOnSpace(q) => SystemDriveLowOnSpace(inventory)

SameGpu(q, inventory) == q.gpuLikelyDiscrete = inventory.gpuLikelyDiscrete

(* Nor one for the profile of a battery.                                   *)
NoLaptopMade(q, inventory) == q.isLaptop => inventory.isLaptop

(* Muting one answer leaves the others.                                    *)
LEMMA MutedAnswers ==
    ASSUME NEW m \in Machine, NEW fact \in Fact \ {"space", "battery"}
    PROVE  /\ DOMAIN Muted(m, fact) = DOMAIN m
           /\ Muted(m, fact)[fact] = Silent
           /\ \A f \in DOMAIN m : f # fact => Muted(m, fact)[f] = m[f]
BY MachineAssumption DEF Muted, Fact

(* Nor does muting the drives, which keep their letters.                   *)
LEMMA MutedSpace ==
    ASSUME NEW m \in Machine
    PROVE  /\ \A f \in DOMAIN m : f # "drives" => Muted(m, "space")[f] = m[f]
           /\ Muted(m, "space").drives = WithoutSpace(m.drives)
BY MachineAssumption DEF Muted

(* Nor does muting the battery, but for what is said of the power.         *)
LEMMA MutedBattery ==
    ASSUME NEW m \in Machine
    PROVE  \A f \in DOMAIN m : f # "power" => Muted(m, "battery")[f] = m[f]
BY MachineAssumption DEF Muted

(* A drive whose space is not known is not low on it.                      *)
LEMMA SilentSpace ==
    ASSUME NEW m \in Machine,
           SystemDriveLowOnSpace(ReadSystemInventory(Muted(m, "space")))
    PROVE  FALSE
<1> DEFINE mm == Muted(m, "space")
           inventory == ReadSystemInventory(mm)
           drives == ReadStorage(mm).drives
<1>1. inventory.drives = drives
  BY InventoryFields DEF Learned
<1>2. mm.drives = WithoutSpace(m.drives)
  BY MutedSpace
<1>3. "C" \in DOMAIN drives /\ drives["C"].total > 0
  BY <1>1 DEF SystemDriveLowOnSpace
<1> HIDE DEF mm
<1>4. drives = [letter \in {l \in DOMAIN mm.drives : mm.drives[l].fixed} |->
        [total |-> IF mm.drives[letter].space = Silent THEN 0 ELSE mm.drives[letter].space.total,
         free |-> IF mm.drives[letter].space = Silent THEN 0 ELSE mm.drives[letter].space.free,
         isSolidState |-> mm.drives[letter].isSolidState]]
  BY DEF ReadStorage
<1>5. "C" \in DOMAIN mm.drives
  BY <1>3, <1>4
<1>6. "C" \in DOMAIN m.drives
  BY <1>2, <1>5 DEF WithoutSpace
<1>7. mm.drives["C"] = [m.drives["C"] EXCEPT !.space = Silent]
  BY <1>2, <1>6 DEF WithoutSpace
<1>8. "space" \in DOMAIN m.drives["C"]
  BY <1>6, MachineAssumption
<1>9. mm.drives["C"].space = Silent
  BY <1>7, <1>8
<1> HIDE DEF drives
<1>10. drives["C"].total = 0
  BY <1>3, <1>4, <1>9
<1> QED
  BY <1>3, <1>10

(* A machine that answers less gives no new reason for anything; what it   *)
(* says of the graphics changes only with the graphics' own answer, and    *)
(* only a battery of which nothing is known makes a laptop.                *)
LEMMA MutedIsQuieter ==
    ASSUME NEW m \in Machine, NEW fact \in Fact
    PROVE  /\ Quieter(ReadSystemInventory(Muted(m, fact)), ReadSystemInventory(m))
           /\ fact # "vram" =>
                 SameGpu(ReadSystemInventory(Muted(m, fact)), ReadSystemInventory(m))
           /\ fact # "battery" =>
                 NoLaptopMade(ReadSystemInventory(Muted(m, fact)), ReadSystemInventory(m))
<1> DEFINE mm == Muted(m, fact)
           q == ReadSystemInventory(mm)
           inventory == ReadSystemInventory(m)
<1>1. Learned(q, mm) /\ Learned(inventory, m)
  BY InventoryFields
<1>2. {"cpus", "ram", "vram", "display", "modes", "power", "drives"} \subseteq DOMAIN m
  BY MachineAssumption
<1>3. mm.cpus = m.cpus /\ mm.modes = m.modes
  BY <1>2, MutedAnswers, MutedSpace, MutedBattery DEF Fact
<1>4. mm.ram \in {m.ram, Silent} /\ mm.display \in {m.display, Silent}
      /\ (fact # "battery" => mm.power \in {m.power, Silent})
  BY <1>2, MutedAnswers, MutedSpace, MutedBattery DEF Fact
<1>5. fact # "space" => mm.drives = m.drives
  BY <1>2, MutedAnswers, MutedBattery DEF Fact
<1>6. fact # "vram" => mm.vram = m.vram
  BY <1>2, MutedAnswers, MutedSpace, MutedBattery DEF Fact
<1>7. fact = "space" => ~SystemDriveLowOnSpace(q)
  BY SilentSpace
<1> HIDE DEF mm, q, inventory
<1>8. LowMemory(q) => LowMemory(inventory)
  BY <1>1, <1>4 DEF Learned, LowMemory, Else
<1>9. FewCores(q) => FewCores(inventory)
  BY <1>1, <1>3 DEF Learned, FewCores
<1>10. DisplayBelowItsRefresh(q) => DisplayBelowItsRefresh(inventory)
  <2>1. CASE mm.display = Silent
    BY <1>1, <2>1 DEF Learned, DisplayBelowItsRefresh, ReadDisplay
  <2>2. CASE mm.display = m.display
    <3>1. ReadDisplay(mm) = ReadDisplay(m)
      BY <1>3, <2>2 DEF ReadDisplay
    <3> QED
      BY <1>1, <3>1 DEF Learned, DisplayBelowItsRefresh
  <2> QED
    BY <1>4, <2>1, <2>2
<1>11. SystemDriveLowOnSpace(q) => SystemDriveLowOnSpace(inventory)
  <2>1. fact # "space" => ReadStorage(mm) = ReadStorage(m)
    BY <1>5, Zenon DEF ReadStorage
  <2>2. fact # "space" => q.drives = inventory.drives
    BY <1>1, <2>1 DEF Learned
  <2> QED
    BY <1>7, <2>2 DEF SystemDriveLowOnSpace
<1>12. fact # "battery" => NoLaptopMade(q, inventory)
  <2> SUFFICES ASSUME fact # "battery", q.isLaptop PROVE inventory.isLaptop
    BY DEF NoLaptopMade
  <2>1. CASE mm.power = Silent
    <3>1. ReadPower(mm).isLaptop = FALSE
      BY <2>1 DEF ReadPower
    <3> QED
      BY <1>1, <3>1 DEF Learned
  <2>2. CASE mm.power = m.power
    <3>1. ReadPower(mm) = ReadPower(m)
      BY <2>2 DEF ReadPower
    <3> QED
      BY <1>1, <3>1 DEF Learned
  <2> QED
    BY <1>4, <2>1, <2>2
<1>13. fact # "vram" => SameGpu(q, inventory)
  BY <1>1, <1>6 DEF Learned, SameGpu, ReadGpu
<1>14. Quieter(q, inventory)
  BY <1>8, <1>9, <1>10, <1>11 DEF Quieter
<1> QED
  BY <1>12, <1>13, <1>14 DEF mm, q, inventory

-----------------------------------------------------------------------------
(* The lists of the catalog.                                               *)

(* u is s and then t.                                                      *)
Join(S, u, s, t) ==
    /\ u \in Seq(S) /\ Len(u) = Len(s) + Len(t) /\ DOMAIN u = 1..Len(u)
    /\ \A i \in 1..Len(s) : u[i] = s[i]
    /\ \A i \in 1..Len(t) : u[Len(s) + i] = t[i]

(* Two sequences joined with \o are such a u.                              *)
LEMMA Joined ==
    ASSUME NEW S, NEW s \in Seq(S), NEW t \in Seq(S), NEW u, u = s \o t
    PROVE  Join(S, u, s, t)
<1>1. \A i \in 1..Len(t) : Len(s) + i \in 1..(Len(s) + Len(t)) /\ ~(Len(s) + i <= Len(s))
                           /\ (Len(s) + i) - Len(s) = i
  OBVIOUS
<1>2. /\ u \in Seq(S) /\ Len(u) = Len(s) + Len(t)
      /\ \A i \in 1 .. Len(s) + Len(t) :
            u[i] = IF i <= Len(s) THEN s[i] ELSE t[i - Len(s)]
  BY ConcatProperties
<1>3. Len(s) \in Nat /\ Len(t) \in Nat
  OBVIOUS
<1>4. \A i \in 1..Len(s) : u[i] = s[i]
  BY <1>2, <1>3
<1>5. \A i \in 1..Len(t) : u[Len(s) + i] = t[i]
  BY <1>1, <1>2, <1>3
<1>6. DOMAIN u = 1..Len(u)
  BY <1>2
<1> QED
  BY <1>2, <1>4, <1>5, <1>6 DEF Join

(* Groups of 2, 3, 3, 2, 2, 2 and at most one entry, one after another.    *)
Fourteen(u, a, rest) ==
    /\ DOMAIN u = 1..(14 + Len(rest))
    /\ \A i \in 1..14 : u[i] = a[i]
    /\ Len(rest) = 1 => u[15] = rest[1]

(* BuildCatalog joins its six groups in this way.                          *)
LEMMA SixGroups ==
    ASSUME NEW S, NEW a \in [1..14 -> S], NEW rest \in Seq(S), Len(rest) \in {0, 1}, NEW u,
           u = <<a[1], a[2]>> \o <<a[3], a[4], a[5]>> \o <<a[6], a[7], a[8]>>
               \o <<a[9], a[10]>> \o <<a[11], a[12]>> \o (<<a[13], a[14]>> \o rest)
    PROVE  Fourteen(u, a, rest)
<1> DEFINE g1 == <<a[1], a[2]>>
           g2 == <<a[3], a[4], a[5]>>
           g3 == <<a[6], a[7], a[8]>>
           g4 == <<a[9], a[10]>>
           g5 == <<a[11], a[12]>>
           g6 == <<a[13], a[14]>>
           m == Len(rest)
           u2 == g1 \o g2
           u3 == u2 \o g3
           u4 == u3 \o g4
           u5 == u4 \o g5
           u6 == g6 \o rest
           u7 == u5 \o u6
<1>0. /\ a[1] \in S /\ a[2] \in S /\ a[3] \in S /\ a[4] \in S /\ a[5] \in S /\ a[6] \in S /\ a[7] \in S
      /\ a[8] \in S /\ a[9] \in S /\ a[10] \in S /\ a[11] \in S /\ a[12] \in S /\ a[13] \in S /\ a[14] \in S
  OBVIOUS
<1>1. /\ g1 \in Seq(S) /\ Len(g1) = 2 /\ g1[1] = a[1] /\ g1[2] = a[2]
      /\ g2 \in Seq(S) /\ Len(g2) = 3 /\ g2[1] = a[3] /\ g2[2] = a[4] /\ g2[3] = a[5]
  BY <1>0
<1>2. /\ g3 \in Seq(S) /\ Len(g3) = 3 /\ g3[1] = a[6] /\ g3[2] = a[7] /\ g3[3] = a[8]
      /\ g4 \in Seq(S) /\ Len(g4) = 2 /\ g4[1] = a[9] /\ g4[2] = a[10]
  BY <1>0
<1>3. /\ g5 \in Seq(S) /\ Len(g5) = 2 /\ g5[1] = a[11] /\ g5[2] = a[12]
      /\ g6 \in Seq(S) /\ Len(g6) = 2 /\ g6[1] = a[13] /\ g6[2] = a[14]
  BY <1>0
<1>4. /\ u2 = g1 \o g2 /\ u3 = u2 \o g3 /\ u4 = u3 \o g4 /\ u5 = u4 \o g5
      /\ u6 = g6 \o rest /\ u7 = u5 \o u6
  OBVIOUS
<1>5. u = u7
  OBVIOUS
<1> HIDE DEF g1, g2, g3, g4, g5, g6, u2, u3, u4, u5, u6, u7
<1>6. /\ u2 \in Seq(S) /\ Len(u2) = 5
      /\ (\A i \in 1..2 : u2[i] = g1[i]) /\ \A i \in 1..3 : u2[2 + i] = g2[i]
  <2>1. Join(S, u2, g1, g2)
    BY ONLY <1>1, <1>4, Joined
  <2> QED
    BY <1>1, <2>1 DEF Join
<1>7. /\ u3 \in Seq(S) /\ Len(u3) = 8
      /\ (\A i \in 1..5 : u3[i] = u2[i]) /\ \A i \in 1..3 : u3[5 + i] = g3[i]
  <2>1. Join(S, u3, u2, g3)
    BY ONLY <1>2, <1>6, <1>4, Joined
  <2> QED
    BY <1>2, <1>6, <2>1 DEF Join
<1>8. /\ u4 \in Seq(S) /\ Len(u4) = 10
      /\ (\A i \in 1..8 : u4[i] = u3[i]) /\ \A i \in 1..2 : u4[8 + i] = g4[i]
  <2>1. Join(S, u4, u3, g4)
    BY ONLY <1>2, <1>7, <1>4, Joined
  <2> QED
    BY <1>2, <1>7, <2>1 DEF Join
<1>9. /\ u5 \in Seq(S) /\ Len(u5) = 12
      /\ (\A i \in 1..10 : u5[i] = u4[i]) /\ \A i \in 1..2 : u5[10 + i] = g5[i]
  <2>1. Join(S, u5, u4, g5)
    BY ONLY <1>3, <1>8, <1>4, Joined
  <2> QED
    BY <1>3, <1>8, <2>1 DEF Join
<1>a. rest \in Seq(S)
  OBVIOUS
<1>10. /\ u6 \in Seq(S) /\ Len(u6) = 2 + m
       /\ (\A i \in 1..2 : u6[i] = g6[i]) /\ \A i \in 1..m : u6[2 + i] = rest[i]
  <2>1. Join(S, u6, g6, rest)
    BY ONLY <1>a, <1>3, <1>4, Joined
  <2> QED
    BY <1>3, <2>1 DEF Join
<1>11. /\ DOMAIN u7 = 1..(14 + m)
       /\ (\A i \in 1..12 : u7[i] = u5[i]) /\ \A i \in {1, 2, 3} : i <= 2 + m => u7[12 + i] = u6[i]
  <2>0. m \in {0, 1}
    OBVIOUS
  <2>1. Join(S, u7, u5, u6)
    BY ONLY <1>9, <1>10, <1>4, Joined
  <2> HIDE DEF m
  <2> QED
    BY <1>9, <1>10, <2>0, <2>1 DEF Join
<1>12. u2[1] = a[1] /\ u2[2] = a[2] /\ u2[3] = a[3] /\ u2[4] = a[4] /\ u2[5] = a[5]
  BY <1>1, <1>6
<1>13. \A i \in 1..5 : u3[i] = u2[i]
  BY <1>7
<1>14. u3[6] = a[6] /\ u3[7] = a[7] /\ u3[8] = a[8]
  BY <1>2, <1>7
<1>15. (\A i \in 1..8 : u4[i] = u3[i]) /\ u4[9] = a[9] /\ u4[10] = a[10]
  BY <1>2, <1>8
<1>16. (\A i \in 1..10 : u5[i] = u4[i]) /\ u5[11] = a[11] /\ u5[12] = a[12]
  BY <1>3, <1>9
<1>17. u6[1] = a[13] /\ u6[2] = a[14] /\ (m = 1 => u6[3] = rest[1])
  BY <1>3, <1>10
<1>18. DOMAIN u7 = 1..(14 + m) /\ (\A i \in 1..12 : u7[i] = u5[i])
  BY <1>11
<1>19. u7[13] = a[13] /\ u7[14] = a[14] /\ (m = 1 => u7[15] = rest[1])
  BY <1>11, <1>17
<1>20. \A i \in 1..14 : u7[i] = a[i]
  <2>1. \A i \in 1..12 : u7[i] = a[i]
    <3>1. \A i \in 1..5 : u7[i] = a[i]
      BY <1>12, <1>13, <1>15, <1>16, <1>18
    <3>2. \A i \in 6..8 : u7[i] = a[i]
      BY <1>14, <1>15, <1>16, <1>18
    <3>3. \A i \in 9..12 : u7[i] = a[i]
      BY <1>15, <1>16, <1>18
    <3> QED
      BY <3>1, <3>2, <3>3
  <2> QED
    BY <1>19, <2>1
<1> QED
  BY <1>5, <1>18, <1>19, <1>20 DEF Fourteen

-----------------------------------------------------------------------------
(* The ids of the catalog, in order, the last one on some machines only.   *)
Ids == <<"gaming.game_mode", "gaming.game_dvr", "general.client_animations",
         "general.ui_effects", "general.transparency", "privacy.tips_suggestions",
         "privacy.advertising_id", "privacy.start_suggestions", "general.menu_delay",
         "general.taskbar_widgets", "startup.background_apps", "storage.storage_sense",
         "gaming.hags", "gaming.gpu_preference", "display.refresh_rate">>

LEMMA IdsDiffer == \A i, j \in 1..15 : Ids[i] = Ids[j] => i = j
BY DEF Ids

(* Which of the entries are recommended on a machine.                      *)
Advised(inventory, i) ==
    \/ i = 2
    \/ i \in {1, 10, 11} /\ (FewCores(inventory) \/ LowMemory(inventory))
    \/ i \in {3, 4} /\ ResourceConstrained(inventory)
    \/ i = 5 /\ ~inventory.gpuLikelyDiscrete
    \/ i = 12 /\ SystemDriveLowOnSpace(inventory)

(* The second parts of the places they write.                              *)
Values == <<{"AutoGameModeEnabled"}, {"GameDVR_Enabled", "AppCaptureEnabled"},
            {"CLIENTAREAANIMATION"}, {"UIEFFECTS"}, {"EnableTransparency"},
            {"338389Enabled"}, {"Enabled"}, {"338388Enabled"}, {"MenuShowDelay"},
            {"TaskbarDa"}, {"GlobalUserDisabled"}, {"01"}, {}, {}, {}>>

LEMMA ValuesDiffer == \A i, j \in 1..15 : i # j => Values[i] \cap Values[j] = {}
BY DEF Values

(* The fourteen entries of every catalog.                                  *)
Standard(inventory) ==
    LET gaming == Gaming(inventory)
        general == General(inventory)
        privacy == Privacy(inventory)
        responsive == Responsiveness(inventory)
        background == Background(inventory)
    IN  <<gaming[1], gaming[2], general[1], general[2], general[3],
          privacy[1], privacy[2], privacy[3], responsive[1], responsive[2],
          background[1], background[2], Guide("gaming.hags"), Guide("gaming.gpu_preference")>>

(* The one more.                                                           *)
Refresh(inventory) ==
    IF DisplayBelowItsRefresh(inventory) THEN <<Guide("display.refresh_rate")>> ELSE <<>>

(* A catalog is the fourteen standard entries and at most one more.        *)
LEMMA CatalogList ==
    ASSUME NEW inventory, NEW c, c = BuildCatalog(inventory)
    PROVE  /\ DOMAIN c = 1..(14 + Len(Refresh(inventory)))
           /\ \A i \in 1..14 : c[i] = Standard(inventory)[i]
           /\ DisplayBelowItsRefresh(inventory) =>
                 Len(Refresh(inventory)) = 1 /\ c[15] = Guide("display.refresh_rate")
           /\ ~DisplayBelowItsRefresh(inventory) => Len(Refresh(inventory)) = 0
<1> DEFINE a == Standard(inventory)
           rest == Refresh(inventory)
           last == Guide("display.refresh_rate")
           S == {a[i] : i \in 1..14} \cup {last}
<1>1. /\ Gaming(inventory) = <<a[1], a[2]>> /\ General(inventory) = <<a[3], a[4], a[5]>>
      /\ Privacy(inventory) = <<a[6], a[7], a[8]>> /\ Responsiveness(inventory) = <<a[9], a[10]>>
      /\ Background(inventory) = <<a[11], a[12]>>
  BY DEF Standard, Gaming, General, Privacy, Responsiveness, Background
<1>2. Guides(inventory) = <<a[13], a[14]>> \o rest
  BY DEF Standard, Guides, Refresh
<1>3. DOMAIN a = 1..14 /\ a = [i \in DOMAIN a |-> a[i]]
  BY DEF Standard
<1>4. a \in [1..14 -> S]
  <2> HIDE DEF a
  <2> QED
    BY <1>3
<1>5. rest \in Seq(S) /\ Len(rest) \in {0, 1}
  <2>1. last \in S
    OBVIOUS
  <2> HIDE DEF S, last
  <2>2. <<>> \in Seq(S) /\ <<last>> \in Seq(S) /\ Len(<<>>) = 0 /\ Len(<<last>>) = 1
    BY <2>1
  <2>3. rest = <<>> \/ rest = <<last>>
    BY DEF Refresh, last
  <2> HIDE DEF rest
  <2> QED
    BY <2>2, <2>3
<1>6. DisplayBelowItsRefresh(inventory) => Len(rest) = 1 /\ rest[1] = last
  BY DEF Refresh
<1>7. ~DisplayBelowItsRefresh(inventory) => Len(rest) = 0
  BY DEF Refresh
<1> HIDE DEF a, rest, last, S
<1>8. c = <<a[1], a[2]>> \o <<a[3], a[4], a[5]>> \o <<a[6], a[7], a[8]>>
               \o <<a[9], a[10]>> \o <<a[11], a[12]>> \o (<<a[13], a[14]>> \o rest)
  BY <1>1, <1>2, Zenon DEF BuildCatalog
<1>9. Fourteen(c, a, rest)
  BY ONLY <1>4, <1>5, <1>8, SixGroups
<1> QED
  BY <1>6, <1>7, <1>9 DEF a, rest, last, Fourteen

-----------------------------------------------------------------------------
IsRecommended(e) == e.classification = "Recommended"

(* An entry has the id of its number, the first twelve can be applied and  *)
(* write something, and it writes places with values of its number only,   *)
(* each once.                                                              *)
Fits(e, i) ==
    /\ e.id = Ids[i]
    /\ i <= 12 => e.kind # "guide" /\ 1 \in DOMAIN e.targets
    /\ i > 12 => e.kind = "guide"
    /\ \A k \in DOMAIN e.targets : e.targets[k].place[2] \in Values[i]
    /\ \A k, l \in DOMAIN e.targets : e.targets[k].place = e.targets[l].place => k = l

(* Each of the fourteen fits its number, whatever the machine.             *)
LEMMA StandardFits ==
    ASSUME NEW inventory
    PROVE  \A i \in 1..14 : Fits(Standard(inventory)[i], i)
<1> DEFINE a == Standard(inventory)
<1>1. Fits(a[1], 1)
  BY DEF Standard, Gaming, Entry, Target, Fits, Ids, Values
<1>2. Fits(a[2], 2)
  BY DEF Standard, Gaming, Entry, Target, Fits, Ids, Values
<1>3. Fits(a[3], 3)
  BY DEF Standard, General, Entry, Target, Fits, Ids, Values
<1>4. Fits(a[4], 4)
  BY DEF Standard, General, Entry, Target, Fits, Ids, Values
<1>5. Fits(a[5], 5)
  BY DEF Standard, General, Entry, Target, Fits, Ids, Values
<1>6. Fits(a[6], 6)
  BY DEF Standard, Privacy, Entry, Target, Fits, Ids, Values
<1>7. Fits(a[7], 7)
  BY DEF Standard, Privacy, Entry, Target, Fits, Ids, Values
<1>8. Fits(a[8], 8)
  BY DEF Standard, Privacy, Entry, Target, Fits, Ids, Values
<1>9. Fits(a[9], 9)
  BY DEF Standard, Responsiveness, Entry, Target, Fits, Ids, Values
<1>10. Fits(a[10], 10)
  BY DEF Standard, Responsiveness, Entry, Target, Fits, Ids, Values
<1>11. Fits(a[11], 11)
  BY DEF Standard, Background, Entry, Target, Fits, Ids, Values
<1>12. Fits(a[12], 12)
  BY DEF Standard, Background, Entry, Target, Fits, Ids, Values
<1>13. Fits(a[13], 13)
  BY DEF Standard, Guide, Fits, Ids
<1>14. Fits(a[14], 14)
  BY DEF Standard, Guide, Fits, Ids
<1> HIDE DEF a
<1>15. \A i \in 1..14 : Fits(a[i], i)
  BY <1>1, <1>2, <1>3, <1>4, <1>5, <1>6, <1>7, <1>8, <1>9, <1>10, <1>11, <1>12, <1>13, <1>14
<1> QED
  BY <1>15 DEF a

(* What each of the fourteen is recommended for.                           *)
LEMMA StandardAdvice ==
    ASSUME NEW inventory
    PROVE  \A i \in 1..14 : IsRecommended(Standard(inventory)[i]) <=> Advised(inventory, i)
<1> DEFINE a == Standard(inventory)
<1>1. IsRecommended(a[1]) <=> Advised(inventory, 1)
  BY DEF Standard, Gaming, Entry, Classify, IsRecommended, Advised
<1>2. IsRecommended(a[2]) <=> Advised(inventory, 2)
  BY DEF Standard, Gaming, Entry, Classify, IsRecommended, Advised
<1>3. IsRecommended(a[3]) <=> Advised(inventory, 3)
  BY DEF Standard, General, Entry, Classify, IsRecommended, Advised
<1>4. IsRecommended(a[4]) <=> Advised(inventory, 4)
  BY DEF Standard, General, Entry, Classify, IsRecommended, Advised
<1>5. IsRecommended(a[5]) <=> Advised(inventory, 5)
  BY DEF Standard, General, Entry, Classify, IsRecommended, Advised
<1>6. IsRecommended(a[6]) <=> Advised(inventory, 6)
  BY DEF Standard, Privacy, Entry, Classify, IsRecommended, Advised
<1>7. IsRecommended(a[7]) <=> Advised(inventory, 7)
  BY DEF Standard, Privacy, Entry, Classify, IsRecommended, Advised
<1>8. IsRecommended(a[8]) <=> Advised(inventory, 8)
  BY DEF Standard, Privacy, Entry, Classify, IsRecommended, Advised
<1>9. IsRecommended(a[9]) <=> Advised(inventory, 9)
  BY DEF Standard, Responsiveness, Entry, Classify, IsRecommended, Advised
<1>10. IsRecommended(a[10]) <=> Advised(inventory, 10)
  BY DEF Standard, Responsiveness, Entry, Classify, IsRecommended, Advised
<1>11. IsRecommended(a[11]) <=> Advised(inventory, 11)
  BY DEF Standard, Background, Entry, Classify, IsRecommended, Advised
<1>12. IsRecommended(a[12]) <=> Advised(inventory, 12)
  BY DEF Standard, Background, Entry, Classify, IsRecommended, Advised
<1>13. IsRecommended(a[13]) <=> Advised(inventory, 13)
  BY DEF Standard, Guide, IsRecommended, Advised
<1>14. IsRecommended(a[14]) <=> Advised(inventory, 14)
  BY DEF Standard, Guide, IsRecommended, Advised
<1> HIDE DEF a
<1>15. \A i \in 1..14 : IsRecommended(a[i]) <=> Advised(inventory, i)
  BY <1>1, <1>2, <1>3, <1>4, <1>5, <1>6, <1>7, <1>8, <1>9, <1>10, <1>11, <1>12, <1>13, <1>14
<1> QED
  BY <1>15 DEF a

-----------------------------------------------------------------------------
(* Every entry of a catalog fits its number; only the fifteenth depends on *)
(* the machine.                                                            *)
CatalogOf(c, inventory) ==
    /\ 1..14 \subseteq DOMAIN c /\ DOMAIN c \subseteq 1..15
    /\ 15 \in DOMAIN c <=> DisplayBelowItsRefresh(inventory)
    /\ \A i \in DOMAIN c : Fits(c[i], i) /\ (IsRecommended(c[i]) <=> Advised(inventory, i))

(* So is every entry of every catalog.                                     *)
LEMMA BuiltCatalog ==
    ASSUME NEW inventory
    PROVE  CatalogOf(BuildCatalog(inventory), inventory)
<1> DEFINE c == BuildCatalog(inventory)
           last == Guide("display.refresh_rate")
           n == Len(Refresh(inventory))
<1>1. DOMAIN c = 1..(14 + n) /\ \A i \in 1..14 : c[i] = Standard(inventory)[i]
  BY CatalogList
<1>2. /\ DisplayBelowItsRefresh(inventory) => n = 1 /\ c[15] = last
      /\ ~DisplayBelowItsRefresh(inventory) => n = 0
  BY CatalogList
<1>3. \A i \in 1..14 : Fits(c[i], i) /\ (IsRecommended(c[i]) <=> Advised(inventory, i))
  BY <1>1, StandardFits, StandardAdvice
<1>4. Fits(last, 15) /\ ~IsRecommended(last) /\ ~Advised(inventory, 15)
  BY DEF Fits, Guide, Ids, IsRecommended, Advised
<1> HIDE DEF c, last, n
<1>5. DisplayBelowItsRefresh(inventory) => DOMAIN c = 1..15
  BY <1>1, <1>2
<1>6. ~DisplayBelowItsRefresh(inventory) => DOMAIN c = 1..14
  BY <1>1, <1>2
<1>7. 1..14 \subseteq DOMAIN c /\ DOMAIN c \subseteq 1..15
  BY <1>5, <1>6
<1>8. 15 \in DOMAIN c <=> DisplayBelowItsRefresh(inventory)
  BY <1>5, <1>6
<1>9. \A i \in DOMAIN c : Fits(c[i], i) /\ (IsRecommended(c[i]) <=> Advised(inventory, i))
  BY <1>2, <1>3, <1>4, <1>7, <1>8
<1> QED
  BY <1>7, <1>8, <1>9 DEF CatalogOf, c

(* The catalog and the profiles are those of the machine.                  *)
CatalogInv ==
    /\ machine = NoMachine => catalog = <<>> /\ profiles = <<>>
    /\ machine # NoMachine =>
          /\ machine \in Machine
          /\ catalog = BuildCatalog(ReadSystemInventory(machine))
          /\ profiles = BuildProfiles(ReadSystemInventory(machine))

(* Only the constructor builds them, and the end drops both.               *)
LEMMA CatalogInvariant == CatalogSpec => []CatalogInv
<1>1. CatalogInit => CatalogInv
  BY DEF CatalogInit, CatalogInv
<1>2. CatalogInv /\ [CatalogNext]_catalogVars => CatalogInv'
  <2> SUFFICES ASSUME CatalogInv, [CatalogNext]_catalogVars
               PROVE  CatalogInv'
    OBVIOUS
  <2>1. CASE Quit
    BY <2>1 DEF Quit, CatalogInv
  <2>2. ASSUME NEW m \in Machine, Construct(m)
        PROVE  CatalogInv'
    <3>1. m # NoMachine
      <4>1. "build" \in DOMAIN m
        BY MachineAssumption
      <4>2. "build" \notin DOMAIN NoMachine
        BY DEF NoMachine
      <4> QED
        BY <4>1, <4>2
    <3>2. /\ machine' = m /\ catalog' = BuildCatalog(ReadSystemInventory(m))
          /\ profiles' = BuildProfiles(ReadSystemInventory(m))
      BY <2>2 DEF Construct
    <3> QED
      BY <3>1, <3>2 DEF CatalogInv
  <2>3. CASE UNCHANGED catalogVars
    BY <2>3 DEF catalogVars, CatalogInv
  <2> QED
    BY <2>1, <2>2, <2>3 DEF CatalogNext
<1> QED
  BY <1>1, <1>2, PTL DEF CatalogSpec

(* Entries of different numbers have different ids and places.             *)
LEMMA NoOverlap ==
    ASSUME CatalogInv
    PROVE  EntriesDoNotOverlap
<1>1. CASE machine = NoMachine
  BY <1>1 DEF CatalogInv, EntriesDoNotOverlap
<1>2. CASE machine # NoMachine
  <2>1. DOMAIN catalog \subseteq 1..15 /\ \A i \in DOMAIN catalog : Fits(catalog[i], i)
    BY <1>2, BuiltCatalog DEF CatalogInv, CatalogOf
  <2>2. ASSUME NEW i \in DOMAIN catalog, NEW j \in DOMAIN catalog, i # j
        PROVE  catalog[i].id # catalog[j].id /\ Places(i) \cap Places(j) = {}
    <3>1. i \in 1..15 /\ j \in 1..15 /\ Fits(catalog[i], i) /\ Fits(catalog[j], j)
      BY <2>1
    <3>2. catalog[i].id # catalog[j].id
      BY <2>2, <3>1, IdsDiffer DEF Fits
    <3>3. ASSUME NEW place \in Places(i), place \in Places(j)
          PROVE  FALSE
      <4>1. place[2] \in Values[i]
        BY <3>1 DEF Places, Fits
      <4>2. place[2] \in Values[j]
        BY <3>1, <3>3 DEF Places, Fits
      <4>3. Values[i] \cap Values[j] = {}
        BY <2>2, <3>1, ValuesDiffer
      <4> QED
        BY <4>1, <4>2, <4>3
    <3> QED
      BY <3>2, <3>3
  <2>3. \A i \in DOMAIN catalog : \A k, l \in DOMAIN catalog[i].targets :
            catalog[i].targets[k].place = catalog[i].targets[l].place => k = l
    BY <2>1 DEF Fits
  <2> QED
    BY <2>2, <2>3 DEF EntriesDoNotOverlap
<1> QED
  BY <1>1, <1>2

-----------------------------------------------------------------------------
(* The ids name entries that can be applied, each once.                    *)
Chosen(ids, numbers) ==
    /\ DOMAIN ids = DOMAIN numbers
    /\ \A k \in DOMAIN ids : numbers[k] \in 1..12 /\ ids[k] = Ids[numbers[k]]
    /\ \A k, l \in DOMAIN ids : numbers[k] = numbers[l] => k = l

Id == {Ids[i] : i \in 1..15}

LEMMA EffectsAre ==
    /\ Effects \in Seq(Id) /\ Len(Effects) = 3
    /\ Effects[1] = Ids[3] /\ Effects[2] = Ids[4] /\ Effects[3] = Ids[5]
<1>1. Effects = <<Ids[3], Ids[4], Ids[5]>>
  BY DEF Effects, Ids
<1>2. Ids[3] \in Id /\ Ids[4] \in Id /\ Ids[5] \in Id
  BY DEF Id
<1> QED
  BY <1>1, <1>2

(* The three effects and two more ids.                                     *)
LEMMA EffectsAnd ==
    ASSUME NEW rest \in Seq(Id), Len(rest) = 2, NEW u, u = Effects \o rest
    PROVE  /\ DOMAIN u = 1..5 /\ u[1] = Ids[3] /\ u[2] = Ids[4] /\ u[3] = Ids[5]
           /\ u[4] = rest[1] /\ u[5] = rest[2]
<1>1. /\ Effects \in Seq(Id) /\ Len(Effects) = 3 /\ Effects[1] = Ids[3]
      /\ Effects[2] = Ids[4] /\ Effects[3] = Ids[5]
  BY EffectsAre
<1> HIDE DEF Effects
<1>2. Join(Id, u, Effects, rest)
  BY <1>1, Joined
<1> QED
  BY <1>1, <1>2 DEF Join

(* The ids of the four profiles are those of these entries.                *)
LEMMA GamingChosen ==
    Chosen(<<"gaming.game_mode", "gaming.game_dvr">> \o Effects \o <<"startup.background_apps">>,
           <<1, 2, 3, 4, 5, 11>>)
<1> DEFINE s == <<"gaming.game_mode", "gaming.game_dvr">>
           t == <<"startup.background_apps">>
           u == s \o Effects
           v == u \o t
<1>1. /\ Effects \in Seq(Id) /\ Len(Effects) = 3 /\ Effects[1] = Ids[3]
      /\ Effects[2] = Ids[4] /\ Effects[3] = Ids[5]
  BY EffectsAre
<1>2. /\ s \in Seq(Id) /\ Len(s) = 2 /\ s[1] = Ids[1] /\ s[2] = Ids[2]
      /\ t \in Seq(Id) /\ Len(t) = 1 /\ t[1] = Ids[11]
  <2>1. s = <<Ids[1], Ids[2]>> /\ t = <<Ids[11]>>
    BY DEF Ids
  <2>2. Ids[1] \in Id /\ Ids[2] \in Id /\ Ids[11] \in Id
    BY DEF Id
  <2> QED
    BY <2>1, <2>2
<1>3. u = s \o Effects /\ v = u \o t
  OBVIOUS
<1> HIDE DEF Effects, s, t, u, v
<1>4. Join(Id, u, s, Effects)
  BY ONLY <1>1, <1>2, <1>3, Joined
<1>5. /\ u \in Seq(Id) /\ Len(u) = 5
      /\ u[1] = Ids[1] /\ u[2] = Ids[2] /\ u[3] = Ids[3] /\ u[4] = Ids[4] /\ u[5] = Ids[5]
  BY <1>1, <1>2, <1>4 DEF Join
<1>6. Join(Id, v, u, t)
  BY ONLY <1>2, <1>3, <1>5, Joined
<1>7. /\ DOMAIN v = 1..6 /\ v[1] = Ids[1] /\ v[2] = Ids[2] /\ v[3] = Ids[3]
      /\ v[4] = Ids[4] /\ v[5] = Ids[5] /\ v[6] = Ids[11]
  BY <1>2, <1>5, <1>6 DEF Join
<1>8. Chosen(v, <<1, 2, 3, 4, 5, 11>>)
  BY <1>7 DEF Chosen
<1> QED
  BY <1>3, <1>8 DEF s, t

LEMMA ResponsiveChosen ==
    Chosen(Effects \o <<"general.menu_delay", "general.taskbar_widgets">>, <<3, 4, 5, 9, 10>>)
<1> DEFINE t == <<"general.menu_delay", "general.taskbar_widgets">>
           u == Effects \o t
<1>1. t \in Seq(Id) /\ Len(t) = 2 /\ t[1] = Ids[9] /\ t[2] = Ids[10]
  <2>1. t = <<Ids[9], Ids[10]>>
    BY DEF Ids
  <2>2. Ids[9] \in Id /\ Ids[10] \in Id
    BY DEF Id
  <2> QED
    BY <2>1, <2>2
<1> HIDE DEF t
<1>2. /\ DOMAIN u = 1..5 /\ u[1] = Ids[3] /\ u[2] = Ids[4] /\ u[3] = Ids[5]
      /\ u[4] = Ids[9] /\ u[5] = Ids[10]
  BY <1>1, EffectsAnd
<1> HIDE DEF u
<1>3. Chosen(u, <<3, 4, 5, 9, 10>>)
  BY <1>2 DEF Chosen
<1> QED
  BY <1>3 DEF u, t

LEMMA BatteryChosen ==
    Chosen(Effects \o <<"startup.background_apps", "storage.storage_sense">>,
           <<3, 4, 5, 11, 12>>)
<1> DEFINE t == <<"startup.background_apps", "storage.storage_sense">>
           u == Effects \o t
<1>1. t \in Seq(Id) /\ Len(t) = 2 /\ t[1] = Ids[11] /\ t[2] = Ids[12]
  <2>1. t = <<Ids[11], Ids[12]>>
    BY DEF Ids
  <2>2. Ids[11] \in Id /\ Ids[12] \in Id
    BY DEF Id
  <2> QED
    BY <2>1, <2>2
<1> HIDE DEF t
<1>2. /\ DOMAIN u = 1..5 /\ u[1] = Ids[3] /\ u[2] = Ids[4] /\ u[3] = Ids[5]
      /\ u[4] = Ids[11] /\ u[5] = Ids[12]
  BY <1>1, EffectsAnd
<1> HIDE DEF u
<1>3. Chosen(u, <<3, 4, 5, 11, 12>>)
  BY <1>2 DEF Chosen
<1> QED
  BY <1>3 DEF u, t

LEMMA QuietChosen ==
    Chosen(<<"privacy.tips_suggestions", "privacy.start_suggestions",
             "privacy.advertising_id", "general.taskbar_widgets">>, <<6, 8, 7, 10>>)
BY DEF Chosen, Ids

(* The profiles of a machine.                                              *)
Kinds == <<"profile.gaming", "profile.responsive", "profile.quiet", "profile.battery">>
Numbers == <<<<1, 2, 3, 4, 5, 11>>, <<3, 4, 5, 9, 10>>, <<6, 8, 7, 10>>, <<3, 4, 5, 11, 12>>>>

ProfilesOf(list, inventory) ==
    /\ DOMAIN list = IF inventory.isLaptop THEN 1..4 ELSE 1..3
    /\ \A p \in DOMAIN list :
          list[p].id = Kinds[p] /\ Chosen(list[p].optimizationIds, Numbers[p])

(* A machine has three profiles, a laptop a fourth.                        *)
LEMMA BuiltProfiles ==
    ASSUME NEW inventory
    PROVE  ProfilesOf(BuildProfiles(inventory), inventory)
<1> DEFINE gaming == Profile("profile.gaming", <<"gaming.game_mode", "gaming.game_dvr">> \o Effects
                              \o <<"startup.background_apps">>)
           responsive == Profile("profile.responsive", Effects \o <<"general.menu_delay",
                                               "general.taskbar_widgets">>)
           quiet == Profile("profile.quiet", <<"privacy.tips_suggestions", "privacy.start_suggestions",
                               "privacy.advertising_id", "general.taskbar_widgets">>)
           S == {gaming, responsive, quiet, Battery}
           s == <<gaming, responsive, quiet>>
           t == IF inventory.isLaptop THEN <<Battery>> ELSE <<>>
           v == s \o t
<1>1. gaming.id = Kinds[1] /\ Chosen(gaming.optimizationIds, Numbers[1])
  BY GamingChosen DEF Profile, Kinds, Numbers
<1>2. responsive.id = Kinds[2] /\ Chosen(responsive.optimizationIds, Numbers[2])
  BY ResponsiveChosen DEF Profile, Kinds, Numbers
<1>3. quiet.id = Kinds[3] /\ Chosen(quiet.optimizationIds, Numbers[3])
  BY QuietChosen DEF Profile, Kinds, Numbers
<1>4. Battery.id = Kinds[4] /\ Chosen(Battery.optimizationIds, Numbers[4])
  BY BatteryChosen DEF Battery, Profile, Kinds, Numbers
<1>5. v = BuildProfiles(inventory)
  BY DEF BuildProfiles
<1> HIDE DEF gaming, responsive, quiet
<1>6. s \in Seq(S) /\ Len(s) = 3 /\ s[1] = gaming /\ s[2] = responsive /\ s[3] = quiet
  OBVIOUS
<1>7. Battery \in S
  OBVIOUS
<1> HIDE DEF S, s
<1>8. /\ t \in Seq(S) /\ Len(t) = IF inventory.isLaptop THEN 1 ELSE 0
      /\ inventory.isLaptop => t[1] = Battery
  BY <1>7
<1>9. v = s \o t
  OBVIOUS
<1> HIDE DEF t, v
<1>10. Join(S, v, s, t)
  BY ONLY <1>6, <1>8, <1>9, Joined
<1>a. DOMAIN v = 1..Len(v) /\ Len(v) = 3 + Len(t)
  BY <1>6, <1>10, Zenon DEF Join
<1>b. DOMAIN v = IF inventory.isLaptop THEN 1..4 ELSE 1..3
  <2>1. Len(t) = 1 => DOMAIN v = 1..4
    BY <1>a
  <2>2. Len(t) = 0 => DOMAIN v = 1..3
    BY <1>a
  <2> QED
    BY <1>8, <2>1, <2>2, Zenon
<1>c. v[1] = s[1] /\ v[2] = s[2] /\ v[3] = s[3] /\ (inventory.isLaptop => v[4] = t[1])
  BY <1>6, <1>8, <1>10 DEF Join
<1>11. /\ DOMAIN v = IF inventory.isLaptop THEN 1..4 ELSE 1..3
       /\ v[1] = gaming /\ v[2] = responsive /\ v[3] = quiet
       /\ inventory.isLaptop => v[4] = Battery
  BY <1>6, <1>8, <1>b, <1>c
<1>12. \A p \in DOMAIN v : v[p].id = Kinds[p] /\ Chosen(v[p].optimizationIds, Numbers[p])
  BY <1>1, <1>2, <1>3, <1>4, <1>11
<1> QED
  BY <1>5, <1>11, <1>12 DEF ProfilesOf

(* The preview finds for each chosen id the one entry of its number.       *)
LEMMA ChosenFits ==
    ASSUME NEW profile, NEW numbers, Chosen(profile.optimizationIds, numbers),
           1..14 \subseteq DOMAIN catalog, DOMAIN catalog \subseteq 1..15,
           \A i \in DOMAIN catalog : Fits(catalog[i], i)
    PROVE  LET steps == PreviewProfile(profile)
           IN  /\ \A k \in DOMAIN steps : \E i \in DOMAIN catalog :
                     steps[k] = {i} /\ catalog[i].kind # "guide"
               /\ \A k, l \in DOMAIN steps : steps[k] = steps[l] => k = l
<1> DEFINE steps == PreviewProfile(profile)
           ids == profile.optimizationIds
<1>1. DOMAIN steps = DOMAIN ids
  BY DEF PreviewProfile
<1>2. ASSUME NEW k \in DOMAIN ids
      PROVE  /\ numbers[k] \in DOMAIN catalog /\ steps[k] = {numbers[k]}
             /\ catalog[numbers[k]].kind # "guide"
  <2>1. numbers[k] \in 1..12 /\ ids[k] = Ids[numbers[k]]
    BY DEF Chosen
  <2>2. numbers[k] \in DOMAIN catalog /\ Fits(catalog[numbers[k]], numbers[k])
    BY <2>1
  <2>3. steps[k] = {i \in DOMAIN catalog : catalog[i].id = ids[k]}
    BY DEF PreviewProfile
  <2>4. \A i \in DOMAIN catalog : catalog[i].id = ids[k] <=> i = numbers[k]
    <3>1. \A i \in DOMAIN catalog : catalog[i].id = Ids[i] /\ i \in 1..15
      BY DEF Fits
    <3>2. numbers[k] \in 1..15
      BY <2>1
    <3> QED
      BY <2>1, <2>2, <3>1, <3>2, IdsDiffer
  <2>5. steps[k] = {numbers[k]}
    BY <2>2, <2>3, <2>4
  <2>6. catalog[numbers[k]].kind # "guide"
    BY <2>1, <2>2 DEF Fits
  <2> QED
    BY <2>2, <2>5, <2>6
<1>3. \A k, l \in DOMAIN ids : numbers[k] = numbers[l] => k = l
  BY DEF Chosen
<1> HIDE DEF steps, ids
<1>4. \A k \in DOMAIN steps : \E i \in DOMAIN catalog :
         steps[k] = {i} /\ catalog[i].kind # "guide"
  BY <1>1, <1>2
<1>5. \A k, l \in DOMAIN steps : steps[k] = steps[l] => k = l
  <2> SUFFICES ASSUME NEW k \in DOMAIN steps, NEW l \in DOMAIN steps, steps[k] = steps[l]
               PROVE  k = l
    OBVIOUS
  <2>1. {numbers[k]} = {numbers[l]}
    BY <1>1, <1>2
  <2> QED
    BY <1>1, <1>3, <2>1
<1> QED
  BY <1>4, <1>5 DEF steps

LEMMA ProfilesNameEntries ==
    ASSUME CatalogInv
    PROVE  ProfilesFit
<1>1. CASE machine = NoMachine
  BY <1>1 DEF CatalogInv, ProfilesFit
<1>2. CASE machine # NoMachine
  <2>1. /\ 1..14 \subseteq DOMAIN catalog /\ DOMAIN catalog \subseteq 1..15
        /\ \A i \in DOMAIN catalog : Fits(catalog[i], i)
    BY <1>2, BuiltCatalog DEF CatalogInv, CatalogOf
  <2>2. \A p \in DOMAIN profiles : Chosen(profiles[p].optimizationIds, Numbers[p])
    BY <1>2, BuiltProfiles DEF CatalogInv, ProfilesOf
  <2> QED
    BY <2>1, <2>2, ChosenFits DEF ProfilesFit
<1> QED
  BY <1>1, <1>2

(* On every machine no two entries have an id or write a place in common,  *)
(* and every id of a profile is one entry that can be applied and rolled   *)
(* back (Catalog.cpp, Profiles.cpp).                                       *)
THEOREM CatalogAlwaysFits == CatalogSpec => []CatalogFits
<1>1. CatalogInv => CatalogFits
  BY NoOverlap, ProfilesNameEntries DEF CatalogFits
<1> QED
  BY <1>1, CatalogInvariant, PTL

-----------------------------------------------------------------------------
(* A quieter machine with the same graphics is advised nothing more,       *)
LEMMA QuieterAdvice ==
    ASSUME NEW q, NEW inventory, Quieter(q, inventory), SameGpu(q, inventory), NEW i,
           Advised(q, i)
    PROVE  Advised(inventory, i)
BY DEF Quieter, SameGpu, Advised, ResourceConstrained

(* is offered no other entry,                                              *)
LEMMA QuieterCatalog ==
    ASSUME NEW q, NEW inventory, Quieter(q, inventory)
    PROVE  /\ Offered(BuildCatalog(q)) \subseteq Offered(BuildCatalog(inventory))
           /\ SameGpu(q, inventory) =>
                 Recommended(BuildCatalog(q)) \subseteq Recommended(BuildCatalog(inventory))
<1> DEFINE c == BuildCatalog(q)
           d == BuildCatalog(inventory)
<1>1. CatalogOf(c, q) /\ CatalogOf(d, inventory)
  BY BuiltCatalog
<1> HIDE DEF c, d
<1>2. DOMAIN c \subseteq DOMAIN d
  <2>1. \A i \in DOMAIN c : i \in 1..14 \/ i = 15
    BY <1>1 DEF CatalogOf
  <2>2. 15 \in DOMAIN c => 15 \in DOMAIN d
    BY <1>1 DEF CatalogOf, Quieter
  <2>3. 1..14 \subseteq DOMAIN d
    BY <1>1 DEF CatalogOf
  <2> QED
    BY <2>1, <2>2, <2>3
<1>3. \A i \in DOMAIN c : c[i].id = d[i].id
  BY <1>1, <1>2 DEF CatalogOf, Fits
<1>4. Offered(c) \subseteq Offered(d)
  BY <1>2, <1>3 DEF Offered
<1>5. SameGpu(q, inventory) => Recommended(c) \subseteq Recommended(d)
  <2> SUFFICES ASSUME SameGpu(q, inventory), NEW i \in DOMAIN c,
                      c[i].classification = "Recommended"
               PROVE  d[i].classification = "Recommended"
    BY <1>2, <1>3 DEF Recommended
  <2>1. Advised(q, i)
    BY <1>1 DEF CatalogOf, IsRecommended
  <2>2. Advised(inventory, i)
    BY <2>1, QuieterAdvice
  <2> QED
    BY <1>1, <1>2, <2>2 DEF CatalogOf, IsRecommended
<1> QED
  BY <1>4, <1>5 DEF c, d

(* and no other profile, unless it has been made a laptop.                 *)
LEMMA QuieterProfiles ==
    ASSUME NEW q, NEW inventory
    PROVE  /\ NoLaptopMade(q, inventory) =>
                 Offered(BuildProfiles(q)) \subseteq Offered(BuildProfiles(inventory))
           /\ Offered(BuildProfiles(q)) \subseteq
                 Offered(BuildProfiles(inventory)) \cup {"profile.battery"}
<1> DEFINE c == BuildProfiles(q)
           d == BuildProfiles(inventory)
<1>1. ProfilesOf(c, q) /\ ProfilesOf(d, inventory)
  BY BuiltProfiles
<1> HIDE DEF c, d
<1>2. NoLaptopMade(q, inventory) => DOMAIN c \subseteq DOMAIN d
  BY <1>1 DEF ProfilesOf, NoLaptopMade
<1>3. /\ DOMAIN c \subseteq DOMAIN d \cup {4}
      /\ \A p \in DOMAIN c \cap DOMAIN d : c[p].id = d[p].id
  BY <1>1 DEF ProfilesOf
<1>4. 4 \in DOMAIN c => c[4].id = "profile.battery"
  BY <1>1 DEF ProfilesOf, Kinds
<1>5. NoLaptopMade(q, inventory) => Offered(c) \subseteq Offered(d)
  BY <1>2, <1>3 DEF Offered
<1>6. Offered(c) \subseteq Offered(d) \cup {"profile.battery"}
  BY <1>3, <1>4 DEF Offered
<1> QED
  BY <1>5, <1>6 DEF c, d

(* On every machine a query that fails adds no advice but the one the      *)
(* graphics' gives, no entry, and no profile but the one the battery's     *)
(* gives (SystemInventory.cpp).                                            *)
THEOREM SilenceIsNoAdvice == CatalogSpec => []SilenceAdvisesNothing
<1>1. CatalogInv => SilenceAdvisesNothing
  <2> SUFFICES ASSUME CatalogInv, machine # NoMachine, NEW fact \in Fact
               PROVE  LET muted == ReadSystemInventory(Muted(machine, fact))
                          guessed == IF fact = "battery" THEN {"profile.battery"} ELSE {}
                      IN  /\ fact # "vram" =>
                                Recommended(BuildCatalog(muted)) \subseteq Recommended(catalog)
                          /\ Offered(BuildCatalog(muted)) \subseteq Offered(catalog)
                          /\ Offered(BuildProfiles(muted)) \subseteq Offered(profiles) \cup guessed
    BY DEF SilenceAdvisesNothing
  <2> DEFINE muted == ReadSystemInventory(Muted(machine, fact))
             inventory == ReadSystemInventory(machine)
  <2>1. machine \in Machine /\ catalog = BuildCatalog(inventory)
        /\ profiles = BuildProfiles(inventory)
    BY DEF CatalogInv
  <2>2. /\ Quieter(muted, inventory) /\ (fact # "vram" => SameGpu(muted, inventory))
        /\ fact # "battery" => NoLaptopMade(muted, inventory)
    BY <2>1, MutedIsQuieter
  <2> HIDE DEF muted, inventory
  <2>3. /\ Offered(BuildCatalog(muted)) \subseteq Offered(catalog)
        /\ fact # "vram" => Recommended(BuildCatalog(muted)) \subseteq Recommended(catalog)
    BY <2>1, <2>2, QuieterCatalog
  <2>4. /\ fact # "battery" => Offered(BuildProfiles(muted)) \subseteq Offered(profiles)
        /\ Offered(BuildProfiles(muted)) \subseteq Offered(profiles) \cup {"profile.battery"}
    BY <2>1, <2>2, QuieterProfiles
  <2> QED
    BY <2>3, <2>4 DEF muted
<1> QED
  BY <1>1, CatalogInvariant, PTL

-----------------------------------------------------------------------------
(* What RegistryOptimization assumes of its targets, and                   *)
(* OptimizationService of its profiles, said of this catalog.              *)
Written == {i \in DOMAIN catalog : catalog[i].kind # "guide"}

PlacesOf == [i \in Written |->
                [k \in DOMAIN catalog[i].targets |-> catalog[i].targets[k].place]]

TargetsAreApart ==
    /\ \A o \in Written : PlacesOf[o] # <<>>
    /\ \A o, p \in Written : \A i \in DOMAIN PlacesOf[o], j \in DOMAIN PlacesOf[p] :
          PlacesOf[o][i] = PlacesOf[p][j] => o = p /\ i = j

MembersAreWritten ==
    \A p \in DOMAIN profiles : \A k \in DOMAIN profiles[p].optimizationIds :
        \E i \in Written : catalog[i].id = profiles[p].optimizationIds[k]

(* The tables of Catalog.cpp and Profiles.cpp are what the framework and   *)
(* the service were proved for, on every machine.                          *)
THEOREM CatalogSuitsFramework == CatalogSpec => [](TargetsAreApart /\ MembersAreWritten)
<1>1. CatalogInv => TargetsAreApart
  <2> SUFFICES ASSUME CatalogInv PROVE TargetsAreApart
    OBVIOUS
  <2>1. \A i \in Written : i \in DOMAIN catalog /\ machine # NoMachine
    BY DEF Written, CatalogInv
  <2>2. ASSUME NEW o \in Written PROVE PlacesOf[o] # <<>>
    <3>1. 1 \in DOMAIN catalog[o].targets
      <4>1. o \in 1..15 /\ Fits(catalog[o], o)
        BY <2>1, BuiltCatalog DEF CatalogInv, CatalogOf
      <4> QED
        BY <4>1 DEF Fits, Written
    <3>2. 1 \in DOMAIN PlacesOf[o]
      BY <3>1 DEF PlacesOf
    <3> QED
      BY <3>2
  <2>3. ASSUME NEW o \in Written, NEW p \in Written,
               NEW i \in DOMAIN PlacesOf[o], NEW j \in DOMAIN PlacesOf[p],
               PlacesOf[o][i] = PlacesOf[p][j]
        PROVE  o = p /\ i = j
    <3>1. /\ i \in DOMAIN catalog[o].targets /\ j \in DOMAIN catalog[p].targets
          /\ PlacesOf[o][i] = catalog[o].targets[i].place
          /\ PlacesOf[p][j] = catalog[p].targets[j].place
      BY DEF PlacesOf
    <3>2. PlacesOf[o][i] \in Places(o) /\ PlacesOf[o][i] \in Places(p)
      BY <2>3, <3>1 DEF Places
    <3>3. EntriesDoNotOverlap
      BY NoOverlap
    <3>4. o = p
      BY <2>1, <3>2, <3>3 DEF EntriesDoNotOverlap
    <3> QED
      BY <2>1, <2>3, <3>1, <3>3, <3>4 DEF EntriesDoNotOverlap
  <2> QED
    BY <2>2, <2>3 DEF TargetsAreApart
<1>2. CatalogInv => MembersAreWritten
  <2> SUFFICES ASSUME CatalogInv, NEW p \in DOMAIN profiles,
                      NEW k \in DOMAIN profiles[p].optimizationIds
               PROVE  \E i \in Written : catalog[i].id = profiles[p].optimizationIds[k]
    BY DEF MembersAreWritten
  <2>1. machine # NoMachine
    BY DEF CatalogInv
  <2>2. /\ 1..14 \subseteq DOMAIN catalog /\ \A i \in DOMAIN catalog : Fits(catalog[i], i)
        /\ Chosen(profiles[p].optimizationIds, Numbers[p])
    BY <2>1, BuiltCatalog, BuiltProfiles DEF CatalogInv, CatalogOf, ProfilesOf
  <2>3. PICK n \in 1..12 : profiles[p].optimizationIds[k] = Ids[n]
    BY <2>2 DEF Chosen
  <2>4. n \in Written /\ catalog[n].id = Ids[n]
    BY <2>2 DEF Fits, Written
  <2> QED
    BY <2>3, <2>4
<1> QED
  BY <1>1, <1>2, CatalogInvariant, PTL
=============================================================================
