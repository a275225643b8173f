-------------------- MODULE AbilityConditionTimerProofs --------------------
(***************************************************************************)
(* The condition timer for every size of the word, every interval and      *)
(* every delay between reading the tick and reaching the entry.            *)
(***************************************************************************)
EXTENDS AbilityConditionTimer, TLAPS

\* The session ends a bucket before the tick count has come round once (49.7 days),
\* and a bucket, at most a thousand seconds, fits into the timer.
ShortSession == Second * Second <= Half /\ MaxTicks + Second * Second <= 2 * Half

TwoThreads == \A t, u, v \in Thread : t = u \/ u = v \/ t = v

TimerTypeOK ==
  /\ interval \in Intervals /\ start \in Nat /\ clock \in start..(start + MaxTicks)
  /\ timers \in [Address -> [lastCounter : Int, updateDiff : Int, updateTimer : Int, lastTick : Int]]
  /\ call \in [Thread -> [at : Address \cup {"none"}, tick : Nat]]
  /\ effects \in [Address -> Nat] /\ alive \subseteq Address
  /\ log \in [Address -> [runs : Nat, lastRun : Nat, skipped : Int, first : Nat, last : Nat,
                          highest : Nat, late : Nat, sight : {"none", "run", "skip"}]]

InCall(t, a) == call[t].at = a

CallsTyped ==
  \A t \in Thread :
    /\ InCall(t, "none") => call[t] = NoCall
    /\ ~InCall(t, "none") => call[t].tick \in start..clock /\ call[t].at \in alive

\* An address is fresh until the hook has seen its first effect.
SightInv(a) ==
  /\ a \in alive => effects[a] > 0
  /\ effects[a] = 0 => ~Known(a)
  /\ effects[a] = 1 /\ Known(a) => log[a].sight = "run"
  /\ IF Known(a) THEN timers[a].updateDiff = UpdateDiff ELSE log[a] = NoLog

SightIInv == TimerTypeOK /\ CallsTyped /\ \A a \in Address : SightInv(a)

\* The bucket of a tick, counted from the first one at the address.
BucketOf(a, tick) == Quotient(Wrap(tick - log[a].first), UpdateDiff)

\* What the entry holds is the log cut to the word: the timer telescopes.
Synced(a) ==
  /\ timers[a].updateTimer = Wrap(log[a].last - log[a].first)
  /\ timers[a].lastTick = Wrap(log[a].last)
  /\ timers[a].lastCounter = BucketOf(a, log[a].lastRun)
  /\ BucketOf(a, log[a].last) = BucketOf(a, log[a].lastRun)

Between(tick, l) == start <= tick /\ tick <= l.highest

\* Only a call that has been overtaken can be from before the first tick.
Logs(a) ==
  /\ log[a].runs > 0 /\ log[a].highest <= clock
  /\ Between(log[a].first, log[a]) /\ Between(log[a].last, log[a]) /\ Between(log[a].lastRun, log[a])
  /\ log[a].late = 0 => log[a].lastRun >= log[a].first
  /\ log[a].skipped = -1 => log[a].lastRun = log[a].last
  /\ log[a].skipped # -1 => log[a].skipped = log[a].last

TimerIInv == SightIInv /\ \A a \in Address : Known(a) => Synced(a) /\ Logs(a)
-----------------------------------------------------------------------------
(* Two threads: who has read the tick before the highest one in the log.   *)

Old(t, a) == InCall(t, a) /\ call[t].tick < log[a].highest

OneOld(a) ==
  /\ \A t, u \in Thread : Old(t, a) /\ Old(u, a) => t = u
  /\ log[a].last < log[a].highest => \A t \in Thread : ~Old(t, a)
  /\ \A t \in Thread : InCall(t, a) /\ call[t].tick < log[a].first => log[a].late = 0

\* An evaluation in bucket 0, but before the first tick, was possible only after
\* another call had left the bucket upwards.
LeftBehind(a) ==
  log[a].lastRun < log[a].first /\ log[a].first < log[a].lastRun + UpdateDiff =>
    /\ clock >= log[a].first + UpdateDiff
    /\ \A t \in Thread : InCall(t, a) => call[t].tick >= log[a].first + UpdateDiff

\* A skipped call is near the last evaluation.
SkipNear(a, bound) == log[a].skipped >= 0 => log[a].skipped - log[a].lastRun < bound

TwoThreadsIInv ==
  /\ TimerIInv
  /\ \A a \in Address : Known(a) => OneOld(a) /\ LeftBehind(a) /\ SkipNear(a, UpdateDiff)
-----------------------------------------------------------------------------
(* Any threads: how often a bucket has been entered.                       *)

\* The buckets entered on the way from the first tick to one d ticks later.
Entered(d) ==
  IF d < Half THEN d \div UpdateDiff
  ELSE (Half - 1) \div UpdateDiff + 1 + Half \div UpdateDiff - (2 * Half - d) \div UpdateDiff

\* The entry is in another bucket than the highest tick.
Astray(a) == BucketOf(a, log[a].last) # BucketOf(a, log[a].highest)

\* A call that was overtaken may have led astray, and the way back is one more evaluation.
RunsCounted(a) ==
  log[a].runs + (IF Astray(a) THEN 1 ELSE 0)
    <= 1 + Entered(log[a].highest - log[a].first) + 2 * log[a].late

CountIInv == TimerIInv /\ \A a \in Address : Known(a) => RunsCounted(a)
-----------------------------------------------------------------------------
(* Arithmetic.                                                             *)

LEMMA TimesMono ==
  ASSUME NEW p \in Int, NEW q \in Int, NEW u \in Nat, p < q
  PROVE  p * u + u <= q * u
<1>1. (q - p - 1) * u >= 0
  OBVIOUS
<1>2. (q - p - 1) * u = q * u - p * u - u
  OBVIOUS
<1>3. p * u \in Int /\ q * u \in Int
  OBVIOUS
<1> QED BY <1>1, <1>2, <1>3

LEMMA DivIs ==
  ASSUME NEW n \in Int, NEW u \in Nat \ {0}
  PROVE  n \div u \in Int /\ (n \div u) * u <= n /\ n < (n \div u) * u + u
OBVIOUS

LEMMA DivMono ==
  ASSUME NEW m \in Int, NEW n \in Int, m <= n, NEW u \in Nat \ {0}
  PROVE  m \div u <= n \div u
<1>1. SUFFICES ASSUME n \div u < m \div u PROVE FALSE
  BY DivIs
<1>2. (n \div u) * u + u <= (m \div u) * u
  BY <1>1, DivIs, TimesMono
<1> QED BY <1>2, DivIs

\* The parts of two numbers are those of the sum, or one less.
LEMMA DivSum ==
  ASSUME NEW m \in Int, NEW n \in Int, NEW u \in Nat \ {0}
  PROVE  (m + n) \div u <= m \div u + n \div u + 1
<1> DEFINE p == m \div u + n \div u + 1
           q == (m + n) \div u
<1>1. p \in Int /\ q \in Int /\ q * u <= m + n
  BY DivIs
<1>2. m + n < p * u + u
  <2>1. p * u = (m \div u) * u + (n \div u) * u + u
    BY DivIs
  <2> QED BY <2>1, DivIs
<1>3. SUFFICES ASSUME p < q PROVE FALSE
  BY <1>1
<1>4. p * u + u <= q * u
  BY <1>1, <1>3, TimesMono
<1> QED BY <1>1, <1>2, <1>4

LEMMA ModIs ==
  ASSUME NEW n \in Int, NEW u \in Nat \ {0}
  PROVE  n % u \in 0..(u - 1) /\ n = (n \div u) * u + (n % u)
OBVIOUS

\* Wrap takes a number into the word by a multiple of its size.
LEMMA WrapIs ==
  ASSUME NEW n \in Int
  PROVE  /\ Wrap(n) \in (-Half)..(Half - 1)
         /\ \E k \in Int : n = Wrap(n) + k * (2 * Half)
<1> DEFINE w == 2 * Half
           k == (n + Half) \div w
           r == (n + Half) % w
<1>1. Half \in Nat /\ w \in Nat \ {0} /\ n + Half \in Int
  BY ThrottleAssumption
<1>2. r \in 0..(w - 1) /\ n + Half = k * w + r /\ k \in Int
  BY <1>1, ModIs, DivIs
<1>3. Wrap(n) = r - Half
  BY DEF Wrap
<1>4. k * w \in Int
  BY <1>1, <1>2
<1> HIDE DEF k, r
<1>5. n = Wrap(n) + k * w
  <2> HIDE DEF w
  <2> QED BY <1>1, <1>2, <1>3, <1>4
<1> QED BY <1>1, <1>2, <1>3, <1>5

LEMMA WrapInt ==
  ASSUME NEW n \in Int
  PROVE  Wrap(n) \in Int
<1>1. Half \in Nat
  BY ThrottleAssumption
<1> QED BY <1>1, WrapIs

\* Two numbers in the word that differ by a multiple of its size are the same.
LEMMA SameInWord ==
  ASSUME NEW x \in (-Half)..(Half - 1), NEW y \in (-Half)..(Half - 1),
         NEW k \in Int, x = y + k * (2 * Half)
  PROVE  x = y
<1> DEFINE w == 2 * Half
<1>1. Half \in Nat /\ w \in Nat /\ k * w \in Int
  BY ThrottleAssumption
<1>2. CASE k = 0
  BY <1>1, <1>2
<1>3. CASE k > 0
  <2>1. 0 * w + w <= k * w
    BY <1>1, <1>3, TimesMono
  <2> QED BY <1>1, <2>1
<1>4. CASE k < 0
  <2>1. k * w + w <= 0 * w
    BY <1>1, <1>4, TimesMono
  <2> QED BY <1>1, <2>1
<1> QED BY <1>2, <1>3, <1>4

LEMMA WrapUnique ==
  ASSUME NEW n \in Int, NEW x \in (-Half)..(Half - 1), NEW k \in Int, n = x + k * (2 * Half)
  PROVE  Wrap(n) = x
<1> DEFINE w == 2 * Half
<1> PICK j \in Int : n = Wrap(n) + j * w
  BY WrapIs
<1>1. Half \in Nat /\ w \in Nat /\ Wrap(n) \in (-Half)..(Half - 1) /\ n = x + k * w
  BY ThrottleAssumption, WrapIs
<1> HIDE DEF w
<1>2. j * w \in Int /\ k * w \in Int /\ k - j \in Int
  BY <1>1
<1>3. (k - j) * w = k * w - j * w
  BY <1>1
<1>4. Wrap(n) = x + (k - j) * w
  BY <1>1, <1>2, <1>3
<1> QED BY <1>1, <1>2, <1>4, SameInWord DEF w

\* A tick that is cut before the subtraction, and again after the addition: the
\* timer holds the ticks since the first one.
LEMMA WrapAdds ==
  ASSUME NEW m \in Int, NEW n \in Int, NEW x \in Int
  PROVE  Wrap(Wrap(m - x) + Wrap(Wrap(n) - Wrap(m))) = Wrap(n - x)
<1> DEFINE w == 2 * Half
<1>1. Half \in Nat /\ w \in Nat
  BY ThrottleAssumption
<1>2. Wrap(m - x) \in Int /\ Wrap(m) \in Int /\ Wrap(n) \in Int
  BY <1>1, WrapIs
<1> PICK j \in Int : m - x = Wrap(m - x) + j * w
  BY WrapIs
<1> PICK k \in Int : n = Wrap(n) + k * w
  BY WrapIs
<1> PICK l \in Int : m = Wrap(m) + l * w
  BY WrapIs
<1> PICK i \in Int : Wrap(n) - Wrap(m) = Wrap(Wrap(n) - Wrap(m)) + i * w
  BY <1>2, WrapIs
<1> PICK h \in Int : n - x = Wrap(n - x) + h * w
  BY WrapIs
<1> HIDE DEF w
<1>3. j * w \in Int /\ k * w \in Int /\ l * w \in Int /\ i * w \in Int /\ h * w \in Int
  BY <1>1
<1>4. Wrap(Wrap(n) - Wrap(m)) \in Int /\ Wrap(n - x) \in (-Half)..(Half - 1)
  BY <1>1, <1>2, WrapIs
<1>5. (h - j + l - k - i) * w = h * w - j * w + l * w - k * w - i * w
  BY <1>1
<1>6. Wrap(m - x) + Wrap(Wrap(n) - Wrap(m)) = Wrap(n - x) + (h - j + l - k - i) * w
  <2> DEFINE e == Wrap(m - x)  f == Wrap(Wrap(n) - Wrap(m))  g == Wrap(n - x)
  <2>1. e \in Int /\ f \in Int /\ g \in Int
    BY <1>1, <1>2, <1>4
  <2>2. m - x = e + j * w /\ Wrap(n) - Wrap(m) = f + i * w /\ n - x = g + h * w
    OBVIOUS
  <2> HIDE DEF e, f, g
  <2>3. e + f = g + (h * w - j * w + l * w - k * w - i * w)
    BY <1>2, <1>3, <2>1, <2>2
  <2> QED BY <1>5, <2>3 DEF e, f, g
<1>7. h - j + l - k - i \in Int /\ Wrap(m - x) + Wrap(Wrap(n) - Wrap(m)) \in Int
  BY <1>2, <1>4
<1> QED BY <1>4, <1>6, <1>7, WrapUnique DEF w

\* In a session, ticks that look the same are the same.
LEMMA WrapZero ==
  ASSUME NEW m \in Int, NEW n \in Int, n - m < 2 * Half, m - n < 2 * Half,
         Wrap(Wrap(n) - Wrap(m)) = 0
  PROVE  m = n
<1> DEFINE w == 2 * Half
<1>1. Half \in Nat /\ w \in Nat \ {0}
  BY ThrottleAssumption
<1>2. Wrap(m) \in Int /\ Wrap(n) \in Int
  BY <1>1, WrapIs
<1> PICK k \in Int : n = Wrap(n) + k * w
  BY WrapIs
<1> PICK l \in Int : m = Wrap(m) + l * w
  BY WrapIs
<1> PICK i \in Int : Wrap(n) - Wrap(m) = Wrap(Wrap(n) - Wrap(m)) + i * w
  BY <1>2, WrapIs
<1> HIDE DEF w
<1>3. k * w \in Int /\ l * w \in Int /\ i * w \in Int
  BY <1>1
<1>4. (k - l + i) * w = k * w - l * w + i * w
  BY <1>1
<1>5. n - m = (k - l + i) * w
  BY <1>2, <1>3, <1>4
<1>6. CASE k - l + i = 0
  BY <1>1, <1>5, <1>6
<1>7. CASE k - l + i > 0
  <2>1. 0 * w + w <= (k - l + i) * w
    BY <1>1, <1>7, TimesMono
  <2> QED BY <1>1, <1>5, <2>1 DEF w
<1>8. CASE k - l + i < 0
  <2>1. (k - l + i) * w + w <= 0 * w
    BY <1>1, <1>8, TimesMono
  <2> QED BY <1>1, <1>5, <2>1 DEF w
<1> QED BY <1>6, <1>7, <1>8

LEMMA QuotientIs ==
  ASSUME NEW x \in Int, NEW u \in Nat \ {0}
  PROVE  /\ Quotient(x, u) \in Int
         /\ Quotient(x, u) = 0 <=> -u < x /\ x < u
         /\ x >= u => Quotient(x, u) > 0
         /\ x <= -u => Quotient(x, u) < 0
         /\ x >= 0 => Quotient(x, u) >= 0
         /\ x <= 0 => Quotient(x, u) <= 0
<1> DEFINE z == IF x >= 0 THEN x ELSE -x
           q == z \div u
<1>1. z \in Nat /\ q \in Int /\ q * u <= z /\ z < q * u + u
  BY DivIs
<1>2. Quotient(x, u) = IF x >= 0 THEN q ELSE -q
  BY DEF Quotient
<1>3. q >= 0
  <2>1. SUFFICES ASSUME q < 0 PROVE FALSE
    BY <1>1
  <2>2. q * u + u <= 0 * u
    BY <1>1, <2>1, TimesMono
  <2> QED BY <1>1, <2>2
<1>4. z >= u => q > 0
  <2>1. q = 0 => q * u = 0
    OBVIOUS
  <2> QED BY <1>1, <1>3, <2>1
<1>5. z < u => q = 0
  <2>1. SUFFICES ASSUME 0 < q PROVE u <= z
    BY <1>1, <1>3
  <2>2. 0 * u + u <= q * u
    BY <1>1, <2>1, TimesMono
  <2> QED BY <1>1, <2>2
<1> QED BY <1>1, <1>2, <1>3, <1>4, <1>5

\* Two values of the timer in one bucket, but the middle one, are close.
LEMMA QuotientNear ==
  ASSUME NEW x \in Int, NEW y \in Int, NEW u \in Nat \ {0},
         Quotient(x, u) = Quotient(y, u), Quotient(x, u) # 0
  PROVE  x - y < u /\ y - x < u
<1>1. CASE x >= 0 /\ y >= 0
  <2>1. x \div u = y \div u
    BY <1>1 DEF Quotient
  <2> QED BY <2>1, DivIs
<1>2. CASE x < 0 /\ y < 0
  <2>1. (-x) \div u = (-y) \div u /\ (-x) \in Int /\ (-y) \in Int
    BY <1>2, DivIs DEF Quotient
  <2>2. /\ ((-x) \div u) * u <= -x /\ -x < ((-x) \div u) * u + u
        /\ ((-y) \div u) * u <= -y /\ -y < ((-y) \div u) * u + u
        /\ (-y) \div u \in Int
    BY <2>1, DivIs
  <2>3. ((-y) \div u) * u \in Int
    BY <2>2
  <2> QED BY <2>1, <2>2, <2>3
<1>3. CASE (x >= 0 /\ y < 0) \/ (x < 0 /\ y >= 0)
  <2>1. Quotient(x, u) \in Int /\ (x >= 0 => Quotient(x, u) >= 0) /\ (x <= 0 => Quotient(x, u) <= 0)
    BY QuotientIs
  <2>2. Quotient(y, u) \in Int /\ (y >= 0 => Quotient(y, u) >= 0) /\ (y <= 0 => Quotient(y, u) <= 0)
    BY QuotientIs
  <2> QED BY <1>3, <2>1, <2>2
<1> QED BY <1>1, <1>2, <1>3

LEMMA QuotientMono ==
  ASSUME NEW x \in Int, NEW y \in Int, x <= y, NEW u \in Nat \ {0}
  PROVE  Quotient(x, u) <= Quotient(y, u)
<1>1. CASE x >= 0
  BY <1>1, DivMono DEF Quotient
<1>2. CASE y < 0
  <2>1. (-y) \div u <= (-x) \div u
    BY DivMono
  <2>2. (-y) \div u \in Int /\ (-x) \div u \in Int
    BY DivIs
  <2> QED BY <1>2, <2>1, <2>2 DEF Quotient
<1>3. CASE x < 0 /\ y >= 0
  <2>1. Quotient(x, u) <= 0
    BY <1>3, QuotientIs
  <2>2. Quotient(y, u) >= 0
    BY <1>3, QuotientIs
  <2> QED BY <2>1, <2>2, QuotientIs
<1> QED BY <1>1, <1>2, <1>3

\* The length of a bucket.
LEMMA UpdateDiffIs ==
  ASSUME interval \in Intervals
  PROVE  UpdateDiff \in Nat \ {0} /\ UpdateDiff <= Second * Second
<1> DEFINE s == Second * Second
           ticks == IF interval = 0 THEN 1 ELSE interval
           d == s \div ticks
<1>1. Second >= 1 /\ Second \in Nat /\ ticks \in Nat \ {0}
  BY ThrottleAssumption
<1>2. s \in Nat /\ s >= 1
  <2>1. 0 * Second + Second <= Second * Second
    BY <1>1, TimesMono
  <2> QED BY <1>1, <2>1
<1> HIDE DEF s, ticks
<1>3. d \in Int /\ d * ticks <= s /\ s < d * ticks + ticks
  BY <1>1, <1>2, DivIs
<1> HIDE DEF d
<1>4. d >= 0
  <2>1. SUFFICES ASSUME d < 0 PROVE FALSE
    BY <1>3
  <2>2. d * ticks + ticks <= 0 * ticks
    BY <1>1, <1>3, <2>1, TimesMono
  <2> QED BY <1>1, <1>2, <1>3, <2>2
<1>5. d <= s
  <2>1. CASE ticks = 1
    BY <1>2, <1>3, <2>1
  <2>2. CASE 1 < ticks
    <3>1. 1 * d + d <= ticks * d
      BY <1>1, <1>4, <1>3, <2>2, TimesMono
    <3>2. ticks * d = d * ticks
      BY <1>1, <1>3
    <3> QED BY <1>1, <1>2, <1>3, <1>4, <3>1, <3>2
  <2> QED BY <1>1, <2>1, <2>2
<1>6. UpdateDiff = IF d = 0 THEN 1 ELSE d
  BY DEF UpdateDiff, d, s, ticks
<1> QED BY <1>2, <1>3, <1>4, <1>5, <1>6 DEF s

\* In a short session the timer is cut at most once, and then it is a bucket or
\* more away from zero.
LEMMA WrapInSession ==
  ASSUME NEW d \in Int, NEW u \in Nat \ {0}, d + u <= 2 * Half, u - d <= 2 * Half
  PROVE  \/ -Half <= d /\ d < Half /\ Wrap(d) = d
         \/ d >= Half /\ Wrap(d) = d - 2 * Half /\ Wrap(d) <= -u
         \/ d < -Half /\ Wrap(d) = d + 2 * Half /\ Wrap(d) >= u
<1>1. Half \in Nat \ {0}
  BY ThrottleAssumption
<1>2. CASE -Half <= d /\ d < Half
  <2>1. d \in (-Half)..(Half - 1) /\ d = d + 0 * (2 * Half)
    BY <1>1, <1>2
  <2> QED BY <1>2, <2>1, WrapUnique
<1>3. CASE d >= Half
  <2>1. d - 2 * Half \in (-Half)..(Half - 1) /\ d = (d - 2 * Half) + 1 * (2 * Half)
    BY <1>1, <1>3
  <2>2. Wrap(d) = d - 2 * Half
    BY <2>1, WrapUnique
  <2> QED BY <1>1, <1>3, <2>2
<1>4. CASE d < -Half
  <2>1. d + 2 * Half \in (-Half)..(Half - 1) /\ d = (d + 2 * Half) + (-1) * (2 * Half)
    BY <1>1, <1>4
  <2>2. Wrap(d) = d + 2 * Half
    BY <2>1, WrapUnique
  <2> QED BY <1>1, <1>4, <2>2
<1> QED BY <1>1, <1>2, <1>3, <1>4

LEMMA SessionBounds ==
  ASSUME interval \in Intervals, ShortSession
  PROVE  /\ UpdateDiff \in Nat \ {0} /\ UpdateDiff <= Half /\ MaxTicks + UpdateDiff <= 2 * Half
         /\ Half \in Nat \ {0} /\ MaxTicks \in Nat
<1>1. Second * Second \in Nat /\ Half \in Nat \ {0} /\ MaxTicks \in Nat
  BY ThrottleAssumption
<1>2. UpdateDiff \in Nat \ {0} /\ UpdateDiff <= Second * Second
  BY UpdateDiffIs
<1> QED BY <1>1, <1>2 DEF ShortSession

LEMMA EnteredIs ==
  ASSUME interval \in Intervals, ShortSession, NEW d \in 0..MaxTicks
  PROVE  /\ Quotient(Wrap(d), UpdateDiff) \in Int /\ Entered(d) \in Int
         /\ d < Half => Entered(d) = Quotient(Wrap(d), UpdateDiff)
         /\ d >= Half =>
              Entered(d) = (Half - 1) \div UpdateDiff + 1 + Half \div UpdateDiff
                           + Quotient(Wrap(d), UpdateDiff)
<1> DEFINE u == UpdateDiff
<1>1. u \in Nat \ {0} /\ MaxTicks + u <= 2 * Half /\ Half \in Nat \ {0} /\ MaxTicks \in Nat
  BY SessionBounds
<1> HIDE DEF u
<1>2. /\ d < Half => Wrap(d) = d
      /\ d >= Half => Wrap(d) = d - 2 * Half /\ Wrap(d) <= -u
  BY <1>1, WrapInSession
<1>3. /\ d \div u \in Int /\ (Half - 1) \div u \in Int /\ Half \div u \in Int
      /\ (2 * Half - d) \div u \in Int
  BY <1>1, DivIs
<1>4. CASE d < Half
  <2>1. Entered(d) = d \div u /\ Quotient(Wrap(d), u) = d \div u
    BY <1>1, <1>2, <1>4 DEF Entered, Quotient, u
  <2> QED BY <1>1, <1>3, <1>4, <2>1 DEF u
<1>5. CASE d >= Half
  <2>1. Wrap(d) < 0 /\ -Wrap(d) = 2 * Half - d
    BY <1>1, <1>2, <1>5
  <2>2. Quotient(Wrap(d), u) = -((2 * Half - d) \div u)
    BY <1>1, <1>2, <2>1 DEF Quotient
  <2>3. Entered(d) = (Half - 1) \div u + 1 + Half \div u - (2 * Half - d) \div u
    BY <1>1, <1>5 DEF Entered, u
  <2> QED BY <1>1, <1>3, <1>5, <2>2, <2>3 DEF u
<1> QED BY <1>1, <1>4, <1>5

\* Each change of the bucket is counted.
LEMMA EnteredMono ==
  ASSUME interval \in Intervals, ShortSession,
         NEW d \in 0..MaxTicks, NEW e \in 0..MaxTicks, d <= e
  PROVE  /\ Entered(d) <= Entered(e)
         /\ Quotient(Wrap(d), UpdateDiff) # Quotient(Wrap(e), UpdateDiff) => Entered(d) < Entered(e)
<1> DEFINE u == UpdateDiff
<1>1. u \in Nat \ {0} /\ MaxTicks + u <= 2 * Half /\ Half \in Nat \ {0} /\ MaxTicks \in Nat
  BY SessionBounds
<1>2. /\ Quotient(Wrap(d), u) \in Int /\ Quotient(Wrap(e), u) \in Int
      /\ Entered(d) \in Int /\ Entered(e) \in Int
  BY EnteredIs
<1> HIDE DEF u
<1>3. \A x \in {d, e} :
        /\ x < Half => Wrap(x) = x
        /\ x >= Half => Wrap(x) = x - 2 * Half
  BY <1>1, WrapInSession
<1>4. (Half - 1) \div u \in Int /\ Half \div u \in Int
  BY <1>1, DivIs
<1>5. CASE e < Half \/ d >= Half
  <2>1. Wrap(d) \in Int /\ Wrap(e) \in Int /\ Wrap(d) <= Wrap(e)
    BY <1>1, <1>3, <1>5
  <2>2. Quotient(Wrap(d), u) <= Quotient(Wrap(e), u)
    BY <1>1, <2>1, QuotientMono
  <2>3. Entered(e) - Entered(d) = Quotient(Wrap(e), u) - Quotient(Wrap(d), u)
    BY <1>1, <1>2, <1>4, <1>5, EnteredIs DEF u
  <2> QED BY <1>2, <2>2, <2>3 DEF u
<1>6. CASE d < Half /\ e >= Half
  <2>1. d <= Half - 1 /\ -Half <= e - 2 * Half /\ e - 2 * Half \in Int /\ -Half \in Int
        /\ Half - 1 \in Int
    BY <1>1, <1>6
  <2>2. Quotient(Wrap(d), u) <= Quotient(Half - 1, u)
    BY <1>1, <1>3, <1>6, <2>1, QuotientMono
  <2>3. Quotient(-Half, u) <= Quotient(Wrap(e), u)
    BY <1>1, <1>3, <1>6, <2>1, QuotientMono
  <2>4. Quotient(Half - 1, u) = (Half - 1) \div u /\ Quotient(-Half, u) = -(Half \div u)
    BY <1>1 DEF Quotient
  <2>5. /\ Entered(d) = Quotient(Wrap(d), u)
        /\ Entered(e) = (Half - 1) \div u + 1 + Half \div u + Quotient(Wrap(e), u)
    BY <1>6, EnteredIs DEF u
  <2> QED BY <1>2, <1>4, <2>2, <2>3, <2>4, <2>5
<1> QED BY <1>1, <1>5, <1>6

LEMMA EnteredBound ==
  ASSUME interval \in Intervals, ShortSession, NEW d \in 0..MaxTicks
  PROVE  Entered(d) <= d \div UpdateDiff + (IF d >= Half THEN 2 ELSE 0)
<1> DEFINE u == UpdateDiff
<1>1. u \in Nat \ {0} /\ Half \in Nat \ {0} /\ MaxTicks \in Nat
  BY SessionBounds
<1>2. /\ d \div u \in Int /\ (Half - 1) \div u \in Int /\ Half \div u \in Int
      /\ (2 * Half - d) \div u \in Int /\ (Half + Half) \div u \in Int
  BY <1>1, DivIs
<1>3. CASE d < Half
  BY <1>1, <1>2, <1>3 DEF Entered
<1>4. CASE d >= Half
  <2>1. (d + (2 * Half - d)) \div u <= d \div u + (2 * Half - d) \div u + 1
    <3>1. 2 * Half - d \in Int
      BY <1>1
    <3> HIDE DEF u
    <3> QED BY <1>1, <3>1, DivSum
  <2>2. d + (2 * Half - d) = Half + Half
    BY <1>1
  <2>3. Half \div u + Half \div u <= (Half + Half) \div u
    <3> HIDE DEF u
    <3> DEFINE p == Half \div u + Half \div u
               q == (Half + Half) \div u
    <3>1. p \in Int /\ q \in Int /\ p * u <= Half + Half
      <4>1. p * u = (Half \div u) * u + (Half \div u) * u
        BY <1>1, <1>2
      <4> QED BY <1>1, <1>2, <4>1, DivIs
    <3>2. Half + Half < q * u + u
      BY <1>1, DivIs
    <3>3. SUFFICES ASSUME q < p PROVE FALSE
      BY <3>1
    <3>4. q * u + u <= p * u
      BY <1>1, <3>1, <3>3, TimesMono
    <3> QED BY <1>1, <3>1, <3>2, <3>4
  <2>4. (Half - 1) \div u <= Half \div u
    BY <1>1, DivMono
  <2>5. Entered(d) = (Half - 1) \div u + 1 + Half \div u - (2 * Half - d) \div u
    BY <1>1, <1>4 DEF Entered
  <2> HIDE DEF u
  <2>6. Entered(d) <= d \div u + 2
    BY <1>2, <2>1, <2>2, <2>3, <2>4, <2>5
  <2> QED BY <1>4, <2>6 DEF u
<1> QED BY <1>1, <1>3, <1>4
-----------------------------------------------------------------------------
(* The invariant without assumptions on the session.                       *)

LEMMA SightInitInv == Init => SightIInv
<1> SUFFICES ASSUME Init PROVE SightIInv
  OBVIOUS
<1>1. TimerTypeOK
  BY ThrottleAssumption DEF TimerTypeOK, Init, NoTimer, NoCall, NoLog
<1>2. CallsTyped
  <2>1. \A t \in Thread : call[t] = NoCall
    BY Zenon DEF Init
  <2>2. NoCall.at = "none"
    BY DEF NoCall
  <2> QED BY <2>1, <2>2, Zenon DEF CallsTyped, InCall
<1>3. \A a \in Address : SightInv(a)
  BY DEF SightInv, Known, Init, NoTimer, NoLog
<1> QED BY <1>1, <1>2, <1>3 DEF SightIInv

\* A timer and the log of its address after a call that read the given tick.
LogStep(a, tick, runs) ==
  LET old == log[a]
      new == log'[a]
  IN  /\ \A b \in Address : b # a => log'[b] = log[b] /\ timers'[b] = timers[b]
      /\ new.last = tick
      /\ new.first = IF Known(a) THEN old.first ELSE tick
      /\ new.highest = IF Known(a) /\ old.highest >= tick THEN old.highest ELSE tick
      /\ new.late = IF Known(a) /\ tick < old.highest THEN old.late + 1 ELSE old.late
      /\ new.runs = IF runs THEN old.runs + 1 ELSE old.runs
      /\ new.lastRun = IF runs THEN tick ELSE old.lastRun
      /\ new.skipped = IF runs THEN -1 ELSE tick
      /\ new.sight = Sight(old.sight, IF runs THEN "run" ELSE "skip")
      /\ timers'[a].updateDiff = UpdateDiff
      /\ timers'[a].lastCounter = IF runs THEN Bucket(timers'[a]) ELSE timers[a].lastCounter

\* The four things that can happen to a call.
FirstCall(a, tick) ==
  /\ ~Known(a) /\ LogStep(a, tick, TRUE)
  /\ timers'[a].updateTimer = 0 /\ timers'[a].lastTick = Wrap(tick)

SameTickCall(a, tick) ==
  /\ Known(a) /\ LogStep(a, tick, FALSE)
  /\ Elapsed(timers[a], tick) = 0 /\ timers'[a] = timers[a]

BucketCall(a, tick, runs) ==
  /\ Known(a) /\ LogStep(a, tick, runs)
  /\ Elapsed(timers[a], tick) # 0
  /\ timers'[a].updateTimer = Wrap(timers[a].updateTimer + Elapsed(timers[a], tick))
  /\ timers'[a].lastTick = Wrap(tick)
  /\ runs <=> Bucket(timers'[a]) # timers[a].lastCounter

Answer(a, tick) ==
  \/ FirstCall(a, tick) \/ SameTickCall(a, tick)
  \/ BucketCall(a, tick, TRUE) \/ BucketCall(a, tick, FALSE)

TimerEntry == [lastCounter : Int, updateDiff : Int, updateTimer : Int, lastTick : Int]
LogEntry == [runs : Nat, lastRun : Nat, skipped : Int, first : Nat, last : Nat,
             highest : Nat, late : Nat, sight : {"none", "run", "skip"}]

LEMMA ElapsedTyped ==
  ASSUME NEW timer \in TimerEntry, NEW tick \in Nat
  PROVE  Elapsed(timer, tick) \in Int /\ Wrap(tick) \in Int
         /\ Wrap(timer.updateTimer + Elapsed(timer, tick)) \in Int
<1>1. Half \in Nat /\ \A n \in Int : Wrap(n) \in Int
  BY ThrottleAssumption, WrapIs
<1>2. timer.lastTick \in Int /\ timer.updateTimer \in Int
  BY DEF TimerEntry
<1>3. Wrap(tick) - timer.lastTick \in Int
  BY <1>1, <1>2
<1> QED BY <1>1, <1>2, <1>3 DEF Elapsed

LEMMA LoggedTyped ==
  ASSUME SightIInv, NEW a \in Address, NEW tick \in Nat
  PROVE  /\ Logged(a, tick) \in LogEntry
         /\ Logged(a, tick).last = tick
         /\ Logged(a, tick).first = IF Known(a) THEN log[a].first ELSE tick
         /\ Logged(a, tick).highest = IF Known(a) /\ log[a].highest >= tick THEN log[a].highest ELSE tick
         /\ Logged(a, tick).late = IF Known(a) /\ tick < log[a].highest THEN log[a].late + 1 ELSE log[a].late
         /\ Logged(a, tick).runs = log[a].runs /\ Logged(a, tick).lastRun = log[a].lastRun
         /\ Logged(a, tick).sight = log[a].sight
<1>1. log[a] \in LogEntry
  BY DEF SightIInv, TimerTypeOK, LogEntry
<1>2. CASE Known(a)
  <2> DEFINE highest == IF tick > log[a].highest THEN tick ELSE log[a].highest
             late == IF tick < log[a].highest THEN log[a].late + 1 ELSE log[a].late
             new == [log[a] EXCEPT !.last = tick, !.highest = highest, !.late = late]
  <2>1. Logged(a, tick) = new
    BY <1>2 DEF Logged
  <2>2. /\ highest \in Nat /\ late \in Nat
        /\ highest = IF log[a].highest >= tick THEN log[a].highest ELSE tick
    BY <1>1 DEF LogEntry
  <2> HIDE DEF highest, late
  <2>3. /\ new \in LogEntry
        /\ new.last = tick /\ new.first = log[a].first
        /\ new.highest = highest /\ new.late = late
        /\ new.runs = log[a].runs /\ new.lastRun = log[a].lastRun /\ new.sight = log[a].sight
    BY <1>1, <2>2 DEF LogEntry
  <2> HIDE DEF new
  <2> QED BY <1>2, <2>1, <2>2, <2>3 DEF late
<1>3. CASE ~Known(a)
  BY <1>1, <1>3 DEF Logged, LogEntry
<1> QED BY <1>2, <1>3

LEMMA HookTyped ==
  ASSUME SightIInv, NEW t \in Thread, Hook(t)
  PROVE  \E a \in Address, tick \in start..clock :
           /\ InCall(t, a) /\ call[t].tick = tick /\ tick \in Nat /\ a \in alive
           /\ call' = [call EXCEPT ![t] = NoCall]
           /\ UNCHANGED <<interval, start, clock, effects, alive>>
           /\ timers' \in [Address -> TimerEntry] /\ log' \in [Address -> LogEntry]
           /\ Answer(a, tick)
<1> DEFINE a == call[t].at
           tick == call[t].tick
<1>1. a \in alive /\ a \in Address /\ tick \in start..clock /\ tick \in Nat
  BY DEF SightIInv, TimerTypeOK, CallsTyped, InCall, Hook
<1>2. /\ timers \in [Address -> TimerEntry] /\ log \in [Address -> LogEntry]
      /\ interval \in Intervals
  BY DEF SightIInv, TimerTypeOK, TimerEntry, LogEntry
<1>3. UpdateDiff \in Nat \ {0}
  BY <1>2, UpdateDiffIs
<1>4. \A outcome \in {"run", "skip"} : Sight(log[a].sight, outcome) \in {"run", "skip"}
  BY <1>1, <1>2 DEF Sight, LogEntry
<1>5. Known(a) => timers[a].updateDiff = UpdateDiff
  BY <1>1 DEF SightIInv, SightInv
<1> HIDE DEF a, tick
<1>6. ASSUME NEW timer \in TimerEntry, timer.updateDiff = UpdateDiff,
             Skip(t, timer), timer.lastCounter = timers[a].lastCounter
      PROVE  /\ timers' \in [Address -> TimerEntry] /\ log' \in [Address -> LogEntry]
             /\ LogStep(a, tick, FALSE) /\ timers'[a] = timer
  <2>1. /\ timers' = [timers EXCEPT ![a] = timer]
        /\ log' = [log EXCEPT ![a] = [Logged(a, tick) EXCEPT !.skipped = tick, !.sight = Sight(@, "skip")]]
    BY <1>6 DEF Skip, a, tick
  <2>2. /\ log'[a] = [Logged(a, tick) EXCEPT !.skipped = tick, !.sight = Sight(@, "skip")]
        /\ timers'[a] = timer
        /\ \A b \in Address : b # a => log'[b] = log[b] /\ timers'[b] = timers[b]
    BY <1>1, <1>2, <2>1
  <2>3. log'[a] \in LogEntry
    <3> DEFINE old == Logged(a, tick)
               sight == Sight(old.sight, "skip")
    <3>1. old \in LogEntry /\ sight \in {"none", "run", "skip"} /\ tick \in Int
      BY <1>1, <1>4, LoggedTyped
    <3>2. log'[a] = [old EXCEPT !.skipped = tick, !.sight = sight]
      BY <2>2
    <3> HIDE DEF old, sight
    <3> QED BY <3>1, <3>2 DEF LogEntry
  <2>4. timers' \in [Address -> TimerEntry] /\ log' \in [Address -> LogEntry]
    BY <1>1, <1>2, <1>6, <2>1, <2>2, <2>3
  <2> HIDE DEF LogEntry
  <2>5. LogStep(a, tick, FALSE)
    BY <1>1, <1>6, <2>2, LoggedTyped DEF LogStep, LogEntry
  <2> QED BY <2>2, <2>4, <2>5
<1>7. ASSUME NEW timer \in TimerEntry, timer.updateDiff = UpdateDiff,
             Run(t, Marked(timer)), Bucket(timer) \in Int
      PROVE  /\ timers' \in [Address -> TimerEntry] /\ log' \in [Address -> LogEntry]
             /\ LogStep(a, tick, TRUE) /\ timers'[a] = Marked(timer)
  <2>1. /\ timers' = [timers EXCEPT ![a] = Marked(timer)]
        /\ log' = [log EXCEPT ![a] = [Logged(a, tick) EXCEPT
                     !.runs = @ + 1, !.lastRun = tick, !.skipped = -1, !.sight = Sight(@, "run")]]
    BY <1>7 DEF Run, a, tick
  <2>2. /\ log'[a] = [Logged(a, tick) EXCEPT
                     !.runs = @ + 1, !.lastRun = tick, !.skipped = -1, !.sight = Sight(@, "run")]
        /\ timers'[a] = Marked(timer)
        /\ \A b \in Address : b # a => log'[b] = log[b] /\ timers'[b] = timers[b]
    BY <1>1, <1>2, <2>1
  <2>3. log'[a] \in LogEntry
    <3> DEFINE old == Logged(a, tick)
               sight == Sight(old.sight, "run")
    <3>1. old \in LogEntry /\ sight \in {"none", "run", "skip"} /\ tick \in Nat
      BY <1>1, <1>4, LoggedTyped
    <3>2. log'[a] = [old EXCEPT !.runs = @ + 1, !.lastRun = tick, !.skipped = -1, !.sight = sight]
      BY <2>2
    <3> HIDE DEF old, sight
    <3> DEFINE counted == [old EXCEPT !.runs = @ + 1, !.lastRun = tick]
    <3>3. counted \in LogEntry
      <4>1. old.runs \in Nat
        BY <3>1 DEF LogEntry
      <4>2. old.runs + 1 \in Nat
        BY <4>1
      <4> QED BY <3>1, <4>2, Zenon DEF LogEntry
    <3>4. log'[a] = [counted EXCEPT !.skipped = -1, !.sight = sight] /\ -1 \in Int
      BY <3>2
    <3> HIDE DEF counted
    <3> QED BY <3>1, <3>3, <3>4 DEF LogEntry
  <2>4. Marked(timer) \in TimerEntry
    BY <1>7 DEF Marked, TimerEntry
  <2>5. timers' \in [Address -> TimerEntry] /\ log' \in [Address -> LogEntry]
    BY <1>1, <1>2, <2>1, <2>2, <2>3, <2>4
  <2>6. /\ Marked(timer).updateDiff = UpdateDiff
        /\ Marked(timer).lastCounter = Bucket(Marked(timer))
    BY <1>7 DEF Marked, Bucket, TimerEntry
  <2>7. LogStep(a, tick, TRUE)
    BY <1>1, <2>2, <2>6, LoggedTyped DEF LogStep, LogEntry
  <2> QED BY <2>2, <2>5, <2>7
<1>8. CASE SameTick(t) /\ Skip(t, timers[call[t].at])
  <2>1. Known(a) /\ Elapsed(timers[a], tick) = 0 /\ Skip(t, timers[a])
    BY <1>8 DEF SameTick, a, tick
  <2>2. /\ timers' \in [Address -> TimerEntry] /\ log' \in [Address -> LogEntry]
        /\ LogStep(a, tick, FALSE) /\ timers'[a] = timers[a]
    BY <1>1, <1>2, <1>5, <1>6, <2>1
  <2> QED BY <1>1, <2>1, <2>2 DEF Hook, InCall, Answer, SameTickCall, a, tick
<1>9. CASE ~SameTick(t) /\ Known(a)
  <2> DEFINE timer == Accumulate(timers[a], tick)
  <2>1. /\ timer \in TimerEntry /\ timer.updateDiff = UpdateDiff
        /\ timer.lastCounter = timers[a].lastCounter /\ timer.lastTick = Wrap(tick)
        /\ timer.updateTimer = Wrap(timers[a].updateTimer + Elapsed(timers[a], tick))
    BY <1>1, <1>2, <1>5, <1>9, ElapsedTyped DEF Accumulate, TimerEntry
  <2>2. Elapsed(timers[a], tick) # 0 /\ Advanced(t) = timer
    BY <1>9 DEF SameTick, Advanced, a, tick
  <2> HIDE DEF timer
  <2>3. CASE Bucket(timer) = timer.lastCounter
    <3>1. Skip(t, timer)
      BY <1>9, <2>2, <2>3 DEF Hook
    <3> QED BY <1>1, <1>6, <1>9, <2>1, <2>2, <2>3, <3>1 DEF Hook, InCall, Answer, BucketCall, a, tick
  <2>4. CASE Bucket(timer) # timer.lastCounter
    <3>1. Run(t, Marked(timer))
      BY <1>9, <2>2, <2>4 DEF Hook
    <3>2. Bucket(timer) \in Int
      BY <1>3, <2>1, QuotientIs DEF Bucket, TimerEntry
    <3>3. /\ Marked(timer).lastTick = timer.lastTick /\ Marked(timer).updateTimer = timer.updateTimer
          /\ Bucket(Marked(timer)) = Bucket(timer)
      BY <2>1 DEF Marked, Bucket, TimerEntry
    <3> QED BY <1>1, <1>7, <1>9, <2>1, <2>2, <2>4, <3>1, <3>2, <3>3 DEF Hook, InCall, Answer, BucketCall, a, tick
  <2> QED BY <2>3, <2>4
<1>10. CASE ~Known(a)
  <2> DEFINE timer == NewTimer(tick)
  <2>1. /\ timer \in TimerEntry /\ timer.updateDiff = UpdateDiff /\ timer.lastCounter = -1
        /\ timer.lastTick = Wrap(tick) /\ timer.updateTimer = 0
    BY <1>1, <1>3, WrapIs, ThrottleAssumption DEF NewTimer, TimerEntry
  <2>2. ~SameTick(t) /\ Advanced(t) = timer
    BY <1>10 DEF SameTick, Advanced, a, tick
  <2> HIDE DEF timer
  <2>3. Bucket(timer) = 0 /\ Bucket(timer) \in Int
    BY <1>3, <2>1, QuotientIs DEF Bucket
  <2>4. Run(t, Marked(timer))
    BY <2>1, <2>2, <2>3 DEF Hook
  <2>5. Marked(timer).lastTick = timer.lastTick /\ Marked(timer).updateTimer = timer.updateTimer
    BY <2>1 DEF Marked, TimerEntry
  <2>6. /\ timers' \in [Address -> TimerEntry] /\ log' \in [Address -> LogEntry]
        /\ LogStep(a, tick, TRUE) /\ timers'[a] = Marked(timer)
    BY <1>7, <2>1, <2>3, <2>4, Zenon
  <2>7. FirstCall(a, tick)
    BY <1>10, <2>1, <2>5, <2>6 DEF FirstCall
  <2> QED BY <1>1, <2>6, <2>7 DEF Hook, InCall, Answer, a, tick
<1> QED BY <1>8, <1>9, <1>10 DEF Hook

LEMMA HookSightInv ==
  ASSUME SightIInv, NEW t \in Thread, Hook(t)
  PROVE  SightIInv'
<1> PICK a \in Address, tick \in start..clock :
           /\ InCall(t, a) /\ call[t].tick = tick /\ tick \in Nat /\ a \in alive
           /\ call' = [call EXCEPT ![t] = NoCall]
           /\ UNCHANGED <<interval, start, clock, effects, alive>>
           /\ timers' \in [Address -> TimerEntry] /\ log' \in [Address -> LogEntry]
           /\ Answer(a, tick)
  BY HookTyped
<1>1. call' \in [Thread -> [at : Address \cup {"none"}, tick : Nat]]
  <2>1. NoCall \in [at : Address \cup {"none"}, tick : Nat]
    BY DEF NoCall
  <2> QED BY <2>1 DEF SightIInv, TimerTypeOK
<1>2. TimerTypeOK'
  BY <1>1 DEF SightIInv, TimerTypeOK, TimerEntry, LogEntry
<1>3. CallsTyped'
  <2>1. \A u \in Thread : call'[u] = call[u] \/ call'[u] = NoCall
    BY DEF SightIInv, TimerTypeOK
  <2>2. NoCall.at = "none"
    BY DEF NoCall
  <2>3. ASSUME NEW u \in Thread
        PROVE  /\ InCall(u, "none")' => call'[u] = NoCall
               /\ ~InCall(u, "none")' => call'[u].tick \in start..clock /\ call'[u].at \in alive
    <3>1. CASE call'[u] = NoCall
      BY <2>2, <3>1 DEF InCall
    <3>2. CASE call'[u] = call[u]
      BY <3>2 DEF SightIInv, CallsTyped, InCall
    <3> QED BY <2>1, <3>1, <3>2
  <2> QED BY <2>3 DEF CallsTyped, InCall
<1>4. UpdateDiff' = UpdateDiff /\ UpdateDiff \in Nat \ {0}
  BY UpdateDiffIs DEF UpdateDiff, SightIInv, TimerTypeOK
<1>5. ASSUME NEW b \in Address, b # a PROVE SightInv(b)'
  <2>1. timers'[b] = timers[b] /\ log'[b] = log[b]
    BY <1>5 DEF Answer, FirstCall, SameTickCall, BucketCall, LogStep
  <2>2. SightInv(b)
    BY DEF SightIInv
  <2> QED BY <1>4, <2>1, <2>2 DEF SightInv, Known
<1>6. SightInv(a)'
  <2>1. timers'[a].updateDiff = UpdateDiff
    BY DEF Answer, FirstCall, SameTickCall, BucketCall, LogStep
  <2>2. Known(a)'
    BY <1>4, <2>1 DEF Known, NoTimer
  <2>3. SightInv(a) /\ effects[a] > 0
    BY DEF SightIInv, SightInv
  <2>4. effects[a] = 1 => log'[a].sight = "run"
    <3>1. CASE Known(a)
      BY <2>3, <3>1 DEF Answer, FirstCall, SameTickCall, BucketCall, LogStep, SightInv, Sight
    <3>2. CASE ~Known(a)
      <4>1. log[a].sight = "none"
        BY <2>3, <3>2 DEF SightInv, NoLog
      <4> QED BY <3>2, <4>1 DEF Answer, FirstCall, SameTickCall, BucketCall, LogStep, Sight
    <3> QED BY <3>1, <3>2
  <2>5. effects[a] \in Nat
    BY DEF SightIInv, TimerTypeOK
  <2> QED BY <1>4, <2>1, <2>2, <2>3, <2>4, <2>5 DEF SightInv
<1> QED BY <1>2, <1>3, <1>5, <1>6 DEF SightIInv

\* What the game does leaves the timers alone, and of the log it touches only the
\* sight of an effect that is created.
GameStep ==
  \/ Tick \/ UNCHANGED vars
  \/ \E a \in Address : Create(a) \/ Delete(a)
  \/ \E t \in Thread, a \in Address : EvaluateConditions(t, a)

LEMMA StepCases == [Next]_vars => GameStep \/ \E t \in Thread : Hook(t)
  BY DEF Next, GameStep

TimersKept ==
  /\ UNCHANGED <<interval, start, timers>> /\ clock' \in Nat /\ clock' >= clock
  /\ \A a \in Address : log'[a] = log[a] \/ log'[a] = [log[a] EXCEPT !.sight = "none"]
  /\ \A t \in Thread : call'[t] = call[t] \/ call'[t].tick = clock

LEMMA GameKeepsTimers == SightIInv /\ GameStep => TimersKept
<1> SUFFICES ASSUME SightIInv, GameStep PROVE TimersKept
  OBVIOUS
<1>1. clock \in Nat /\ log \in [Address -> LogEntry] /\ call \in [Thread -> [at : Address \cup {"none"}, tick : Nat]]
  BY DEF SightIInv, TimerTypeOK, LogEntry
<1>2. Tick => TimersKept
  BY <1>1 DEF Tick, TimersKept
<1>3. UNCHANGED vars => TimersKept
  BY <1>1 DEF vars, TimersKept
<1>4. ASSUME NEW a \in Address, Create(a) PROVE TimersKept
  BY <1>1, <1>4 DEF Create, TimersKept
<1>5. ASSUME NEW a \in Address, Delete(a) PROVE TimersKept
  BY <1>1, <1>5 DEF Delete, TimersKept
<1>6. ASSUME NEW t \in Thread, NEW a \in Address, EvaluateConditions(t, a) PROVE TimersKept
  BY <1>1, <1>6 DEF EvaluateConditions, TimersKept
<1> QED BY <1>2, <1>3, <1>4, <1>5, <1>6 DEF GameStep

LEMMA GameSightInv ==
  ASSUME SightIInv, GameStep
  PROVE  SightIInv'
<1> USE DEF SightIInv
<1>1. CASE Tick
  BY <1>1, ThrottleAssumption DEF Tick, TimerTypeOK, CallsTyped, InCall, SightInv, Known, UpdateDiff
<1>2. CASE UNCHANGED vars
  BY <1>2 DEF vars, TimerTypeOK, CallsTyped, InCall, SightInv, Known, UpdateDiff
<1>3. ASSUME NEW a \in Address, Create(a) PROVE SightIInv'
  <2>1. /\ effects' = [effects EXCEPT ![a] = @ + 1] /\ log' = [log EXCEPT ![a].sight = "none"]
        /\ alive' = alive \cup {a} /\ a \notin alive
        /\ UNCHANGED <<interval, start, clock, timers, call>>
    BY <1>3 DEF Create
  <2>2. effects[a] \in Nat /\ effects' \in [Address -> Nat] /\ log[a] \in LogEntry
    BY <2>1 DEF TimerTypeOK, LogEntry
  <2>3. TimerTypeOK'
    BY <2>1, <2>2 DEF TimerTypeOK
  <2>4. CallsTyped'
    BY <2>1 DEF CallsTyped, InCall
  <2>5. UpdateDiff' = UpdateDiff
    BY <2>1 DEF UpdateDiff
  <2>6. ASSUME NEW b \in Address, b # a PROVE SightInv(b)'
    <3>1. effects'[b] = effects[b] /\ log'[b] = log[b] /\ (b \in alive' <=> b \in alive)
      BY <1>3, <2>1, <2>6 DEF TimerTypeOK
    <3> QED BY <2>1, <2>5, <3>1 DEF SightInv, Known
  <2>7. SightInv(a)'
    <3>1. effects'[a] = effects[a] + 1 /\ log'[a] = [log[a] EXCEPT !.sight = "none"]
      BY <2>1 DEF TimerTypeOK
    <3>2. [NoLog EXCEPT !.sight = "none"] = NoLog
      BY DEF NoLog
    <3>3. SightInv(a)
      OBVIOUS
    <3> QED BY <2>1, <2>2, <2>5, <3>1, <3>2, <3>3 DEF SightInv, Known
  <2> QED BY <2>3, <2>4, <2>6, <2>7
<1>4. ASSUME NEW a \in Address, Delete(a) PROVE SightIInv'
  <2>1. TimerTypeOK' /\ \A b \in Address : SightInv(b)'
    BY <1>4 DEF Delete, TimerTypeOK, SightInv, Known, UpdateDiff
  <2>2. CallsTyped'
    BY <1>4 DEF Delete, CallsTyped, InCall
  <2> QED BY <2>1, <2>2
<1>5. ASSUME NEW t \in Thread, NEW a \in Address, EvaluateConditions(t, a) PROVE SightIInv'
  <2>1. /\ call' = [call EXCEPT ![t] = [at |-> a, tick |-> clock]] /\ a \in alive
        /\ UNCHANGED <<interval, start, clock, timers, effects, alive, log>>
    BY <1>5 DEF EvaluateConditions
  <2>2. TimerTypeOK'
    BY <2>1 DEF TimerTypeOK
  <2>3. \A b \in Address : SightInv(b)'
    BY <2>1 DEF SightInv, Known, UpdateDiff
  <2>4. a # "none" /\ clock \in start..clock
    BY ThrottleAssumption DEF TimerTypeOK
  <2>5. \A u \in Thread : call'[u] = IF u = t THEN [at |-> a, tick |-> clock] ELSE call[u]
    BY <2>1 DEF TimerTypeOK
  <2>6. CallsTyped'
    BY <2>1, <2>4, <2>5 DEF CallsTyped, InCall
  <2> QED BY <2>2, <2>3, <2>6
<1> QED BY <1>1, <1>2, <1>3, <1>4, <1>5 DEF GameStep

LEMMA SightNextInv == SightIInv /\ [Next]_vars => SightIInv'
  BY StepCases, HookSightInv, GameSightInv

LEMMA SightInvariance == Spec => []SightIInv
  BY SightInitInv, SightNextInv, PTL DEF Spec

\* Hook: the first effect at an address is evaluated on the first call, whatever the
\* session, the number of threads and the order in which they reach the entry.
THEOREM FirstSight == Spec => []FirstEffectRunsAtSight
<1>1. SightIInv => FirstEffectRunsAtSight
  <2> SUFFICES ASSUME SightIInv, NEW a \in Address, effects[a] = 1 PROVE log[a].sight # "skip"
    BY DEF FirstEffectRunsAtSight
  <2>1. CASE Known(a)
    BY <2>1 DEF SightIInv, SightInv
  <2>2. CASE ~Known(a)
    BY <2>2 DEF SightIInv, SightInv, NoLog
  <2> QED BY <2>1, <2>2
<1> QED BY <1>1, SightInvariance, PTL
-----------------------------------------------------------------------------
(* The timer in a short session.                                           *)

\* The ticks at an address lie in the session.
LEMMA TicksInSession ==
  ASSUME TimerIInv, NEW a \in Address, Known(a), NEW tick \in start..clock
  PROVE  /\ \A x \in {tick, log[a].last, log[a].lastRun, log[a].highest, log[a].first} :
              x \in Nat /\ x - log[a].first <= MaxTicks /\ log[a].first - x <= MaxTicks
         /\ tick - log[a].last <= MaxTicks /\ log[a].last - tick <= MaxTicks
         /\ tick - log[a].lastRun <= MaxTicks
         /\ log[a].highest - log[a].first \in 0..MaxTicks
<1>1. log[a] \in LogEntry /\ start \in Nat /\ clock \in start..(start + MaxTicks) /\ MaxTicks \in Nat
  BY ThrottleAssumption DEF TimerIInv, SightIInv, TimerTypeOK, LogEntry
<1>2. /\ log[a].last \in Nat /\ log[a].lastRun \in Nat /\ log[a].highest \in Nat
      /\ log[a].first \in Nat
  BY <1>1 DEF LogEntry
<1>3. Logs(a)
  BY DEF TimerIInv
<1>4. \A x \in {tick, log[a].last, log[a].lastRun, log[a].highest, log[a].first} :
        x \in Nat /\ start <= x /\ x <= clock
  BY <1>1, <1>2, <1>3 DEF Logs, Between
<1>5. log[a].first <= log[a].highest
  BY <1>3 DEF Logs, Between
<1>6. \A x, y \in Nat : start <= x /\ x <= clock /\ start <= y /\ y <= clock => x - y <= MaxTicks
  BY <1>1
<1>7. ASSUME NEW x \in {tick, log[a].last, log[a].lastRun, log[a].highest, log[a].first}
      PROVE  x \in Nat /\ x - log[a].first <= MaxTicks /\ log[a].first - x <= MaxTicks
  BY <1>4, <1>6
<1>8. /\ tick - log[a].last <= MaxTicks /\ log[a].last - tick <= MaxTicks
      /\ tick - log[a].lastRun <= MaxTicks /\ log[a].highest - log[a].first <= MaxTicks
  BY <1>4, <1>6
<1>9. log[a].highest - log[a].first \in 0..MaxTicks
  BY <1>1, <1>2, <1>5, <1>8
<1> QED BY <1>7, <1>8, <1>9

\* What the hook computes from the entry, in terms of the log.
LEMMA HookReads ==
  ASSUME TimerIInv, ShortSession, NEW a \in Address, Known(a), NEW tick \in start..clock
  PROVE  /\ Elapsed(timers[a], tick) = 0 <=> tick = log[a].last
         /\ Wrap(timers[a].updateTimer + Elapsed(timers[a], tick)) = Wrap(tick - log[a].first)
<1>1. /\ tick \in Nat /\ log[a].last \in Nat /\ log[a].first \in Nat
      /\ tick - log[a].last <= MaxTicks /\ log[a].last - tick <= MaxTicks
  BY TicksInSession
<1>2. interval \in Intervals
  BY DEF TimerIInv, SightIInv, TimerTypeOK
<1>3. MaxTicks < 2 * Half /\ Half \in Nat \ {0} /\ MaxTicks \in Nat
  BY <1>2, SessionBounds
<1>4. Synced(a)
  BY DEF TimerIInv
<1>5. Elapsed(timers[a], tick) = Wrap(Wrap(tick) - Wrap(log[a].last))
  BY <1>4 DEF Elapsed, Synced
<1>6. ASSUME tick = log[a].last PROVE Elapsed(timers[a], tick) = 0
  <2>1. Wrap(tick) \in Int
    BY <1>1, <1>3, WrapIs
  <2>2. 0 \in (-Half)..(Half - 1) /\ Wrap(tick) - Wrap(tick) = 0 + 0 * (2 * Half)
    BY <1>3, <2>1
  <2>3. Wrap(Wrap(tick) - Wrap(tick)) = 0
    BY <2>1, <2>2, WrapUnique
  <2> QED BY <1>5, <1>6, <2>3
<1>7. ASSUME Elapsed(timers[a], tick) = 0 PROVE tick = log[a].last
  <2>1. tick - log[a].last < 2 * Half /\ log[a].last - tick < 2 * Half
    BY <1>1, <1>3
  <2> QED BY <1>1, <1>5, <1>7, <2>1, WrapZero
<1>8. Wrap(timers[a].updateTimer + Elapsed(timers[a], tick)) = Wrap(tick - log[a].first)
  <2>1. Wrap(Wrap(log[a].last - log[a].first) + Wrap(Wrap(tick) - Wrap(log[a].last)))
          = Wrap(tick - log[a].first)
    <3>1. tick \in Int /\ log[a].last \in Int /\ log[a].first \in Int
      BY <1>1
    <3> QED BY <3>1, WrapAdds, Zenon
  <2>2. timers[a].updateTimer = Wrap(log[a].last - log[a].first)
    BY <1>4 DEF Synced
  <2> QED BY <1>5, <2>1, <2>2
<1> QED BY <1>6, <1>7, <1>8

LEMMA HookTimerInv ==
  ASSUME TimerIInv, ShortSession, NEW t \in Thread, Hook(t)
  PROVE  TimerIInv'
<1>1. SightIInv /\ SightIInv'
  BY HookSightInv DEF TimerIInv
<1> PICK a \in Address, tick \in start..clock :
           /\ InCall(t, a) /\ call[t].tick = tick /\ tick \in Nat /\ a \in alive
           /\ call' = [call EXCEPT ![t] = NoCall]
           /\ UNCHANGED <<interval, start, clock, effects, alive>>
           /\ timers' \in [Address -> TimerEntry] /\ log' \in [Address -> LogEntry]
           /\ Answer(a, tick)
  BY <1>1, HookTyped
<1>2. UpdateDiff' = UpdateDiff /\ UpdateDiff \in Nat \ {0} /\ start \in Nat /\ clock \in Nat
  BY <1>1, UpdateDiffIs DEF UpdateDiff, SightIInv, TimerTypeOK
<1>3. ASSUME NEW b \in Address, b # a, Known(b)' PROVE Synced(b)' /\ Logs(b)'
  <2>1. timers'[b] = timers[b] /\ log'[b] = log[b]
    BY <1>3 DEF Answer, FirstCall, SameTickCall, BucketCall, LogStep
  <2>2. Synced(b) /\ Logs(b)
    BY <1>3, <2>1 DEF TimerIInv, Known
  <2> QED BY <1>2, <2>1, <2>2 DEF Synced, Logs, Between, BucketOf
<1>4. /\ log'[a].runs \in Nat /\ log'[a].skipped \in Int /\ log[a] \in LogEntry
      /\ \A x \in Nat : Wrap(x - x) = 0
  <2>1. 0 \in (-Half)..(Half - 1) /\ 0 = 0 + 0 * (2 * Half)
    BY ThrottleAssumption
  <2> QED BY <1>1, <2>1, WrapUnique DEF SightIInv, TimerTypeOK, LogEntry
<1>5. ASSUME FirstCall(a, tick) PROVE Synced(a)' /\ Logs(a)'
  <2>1. log[a] = NoLog
    BY <1>1, <1>5 DEF FirstCall, SightIInv, SightInv
  <2>2. /\ log'[a].first = tick /\ log'[a].last = tick /\ log'[a].lastRun = tick
        /\ log'[a].highest = tick /\ log'[a].runs = 1 /\ log'[a].skipped = -1
    BY <1>5, <2>1 DEF FirstCall, LogStep, NoLog
  <2>3. Logs(a)'
    BY <1>2, <2>2 DEF Logs, Between
  <2>4. /\ timers'[a].updateTimer = 0 /\ timers'[a].lastTick = Wrap(tick)
        /\ timers'[a].lastCounter = Bucket(timers'[a]) /\ timers'[a].updateDiff = UpdateDiff
    BY <1>5 DEF FirstCall, LogStep
  <2>5. Synced(a)'
    BY <1>2, <1>4, <2>2, <2>4 DEF Synced, BucketOf, Bucket
  <2> QED BY <2>3, <2>5
<1>6. ASSUME Known(a), NEW runs \in BOOLEAN, LogStep(a, tick, runs), runs \/ log[a].runs > 0
      PROVE  Logs(a)' /\ log'[a].first = log[a].first
  <2>1. Logs(a)
    BY <1>6 DEF TimerIInv
  <2> QED BY <1>2, <1>4, <1>6, <2>1 DEF Logs, Between, LogStep, LogEntry
<1>7. Known(a) => log[a].runs > 0 /\ Synced(a)
  BY DEF TimerIInv, Logs
<1>8. ASSUME SameTickCall(a, tick) PROVE Synced(a)' /\ Logs(a)'
  <2>1. Known(a) /\ LogStep(a, tick, FALSE) /\ timers'[a] = timers[a] /\ tick = log[a].last
    BY <1>8, HookReads DEF SameTickCall
  <2>2. Logs(a)' /\ log'[a].first = log[a].first /\ log'[a].last = tick /\ log'[a].lastRun = log[a].lastRun
    BY <1>6, <1>7, <2>1 DEF LogStep
  <2>3. Synced(a)'
    BY <1>2, <1>7, <2>1, <2>2 DEF Synced, BucketOf
  <2> QED BY <2>2, <2>3
<1>9. ASSUME NEW runs \in BOOLEAN, BucketCall(a, tick, runs) PROVE Synced(a)' /\ Logs(a)'
  <2>1. /\ Known(a) /\ LogStep(a, tick, runs)
        /\ timers'[a].updateTimer = Wrap(tick - log[a].first) /\ timers'[a].lastTick = Wrap(tick)
        /\ runs <=> Bucket(timers'[a]) # timers[a].lastCounter
    BY <1>9, HookReads DEF BucketCall
  <2>2. Logs(a)' /\ log'[a].first = log[a].first
    BY <1>6, <1>7, <2>1
  <2>3. /\ log'[a].last = tick /\ log'[a].lastRun = IF runs THEN tick ELSE log[a].lastRun
        /\ timers'[a].updateDiff = UpdateDiff
        /\ timers'[a].lastCounter = IF runs THEN Bucket(timers'[a]) ELSE timers[a].lastCounter
    BY <2>1 DEF LogStep
  <2>4. Bucket(timers'[a]) = BucketOf(a, tick) /\ BucketOf(a, tick)' = BucketOf(a, tick)
    BY <1>2, <2>1, <2>2, <2>3 DEF Bucket, BucketOf
  <2>5. CASE runs
    BY <1>2, <2>1, <2>2, <2>3, <2>4, <2>5 DEF Synced, BucketOf
  <2>6. CASE ~runs
    <3>1. BucketOf(a, tick) = BucketOf(a, log[a].lastRun)
      BY <1>7, <2>1, <2>4, <2>6 DEF Synced
    <3> QED BY <1>2, <1>7, <2>1, <2>2, <2>3, <2>4, <2>6, <3>1 DEF Synced, BucketOf
  <2> QED BY <2>2, <2>5, <2>6
<1> QED BY <1>1, <1>3, <1>5, <1>8, <1>9 DEF Answer, TimerIInv

LEMMA GameTimerInv ==
  ASSUME TimerIInv, GameStep
  PROVE  TimerIInv'
<1>1. SightIInv /\ SightIInv' /\ TimersKept
  BY GameSightInv, GameKeepsTimers DEF TimerIInv
<1>2. UpdateDiff' = UpdateDiff /\ clock \in Nat
  BY <1>1 DEF UpdateDiff, TimersKept, SightIInv, TimerTypeOK
<1>3. ASSUME NEW a \in Address, Known(a)' PROVE Synced(a)' /\ Logs(a)'
  <2>1. timers'[a] = timers[a] /\ Known(a) /\ start' = start
    BY <1>1, <1>3 DEF TimersKept, Known
  <2>2. Synced(a) /\ Logs(a) /\ log[a] \in LogEntry
    BY <1>1, <2>1 DEF TimerIInv, SightIInv, TimerTypeOK, LogEntry
  <2>3. /\ log'[a].first = log[a].first /\ log'[a].last = log[a].last /\ log'[a].lastRun = log[a].lastRun
        /\ log'[a].runs = log[a].runs /\ log'[a].late = log[a].late
        /\ log'[a].highest = log[a].highest /\ log'[a].skipped = log[a].skipped
    BY <1>1, <2>2 DEF TimersKept, LogEntry
  <2>4. log[a].highest \in Nat /\ log[a].highest <= clock /\ clock <= clock' /\ clock' \in Nat
    BY <1>1, <2>2 DEF Logs, LogEntry, TimersKept
  <2>5. Logs(a)'
    BY <1>2, <2>1, <2>2, <2>3, <2>4 DEF Logs, Between
  <2> QED BY <1>2, <2>1, <2>2, <2>3, <2>5 DEF Synced, BucketOf
<1> QED BY <1>1, <1>3 DEF TimerIInv

LEMMA TimerInitInv == Init => TimerIInv
<1> SUFFICES ASSUME Init PROVE \A a \in Address : ~Known(a)
  BY SightInitInv DEF TimerIInv
<1> QED BY DEF Init, Known

LEMMA TimerNextInv == ShortSession /\ TimerIInv /\ [Next]_vars => TimerIInv'
  BY StepCases, HookTimerInv, GameTimerInv

\* The ticks between the last evaluation and a call that is skipped in its bucket.
LEMMA SkippedInBucket ==
  ASSUME TimerIInv, ShortSession, NEW a \in Address, Known(a), NEW tick \in start..clock,
         BucketOf(a, tick) = BucketOf(a, log[a].lastRun)
  PROVE  \/ tick - log[a].lastRun < UpdateDiff
         \/ /\ tick - log[a].lastRun < 2 * UpdateDiff
            /\ tick - log[a].first < UpdateDiff
            /\ log[a].lastRun < log[a].first /\ log[a].first < log[a].lastRun + UpdateDiff
<1> DEFINE u == UpdateDiff
           d == tick - log[a].first
           e == log[a].lastRun - log[a].first
<1>1. interval \in Intervals
  BY DEF TimerIInv, SightIInv, TimerTypeOK
<1>2. /\ u \in Nat \ {0} /\ u <= Half /\ MaxTicks + u <= 2 * Half
      /\ Half \in Nat \ {0} /\ MaxTicks \in Nat
  BY <1>1, SessionBounds
<1>3. /\ d \in Int /\ e \in Int /\ d <= MaxTicks /\ -d <= MaxTicks /\ e <= MaxTicks /\ -e <= MaxTicks
      /\ d - e <= MaxTicks /\ d - e = tick - log[a].lastRun
      /\ tick \in Nat /\ log[a].lastRun \in Nat /\ log[a].first \in Nat
  BY <1>2, TicksInSession
<1>4. Quotient(Wrap(d), u) = Quotient(Wrap(e), u)
  BY DEF BucketOf
<1> HIDE DEF u, d, e
<1>5. \/ -Half <= d /\ d < Half /\ Wrap(d) = d
      \/ d >= Half /\ Wrap(d) = d - 2 * Half /\ Wrap(d) <= -u
      \/ d < -Half /\ Wrap(d) = d + 2 * Half /\ Wrap(d) >= u
  <2>1. d + u <= 2 * Half /\ u - d <= 2 * Half
    BY <1>2, <1>3
  <2> QED BY <1>2, <1>3, <2>1, WrapInSession
<1>6. \/ -Half <= e /\ e < Half /\ Wrap(e) = e
      \/ e >= Half /\ Wrap(e) = e - 2 * Half /\ Wrap(e) <= -u
      \/ e < -Half /\ Wrap(e) = e + 2 * Half /\ Wrap(e) >= u
  <2>1. e + u <= 2 * Half /\ u - e <= 2 * Half
    BY <1>2, <1>3
  <2> QED BY <1>2, <1>3, <2>1, WrapInSession
<1>7. Wrap(d) \in Int /\ Wrap(e) \in Int
  BY <1>3, WrapInt
<1>8. CASE Quotient(Wrap(d), u) # 0
  <2>1. Wrap(d) - Wrap(e) < u /\ Wrap(e) - Wrap(d) < u
    BY <1>2, <1>4, <1>7, <1>8, QuotientNear
  <2>2. d - e < u
    BY <1>2, <1>3, <1>5, <1>6, <1>7, <2>1
  <2> QED BY <1>3, <2>2 DEF u
<1>9. CASE Quotient(Wrap(d), u) = 0
  <2>1. -u < Wrap(d) /\ Wrap(d) < u /\ -u < Wrap(e) /\ Wrap(e) < u
    BY <1>2, <1>4, <1>7, <1>9, QuotientIs
  <2>2. Wrap(d) = d /\ Wrap(e) = e
    BY <1>2, <1>3, <1>5, <1>6, <2>1
  <2>3. d - e < u \/ (d - e < 2 * u /\ d < u /\ e < 0 /\ -e < u)
    BY <1>2, <1>3, <2>1, <2>2
  <2> QED BY <1>2, <1>3, <2>3 DEF u, d, e
<1> QED BY <1>8, <1>9

\* A call that is skipped is skipped at the last tick, or in the last run's bucket.
LEMMA SkipCases ==
  ASSUME TimerIInv, ShortSession, NEW a \in Address, NEW tick \in start..clock, Answer(a, tick)
  PROVE  \/ log'[a].skipped = -1
         \/ /\ log'[a].skipped = tick /\ log'[a].lastRun = log[a].lastRun /\ Known(a)
            /\ tick = log[a].last \/ BucketOf(a, tick) = BucketOf(a, log[a].lastRun)
<1>1. CASE FirstCall(a, tick) \/ BucketCall(a, tick, TRUE)
  BY <1>1 DEF FirstCall, BucketCall, LogStep
<1>2. CASE SameTickCall(a, tick)
  BY <1>2, HookReads DEF SameTickCall, LogStep
<1>3. CASE BucketCall(a, tick, FALSE)
  <2>1. Known(a) /\ LogStep(a, tick, FALSE) /\ Bucket(timers'[a]) = timers[a].lastCounter
    BY <1>3 DEF BucketCall
  <2>2. timers'[a].updateTimer = Wrap(tick - log[a].first) /\ timers'[a].updateDiff = UpdateDiff
    BY <1>3, <2>1, HookReads DEF BucketCall, LogStep
  <2>3. timers[a].lastCounter = BucketOf(a, log[a].lastRun)
    BY <2>1 DEF TimerIInv, Synced
  <2> QED BY <2>1, <2>2, <2>3 DEF LogStep, Bucket, BucketOf
<1> QED BY <1>1, <1>2, <1>3 DEF Answer

\* Any number of threads: a skipped call is less than two buckets after the last
\* evaluation; bucket 0 reaches to both sides of the first tick.
NoSkipOfTwoBuckets ==
  \A a \in Address : log[a].skipped >= 0 =>
    log[a].runs > 0 /\ log[a].skipped - log[a].lastRun < 2 * UpdateDiff

SkipIInv == TimerIInv /\ \A a \in Address : Known(a) => SkipNear(a, 2 * UpdateDiff)

LEMMA SkipNextInv == ShortSession /\ SkipIInv /\ [Next]_vars => SkipIInv'
<1> SUFFICES ASSUME ShortSession, SkipIInv, [Next]_vars PROVE SkipIInv'
  OBVIOUS
<1>1. TimerIInv /\ SightIInv /\ TimerIInv'
  BY TimerNextInv DEF SkipIInv, TimerIInv
<1>2. UpdateDiff \in Nat \ {0} /\ log \in [Address -> LogEntry]
  BY <1>1, UpdateDiffIs DEF SightIInv, TimerTypeOK, LogEntry
<1>3. CASE GameStep
  <2>1. TimersKept /\ UpdateDiff' = UpdateDiff
    BY <1>1, <1>3, GameKeepsTimers DEF TimersKept, UpdateDiff
  <2>2. ASSUME NEW a \in Address, Known(a)' PROVE SkipNear(a, 2 * UpdateDiff)'
    <3>1. Known(a) /\ (log'[a] = log[a] \/ log'[a] = [log[a] EXCEPT !.sight = "none"])
      BY <2>1, <2>2 DEF TimersKept, Known
    <3>2. log'[a].skipped = log[a].skipped /\ log'[a].lastRun = log[a].lastRun
      BY <1>2, <3>1 DEF LogEntry
    <3> QED BY <2>1, <3>1, <3>2 DEF SkipIInv, SkipNear
  <2> QED BY <1>1, <2>2 DEF SkipIInv
<1>4. ASSUME NEW t \in Thread, Hook(t) PROVE SkipIInv'
  <2> PICK a \in Address, tick \in start..clock :
           /\ InCall(t, a) /\ call[t].tick = tick /\ tick \in Nat /\ a \in alive
           /\ call' = [call EXCEPT ![t] = NoCall]
           /\ UNCHANGED <<interval, start, clock, effects, alive>>
           /\ timers' \in [Address -> TimerEntry] /\ log' \in [Address -> LogEntry]
           /\ Answer(a, tick)
    BY <1>1, <1>4, HookTyped
  <2>1. UpdateDiff' = UpdateDiff
    BY DEF UpdateDiff
  <2>2. ASSUME NEW b \in Address, b # a, Known(b)' PROVE SkipNear(b, 2 * UpdateDiff)'
    <3>1. timers'[b] = timers[b] /\ log'[b] = log[b]
      BY <2>2 DEF Answer, FirstCall, SameTickCall, BucketCall, LogStep
    <3> QED BY <2>1, <2>2, <3>1 DEF SkipIInv, SkipNear, Known
  <2>3. SkipNear(a, 2 * UpdateDiff)'
    <3>1. CASE log'[a].skipped = -1
      BY <3>1 DEF SkipNear
    <3>2. CASE /\ log'[a].skipped = tick /\ log'[a].lastRun = log[a].lastRun /\ Known(a)
               /\ tick = log[a].last \/ BucketOf(a, tick) = BucketOf(a, log[a].lastRun)
      <4>1. log[a].last \in Nat /\ log[a].lastRun \in Nat /\ log[a].skipped \in Int
        BY <1>2 DEF LogEntry
      <4>2. Logs(a) /\ SkipNear(a, 2 * UpdateDiff)
        BY <3>2 DEF SkipIInv, TimerIInv
      <4>3. tick - log[a].lastRun < 2 * UpdateDiff
        <5>1. CASE tick = log[a].last
          BY <1>2, <4>1, <4>2, <5>1 DEF Logs, SkipNear
        <5>2. CASE BucketOf(a, tick) = BucketOf(a, log[a].lastRun)
          <6>1. tick - log[a].lastRun < UpdateDiff \/ tick - log[a].lastRun < 2 * UpdateDiff
            BY <1>1, <3>2, <5>2, SkippedInBucket
          <6> QED BY <1>2, <4>1, <6>1
        <5> QED BY <3>2, <5>1, <5>2
      <4> QED BY <2>1, <3>2, <4>3 DEF SkipNear
    <3> QED BY <1>1, <3>1, <3>2, SkipCases
  <2> QED BY <1>1, <2>2, <2>3 DEF SkipIInv
<1> QED BY <1>3, <1>4, StepCases

\* Hook, on any number of threads: no effect waits two buckets for its evaluation.
THEOREM SkipsBounded == ShortSession /\ Spec => []NoSkipOfTwoBuckets
<1>1. Init => SkipIInv
  <2>1. Init => \A a \in Address : ~Known(a)
    BY DEF Init, Known
  <2> QED BY <2>1, TimerInitInv DEF SkipIInv
<1>2. SkipIInv => NoSkipOfTwoBuckets
  <2> SUFFICES ASSUME SkipIInv, NEW a \in Address, log[a].skipped >= 0
               PROVE  log[a].runs > 0 /\ log[a].skipped - log[a].lastRun < 2 * UpdateDiff
    BY DEF NoSkipOfTwoBuckets
  <2>1. Known(a)
    BY DEF SkipIInv, TimerIInv, SightIInv, SightInv, NoLog
  <2> QED BY <2>1 DEF SkipIInv, TimerIInv, Logs, SkipNear
<1>3. ShortSession /\ Spec => []SkipIInv
  <2> SUFFICES ASSUME ShortSession PROVE Spec => []SkipIInv
    OBVIOUS
  <2>1. SkipIInv /\ [Next]_vars => SkipIInv'
    BY SkipNextInv
  <2> QED BY <1>1, <2>1, PTL DEF Spec
<1> QED BY <1>2, <1>3, PTL
-----------------------------------------------------------------------------
(* Any number of threads, however long each is delayed.                    *)

\* A call that is evaluated in a known entry is in another bucket than the last one.
LEMMA RunInOtherBucket ==
  ASSUME TimerIInv, ShortSession, NEW a \in Address, NEW tick \in start..clock,
         BucketCall(a, tick, TRUE)
  PROVE  BucketOf(a, tick) # BucketOf(a, log[a].lastRun)
<1>1. Known(a) /\ LogStep(a, tick, TRUE) /\ Bucket(timers'[a]) # timers[a].lastCounter
  BY DEF BucketCall
<1>2. timers'[a].updateTimer = Wrap(tick - log[a].first) /\ timers'[a].updateDiff = UpdateDiff
  BY <1>1, HookReads DEF BucketCall, LogStep
<1>3. timers[a].lastCounter = BucketOf(a, log[a].lastRun)
  BY <1>1 DEF TimerIInv, Synced
<1> QED BY <1>1, <1>2, <1>3 DEF Bucket, BucketOf

LEMMA GameCountInv ==
  ASSUME CountIInv, GameStep
  PROVE  CountIInv'
<1>1. TimerIInv /\ SightIInv /\ TimerIInv'
  BY GameTimerInv DEF CountIInv, TimerIInv
<1>2. log \in [Address -> LogEntry] /\ TimersKept /\ UpdateDiff' = UpdateDiff
  BY <1>1, GameKeepsTimers DEF SightIInv, TimerTypeOK, LogEntry, TimersKept, UpdateDiff
<1>3. ASSUME NEW a \in Address, Known(a)' PROVE RunsCounted(a)'
  <2>1. Known(a) /\ (log'[a] = log[a] \/ log'[a] = [log[a] EXCEPT !.sight = "none"])
    BY <1>2, <1>3 DEF TimersKept, Known
  <2>2. /\ log'[a].first = log[a].first /\ log'[a].last = log[a].last
        /\ log'[a].runs = log[a].runs /\ log'[a].highest = log[a].highest
        /\ log'[a].late = log[a].late
    BY <1>2, <2>1 DEF LogEntry
  <2> QED BY <1>2, <2>1, <2>2 DEF CountIInv, RunsCounted, Astray, BucketOf, Entered
<1> QED BY <1>1, <1>3 DEF CountIInv

\* A call that reaches an entry which is already there: overtaken, it is evaluated at
\* most once and leads astray at most once; otherwise it leads back to the highest bucket.
LEMMA KnownCallCounted ==
  ASSUME CountIInv, ShortSession, NEW a \in Address, Known(a), NEW tick \in start..clock,
         UNCHANGED interval, NEW runs \in BOOLEAN, LogStep(a, tick, runs),
         runs => BucketOf(a, tick) # BucketOf(a, log[a].last)
  PROVE  RunsCounted(a)'
<1> DEFINE f == log[a].first  h == log[a].highest  l == log[a].last
<1>1. TimerIInv /\ interval \in Intervals /\ UpdateDiff' = UpdateDiff /\ log[a] \in LogEntry
  BY DEF CountIInv, TimerIInv, SightIInv, TimerTypeOK, LogEntry, UpdateDiff
<1>2. /\ f \in Nat /\ h \in Nat /\ l \in Nat /\ tick \in Nat
      /\ log[a].late \in Nat /\ log[a].runs \in Nat /\ f <= h
  <2>1. Logs(a) /\ start \in Nat
    BY <1>1 DEF TimerIInv, SightIInv, TimerTypeOK
  <2> QED BY <1>1, <2>1 DEF LogEntry, Logs, Between
<1>3. /\ log'[a].first = f /\ log'[a].last = tick
      /\ log'[a].highest = IF h >= tick THEN h ELSE tick
      /\ log'[a].late = IF tick < h THEN log[a].late + 1 ELSE log[a].late
      /\ log'[a].runs = IF runs THEN log[a].runs + 1 ELSE log[a].runs
  BY DEF LogStep
<1>4. log[a].runs + (IF Astray(a) THEN 1 ELSE 0) <= 1 + Entered(h - f) + 2 * log[a].late
  BY DEF CountIInv, RunsCounted
<1>5. Astray(a) <=> BucketOf(a, l) # BucketOf(a, h)
  BY DEF Astray
<1>6. \A x \in Nat : BucketOf(a, x)' = BucketOf(a, x)
  BY <1>1, <1>3 DEF BucketOf
<1>7. Entered(log[a].highest - log[a].first)' = Entered(log'[a].highest - f)
  BY <1>1, <1>3 DEF Entered
<1>8. h - f \in 0..MaxTicks /\ (h < tick => tick - f \in 0..MaxTicks)
  <2>1. MaxTicks \in Nat
    BY ThrottleAssumption
  <2>2. h - f \in 0..MaxTicks /\ tick - f <= MaxTicks
    BY <1>1, TicksInSession
  <2> QED BY <1>2, <2>1, <2>2
<1>9. Entered(h - f) \in Int /\ (h < tick => Entered(tick - f) \in Int)
  BY <1>1, <1>8, EnteredIs
<1> HIDE DEF f, h, l
<1>10. CASE tick < h
  <2>1. log'[a].highest = h /\ log'[a].late = log[a].late + 1 /\ log'[a].runs <= log[a].runs + 1
    BY <1>2, <1>3, <1>10
  <2>2. log'[a].runs \in Int /\ log[a].runs <= 1 + Entered(h - f) + 2 * log[a].late
    BY <1>2, <1>3, <1>4, <1>9
  <2>3. log'[a].runs + 1 <= 1 + Entered(h - f) + 2 * log'[a].late
    BY <1>2, <1>9, <2>1, <2>2
  <2>4. log'[a].runs + 0 <= 1 + Entered(h - f) + 2 * log'[a].late
    BY <1>2, <1>9, <2>1, <2>2
  <2> QED BY <1>7, <2>1, <2>3, <2>4 DEF RunsCounted
<1>11. CASE tick >= h
  <2>1. log'[a].highest = tick /\ log'[a].late = log[a].late
    BY <1>2, <1>3, <1>11
  <2>2. ~Astray(a)'
    BY <1>3, <2>1 DEF Astray, BucketOf
  <2>3. /\ Entered(h - f) <= Entered(tick - f) /\ Entered(tick - f) \in Int
        /\ BucketOf(a, h) # BucketOf(a, tick) => Entered(h - f) < Entered(tick - f)
    <3>1. CASE h = tick
      BY <1>2, <1>9, <3>1
    <3>2. CASE h < tick
      <4>1. tick - f \in 0..MaxTicks /\ h - f \in 0..MaxTicks /\ h - f <= tick - f
        BY <1>2, <1>8, <3>2
      <4> QED BY <1>1, <1>9, <3>2, <4>1, EnteredMono DEF BucketOf, f
    <3> QED BY <1>2, <1>11, <3>1, <3>2
  <2>4. log'[a].runs <= 1 + Entered(tick - f) + 2 * log[a].late
    <3>1. CASE ~runs
      BY <1>2, <1>3, <1>4, <1>9, <2>3, <3>1
    <3>2. CASE runs /\ Astray(a)
      BY <1>2, <1>3, <1>4, <1>9, <2>3, <3>2
    <3>3. CASE runs /\ ~Astray(a)
      <4>1. Entered(h - f) < Entered(tick - f)
        BY <1>5, <2>3, <3>3 DEF l
      <4> QED BY <1>2, <1>3, <1>4, <1>9, <2>3, <3>3, <4>1
    <3> QED BY <3>1, <3>2, <3>3
  <2>5. log'[a].runs \in Int
    BY <1>2, <1>3
  <2> QED BY <1>2, <1>7, <2>1, <2>2, <2>3, <2>4, <2>5 DEF RunsCounted
<1> QED BY <1>2, <1>10, <1>11

LEMMA FirstCallCounted ==
  ASSUME TimerIInv, ShortSession, NEW a \in Address, NEW tick \in start..clock,
         UNCHANGED interval, FirstCall(a, tick)
  PROVE  RunsCounted(a)'
<1>1. interval \in Intervals /\ UpdateDiff' = UpdateDiff /\ tick \in Nat
  BY DEF TimerIInv, SightIInv, TimerTypeOK, UpdateDiff
<1>2. log[a] = NoLog /\ LogStep(a, tick, TRUE)
  BY DEF FirstCall, TimerIInv, SightIInv, SightInv
<1>3. /\ log'[a].first = tick /\ log'[a].last = tick /\ log'[a].highest = tick
      /\ log'[a].runs = 1 /\ log'[a].late = 0
  BY <1>2 DEF LogStep, NoLog, FirstCall
<1>4. ~Astray(a)'
  BY <1>3 DEF Astray, BucketOf
<1>5. Entered(tick - tick) = 0
  <2>1. UpdateDiff \in Nat \ {0} /\ Half \in Nat \ {0}
    BY <1>1, SessionBounds
  <2>2. tick - tick = 0 /\ 0 < Half /\ 0 \div UpdateDiff = 0
    BY <1>1, <2>1
  <2> QED BY <2>2 DEF Entered
<1>6. Entered(log[a].highest - log[a].first)' = 0
  BY <1>1, <1>3, <1>5 DEF Entered
<1> QED BY <1>3, <1>4, <1>6 DEF RunsCounted

LEMMA HookCountInv ==
  ASSUME CountIInv, ShortSession, NEW t \in Thread, Hook(t)
  PROVE  CountIInv'
<1>1. TimerIInv /\ SightIInv /\ TimerIInv'
  BY HookTimerInv DEF CountIInv, TimerIInv
<1> PICK a \in Address, tick \in start..clock :
           /\ InCall(t, a) /\ call[t].tick = tick /\ tick \in Nat /\ a \in alive
           /\ call' = [call EXCEPT ![t] = NoCall]
           /\ UNCHANGED <<interval, start, clock, effects, alive>>
           /\ timers' \in [Address -> TimerEntry] /\ log' \in [Address -> LogEntry]
           /\ Answer(a, tick)
  BY <1>1, HookTyped
<1>2. UpdateDiff' = UpdateDiff
  BY DEF UpdateDiff
<1>3. ASSUME NEW b \in Address, b # a, Known(b)' PROVE RunsCounted(b)'
  <2>1. timers'[b] = timers[b] /\ log'[b] = log[b]
    BY <1>3 DEF Answer, FirstCall, SameTickCall, BucketCall, LogStep
  <2>2. RunsCounted(b)
    BY <1>3, <2>1 DEF CountIInv, Known
  <2> QED BY <1>2, <2>1, <2>2 DEF RunsCounted, Astray, BucketOf, Entered
<1>4. RunsCounted(a)'
  <2>1. CASE FirstCall(a, tick)
    BY <1>1, <2>1, FirstCallCounted
  <2>2. CASE SameTickCall(a, tick) \/ BucketCall(a, tick, FALSE)
    <3>1. Known(a) /\ LogStep(a, tick, FALSE)
      BY <2>2 DEF SameTickCall, BucketCall
    <3> QED BY <3>1, KnownCallCounted
  <2>3. CASE BucketCall(a, tick, TRUE)
    <3>1. Known(a) /\ LogStep(a, tick, TRUE)
      BY <2>3 DEF BucketCall
    <3>2. BucketOf(a, tick) # BucketOf(a, log[a].last)
      BY <1>1, <2>3, <3>1, RunInOtherBucket DEF TimerIInv, Synced
    <3> QED BY <3>1, <3>2, KnownCallCounted
  <2> QED BY <2>1, <2>2, <2>3 DEF Answer
<1> QED BY <1>1, <1>3, <1>4 DEF CountIInv

\* Hook, on any number of threads and with any delays: no more evaluations than buckets
\* begun since the first tick, two for each call that was overtaken and two for an
\* overflow of the timer.
THEOREM EvaluationsThrottled == ShortSession /\ Spec => []Throttled
<1>1. Init => CountIInv
  <2>1. Init => \A a \in Address : ~Known(a)
    BY DEF Init, Known
  <2> QED BY <2>1, TimerInitInv DEF CountIInv
<1>2. ShortSession /\ CountIInv => Throttled
  <2> SUFFICES ASSUME ShortSession, CountIInv, NEW a \in Address
               PROVE  log[a].runs <= 1 + (log[a].highest - log[a].first) \div UpdateDiff
                                       + 2 * log[a].late
                                       + (IF log[a].highest - log[a].first >= Half THEN 2 ELSE 0)
    BY DEF Throttled
  <2>1. interval \in Intervals /\ log[a] \in LogEntry /\ start \in Nat /\ clock \in Nat /\ start <= clock
    BY DEF CountIInv, TimerIInv, SightIInv, TimerTypeOK, LogEntry
  <2>2. UpdateDiff \in Nat \ {0} /\ Half \in Nat \ {0}
    BY <2>1, SessionBounds
  <2>3. CASE ~Known(a)
    <3>1. log[a] = NoLog
      BY <2>3 DEF CountIInv, TimerIInv, SightIInv, SightInv
    <3>2. 0 \div UpdateDiff = 0
      BY <2>2
    <3> QED BY <2>2, <3>1, <3>2 DEF NoLog
  <2>4. CASE Known(a)
    <3> DEFINE d == log[a].highest - log[a].first
    <3>1. TimerIInv /\ log[a].runs \in Nat /\ log[a].late \in Nat
      BY <2>1 DEF CountIInv, LogEntry
    <3>2. start \in start..clock
      BY <2>1
    <3>3. d \in 0..MaxTicks
      BY <2>4, <3>1, <3>2, TicksInSession
    <3>4. /\ Entered(d) <= d \div UpdateDiff + (IF d >= Half THEN 2 ELSE 0)
          /\ Entered(d) \in Int /\ d \div UpdateDiff \in Int
      <4>1. d \in Int
        BY <3>3
      <4> HIDE DEF d
      <4> QED BY <2>1, <2>2, <3>3, <4>1, EnteredBound, EnteredIs, DivIs
    <3>5. log[a].runs + (IF Astray(a) THEN 1 ELSE 0) <= 1 + Entered(d) + 2 * log[a].late
      BY <2>4 DEF CountIInv, RunsCounted
    <3> HIDE DEF d
    <3>6. log[a].runs <= 1 + Entered(d) + 2 * log[a].late
      BY <3>1, <3>4, <3>5
    <3>7. log[a].runs <= 1 + d \div UpdateDiff + 2 * log[a].late + (IF d >= Half THEN 2 ELSE 0)
      BY <3>1, <3>4, <3>6
    <3> QED BY <3>7 DEF d
  <2> QED BY <2>3, <2>4
<1>3. ShortSession /\ CountIInv /\ [Next]_vars => CountIInv'
  BY StepCases, GameCountInv, HookCountInv
<1> QED
  <2> SUFFICES ASSUME ShortSession PROVE Spec => []Throttled
    OBVIOUS
  <2>1. CountIInv => Throttled
    BY <1>2
  <2>2. CountIInv /\ [Next]_vars => CountIInv'
    BY <1>3
  <2> QED BY <1>1, <2>1, <2>2, PTL DEF Spec
-----------------------------------------------------------------------------
(* Two threads.                                                            *)

LEMMA GameTwoThreadsInv ==
  ASSUME TwoThreadsIInv, GameStep
  PROVE  TwoThreadsIInv'
<1>1. TimerIInv /\ SightIInv /\ TimerIInv'
  BY GameTimerInv DEF TwoThreadsIInv, TimerIInv
<1>2. /\ UpdateDiff \in Nat \ {0} /\ log \in [Address -> LogEntry] /\ clock \in Nat
      /\ call \in [Thread -> [at : Address \cup {"none"}, tick : Nat]]
  BY <1>1, UpdateDiffIs DEF SightIInv, TimerTypeOK, LogEntry
<1>3. TimersKept /\ UpdateDiff' = UpdateDiff /\ clock' >= clock /\ clock' \in Nat
  BY <1>1, GameKeepsTimers DEF TimersKept, UpdateDiff
<1>4. ASSUME NEW a \in Address, Known(a)'
      PROVE  OneOld(a)' /\ LeftBehind(a)' /\ SkipNear(a, UpdateDiff)'
  <2>1. Known(a) /\ (log'[a] = log[a] \/ log'[a] = [log[a] EXCEPT !.sight = "none"])
    BY <1>3, <1>4 DEF TimersKept, Known
  <2>2. /\ log'[a].first = log[a].first /\ log'[a].last = log[a].last /\ log'[a].lastRun = log[a].lastRun
        /\ log'[a].highest = log[a].highest /\ log'[a].skipped = log[a].skipped
        /\ log'[a].late = log[a].late
    BY <1>2, <2>1 DEF LogEntry
  <2>3. OneOld(a) /\ LeftBehind(a) /\ SkipNear(a, UpdateDiff) /\ Logs(a)
    BY <2>1 DEF TwoThreadsIInv, TimerIInv
  <2>4. /\ log[a].first \in Nat /\ log[a].highest \in Nat /\ log[a].first <= log[a].highest
        /\ log[a].highest <= clock
    BY <1>2, <2>3 DEF LogEntry, Logs, Between
  <2>5. \A t \in Thread : call'[t] = call[t] \/ call'[t].tick = clock
    BY <1>3 DEF TimersKept
  <2>6. \A t \in Thread : Old(t, a)' => Old(t, a)
    BY <1>2, <2>2, <2>4, <2>5 DEF Old, InCall
  <2>7. \A t \in Thread : InCall(t, a)' /\ call'[t].tick < log[a].first => InCall(t, a) /\ call[t].tick < log[a].first
    BY <1>2, <2>4, <2>5 DEF InCall
  <2>8. OneOld(a)'
    BY <2>2, <2>3, <2>6, <2>7 DEF OneOld
  <2>9. ASSUME log[a].lastRun < log[a].first, log[a].first < log[a].lastRun + UpdateDiff
        PROVE  /\ clock' >= log[a].first + UpdateDiff
               /\ \A t \in Thread : InCall(t, a)' => call'[t].tick >= log[a].first + UpdateDiff
    <3>1. /\ clock >= log[a].first + UpdateDiff
          /\ \A t \in Thread : InCall(t, a) => call[t].tick >= log[a].first + UpdateDiff
      BY <2>3, <2>9 DEF LeftBehind
    <3> QED BY <1>2, <1>3, <2>4, <2>5, <3>1 DEF InCall
  <2>10. LeftBehind(a)'
    BY <1>3, <2>2, <2>9 DEF LeftBehind
  <2>11. SkipNear(a, UpdateDiff)'
    BY <1>3, <2>2, <2>3 DEF SkipNear
  <2> QED BY <2>8, <2>10, <2>11
<1> QED BY <1>1, <1>4 DEF TwoThreadsIInv

\* Near the first tick everything is bucket 0.
LEMMA BucketZero ==
  ASSUME interval \in Intervals, ShortSession, NEW d \in Int, -UpdateDiff < d, d < UpdateDiff
  PROVE  Quotient(Wrap(d), UpdateDiff) = 0
<1> DEFINE u == UpdateDiff
<1>1. u \in Nat \ {0} /\ u <= Half /\ Half \in Nat \ {0}
  BY SessionBounds
<1> HIDE DEF u
<1>2. -u < d /\ d < u
  BY DEF u
<1>3. d \in (-Half)..(Half - 1) /\ d = d + 0 * (2 * Half)
  BY <1>1, <1>2
<1>4. Wrap(d) = d
  BY <1>3, WrapUnique
<1> QED BY <1>1, <1>2, <1>4, QuotientIs DEF u

\* A call that reaches an entry which is already there.
LEMMA KnownCallInv ==
  ASSUME TwoThreadsIInv, ShortSession, TwoThreads, NEW t \in Thread,
         NEW a \in Address, NEW tick \in start..clock, InCall(t, a), call[t].tick = tick,
         \A u \in Thread : u # t => call'[u] = call[u], ~InCall(t, a)',
         UNCHANGED <<interval, start, clock>>,
         Known(a), NEW runs \in BOOLEAN, LogStep(a, tick, runs),
         runs => BucketOf(a, tick) # BucketOf(a, log[a].lastRun),
         ~runs => tick = log[a].last \/ BucketOf(a, tick) = BucketOf(a, log[a].lastRun)
  PROVE  OneOld(a)' /\ LeftBehind(a)' /\ SkipNear(a, UpdateDiff)'
<1> DEFINE f == log[a].first  h == log[a].highest  l == log[a].last  r == log[a].lastRun
<1>1. TimerIInv /\ SightIInv /\ interval \in Intervals
  BY DEF TwoThreadsIInv, TimerIInv, SightIInv, TimerTypeOK
<1>2. /\ UpdateDiff \in Nat \ {0} /\ log[a] \in LogEntry /\ clock \in Nat /\ start \in Nat
      /\ call \in [Thread -> [at : Address \cup {"none"}, tick : Nat]]
  BY <1>1, UpdateDiffIs DEF SightIInv, TimerTypeOK, LogEntry
<1>3. Synced(a) /\ Logs(a) /\ OneOld(a) /\ LeftBehind(a) /\ SkipNear(a, UpdateDiff)
  BY DEF TwoThreadsIInv, TimerIInv
<1>4. /\ f \in Nat /\ h \in Nat /\ l \in Nat /\ r \in Nat
      /\ log[a].late \in Nat /\ log[a].runs \in Nat /\ log[a].skipped \in Int /\ tick \in Nat
  BY <1>2 DEF LogEntry
<1>5. f <= h /\ l <= h /\ r <= h /\ h <= clock /\ (log[a].late = 0 => r >= f)
  BY <1>3 DEF Logs, Between
<1>6. /\ log'[a].first = f /\ log'[a].last = tick
      /\ log'[a].highest = IF h >= tick THEN h ELSE tick
      /\ log'[a].late = IF tick < h THEN log[a].late + 1 ELSE log[a].late
      /\ log'[a].runs = IF runs THEN log[a].runs + 1 ELSE log[a].runs
      /\ log'[a].lastRun = IF runs THEN tick ELSE r
      /\ log'[a].skipped = IF runs THEN -1 ELSE tick
  BY DEF LogStep
<1>7. UpdateDiff' = UpdateDiff
  BY DEF UpdateDiff
<1>8. \A u \in Thread : InCall(u, a)' => u # t /\ InCall(u, a) /\ call'[u] = call[u]
  BY DEF InCall
<1>9. tick < h => Old(t, a)
  BY DEF Old
<1>10. \A u \in Thread : u # t /\ InCall(u, a) /\ Old(t, a) => call[u].tick >= h
  BY <1>2, <1>3, <1>4 DEF OneOld, Old, InCall
<1> HIDE DEF f, h, l, r
<1>11. OneOld(a)'
  <2>1. \A u, v \in Thread : Old(u, a)' /\ Old(v, a)' => u = v
    BY <1>8 DEF Old, TwoThreads
  <2>2. ASSUME log'[a].last < log'[a].highest, NEW u \in Thread PROVE ~Old(u, a)'
    <3>1. tick < h /\ log'[a].highest = h
      BY <1>4, <1>6, <2>2
    <3> QED BY <1>2, <1>4, <1>8, <1>9, <1>10, <3>1 DEF Old, InCall
  <2>3. ASSUME NEW u \in Thread, InCall(u, a)', call'[u].tick < log'[a].first
        PROVE  log'[a].late = 0
    <3>1. InCall(u, a) /\ call[u].tick < f /\ u # t /\ call[u].tick \in Nat
      BY <1>2, <1>6, <1>8, <2>3
    <3>2. ~(call[u].tick >= h)
      BY <1>4, <1>5, <3>1
    <3>3. ~(tick < h)
      BY <1>9, <1>10, <3>1, <3>2
    <3>4. log[a].late = 0
      BY <1>3, <3>1 DEF OneOld, f
    <3> QED BY <1>4, <1>5, <1>6, <3>3, <3>4
  <2> QED BY <2>1, <2>2, <2>3 DEF OneOld
<1>12. LeftBehind(a)'
  <2> SUFFICES ASSUME log'[a].lastRun < f, f < log'[a].lastRun + UpdateDiff
               PROVE  /\ clock >= f + UpdateDiff
                      /\ \A u \in Thread : InCall(u, a)' => call'[u].tick >= f + UpdateDiff
    BY <1>6, <1>7 DEF LeftBehind
  <2>1. CASE ~runs
    <3>1. /\ clock >= f + UpdateDiff
          /\ \A u \in Thread : InCall(u, a) => call[u].tick >= f + UpdateDiff
      BY <1>3, <1>6, <2>1 DEF LeftBehind, f, r
    <3> QED BY <1>8, <3>1
  <2>2. CASE runs
    <3>1. tick < f /\ f < tick + UpdateDiff
      BY <1>6, <2>2
    <3>2. log[a].late = 0
      BY <1>3, <3>1 DEF OneOld, f
    <3>3. BucketOf(a, tick) = 0
      <4>1. tick - f \in Int /\ -UpdateDiff < tick - f /\ tick - f < UpdateDiff
        BY <1>2, <1>4, <3>1
      <4> QED BY <1>1, <4>1, BucketZero DEF BucketOf, f
    <3>4. r >= f + UpdateDiff
      <4>1. SUFFICES ASSUME r < f + UpdateDiff PROVE FALSE
        BY <1>2, <1>4
      <4>2. r - f \in Int /\ -UpdateDiff < r - f /\ r - f < UpdateDiff
        BY <1>2, <1>4, <1>5, <3>2, <4>1
      <4>3. BucketOf(a, r) = 0
        BY <1>1, <4>2, BucketZero DEF BucketOf, f
      <4> QED BY <2>2, <3>3, <4>3 DEF r
    <3>5. h >= f + UpdateDiff /\ tick < h
      BY <1>2, <1>4, <1>5, <3>1, <3>4
    <3>6. ASSUME NEW u \in Thread, InCall(u, a)' PROVE call'[u].tick >= f + UpdateDiff
      <4>1. call'[u] = call[u] /\ call[u].tick >= h /\ call[u].tick \in Nat
        BY <1>2, <1>8, <1>9, <1>10, <3>5, <3>6
      <4> QED BY <1>2, <1>4, <3>5, <4>1
    <3> QED BY <1>2, <1>4, <1>5, <3>5, <3>6
  <2> QED BY <2>1, <2>2
<1>13. SkipNear(a, UpdateDiff)'
  <2>1. CASE runs
    BY <1>6, <2>1 DEF SkipNear
  <2>2. CASE ~runs
    <3>1. tick - r < UpdateDiff
      <4>1. CASE tick = l
        BY <1>2, <1>3, <1>4, <4>1 DEF Logs, SkipNear, l, r
      <4>2. CASE BucketOf(a, tick) = BucketOf(a, r)
        <5>1. SUFFICES ASSUME tick - f < UpdateDiff, r < f, f < r + UpdateDiff PROVE FALSE
          BY <1>1, <4>2, SkippedInBucket DEF f, r
        <5>2. tick >= f + UpdateDiff
          BY <1>3, <5>1 DEF LeftBehind, f, r
        <5> QED BY <1>2, <1>4, <5>1, <5>2
      <4> QED BY <2>2, <4>1, <4>2 DEF l, r
    <3> QED BY <1>6, <1>7, <2>2, <3>1 DEF SkipNear
  <2> QED BY <2>1, <2>2
<1> QED BY <1>11, <1>12, <1>13

\* A call that finds no entry.
LEMMA FirstCallInv ==
  ASSUME TimerIInv, ShortSession, TwoThreads, NEW t \in Thread,
         NEW a \in Address, NEW tick \in start..clock,
         ~InCall(t, a)', UNCHANGED <<interval, start, clock>>,
         FirstCall(a, tick)
  PROVE  OneOld(a)' /\ LeftBehind(a)' /\ SkipNear(a, UpdateDiff)'
<1>1. interval \in Intervals /\ UpdateDiff' = UpdateDiff /\ tick \in Nat /\ MaxTicks \in Nat
  BY ThrottleAssumption DEF TimerIInv, SightIInv, TimerTypeOK, UpdateDiff
<1>2. log[a] = NoLog /\ LogStep(a, tick, TRUE) /\ ~Known(a)
  BY DEF FirstCall, TimerIInv, SightIInv, SightInv
<1>3. /\ log'[a].first = tick /\ log'[a].last = tick
      /\ log'[a].highest = tick /\ log'[a].lastRun = tick
      /\ log'[a].runs = 1 /\ log'[a].late = 0 /\ log'[a].skipped = -1
  BY <1>2 DEF LogStep, NoLog
<1>4. OneOld(a)'
  <2>1. \A u \in Thread : Old(u, a)' => u # t
    BY DEF Old
  <2>2. \A u, v \in Thread : Old(u, a)' /\ Old(v, a)' => u = v
    BY <2>1 DEF TwoThreads
  <2> QED BY <1>1, <1>3, <2>2 DEF OneOld
<1>5. LeftBehind(a)'
  BY <1>1, <1>3 DEF LeftBehind
<1>6. SkipNear(a, UpdateDiff)'
  BY <1>3 DEF SkipNear
<1> QED BY <1>4, <1>5, <1>6

LEMMA HookTwoThreadsInv ==
  ASSUME TwoThreadsIInv, ShortSession, TwoThreads, NEW t \in Thread, Hook(t)
  PROVE  TwoThreadsIInv'
<1>1. TimerIInv /\ SightIInv /\ TimerIInv'
  BY HookTimerInv DEF TwoThreadsIInv, TimerIInv
<1> PICK a \in Address, tick \in start..clock :
           /\ InCall(t, a) /\ call[t].tick = tick /\ tick \in Nat /\ a \in alive
           /\ call' = [call EXCEPT ![t] = NoCall]
           /\ UNCHANGED <<interval, start, clock, effects, alive>>
           /\ timers' \in [Address -> TimerEntry] /\ log' \in [Address -> LogEntry]
           /\ Answer(a, tick)
  BY <1>1, HookTyped
<1>2. UpdateDiff' = UpdateDiff
  BY DEF UpdateDiff
<1>3. call \in [Thread -> [at : Address \cup {"none"}, tick : Nat]]
  BY <1>1 DEF SightIInv, TimerTypeOK
<1>4. call'[t] = NoCall /\ \A u \in Thread : u # t => call'[u] = call[u]
  BY <1>3
<1>5. \A b \in Address : ~InCall(t, b)'
  BY <1>4, ThrottleAssumption DEF InCall, NoCall
<1>6. ASSUME NEW b \in Address, b # a, Known(b)'
      PROVE  OneOld(b)' /\ LeftBehind(b)' /\ SkipNear(b, UpdateDiff)'
  <2>1. timers'[b] = timers[b] /\ log'[b] = log[b]
    BY <1>6 DEF Answer, FirstCall, SameTickCall, BucketCall, LogStep
  <2>2. OneOld(b) /\ LeftBehind(b) /\ SkipNear(b, UpdateDiff)
    BY <1>6, <2>1 DEF TwoThreadsIInv, Known
  <2>3. \A u \in Thread : InCall(u, b)' => InCall(u, b) /\ call'[u] = call[u]
    BY <1>4, <1>5 DEF InCall
  <2>4. \A u \in Thread : Old(u, b)' => Old(u, b)
    BY <2>1, <2>3 DEF Old
  <2>5. OneOld(b)'
    BY <2>1, <2>2, <2>3, <2>4 DEF OneOld
  <2>6. LeftBehind(b)'
    BY <1>2, <2>1, <2>2, <2>3 DEF LeftBehind
  <2>7. SkipNear(b, UpdateDiff)'
    BY <1>2, <2>1, <2>2 DEF SkipNear
  <2> QED BY <2>5, <2>6, <2>7
<1>7. OneOld(a)' /\ LeftBehind(a)' /\ SkipNear(a, UpdateDiff)'
  <2>1. CASE FirstCall(a, tick)
    BY <1>1, <1>5, <2>1, FirstCallInv
  <2>2. CASE SameTickCall(a, tick)
    <3>1. Known(a) /\ LogStep(a, tick, FALSE) /\ tick = log[a].last
      BY <1>1, <2>2, HookReads DEF SameTickCall
    <3> QED BY <1>4, <1>5, <3>1, KnownCallInv
  <2>3. ASSUME NEW runs \in BOOLEAN, BucketCall(a, tick, runs)
        PROVE  OneOld(a)' /\ LeftBehind(a)' /\ SkipNear(a, UpdateDiff)'
    <3>1. Known(a) /\ LogStep(a, tick, runs)
      BY <2>3 DEF BucketCall
    <3>2. timers'[a].updateTimer = Wrap(tick - log[a].first) /\ timers'[a].updateDiff = UpdateDiff
      BY <1>1, <2>3, <3>1, HookReads DEF BucketCall, LogStep
    <3>3. timers[a].lastCounter = BucketOf(a, log[a].lastRun)
      BY <1>1, <3>1 DEF TimerIInv, Synced
    <3>4. Bucket(timers'[a]) = BucketOf(a, tick)
      BY <3>2 DEF Bucket, BucketOf
    <3>5. runs <=> BucketOf(a, tick) # BucketOf(a, log[a].lastRun)
      BY <2>3, <3>3, <3>4 DEF BucketCall
    <3> QED BY <1>4, <1>5, <3>1, <3>5, KnownCallInv
  <2> QED BY <2>1, <2>2, <2>3 DEF Answer
<1> QED BY <1>1, <1>6, <1>7 DEF TwoThreadsIInv

LEMMA TwoThreadsNextInv ==
  ShortSession /\ TwoThreads /\ TwoThreadsIInv /\ [Next]_vars => TwoThreadsIInv'
BY StepCases, GameTwoThreadsInv, HookTwoThreadsInv

LEMMA TwoThreadsInvariance == ShortSession /\ TwoThreads /\ Spec => []TwoThreadsIInv
<1> SUFFICES ASSUME ShortSession, TwoThreads PROVE Spec => []TwoThreadsIInv
  OBVIOUS
<1>1. Init => TwoThreadsIInv
  <2>1. Init => \A a \in Address : ~Known(a)
    BY DEF Init, Known
  <2> QED BY <2>1, TimerInitInv DEF TwoThreadsIInv
<1>2. TwoThreadsIInv /\ [Next]_vars => TwoThreadsIInv'
  BY TwoThreadsNextInv
<1> QED BY <1>1, <1>2, PTL DEF Spec

\* Hook, on two threads: a call is skipped only within a bucket of the last
\* evaluation, whatever order the calls reach the entry in and wherever the tick
\* count and the timer come round.
THEOREM NoEffectWaitsABucket == ShortSession /\ TwoThreads /\ Spec => []NoLongSkip
<1>1. TwoThreadsIInv => NoLongSkip
  <2> SUFFICES ASSUME TwoThreadsIInv, NEW a \in Address, log[a].skipped >= 0
               PROVE  log[a].runs > 0 /\ log[a].skipped - log[a].lastRun < UpdateDiff
    BY DEF NoLongSkip
  <2>1. Known(a)
    BY DEF TwoThreadsIInv, TimerIInv, SightIInv, SightInv, NoLog
  <2> QED BY <2>1 DEF TwoThreadsIInv, TimerIInv, Logs, SkipNear
<1> QED BY <1>1, TwoThreadsInvariance, PTL

-----------------------------------------------------------------------------
(* Any number of threads that reach the entry within a bucket.             *)

CallsPrompt == \A t \in Thread : call[t] # NoCall => clock <= call[t].tick + MaxDelay

\* Without a delay of a bucket no evaluation is from before the first tick.
PromptIInv ==
  /\ TimerIInv /\ CallsPrompt
  /\ MaxDelay < UpdateDiff =>
       \A a \in Address : Known(a) => log[a].lastRun >= log[a].first /\ SkipNear(a, UpdateDiff)

LEMMA CallsPromptNext == SightIInv /\ CallsPrompt /\ [Next]_vars => CallsPrompt'
<1> SUFFICES ASSUME SightIInv, CallsPrompt, [Next]_vars PROVE CallsPrompt'
  OBVIOUS
<1>1. /\ clock \in Nat /\ MaxDelay \in Nat /\ call \in [Thread -> [at : Address \cup {"none"}, tick : Nat]]
  BY ThrottleAssumption DEF SightIInv, TimerTypeOK
<1>2. CASE Tick
  BY <1>1, <1>2 DEF Tick, CallsPrompt
<1>3. CASE UNCHANGED vars
  BY <1>3 DEF vars, CallsPrompt
<1>4. ASSUME NEW a \in Address, Create(a) \/ Delete(a) PROVE CallsPrompt'
  BY <1>4 DEF Create, Delete, CallsPrompt
<1>5. ASSUME NEW t \in Thread, NEW a \in Address, EvaluateConditions(t, a) PROVE CallsPrompt'
  <2>1. call' = [call EXCEPT ![t] = [at |-> a, tick |-> clock]] /\ clock' = clock
    BY <1>5 DEF EvaluateConditions
  <2> QED BY <1>1, <2>1 DEF CallsPrompt
<1>6. ASSUME NEW t \in Thread, Hook(t) PROVE CallsPrompt'
  <2>1. call' = [call EXCEPT ![t] = NoCall] /\ clock' = clock
    BY <1>6, HookTyped
  <2> QED BY <1>1, <2>1 DEF CallsPrompt
<1> QED BY <1>2, <1>3, <1>4, <1>5, <1>6, StepCases DEF GameStep

LEMMA PromptRun ==
  ASSUME TimerIInv, ShortSession, NEW a \in Address, NEW tick \in start..clock,
         BucketCall(a, tick, TRUE), clock <= tick + MaxDelay, MaxDelay < UpdateDiff,
         log[a].lastRun >= log[a].first
  PROVE  tick >= log[a].first
<1> DEFINE f == log[a].first  r == log[a].lastRun
<1>1. interval \in Intervals /\ clock \in Nat /\ start \in Nat /\ MaxDelay \in Nat /\ log[a] \in LogEntry
  BY ThrottleAssumption DEF TimerIInv, SightIInv, TimerTypeOK, LogEntry
<1>2. UpdateDiff \in Nat \ {0} /\ f \in Nat /\ r \in Nat /\ tick \in Nat /\ log[a].highest \in Nat
  BY <1>1, UpdateDiffIs DEF LogEntry
<1>3. r <= clock
  <2>1. Logs(a)
    BY DEF BucketCall, TimerIInv
  <2> QED BY <1>1, <1>2, <2>1 DEF Logs, Between
<1>4. BucketOf(a, tick) # BucketOf(a, r)
  BY RunInOtherBucket
<1> HIDE DEF f, r
<1>5. SUFFICES ASSUME tick < f PROVE FALSE
  BY <1>2 DEF f
<1>6. f <= r
  BY DEF f, r
<1>7. -UpdateDiff < tick - f /\ tick - f < UpdateDiff /\ tick - f \in Int
  BY <1>1, <1>2, <1>3, <1>5, <1>6
<1>8. -UpdateDiff < r - f /\ r - f < UpdateDiff /\ r - f \in Int
  BY <1>1, <1>2, <1>3, <1>5, <1>6
<1>9. Quotient(Wrap(tick - f), UpdateDiff) = 0 /\ Quotient(Wrap(r - f), UpdateDiff) = 0
  BY <1>1, <1>7, <1>8, BucketZero
<1> QED BY <1>4, <1>9 DEF BucketOf, f

LEMMA PromptNextInv == ShortSession /\ PromptIInv /\ [Next]_vars => PromptIInv'
<1> SUFFICES ASSUME ShortSession, PromptIInv, [Next]_vars PROVE PromptIInv'
  OBVIOUS
<1>1. TimerIInv /\ SightIInv /\ TimerIInv' /\ CallsPrompt /\ CallsPrompt'
  BY TimerNextInv, CallsPromptNext DEF PromptIInv, TimerIInv
<1>2. UpdateDiff \in Nat \ {0} /\ log \in [Address -> LogEntry] /\ clock \in Nat /\ start \in Nat
  BY <1>1, UpdateDiffIs DEF SightIInv, TimerTypeOK, LogEntry
<1>3. SUFFICES ASSUME (MaxDelay < UpdateDiff)', NEW b \in Address, Known(b)'
               PROVE  (log[b].lastRun >= log[b].first /\ SkipNear(b, UpdateDiff))'
  BY <1>1 DEF PromptIInv
<1>4. CASE GameStep
  <2>1. TimersKept /\ UpdateDiff' = UpdateDiff
    BY <1>1, <1>4, GameKeepsTimers DEF TimersKept, UpdateDiff
  <2>2. Known(b) /\ (log'[b] = log[b] \/ log'[b] = [log[b] EXCEPT !.sight = "none"])
    BY <2>1, <1>3 DEF TimersKept, Known
  <2>3. /\ log'[b].skipped = log[b].skipped /\ log'[b].lastRun = log[b].lastRun
        /\ log'[b].first = log[b].first
    BY <1>2, <2>2 DEF LogEntry
  <2> QED BY <1>3, <2>1, <2>2, <2>3 DEF PromptIInv, SkipNear
<1>5. ASSUME NEW t \in Thread, Hook(t)
      PROVE  (log[b].lastRun >= log[b].first /\ SkipNear(b, UpdateDiff))'
  <2> PICK a \in Address, tick \in start..clock :
           /\ InCall(t, a) /\ call[t].tick = tick /\ tick \in Nat /\ a \in alive
           /\ call' = [call EXCEPT ![t] = NoCall]
           /\ UNCHANGED <<interval, start, clock, effects, alive>>
           /\ timers' \in [Address -> TimerEntry] /\ log' \in [Address -> LogEntry]
           /\ Answer(a, tick)
    BY <1>1, <1>5, HookTyped
  <2>1. UpdateDiff' = UpdateDiff /\ MaxDelay < UpdateDiff
    BY <1>3 DEF UpdateDiff
  <2>2. \A c \in Address : Known(c) => log[c].lastRun >= log[c].first /\ SkipNear(c, UpdateDiff)
    BY <2>1 DEF PromptIInv
  <2>3. clock <= tick + MaxDelay
    BY <1>1, ThrottleAssumption DEF CallsPrompt, InCall, NoCall
  <2>4. CASE b # a
    <3>1. timers'[b] = timers[b] /\ log'[b] = log[b]
      BY <2>4 DEF Answer, FirstCall, SameTickCall, BucketCall, LogStep
    <3> QED BY <1>3, <2>1, <2>2, <3>1 DEF SkipNear, Known
  <2>5. log'[a].lastRun >= log'[a].first
    <3>1. CASE FirstCall(a, tick)
      BY <3>1 DEF FirstCall, LogStep
    <3>2. CASE BucketCall(a, tick, TRUE)
      <4>1. tick >= log[a].first
        BY <1>1, <2>1, <2>2, <2>3, <3>2, PromptRun DEF BucketCall
      <4> QED BY <3>2, <4>1 DEF BucketCall, LogStep
    <3>3. CASE SameTickCall(a, tick) \/ BucketCall(a, tick, FALSE)
      BY <2>2, <3>3 DEF SameTickCall, BucketCall, LogStep
    <3> QED BY <3>1, <3>2, <3>3 DEF Answer
  <2>6. SkipNear(a, UpdateDiff)'
    <3>1. CASE log'[a].skipped = -1
      BY <3>1 DEF SkipNear
    <3>2. CASE /\ log'[a].skipped = tick /\ log'[a].lastRun = log[a].lastRun /\ Known(a)
               /\ tick = log[a].last \/ BucketOf(a, tick) = BucketOf(a, log[a].lastRun)
      <4>1. /\ log[a].last \in Nat /\ log[a].lastRun \in Nat /\ log[a].skipped \in Int
            /\ log[a].first \in Nat
        BY <1>2 DEF LogEntry
      <4>2. Logs(a) /\ SkipNear(a, UpdateDiff) /\ log[a].lastRun >= log[a].first
        BY <1>1, <2>2, <3>2 DEF TimerIInv
      <4>3. tick - log[a].lastRun < UpdateDiff
        <5>1. CASE tick = log[a].last
          BY <1>2, <4>1, <4>2, <5>1 DEF Logs, SkipNear
        <5>2. CASE BucketOf(a, tick) = BucketOf(a, log[a].lastRun)
          <6>1. tick - log[a].lastRun < UpdateDiff \/ log[a].lastRun < log[a].first
            BY <1>1, <3>2, <5>2, SkippedInBucket
          <6> QED BY <4>1, <4>2, <6>1
        <5> QED BY <3>2, <5>1, <5>2
      <4> QED BY <2>1, <3>2, <4>3 DEF SkipNear
    <3> QED BY <1>1, <3>1, <3>2, SkipCases
  <2> QED BY <2>4, <2>5, <2>6
<1> QED BY <1>4, <1>5, StepCases

\* Hook, on any number of threads: if a thread takes less than a bucket from reading the
\* tick count to locking the entry, no chain of skipped evaluations lasts a bucket.
THEOREM PromptCallsWaitNoBucket ==
  ShortSession /\ Spec => [](MaxDelay < UpdateDiff => NoLongSkip)
<1>1. Init => PromptIInv
  <2>1. Init => CallsPrompt /\ \A a \in Address : ~Known(a)
    BY DEF Init, Known, CallsPrompt
  <2> QED BY <2>1, TimerInitInv DEF PromptIInv
<1>2. PromptIInv => (MaxDelay < UpdateDiff => NoLongSkip)
  <2> SUFFICES ASSUME PromptIInv, MaxDelay < UpdateDiff, NEW a \in Address, log[a].skipped >= 0
               PROVE  log[a].runs > 0 /\ log[a].skipped - log[a].lastRun < UpdateDiff
    BY DEF NoLongSkip
  <2>1. Known(a)
    BY DEF PromptIInv, TimerIInv, SightIInv, SightInv, NoLog
  <2> QED BY <2>1 DEF PromptIInv, TimerIInv, Logs, SkipNear
<1>3. ShortSession /\ Spec => []PromptIInv
  <2> SUFFICES ASSUME ShortSession PROVE Spec => []PromptIInv
    OBVIOUS
  <2>1. PromptIInv /\ [Next]_vars => PromptIInv'
    BY PromptNextInv
  <2> QED BY <1>1, <2>1, PTL DEF Spec
<1> QED BY <1>2, <1>3, PTL
=============================================================================
