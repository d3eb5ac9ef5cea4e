-------------------------- MODULE QuietHoursProofs --------------------------
(***************************************************************************)
(* What the quiet-hours functions guarantee, for every length of the day   *)
(* and of the hour, every window, every time zone and every jitter: at any *)
(* instant, and hence along the clock of MCQuietHours.                     *)
(***************************************************************************)
EXTENDS MCQuietHours, TLAPS

\* Quotient and remainder of a number written as q * n + r.
LEMMA DivisionUnique ==
  ASSUME NEW n \in Nat \ {0}, NEW q \in Int, NEW r \in 0 .. (n - 1)
  PROVE  /\ (q * n + r) % n = r
         /\ (q * n + r) \div n = q
  BY Z3

LEMMA Division ==
  ASSUME NEW n \in Nat \ {0}, NEW m \in Int
  PROVE  /\ m % n \in 0 .. (n - 1)
         /\ m \div n \in Int
         /\ m = (m \div n) * n + (m % n)
  BY Z3

\* Division is monotone, and separates the multiples of the divisor.
LEMMA DivisionMonotone ==
  ASSUME NEW n \in Nat \ {0}, NEW a \in Nat, NEW b \in Nat, a <= b
  PROVE  a \div n <= b \div n
  BY Division, Z3

LEMMA DivisionSeparates ==
  ASSUME NEW n \in Nat \ {0}, NEW a \in Nat, NEW k \in Nat
  PROVE  a < k * n <=> a \div n < k
  BY Division, Z3

LEMMA DayIsPositive == Day \in Nat \ {0}
  BY QuietAssumption, Z3 DEF Day

LEMMA HourStartsInDay ==
  ASSUME NEW h \in Hours
  PROVE  /\ h * MinutesPerHour \in Nat
         /\ (h + 1) * MinutesPerHour <= Day
         /\ (h + 1) * MinutesPerHour = h * MinutesPerHour + MinutesPerHour
  BY QuietAssumption, Z3 DEF Hours, Day

\* The hour of an instant given as a day and a minute of that day.
LEMMA HourOfDay ==
  ASSUME NEW q \in Int, NEW r \in 0 .. (Day - 1), NEW u \in Int,
         NEW w \in QuietWindow, Local(u, w) = q * Day + r
  PROVE  LocalHour(u, w) = r \div MinutesPerHour
  BY DayIsPositive, DivisionUnique DEF LocalHour

\* The end of the window is to_hour:00 of the day of t or of the next one,
\* whichever comes first after t.
LEMMA WindowEndIs ==
  ASSUME NEW t \in Nat, NEW w \in QuietWindow
  PROVE  LET q == Local(t, w) \div Day
             r == Local(t, w) % Day
             end == w.to * MinutesPerHour
         IN  /\ q \in Int /\ r \in 0 .. (Day - 1)
             /\ Local(t, w) = q * Day + r
             /\ r < end => WindowEnd(t, w) = q * Day + end - w.offset
             /\ ~(r < end) => WindowEnd(t, w) = (q + 1) * Day + end - w.offset
             /\ WindowEnd(t, w) \in Nat
             /\ t < WindowEnd(t, w)
<1> DEFINE local == Local(t, w)
           q == local \div Day
           r == local % Day
           end == w.to * MinutesPerHour
<1>1. /\ local \in Nat /\ w.offset \in Nat /\ w.to \in Hours /\ local = t + w.offset
  BY DayIsPositive DEF QuietWindow, Local
<1>2. /\ q \in Int /\ r \in 0 .. (Day - 1) /\ local = q * Day + r
  <2>1. local \in Int
    BY <1>1
  <2>2. \A m \in Int : /\ m % Day \in 0 .. (Day - 1) /\ m \div Day \in Int
                       /\ m = (m \div Day) * Day + (m % Day)
    BY DayIsPositive, Division
  <2>3. QED
    BY <2>1, <2>2
<1>3. end \in Nat /\ end + MinutesPerHour <= Day
  BY <1>1, HourStartsInDay
<1>4. q * Day \in Int /\ (q + 1) * Day = q * Day + Day
  BY <1>2, DayIsPositive, Z3
<1>5. WindowEnd(t, w) = (IF local - r + end <= local THEN local - r + end + Day
                         ELSE local - r + end) - w.offset
  BY DEF WindowEnd
<1>6. /\ r < end => WindowEnd(t, w) = q * Day + end - w.offset
      /\ ~(r < end) => WindowEnd(t, w) = (q + 1) * Day + end - w.offset
      /\ WindowEnd(t, w) \in Nat
      /\ t < WindowEnd(t, w)
  <2> HIDE DEF local, q, r, end
  <2>1. QED
    BY <1>1, <1>2, <1>3, <1>4, <1>5, DayIsPositive
<1>7. QED
  BY <1>2, <1>6

\* A post-quiet time lies ahead and outside the quiet window, whatever the
\* settings, the instant and the jitter (quiet_hours.py:59-72).
THEOREM PostQuietAwake ==
  ASSUME NEW t \in Nat, NEW w \in QuietWindow
  PROVE  PostQuietIsAwake(t, w)
<1> DEFINE q == Local(t, w) \div Day
           end == w.to * MinutesPerHour
<1> SUFFICES ASSUME NEW j \in 0 .. JitterMax
             PROVE  LET at == WindowEnd(t, w) + j
                    IN  t < at /\ ~IsQuiet(at, w)
  BY DEF PostQuietIsAwake, NextPostQuiet
<1> DEFINE at == WindowEnd(t, w) + j
<1>1. PICK k \in Int : WindowEnd(t, w) = k * Day + end - w.offset
  BY WindowEndIs
<1>2. /\ w.to \in Hours /\ w.from \in Hours /\ w.from # w.to /\ w.offset \in Int
  BY DayIsPositive DEF QuietWindow
<1>3. /\ end \in Nat /\ end + MinutesPerHour <= Day
      /\ j \in Nat /\ j \in 0 .. (MinutesPerHour - 1)
  BY <1>2, HourStartsInDay, QuietAssumption
<1>4. t < at /\ at \in Int
  BY <1>3, WindowEndIs
<1>5. end + j \in 0 .. (Day - 1)
  <2> HIDE DEF end
  <2>1. QED
    BY <1>3, DayIsPositive, QuietAssumption
<1>6. Local(at, w) = k * Day + (end + j)
  <2>1. k * Day \in Int
    BY DayIsPositive
  <2>2. QED
    BY <1>1, <1>2, <1>3, <2>1 DEF Local
<1>7. LocalHour(at, w) = (end + j) \div MinutesPerHour
  BY <1>4, <1>5, <1>6, HourOfDay
<1>8. (end + j) \div MinutesPerHour = w.to
  <2>1. w.to \in Int /\ MinutesPerHour \in Nat \ {0}
    BY <1>2, QuietAssumption DEF Hours
  <2>2. (w.to * MinutesPerHour + j) \div MinutesPerHour = w.to
    BY <1>3, <2>1, DivisionUnique
  <2>3. QED
    BY <2>2
<1>9. ~IsQuiet(at, w)
  BY <1>2, <1>7, <1>8 DEF IsQuiet, Hours
<1>10. QED
  BY <1>4, <1>9

\* From inside the window, every minute before the computed end is quiet and the
\* end itself is not (quiet_hours.py:67-70).
THEOREM DeferralExact ==
  ASSUME NEW t \in Nat, NEW w \in QuietWindow
  PROVE  DeferralIsExact(t, w)
<1> DEFINE q == Local(t, w) \div Day
           r == Local(t, w) % Day
           end == w.to * MinutesPerHour
           hour == r \div MinutesPerHour
<1>1. /\ q \in Int /\ r \in 0 .. (Day - 1)
      /\ Local(t, w) = q * Day + r
      /\ r < end => WindowEnd(t, w) = q * Day + end - w.offset
      /\ ~(r < end) => WindowEnd(t, w) = (q + 1) * Day + end - w.offset
      /\ WindowEnd(t, w) \in Nat
  BY WindowEndIs
<1>2. /\ w.to \in Nat /\ w.from \in Nat /\ w.offset \in Nat /\ w.to \in Hours
      /\ MinutesPerHour \in Nat \ {0}
  BY DayIsPositive, QuietAssumption DEF QuietWindow, Hours
<1>3. end \in Nat /\ end + MinutesPerHour <= Day
  BY <1>2, HourStartsInDay
<1>4. q * Day \in Int /\ (q + 1) * Day \in Int /\ (q + 1) * Day = q * Day + Day
  BY <1>1, DayIsPositive, Z3
<1>5. LocalHour(t, w) = hour
  BY <1>1, HourOfDay
<1>6. \A a \in Nat : /\ a < end <=> a \div MinutesPerHour < w.to
                     /\ a \div MinutesPerHour \in Nat
                     /\ r <= a => hour <= a \div MinutesPerHour
  <2>1. \A a \in Nat : a < w.to * MinutesPerHour <=> a \div MinutesPerHour < w.to
    BY <1>2, DivisionSeparates
  <2>2. \A a \in Nat : a \div MinutesPerHour \in Nat
    BY <1>2, Z3
  <2>3. \A a \in Nat : r <= a => hour <= a \div MinutesPerHour
    <3>1. r \in Nat
      BY <1>1, DayIsPositive
    <3> HIDE DEF r
    <3>2. QED
      BY <1>2, <3>1, DivisionMonotone
  <2>4. QED
    BY <2>1, <2>2, <2>3
<1>7. ASSUME IsQuiet(t, w), NEW u \in t .. (WindowEnd(t, w) - 1)
      PROVE  IsQuiet(u, w)
  <2> DEFINE m == r + (u - t)
  <2> HIDE DEF q, r, end, hour
  <2>1. u \in Int /\ Local(u, w) = q * Day + m /\ m \in Nat /\ r <= m
    <3>1. u \in Int /\ t <= u /\ r \in Nat
      BY <1>1, <1>7, DayIsPositive
    <3>2. m \in Nat /\ r <= m
      BY <3>1
    <3>3. Local(u, w) = Local(t, w) + (u - t) /\ Local(t, w) \in Int
      BY <1>2, <3>1 DEF Local
    <3>4. Local(u, w) = (q * Day + r) + (u - t)
      BY <1>1, <3>3
    <3>5. Local(u, w) = q * Day + m
      BY <1>4, <3>1, <3>4
    <3>6. QED
      BY <3>1, <3>2, <3>5
  <2> HIDE DEF m
  <2>2. CASE r < end
    <3>1. m < end /\ m \in 0 .. (Day - 1)
      BY <1>1, <1>2, <1>3, <1>4, <1>7, <2>1, <2>2, DayIsPositive DEF Local, m
    <3>2. LocalHour(u, w) = m \div MinutesPerHour
      BY <1>1, <2>1, <3>1, HourOfDay
    <3>3. hour <= m \div MinutesPerHour /\ m \div MinutesPerHour < w.to
      BY <1>6, <2>1, <3>1
    <3>4. hour \in Nat /\ m \div MinutesPerHour \in Nat
      BY <1>1, <1>6, <2>1, DayIsPositive DEF hour
    <3>5. QED
      BY <1>2, <1>5, <1>7, <3>2, <3>3, <3>4 DEF IsQuiet
  <2>3. CASE ~(r < end)
    <3>1. hour \in Nat /\ ~(hour < w.to)
      BY <1>1, <1>6, <2>3, DayIsPositive DEF hour
    <3>2. w.from <= hour /\ ~(w.from < w.to)
      BY <1>2, <1>5, <1>7, <3>1 DEF IsQuiet
    <3>3. CASE m < Day
      <4>1. m \in 0 .. (Day - 1) /\ q \in Int
        BY <1>1, <2>1, <3>3, DayIsPositive
      <4>2. LocalHour(u, w) = m \div MinutesPerHour
        BY <2>1, <4>1, HourOfDay
      <4>3. hour <= m \div MinutesPerHour /\ m \div MinutesPerHour \in Nat
        BY <1>6, <2>1
      <4>4. QED
        BY <1>2, <3>1, <3>2, <4>2, <4>3 DEF IsQuiet
    <3>4. CASE ~(m < Day)
      <4>1. /\ Local(u, w) = (q + 1) * Day + (m - Day) /\ q + 1 \in Int
            /\ m - Day \in Nat /\ m - Day < end /\ m - Day \in 0 .. (Day - 1)
        BY <1>1, <1>2, <1>3, <1>4, <1>7, <2>1, <2>3, <3>4, DayIsPositive DEF Local, m
      <4>2. LocalHour(u, w) = (m - Day) \div MinutesPerHour
        BY <2>1, <4>1, HourOfDay
      <4>3. (m - Day) \div MinutesPerHour < w.to
        BY <1>6, <4>1
      <4>4. QED
        BY <3>2, <4>2, <4>3 DEF IsQuiet
    <3>5. QED
      BY <3>3, <3>4
  <2>4. QED
    BY <2>2, <2>3
<1>8. ~IsQuiet(WindowEnd(t, w), w)
  <2>1. WindowEnd(t, w) + 0 \in NextPostQuiet(t, w)
    BY QuietAssumption DEF NextPostQuiet
  <2>2. QED
    BY <1>1, <2>1, PostQuietAwake DEF PostQuietIsAwake
<1>9. QED
  BY <1>7, <1>8 DEF DeferralIsExact

-----------------------------------------------------------------------------
(* Along the clock.                                                        *)

LEMMA ClockShape == Spec => [](now \in Nat /\ settings \in QuietWindow)
<1>1. Init => now \in Nat /\ settings \in QuietWindow
  BY ClockAssumption DEF Init
<1>2. now \in Nat /\ settings \in QuietWindow /\ [NextHour]_<<now, settings>>
        => (now \in Nat /\ settings \in QuietWindow)'
  <2> SUFFICES ASSUME now \in Nat, settings \in QuietWindow, [NextHour]_<<now, settings>>
               PROVE  (now \in Nat /\ settings \in QuietWindow)'
    OBVIOUS
  <2>1. now + MinutesPerHour \in Int
    BY QuietAssumption
  <2>2. (now + MinutesPerHour) % Day \in Nat
    BY <2>1, Division, DayIsPositive
  <2>3. QED
    BY <2>2 DEF NextHour
<1>3. QED
  BY <1>1, <1>2, PTL DEF Spec

\* Hour after hour of any day, for any set of windows and zones, the post-quiet time
\* lies ahead and outside the window (quiet_hours.py:51-72).
THEOREM AwakeAllDay == Spec => []AlwaysAwake
<1>1. now \in Nat /\ settings \in QuietWindow => AlwaysAwake
  BY PostQuietAwake DEF AlwaysAwake
<1>2. QED
  BY <1>1, ClockShape, PTL

\* Hour after hour, a reminder deferred from inside the window is deferred to its
\* exact end (quiet_hours.py:67-70).
THEOREM ExactAllDay == Spec => []AlwaysExact
<1>1. now \in Nat /\ settings \in QuietWindow => AlwaysExact
  BY DeferralExact DEF AlwaysExact
<1>2. QED
  BY <1>1, ClockShape, PTL
=============================================================================
