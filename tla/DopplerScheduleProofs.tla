----------------------- MODULE DopplerScheduleProofs ------------------------
(***************************************************************************)
(* The Doppler block keeps its schedule, publishes the right shifts and    *)
(* heeds a stop, for every plan, rate of corrections, clock resolution,    *)
(* number of retries and delay by the scheduler.                           *)
(***************************************************************************)
EXTENDS DopplerSchedule, WellFoundedInduction, TLAPS

\* The coordinate of the plan that entry k is interpolated from, and how many
\* intervals after it the entry is.
Base(k) == (k - 1) \div corrections_per_second + 1
Offset(k) == (k - 1) % corrections_per_second

-----------------------------------------------------------------------------
(* Arithmetic.                                                             *)

\* Division with remainder, for a divisor that is not a literal.
LEMMA DivMod ==
    ASSUME NEW a \in Nat, NEW b \in Nat \ {0}
    PROVE  /\ a \div b \in Nat
           /\ a % b \in 0..(b - 1)
           /\ (a \div b) * b + (a % b) = a
OBVIOUS

\* A product with a natural number is monotonic.
LEMMA TimesMonotonic ==
    ASSUME NEW a \in Nat, NEW x \in Int, NEW y \in Int, x <= y
    PROVE  a * x <= a * y
OBVIOUS

\* A product with a natural number leaves gaps of at least that number.
LEMMA TimesGap ==
    ASSUME NEW a \in Nat, NEW x \in Int, NEW y \in Int, x < y
    PROVE  a * x + a <= a * y
OBVIOUS

\* The quotient of a number is within the bound its dividend has.
LEMMA QuotientBound ==
    ASSUME NEW a \in Nat, NEW b \in Nat \ {0}, NEW m \in Nat, a <= m * b
    PROVE  a \div b <= m /\ (a \div b = m => a % b = 0)
<1> DEFINE q == a \div b
           r == a % b
<1>1. q \in Nat /\ r \in Nat /\ q * b + r = a
  BY DivMod
<1> HIDE DEF q, r
<1>2. m < q => b * m + b <= b * q
  BY <1>1, TimesGap
<1>3. q <= m
  BY <1>1, <1>2
<1>4. q = m => r = 0
  BY <1>1
<1> QED BY <1>3, <1>4 DEF q, r

\* Every non-empty set of natural numbers has a least element.
LEMMA LeastNatural ==
    ASSUME NEW T, T \subseteq Nat, T # {}
    PROVE  \E x \in T : \A y \in T : x <= y
<1>1. PICK x \in T : \A y \in T : ~(<<y, x>> \in OpToRel(<, Nat))
  BY WFMin, NatLessThanWellFounded
<1>2. \A y \in T : ~(y < x)
  BY <1>1 DEF OpToRel
<1> QED BY <1>2

-----------------------------------------------------------------------------
(* The interpolated coordinates.                                           *)

\* What a sequence holds is in the set it is a sequence of.
LEMMA ElementType ==
    ASSUME NEW S, NEW s \in Seq(S), NEW i \in 1..Len(s)
    PROVE  s[i] \in S
OBVIOUS

\* The coordinates of the plan have a time within the clock and a range rate.
LEMMA PlanTypes ==
    ASSUME NEW i \in 1..Len(satellite_coordinates)
    PROVE  /\ satellite_coordinates[i].time \in 0..MaxTime
           /\ satellite_coordinates[i].range_rate \in Int
<1>1. satellite_coordinates \in Seq([time : 0..MaxTime, range_rate : Int])
  BY DopplerAssumption
<1>2. satellite_coordinates[i] \in [time : 0..MaxTime, range_rate : Int]
  BY <1>1, ElementType
<1> QED BY <1>2

\* A second is corrections_per_second intervals, and no interval is empty.
LEMMA IntervalDivides ==
    Interval \in Nat \ {0} /\ corrections_per_second * Interval = Second
<1> USE DopplerAssumption
<1>1. /\ Interval \in Nat
      /\ Second = Interval * corrections_per_second + 0
  BY DivMod DEF Interval
<1>2. Interval # 0
  BY <1>1
<1> QED BY <1>1, <1>2

\* Entry k of the interpolated coordinates: Offset(k) intervals after the
\* coordinate Base(k), which is the last one only for the last entry.
LEMMA CoordinateAt ==
    ASSUME NEW k \in 1..Len(Coordinates)
    PROVE  /\ Base(k) \in 1..Len(satellite_coordinates)
           /\ Offset(k) \in 0..(corrections_per_second - 1)
           /\ k - 1 = (Base(k) - 1) * corrections_per_second + Offset(k)
           /\ Base(k) = Len(satellite_coordinates) => Offset(k) = 0
           /\ Coordinates[k].time =
                satellite_coordinates[Base(k)].time + Offset(k) * Interval
           /\ Coordinates[k].range_rate =
                IF Base(k) = Len(satellite_coordinates)
                THEN corrections_per_second * satellite_coordinates[Base(k)].range_rate
                ELSE corrections_per_second * satellite_coordinates[Base(k)].range_rate
                       + Offset(k) * (satellite_coordinates[Base(k) + 1].range_rate
                                        - satellite_coordinates[Base(k)].range_rate)
<1> DEFINE L == Len(satellite_coordinates)
<1> USE DopplerAssumption
<1>0. L \in Nat
  OBVIOUS
<1>1. satellite_coordinates # <<>>
  <2> SUFFICES ASSUME satellite_coordinates = <<>> PROVE FALSE
    OBVIOUS
  <2>1. Coordinates = [n \in 1..0 |-> Coordinates[n]]
    BY DEF Coordinates, interpolate_coordinates
  <2>2. Coordinates \in Seq({}) /\ Len(Coordinates) = 0
    BY <2>1
  <2> QED BY <2>2
<1>2. L >= 1
  BY <1>1
<1>3. (L - 1) * corrections_per_second + 1 \in Nat
  BY <1>2, <1>0
<1>4. Len(Coordinates) = (L - 1) * corrections_per_second + 1
  BY <1>1, <1>3 DEF Coordinates, interpolate_coordinates
<1>5. k - 1 \in Nat /\ k - 1 <= (L - 1) * corrections_per_second
  BY <1>4, <1>3
<1> DEFINE q == (k - 1) \div corrections_per_second
           r == (k - 1) % corrections_per_second
<1>6. /\ q \in Nat /\ r \in 0..(corrections_per_second - 1)
      /\ q * corrections_per_second + r = k - 1
      /\ q <= L - 1
      /\ q = L - 1 => r = 0
  <2>1. L - 1 \in Nat
    BY <1>0, <1>2
  <2>2. /\ q \in Nat /\ r \in 0..(corrections_per_second - 1)
        /\ q * corrections_per_second + r = k - 1
    BY <1>5, DivMod
  <2>3. q <= L - 1 /\ (q = L - 1 => r = 0)
    BY <2>1, <1>5, QuotientBound
  <2> QED BY <2>2, <2>3
<1>7. Base(k) = q + 1 /\ Offset(k) = r
  BY DEF Base, Offset
<1> HIDE DEF q, r
<1>8. /\ Base(k) \in 1..L
      /\ Offset(k) \in 0..(corrections_per_second - 1)
      /\ k - 1 = (Base(k) - 1) * corrections_per_second + Offset(k)
      /\ Base(k) = L => Offset(k) = 0
  BY <1>0, <1>6, <1>7
<1>9. k \in 1..((L - 1) * corrections_per_second + 1)
  BY <1>4
<1>10. Coordinates[k] =
         IF Base(k) = L
         THEN [time |-> satellite_coordinates[Base(k)].time,
               range_rate |-> corrections_per_second
                                * satellite_coordinates[Base(k)].range_rate]
         ELSE [time |-> satellite_coordinates[Base(k)].time + Offset(k) * Interval,
               range_rate |-> corrections_per_second
                                * satellite_coordinates[Base(k)].range_rate
                   + Offset(k) * (satellite_coordinates[Base(k) + 1].range_rate
                                    - satellite_coordinates[Base(k)].range_rate)]
  BY <1>1, <1>9 DEF Coordinates, interpolate_coordinates, Base, Offset
<1>11. satellite_coordinates[Base(k)].time \in Int
  BY <1>8, PlanTypes
<1>12. Base(k) = L => Coordinates[k].time =
          satellite_coordinates[Base(k)].time + Offset(k) * Interval
  BY <1>8, <1>10, <1>11, IntervalDivides
<1>13. Base(k) # L => Coordinates[k].time =
          satellite_coordinates[Base(k)].time + Offset(k) * Interval
  BY <1>10
<1>14. Coordinates[k].range_rate =
          IF Base(k) = L
          THEN corrections_per_second * satellite_coordinates[Base(k)].range_rate
          ELSE corrections_per_second * satellite_coordinates[Base(k)].range_rate
                 + Offset(k) * (satellite_coordinates[Base(k) + 1].range_rate
                                  - satellite_coordinates[Base(k)].range_rate)
  BY <1>10
<1> QED BY <1>8, <1>12, <1>13, <1>14

\* Times and range rates of the entries are integers.
LEMMA EntryTypes ==
    ASSUME NEW k \in 1..Len(Coordinates)
    PROVE  Coordinates[k].time \in Int /\ Coordinates[k].range_rate \in Int
<1> DEFINE b == Base(k)
           o == Offset(k)
<1>1. b \in 1..Len(satellite_coordinates) /\ o \in Int /\ Interval \in Int
      /\ corrections_per_second \in Int
  BY CoordinateAt, IntervalDivides, DopplerAssumption
<1>2. satellite_coordinates[b].time \in Int /\ satellite_coordinates[b].range_rate \in Int
  BY <1>1, PlanTypes
<1>3. b # Len(satellite_coordinates) => satellite_coordinates[b + 1].range_rate \in Int
  <2>1. Len(satellite_coordinates) \in Nat
    BY DopplerAssumption
  <2>2. b # Len(satellite_coordinates) => b + 1 \in 1..Len(satellite_coordinates)
    BY <1>1, <2>1
  <2> QED BY <2>2, PlanTypes
<1>4. Coordinates[k].time \in Int
  <2>1. Coordinates[k].time = satellite_coordinates[b].time + o * Interval
    BY CoordinateAt
  <2>2. o * Interval \in Int
    BY <1>1
  <2> HIDE DEF b, o
  <2> QED BY <1>2, <2>1, <2>2
<1>5. CASE b = Len(satellite_coordinates)
  <2>1. Coordinates[k].range_rate = corrections_per_second * satellite_coordinates[b].range_rate
    BY <1>5, CoordinateAt
  <2> QED BY <1>1, <1>2, <1>4, <2>1
<1>6. CASE b # Len(satellite_coordinates)
  <2>1. Coordinates[k].range_rate = corrections_per_second * satellite_coordinates[b].range_rate
          + o * (satellite_coordinates[b + 1].range_rate - satellite_coordinates[b].range_rate)
    BY <1>6, CoordinateAt
  <2> QED BY <1>1, <1>2, <1>3, <1>4, <1>6, <2>1
<1> QED BY <1>5, <1>6

\* Coordinates a second apart: the i-th is i - 1 seconds after the first.  (By
\* induction over i: the least counterexample is neither 1 nor a successor.)
LEMMA PlanTimes ==
    ASSUME OneSecondApart, NEW i \in 1..Len(satellite_coordinates)
    PROVE  satellite_coordinates[i].time
             = satellite_coordinates[1].time + (i - 1) * Second
<1> DEFINE L == Len(satellite_coordinates)
           t(n) == satellite_coordinates[n].time
           Off == {n \in 1..L : t(n) # t(1) + (n - 1) * Second}
<1>0. L \in Nat /\ Second \in Nat
  BY DopplerAssumption
<1>1. \A n \in 1..L : t(n) \in Int
  BY PlanTypes
<1> SUFFICES Off = {}
  OBVIOUS
<1> SUFFICES ASSUME Off # {} PROVE FALSE
  OBVIOUS
<1>2. Off \subseteq Nat
  BY <1>0
<1>3. PICK m \in Off : \A n \in Off : m <= n
  BY <1>2, LeastNatural
<1>4. m \in 1..L /\ 1 \in 1..L
  BY <1>0
<1>5. m # 1
  BY <1>0, <1>1, <1>4
<1>6. m - 1 \in 1..L /\ m - 1 \notin Off
  BY <1>0, <1>3, <1>4, <1>5
<1>7. t(m - 1) = t(1) + (m - 2) * Second
  BY <1>6, <1>4
<1>8. t(m) = t(m - 1) + Second
  BY <1>0, <1>4, <1>6 DEF OneSecondApart
<1>9. t(m) = t(1) + (m - 1) * Second
  <2>1. (m - 2) * Second \in Int /\ (m - 2) * Second + Second = (m - 1) * Second
    BY <1>0, <1>4
  <2>2. t(1) \in Int
    BY <1>1, <1>4
  <2> HIDE DEF t
  <2> QED BY <1>0, <1>7, <1>8, <2>1, <2>2
<1> QED BY <1>9, <1>3

\* The entries are an interval apart.
LEMMA EntryTime ==
    ASSUME OneSecondApart, NEW k \in 1..Len(Coordinates)
    PROVE  /\ satellite_coordinates[1].time \in Int
           /\ Coordinates[k].time = satellite_coordinates[1].time + (k - 1) * Interval
<1> DEFINE b == Base(k) - 1
           o == Offset(k)
           c == corrections_per_second
           t1 == satellite_coordinates[1].time
<1>1. b \in Int /\ o \in Int /\ c \in Int /\ Interval \in Int
  BY CoordinateAt, IntervalDivides, DopplerAssumption
<1>2. t1 \in Int
  <2>1. 1 \in 1..Len(satellite_coordinates)
    BY CoordinateAt, DopplerAssumption
  <2> QED BY <2>1, PlanTypes
<1>3. Coordinates[k].time = t1 + b * Second + o * Interval
  BY CoordinateAt, PlanTimes
<1>4. Second = c * Interval
  BY IntervalDivides
<1>5. k - 1 = b * c + o
  BY CoordinateAt
<1> HIDE DEF b, o, c, t1
<1>6. b * (c * Interval) + o * Interval = (b * c + o) * Interval
  BY <1>1
<1>7. Coordinates[k].time = t1 + (k - 1) * Interval
  BY <1>1, <1>2, <1>3, <1>4, <1>5, <1>6
<1> QED BY <1>2, <1>7 DEF t1

\* A later entry is at least an interval later.
LEMMA EntryOrder ==
    ASSUME OneSecondApart, NEW k \in 1..Len(Coordinates),
           NEW m \in 1..Len(Coordinates), k < m
    PROVE  Coordinates[k].time + Interval <= Coordinates[m].time
<1>1. Interval \in Nat /\ satellite_coordinates[1].time \in Int
  BY IntervalDivides, EntryTime
<1>2. Interval * (k - 1) + Interval <= Interval * (m - 1)
  BY <1>1, TimesGap
<1>3. /\ Coordinates[k].time = satellite_coordinates[1].time + (k - 1) * Interval
      /\ Coordinates[m].time = satellite_coordinates[1].time + (m - 1) * Interval
  BY EntryTime
<1> QED BY <1>1, <1>2, <1>3

\* An entry less than a second after coordinate i of the plan, or at it, is
\* interpolated from that coordinate.
LEMMA BaseOf ==
    ASSUME OneSecondApart, NEW k \in 1..Len(Coordinates),
           NEW i \in 1..Len(satellite_coordinates),
           satellite_coordinates[i].time <= Coordinates[k].time,
           Coordinates[k].time < satellite_coordinates[i].time + Second
    PROVE  /\ Base(k) = i
           /\ Offset(k) = 0 <=> Coordinates[k].time = satellite_coordinates[i].time
<1> DEFINE b == Base(k)
           o == Offset(k)
           c == corrections_per_second
           t1 == satellite_coordinates[1].time
<1>1. /\ b \in Int /\ o \in Nat /\ c \in Int /\ o <= c - 1
      /\ b \in 1..Len(satellite_coordinates)
      /\ i \in Int /\ Second \in Nat \ {0}
      /\ Interval \in Nat \ {0} /\ Second = c * Interval
  BY CoordinateAt, IntervalDivides, DopplerAssumption
<1>2. t1 \in Int
  BY EntryTime
<1>3. /\ satellite_coordinates[i].time = t1 + (i - 1) * Second
      /\ satellite_coordinates[b].time = t1 + (b - 1) * Second
  BY <1>1, PlanTimes
<1>4. Coordinates[k].time = t1 + (b - 1) * Second + o * Interval
  BY <1>3, CoordinateAt
<1> HIDE DEF b, o, c, t1
<1>5. 0 <= o * Interval /\ o * Interval < Second /\ (o * Interval = 0 <=> o = 0)
  <2>1. Interval * o <= Interval * (c - 1)
    BY <1>1, TimesMonotonic
  <2>2. Interval * 0 <= Interval * o
    BY <1>1, TimesMonotonic
  <2>3. 0 < o => Interval * 0 + Interval <= Interval * o
    BY <1>1, TimesGap
  <2> QED BY <1>1, <2>1, <2>2, <2>3
<1>6. /\ b < i => Second * (b - 1) + Second <= Second * (i - 1)
      /\ i < b => Second * (i - 1) + Second <= Second * (b - 1)
  BY <1>1, TimesGap
<1> DEFINE x == Second * (b - 1)
           y == Second * (i - 1)
           z == o * Interval
<1>7. /\ x \in Int /\ y \in Int /\ z \in Int
      /\ (b - 1) * Second = x /\ (i - 1) * Second = y
  BY <1>1
<1> HIDE DEF x, y, z
<1>8. /\ t1 + y <= t1 + x + z /\ t1 + x + z < t1 + y + Second
      /\ z >= 0 /\ z < Second
      /\ b < i => x + Second <= y
      /\ i < b => y + Second <= x
  BY <1>3, <1>4, <1>5, <1>6, <1>7 DEF x, y, z
<1>9. b = i
  BY <1>1, <1>2, <1>7, <1>8
<1>10. o = 0 <=> t1 + x + z = t1 + y
  <2>1. x = y
    BY <1>9 DEF x, y
  <2>2. o = 0 <=> z = 0
    BY <1>5 DEF z
  <2> QED BY <1>2, <1>7, <2>1, <2>2
<1>11. o = 0 <=> Coordinates[k].time = satellite_coordinates[i].time
  BY <1>3, <1>4, <1>7, <1>10 DEF z
<1> QED BY <1>9, <1>11 DEF b, o

\* What publish_to_ports makes of a range rate.
LEMMA PortsShift ==
    ASSUME NEW r \in Int
    PROVE  /\ publish_to_ports(r).downlink_shift = downlink_frequency * r
           /\ publish_to_ports(r).uplink_shift = -(uplink_frequency * r)
<1>1. SPEED_OF_LIGHT \in Int /\ downlink_frequency \in Int /\ uplink_frequency \in Int
  BY DopplerAssumption
<1>2. downlink_frequency * SPEED_OF_LIGHT - downlink_frequency * (SPEED_OF_LIGHT - r)
        = downlink_frequency * r
  BY <1>1
<1>3. uplink_frequency * SPEED_OF_LIGHT - uplink_frequency * (SPEED_OF_LIGHT + r)
        = -(uplink_frequency * r)
  BY <1>1
<1> QED BY <1>2, <1>3 DEF publish_to_ports

\* A value that is o steps of c on the way from one number to another lies
\* between them, and still does when all are scaled.
LEMMA Interpolates ==
    ASSUME NEW f \in Nat, NEW c \in Nat, NEW o \in 0..c, NEW a \in Int, NEW b \in Int
    PROVE  Between(f * (c * a + o * (b - a)), f * c * a, f * c * b)
<1> DEFINE x == c * a + o * (b - a)
<1>1. x \in Int /\ c * a \in Int /\ c * b \in Int
  OBVIOUS
<1>2. CASE a <= b
  <2>1. (b - a) \in Nat
    BY <1>2
  <2>2. (b - a) * 0 <= (b - a) * o /\ (b - a) * o <= (b - a) * c
    BY <2>1, TimesMonotonic
  <2>3. c * a <= x /\ x <= c * b
    BY <2>2
  <2> HIDE DEF x
  <2>4. f * (c * a) <= f * x /\ f * x <= f * (c * b)
    BY <1>1, <2>3, TimesMonotonic
  <2>5. f * (c * a) = f * c * a /\ f * (c * b) = f * c * b
    OBVIOUS
  <2> QED BY <2>4, <2>5 DEF Between, x
<1>3. CASE b <= a
  <2>1. (a - b) \in Nat
    BY <1>3
  <2>2. (a - b) * 0 <= (a - b) * o /\ (a - b) * o <= (a - b) * c
    BY <2>1, TimesMonotonic
  <2>3. c * b <= x /\ x <= c * a
    BY <2>2
  <2> HIDE DEF x
  <2>4. f * (c * b) <= f * x /\ f * x <= f * (c * a)
    BY <1>1, <2>3, TimesMonotonic
  <2>5. f * (c * a) = f * c * a /\ f * (c * b) = f * c * b
    OBVIOUS
  <2> QED BY <2>4, <2>5 DEF Between, x
<1> QED BY <1>2, <1>3

\* The shifts of an entry, against the coordinates of the plan.
LEMMA EntryShifts ==
    ASSUME OneSecondApart, NEW k \in 1..Len(Coordinates),
           NEW i \in 1..Len(satellite_coordinates)
    PROVE  LET t == satellite_coordinates[i].time
               s == publish_to_ports(Coordinates[k].range_rate)
           IN /\ Coordinates[k].time = t => s.downlink_shift = ShiftOf(i)
              /\ t < Coordinates[k].time /\ Coordinates[k].time < t + Second =>
                    Between(s.downlink_shift, ShiftOf(i), ShiftOf(i + 1))
              /\ s.uplink_shift * downlink_frequency
                    = -(s.downlink_shift * uplink_frequency)
<1> DEFINE t == satellite_coordinates[i].time
           r == Coordinates[k].range_rate
           c == corrections_per_second
           f == downlink_frequency
<1>1. t \in Int /\ Coordinates[k].time \in Int /\ r \in Int /\ Second \in Nat \ {0}
      /\ c \in Nat /\ f \in Nat /\ uplink_frequency \in Nat
  BY PlanTypes, EntryTypes, DopplerAssumption
<1>2. satellite_coordinates[i].range_rate \in Int
  BY PlanTypes
<1>3. /\ publish_to_ports(r).downlink_shift = f * r
      /\ publish_to_ports(r).uplink_shift = -(uplink_frequency * r)
  BY <1>1, PortsShift
<1>4. ASSUME Coordinates[k].time = t
      PROVE  f * r = ShiftOf(i)
  <2>1. Base(k) = i /\ Offset(k) = 0
    BY <1>1, <1>4, BaseOf
  <2>2. i # Len(satellite_coordinates) => satellite_coordinates[i + 1].range_rate \in Int
    <3>1. i # Len(satellite_coordinates) => i + 1 \in 1..Len(satellite_coordinates)
      BY DopplerAssumption
    <3> QED BY <3>1, PlanTypes
  <2> DEFINE a == satellite_coordinates[i].range_rate
             b == satellite_coordinates[i + 1].range_rate
  <2>3. CASE i = Len(satellite_coordinates)
    <3>1. r = c * a
      BY <2>1, <2>3, CoordinateAt
    <3>2. f * (c * a) = f * c * a
      BY <1>1, <1>2
    <3> QED BY <3>1, <3>2 DEF ShiftOf
  <2>4. CASE i # Len(satellite_coordinates)
    <3>1. r = c * a + Offset(k) * (b - a)
      BY <2>1, <2>4, CoordinateAt
    <3>2. a \in Int /\ b \in Int
      BY <1>2, <2>2, <2>4
    <3> HIDE DEF a, b
    <3>3. f * (c * a + 0 * (b - a)) = f * c * a
      BY <1>1, <3>2
    <3>4. f * r = f * (c * a + 0 * (b - a))
      BY <2>1, <3>1
    <3> QED BY <3>3, <3>4 DEF ShiftOf, a
  <2> QED BY <2>3, <2>4
<1>5. ASSUME t < Coordinates[k].time, Coordinates[k].time < t + Second
      PROVE  Between(f * r, ShiftOf(i), ShiftOf(i + 1))
  <2>1. Base(k) = i /\ Offset(k) # 0
    BY <1>1, <1>5, BaseOf
  <2>2. i # Len(satellite_coordinates)
    BY <2>1, CoordinateAt
  <2>3. i + 1 \in 1..Len(satellite_coordinates)
    BY <2>2, DopplerAssumption
  <2>4. satellite_coordinates[i + 1].range_rate \in Int
    BY <2>3, PlanTypes
  <2>5. r = c * satellite_coordinates[i].range_rate
              + Offset(k) * (satellite_coordinates[i + 1].range_rate
                               - satellite_coordinates[i].range_rate)
    BY <2>1, <2>2, CoordinateAt
  <2>6. Offset(k) \in 0..c
    BY <1>1, CoordinateAt
  <2>7. Between(f * (c * satellite_coordinates[i].range_rate
                       + Offset(k) * (satellite_coordinates[i + 1].range_rate
                                        - satellite_coordinates[i].range_rate)),
                f * c * satellite_coordinates[i].range_rate,
                f * c * satellite_coordinates[i + 1].range_rate)
    BY <1>1, <1>2, <2>4, <2>6, Interpolates
  <2> QED BY <2>5, <2>7 DEF ShiftOf
<1>6. (-(uplink_frequency * r)) * f = -((f * r) * uplink_frequency)
  BY <1>1
<1> QED BY <1>3, <1>4, <1>5, <1>6

-----------------------------------------------------------------------------
(* The inductive invariant.                                                *)

N == Len(Coordinates)
Waiting == {"wait", "nap", "sleep", "publish"}

\* What a published correction is made of.
Correction == [scheduled : Int, at : Int,
               shifts : [downlink_shift : Int, uplink_shift : Int],
               stopped : BOOLEAN]

TypeOK ==
    /\ now \in Nat /\ delay \in Nat
    /\ block \in {"new", "running", "joining", "stopped"}
    /\ stopped \in BOOLEAN
    /\ pc \in {"none", "list", "done"} \cup InLoop
    /\ retries \in Nat
    /\ idx \in 1..(N + 1)
    /\ wake \in Int
    /\ listedAt \in Nat /\ listedAt <= now
    /\ stoppedAt \in Nat /\ stoppedAt <= now
    /\ published \in Seq(Correction)

\* The flag is set by stop() alone, no thread is there before start(), and
\* the loop starts at the first entry.
Started ==
    /\ stopped <=> block \in {"joining", "stopped"}
    /\ block = "new" => pc = "none"
    /\ pc \in {"none", "list"} => idx = 1

\* While the loop waits for an entry, the entry's time has passed by no more
\* than the delay, no sleep goes beyond it, and it has come before a Publish.
OnTime ==
    pc \in Waiting =>
        /\ idx <= N
        /\ now <= Coordinates[idx].time + delay
        /\ pc \in {"nap", "sleep"} => wake <= Coordinates[idx].time
        /\ pc = "sleep" => wake = Coordinates[idx].time
        /\ pc = "publish" => Coordinates[idx].time <= now

\* A sleep begins at most 1.1 s before its end, and one begun before stop(),
\* or before the plan came, ends at most 1.1 s later.
StopInTime ==
    LET base == Later(stoppedAt, listedAt)
    IN /\ ~stopped /\ pc \in {"nap", "sleep"} => 10 * (wake - now) <= 11 * Second
       /\ stopped /\ pc = "wait" => now <= base + delay
       /\ stopped /\ pc \in {"nap", "sleep"} =>
             10 * (wake - base - delay) <= 11 * Second
       /\ stopped /\ pc \in InLoop => 10 * (now - base - delay) <= 11 * Second

\* A correction published after stop() is the only one: the loop then tests
\* the flag.
OneAfterStop ==
    /\ (\E n \in 1..Len(published) : published[n].stopped) =>
          stopped /\ pc \in {"next", "done"}
    /\ \A m, n \in 1..Len(published) :
          published[m].stopped /\ published[n].stopped => m = n

\* What was published belongs to an entry the loop has left behind.
FromPlan ==
    \A n \in 1..Len(published) : \E k \in 1..N :
        /\ k < idx
        /\ published[n].scheduled = Coordinates[k].time
        /\ published[n].shifts = publish_to_ports(Coordinates[k].range_rate)

\* The corrections are in order; the loop is back at its top no later than the
\* delay after the entry before, or after the plan came; and it has published
\* every entry it left behind that was ahead of it.
InSchedule ==
    OneSecondApart =>
        /\ \A m, n \in 1..Len(published) :
              m < n => published[m].scheduled < published[n].scheduled
        /\ pc = "next" =>
              \/ now <= listedAt + delay
              \/ idx > 1 /\ now <= Coordinates[idx - 1].time + delay
        /\ delay < Interval =>
              \A k \in 1..N :
                  k < idx /\ Coordinates[k].time >= listedAt + delay =>
                      \E n \in 1..Len(published) :
                          published[n].scheduled = Coordinates[k].time

IInv == /\ TypeOK
        /\ Started
        /\ OnTime
        /\ Punctual
        /\ StopInTime
        /\ OneAfterStop
        /\ FromPlan
        /\ InSchedule

\* The facts about the entries that the step lemmas use.
LEMMA Entries ==
    /\ N \in Nat /\ Second \in Nat \ {0} /\ Interval \in Nat \ {0}
    /\ \A k \in 1..N : Coordinates[k].time \in Int /\ Coordinates[k].range_rate \in Int
    /\ OneSecondApart => \A k, m \in 1..N :
          k < m => Coordinates[k].time + Interval <= Coordinates[m].time
<1>1. N \in Nat
  <2>1. CASE satellite_coordinates = <<>>
    <3>1. Coordinates = [k \in 1..0 |-> Coordinates[k]]
      BY <2>1 DEF Coordinates, interpolate_coordinates
    <3> QED BY <3>1 DEF N
  <2>2. CASE satellite_coordinates # <<>>
    <3> DEFINE L == Len(satellite_coordinates)
               M == (L - 1) * corrections_per_second + 1
    <3>1. L \in Nat \ {0} /\ corrections_per_second \in Nat
      BY <2>2, DopplerAssumption
    <3>2. M \in Nat
      BY <3>1
    <3>3. Coordinates = [k \in 1..M |-> Coordinates[k]]
      BY <2>2 DEF Coordinates, interpolate_coordinates
    <3> HIDE DEF M
    <3> QED BY <3>2, <3>3 DEF N
  <2> QED BY <2>1, <2>2
<1>2. \A k \in 1..N : Coordinates[k].time \in Int /\ Coordinates[k].range_rate \in Int
  BY EntryTypes DEF N
<1>3. OneSecondApart => \A k, m \in 1..N :
          k < m => Coordinates[k].time + Interval <= Coordinates[m].time
  BY EntryOrder DEF N
<1> QED BY <1>1, <1>2, <1>3, IntervalDivides, DopplerAssumption

\* Publish appends one correction of the right type.
LEMMA PublishAppends ==
    ASSUME TypeOK, OnTime, Publish
    PROVE  /\ Len(published') = Len(published) + 1 /\ Len(published) \in Nat
           /\ \A n \in 1..Len(published) : published'[n] = published[n]
           /\ published'[Len(published) + 1].scheduled = Coordinates[idx].time
           /\ published'[Len(published) + 1].at = now
           /\ published'[Len(published) + 1].shifts
                = publish_to_ports(Coordinates[idx].range_rate)
           /\ published'[Len(published) + 1].stopped = stopped
           /\ published' \in Seq(Correction)
           /\ idx \in 1..N
<1> DEFINE p == [scheduled |-> Coordinates[idx].time, at |-> now,
                 shifts |-> publish_to_ports(Coordinates[idx].range_rate),
                 stopped |-> stopped]
<1>1. idx \in 1..N
  BY Entries DEF TypeOK, OnTime, Publish, Goto, Waiting
<1>2. Coordinates[idx].time \in Int /\ Coordinates[idx].range_rate \in Int
  BY <1>1, Entries
<1>3. publish_to_ports(Coordinates[idx].range_rate)
        \in [downlink_shift : Int, uplink_shift : Int]
  <2> DEFINE r == Coordinates[idx].range_rate
  <2>1. /\ downlink_frequency * SPEED_OF_LIGHT
             - downlink_frequency * (SPEED_OF_LIGHT - r) \in Int
        /\ uplink_frequency * SPEED_OF_LIGHT
             - uplink_frequency * (SPEED_OF_LIGHT + r) \in Int
    BY <1>2, DopplerAssumption
  <2> QED BY <2>1 DEF publish_to_ports
<1>4. p \in Correction
  BY <1>2, <1>3 DEF TypeOK, Correction
<1>5. published' = Append(published, p) /\ published \in Seq(Correction)
  BY DEF Publish, TypeOK
<1>6. p.scheduled = Coordinates[idx].time /\ p.at = now /\ p.stopped = stopped
      /\ p.shifts = publish_to_ports(Coordinates[idx].range_rate)
  OBVIOUS
<1> HIDE DEF p
<1>7. /\ Len(published') = Len(published) + 1 /\ Len(published) \in Nat
      /\ \A n \in 1..Len(published) : published'[n] = published[n]
      /\ published'[Len(published) + 1] = p
      /\ published' \in Seq(Correction)
  BY <1>4, <1>5
<1> QED BY <1>1, <1>6, <1>7

\* A step keeps the types.
LEMMA TypeStep ==
    ASSUME TypeOK, OnTime, [Next]_vars
    PROVE  TypeOK'
<1> USE Entries
<1>1. CASE Tick
  BY <1>1 DEF TypeOK, Tick
<1>2. CASE start
  BY <1>2 DEF TypeOK, start
<1>3. CASE stop
  BY <1>3 DEF TypeOK, stop
<1>4. CASE StopReturned
  BY <1>4 DEF TypeOK, StopReturned
<1>5. CASE ListFails
  BY <1>5 DEF TypeOK, ListFails, Goto
<1>6. CASE ListRaises
  BY <1>6 DEF TypeOK, ListRaises, Goto
<1>7. CASE ListReturns
  BY <1>7 DEF TypeOK, ListReturns, Goto, InLoop
<1>8. CASE NextCoordinate
  BY <1>8 DEF TypeOK, NextCoordinate, Goto, InLoop, N
<1>9. CASE Wait
  <2>1. idx \in 1..N
    BY <1>9 DEF TypeOK, OnTime, Wait, Waiting
  <2>2. Coordinates[idx].time \in Int
    BY <2>1
  <2> QED BY <1>9, <2>2 DEF TypeOK, Wait, InLoop
<1>10. CASE NapEnds
  BY <1>10 DEF TypeOK, NapEnds, Goto, InLoop
<1>11. CASE SleepEnds
  BY <1>11 DEF TypeOK, SleepEnds, Goto, InLoop
<1>12. CASE Publish
  <2>1. published' \in Seq(Correction) /\ idx \in 1..N
    BY <1>12, PublishAppends
  <2> QED BY <1>12, <2>1 DEF TypeOK, Publish, Goto, InLoop
<1>13. CASE UNCHANGED vars
  BY <1>13 DEF TypeOK, vars
<1> QED BY <1>1, <1>2, <1>3, <1>4, <1>5, <1>6, <1>7, <1>8, <1>9, <1>10, <1>11,
           <1>12, <1>13 DEF Next, ListStep, LoopStep

\* A step keeps Started.
LEMMA StartedStep ==
    ASSUME TypeOK, Started, [Next]_vars
    PROVE  Started'
<1>1. CASE Tick
  BY <1>1 DEF Started, Tick
<1>2. CASE start
  BY <1>2 DEF Started, start, TypeOK
<1>3. CASE stop
  BY <1>3 DEF Started, stop
<1>4. CASE StopReturned
  BY <1>4 DEF Started, StopReturned
<1>5. CASE ListStep
  BY <1>5 DEF Started, ListStep, ListFails, ListRaises, ListReturns, Goto
<1>6. CASE LoopStep
  <2>1. /\ stopped' = stopped /\ block' = block
        /\ pc # "none" /\ pc' \notin {"none", "list"}
    BY <1>6 DEF LoopStep, NextCoordinate, Wait, NapEnds, SleepEnds, Publish, Goto
  <2> QED BY <2>1 DEF Started
<1>7. CASE UNCHANGED vars
  BY <1>7 DEF Started, vars
<1> QED BY <1>1, <1>2, <1>3, <1>4, <1>5, <1>6, <1>7 DEF Next

\* A step keeps OnTime: only a clock that runs while the thread could run moves
\* the loop away from its entry, and that tick is counted.
LEMMA OnTimeStep ==
    ASSUME TypeOK, OnTime, [Next]_vars
    PROVE  OnTime'
<1> USE Entries
<1> DEFINE t == Coordinates[idx].time
<1>0. pc \in Waiting => idx \in 1..N /\ t \in Int
  <2>1. pc \in Waiting => idx \in 1..N
    BY DEF TypeOK, OnTime
  <2> QED BY <2>1
<1>1. CASE Tick
  <2> SUFFICES ASSUME pc \in Waiting PROVE OnTime'
    BY <1>1 DEF OnTime, Tick
  <2>1. idx' = idx /\ pc' = pc /\ wake' = wake /\ now' = now + 1 /\ t \in Int
    BY <1>0, <1>1 DEF Tick
  <2>2. CASE Asleep
    <3>1. now < wake /\ wake <= t /\ delay' = delay /\ pc \in {"nap", "sleep"}
      BY <1>1, <2>2 DEF Tick, Asleep, Runnable, OnTime
    <3> HIDE DEF t
    <3>2. now' <= t + delay'
      BY <2>1, <3>1 DEF TypeOK
    <3> QED BY <2>1, <3>1, <3>2 DEF OnTime, t
  <2>3. CASE ~Asleep
    <3>1. delay' = delay + 1
      BY <1>1, <2>3 DEF Tick, Runnable, Waiting, InLoop
    <3>2. now' <= t + delay' /\ (t <= now => t <= now')
      BY <2>1, <3>1 DEF TypeOK, OnTime
    <3> QED BY <2>1, <3>1, <3>2 DEF OnTime
  <2> QED BY <2>2, <2>3
<1>2. CASE start
  BY <1>2 DEF OnTime, start, Waiting
<1>3. CASE stop
  BY <1>3 DEF OnTime, stop
<1>4. CASE StopReturned
  BY <1>4 DEF OnTime, StopReturned
<1>5. CASE ListStep
  BY <1>5 DEF OnTime, Waiting, ListStep, ListFails, ListRaises, ListReturns, Goto
<1>6. CASE NextCoordinate
  <2> SUFFICES ASSUME pc' = "wait" PROVE OnTime'
    BY <1>6 DEF OnTime, Waiting, NextCoordinate, Goto
  <2>1. idx' = idx /\ idx <= N /\ t >= now /\ now' = now /\ delay' = delay
    BY <1>6 DEF NextCoordinate, Goto, N
  <2>2. idx \in 1..N /\ t \in Int
    BY <2>1 DEF TypeOK
  <2> QED BY <2>1, <2>2 DEF OnTime, TypeOK
<1>7. CASE Wait
  <2>1. /\ idx <= N /\ now <= t + delay /\ t \in Int
        /\ now' = now /\ delay' = delay /\ idx' = idx
    BY <1>0, <1>7 DEF Wait, OnTime, Waiting
  <2>2. \/ pc' = "nap" /\ wake' = now + Second /\ 10 * (t - now) > 11 * Second
        \/ pc' = "sleep" /\ wake' = t
        \/ pc' = "publish" /\ t <= now
    BY <1>7 DEF Wait, Far
  <2> HIDE DEF t
  <2>3. \/ pc' = "nap" /\ wake' <= t
        \/ pc' = "sleep" /\ wake' = t
        \/ pc' = "publish" /\ t <= now
    BY <2>1, <2>2 DEF TypeOK
  <2> QED BY <2>1, <2>3 DEF OnTime, t
<1>8. CASE NapEnds
  BY <1>8 DEF OnTime, Waiting, NapEnds, Goto
<1>9. CASE SleepEnds
  BY <1>9 DEF OnTime, Waiting, SleepEnds, Goto
<1>10. CASE Publish
  BY <1>10 DEF OnTime, Waiting, Publish, Goto
<1>11. CASE UNCHANGED vars
  BY <1>11 DEF OnTime, vars
<1> QED BY <1>1, <1>2, <1>3, <1>4, <1>5, <1>6, <1>7, <1>8, <1>9, <1>10, <1>11
        DEF Next, LoopStep

\* Neither the delay nor the loop's position goes back.
LEMMA Monotonic ==
    ASSUME TypeOK, [Next]_vars
    PROVE  delay <= delay' /\ idx <= idx'
<1>0. delay \in Nat /\ idx \in Int
  BY Entries DEF TypeOK
<1>1. delay' = delay \/ delay' = delay + 1
  BY DEF Next, vars, Tick, start, stop, StopReturned, ListStep, ListFails,
         ListRaises, ListReturns, LoopStep, NextCoordinate, Wait, NapEnds, SleepEnds,
         Publish
<1>2. idx' = idx \/ idx' = idx + 1
  BY DEF Next, vars, Tick, start, stop, StopReturned, ListStep, ListFails,
         ListRaises, ListReturns, LoopStep, NextCoordinate, Wait, NapEnds, SleepEnds,
         Publish
<1> QED BY <1>0, <1>1, <1>2

\* A step publishes, or leaves what was published.
LEMMA PublishedStep ==
    ASSUME [Next]_vars
    PROVE  published' = published \/ Publish
BY DEF Next, vars, Tick, start, stop, StopReturned, ListStep, ListFails,
       ListRaises, ListReturns, LoopStep, NextCoordinate, Wait, NapEnds, SleepEnds

\* A step keeps what was published punctual.
LEMMA PunctualStep ==
    ASSUME TypeOK, OnTime, Punctual, [Next]_vars
    PROVE  Punctual'
<1>0. delay' \in Nat /\ delay <= delay'
  BY TypeStep, Monotonic DEF TypeOK
<1>1. CASE Publish
  <2>1. /\ Coordinates[idx].time <= now
        /\ now <= Coordinates[idx].time + delay
        /\ delay' = delay
    BY <1>1 DEF Publish, Goto, OnTime, Waiting
  <2> SUFFICES ASSUME NEW n \in 1..Len(published')
               PROVE  /\ published'[n].scheduled <= published'[n].at
                      /\ published'[n].at <= published'[n].scheduled + delay
    BY <2>1 DEF Punctual
  <2>2. CASE n \in 1..Len(published)
    BY <1>1, <2>2, PublishAppends DEF Punctual
  <2>3. CASE n = Len(published) + 1
    BY <1>1, <2>1, <2>3, PublishAppends
  <2>4. n \in 1..Len(published) \/ n = Len(published) + 1
    BY <1>1, PublishAppends
  <2> QED BY <2>2, <2>3, <2>4
<1>2. CASE published' = published
  <2> SUFFICES ASSUME NEW n \in 1..Len(published)
               PROVE  /\ published[n].scheduled <= published[n].at
                      /\ published[n].at <= published[n].scheduled + delay'
    BY <1>2 DEF Punctual
  <2>1. published[n] \in Correction
    BY ElementType DEF TypeOK
  <2>2. published[n].scheduled \in Int /\ published[n].at \in Int
    BY <2>1 DEF Correction
  <2>3. /\ published[n].scheduled <= published[n].at
        /\ published[n].at <= published[n].scheduled + delay
    BY DEF Punctual
  <2> QED BY <1>0, <2>2, <2>3 DEF TypeOK
<1> QED BY <1>1, <1>2, PublishedStep

\* The later of two instants is one of them, and before neither.
LEMMA LaterOf ==
    ASSUME NEW a \in Int, NEW b \in Int
    PROVE  Later(a, b) \in Int /\ a <= Later(a, b) /\ b <= Later(a, b)
BY DEF Later

\* A sleep of 1.1 s that begins no later than d after b ends within 1.1 s of it.
LEMMA SleepBound ==
    ASSUME NEW w \in Int, NEW n \in Int, NEW b \in Int, NEW d \in Int, NEW s \in Int,
           10 * (w - n) <= 11 * s, n <= b + d
    PROVE  10 * (w - b - d) <= 11 * s
OBVIOUS

\* A step keeps StopInTime.
LEMMA StopInTimeStep ==
    ASSUME TypeOK, Started, OnTime, StopInTime, [Next]_vars
    PROVE  StopInTime'
<1> USE Entries
<1> DEFINE base == Later(stoppedAt, listedAt)
<1>0. /\ base \in Int /\ stoppedAt <= base /\ listedAt <= base
      /\ now \in Int /\ wake \in Int /\ delay \in Nat /\ 11 * Second > 0
  <2>1. stoppedAt \in Int /\ listedAt \in Int
    BY DEF TypeOK
  <2>2. base \in Int /\ stoppedAt <= base /\ listedAt <= base
    BY <2>1, LaterOf
  <2> QED BY <2>2 DEF TypeOK
<1>1. CASE Tick
  <2>1. /\ now' = now + 1 /\ base' = base /\ pc' = pc /\ wake' = wake
        /\ stopped' = stopped
    BY <1>1 DEF Tick
  <2>2. CASE Asleep
    <3>1. now < wake /\ pc \in {"nap", "sleep"} /\ delay' = delay
      BY <1>1, <2>2 DEF Tick, Asleep, Runnable
    <3>2. ~stopped => 10 * (wake - now') <= 11 * Second
      BY <1>0, <2>1, <3>1 DEF StopInTime
    <3>3. stopped => /\ 10 * (wake - base - delay) <= 11 * Second
                     /\ 10 * (now' - base - delay) <= 11 * Second
      <4>1. stopped => 10 * (wake - base - delay) <= 11 * Second
        BY <3>1 DEF StopInTime
      <4> HIDE DEF base
      <4> QED BY <1>0, <2>1, <3>1, <4>1
    <3> QED BY <2>1, <3>1, <3>2, <3>3 DEF StopInTime
  <2>3. CASE ~Asleep /\ pc \in InLoop
    <3>1. delay' = delay + 1
      BY <1>1, <2>3 DEF Tick, Runnable
    <3> HIDE DEF base
    <3>2. /\ 10 * (wake - now) <= 11 * Second => 10 * (wake - now') <= 11 * Second
          /\ now <= base + delay => now' <= base + delay'
          /\ 10 * (wake - base - delay) <= 11 * Second =>
                10 * (wake - base - delay') <= 11 * Second
          /\ 10 * (now - base - delay) <= 11 * Second =>
                10 * (now' - base - delay') <= 11 * Second
      BY <1>0, <2>1, <3>1
    <3> QED BY <2>1, <3>2 DEF StopInTime, base
  <2>4. CASE pc \notin InLoop
    BY <2>1, <2>4 DEF StopInTime, InLoop
  <2> QED BY <2>2, <2>3, <2>4 DEF Asleep, InLoop
<1>2. CASE start
  BY <1>2 DEF StopInTime, start, InLoop
<1>3. CASE stop
  <2>1. /\ stopped' /\ stoppedAt' = now /\ ~stopped
        /\ now' = now /\ delay' = delay /\ wake' = wake /\ pc' = pc
        /\ listedAt' = listedAt
    BY <1>3 DEF stop, Started
  <2> DEFINE b == Later(now, listedAt)
  <2>2. b \in Int /\ now <= b
    <3>1. now \in Int /\ listedAt \in Int
      BY DEF TypeOK
    <3> QED BY <3>1, LaterOf
  <2>3. base' = b
    BY <2>1 DEF Later
  <2> HIDE DEF b
  <2>4. now <= b + delay /\ 10 * (now - b - delay) <= 11 * Second
    BY <1>0, <2>2
  <2>5. 10 * (wake - now) <= 11 * Second => 10 * (wake - b - delay) <= 11 * Second
    BY <1>0, <2>2
  <2>6. pc \in {"nap", "sleep"} => 10 * (wake - now) <= 11 * Second
    BY <2>1 DEF StopInTime
  <2> QED BY <2>1, <2>3, <2>4, <2>5, <2>6 DEF StopInTime
<1>4. CASE StopReturned
  BY <1>4 DEF StopInTime, StopReturned
<1>5. CASE ListReturns
  <2>1. /\ pc' = "next" /\ listedAt' = now /\ now' = now /\ delay' = delay
        /\ stoppedAt' = stoppedAt
    BY <1>5 DEF ListReturns, Goto
  <2> DEFINE b == Later(stoppedAt, now)
  <2>2. b \in Int /\ now <= b
    <3>1. now \in Int /\ stoppedAt \in Int
      BY DEF TypeOK
    <3> QED BY <3>1, LaterOf
  <2>3. base' = b
    BY <2>1 DEF Later
  <2> HIDE DEF b
  <2>4. 10 * (now - b - delay) <= 11 * Second
    BY <1>0, <2>2
  <2> QED BY <2>1, <2>3, <2>4 DEF StopInTime
<1>6. CASE ListFails \/ ListRaises
  BY <1>6 DEF StopInTime, InLoop, ListFails, ListRaises, Goto
<1>7. CASE NextCoordinate
  <2>1. /\ now' = now /\ base' = base /\ stopped' = stopped /\ delay' = delay
        /\ \/ pc' = "done"
           \/ pc' \in {"next", "wait"} /\ ~stopped
    BY <1>7 DEF NextCoordinate, Goto
  <2> QED BY <2>1 DEF StopInTime, InLoop
<1>8. CASE Wait
  <2> DEFINE t == Coordinates[idx].time
  <2>1. /\ now' = now /\ base' = base /\ stopped' = stopped /\ delay' = delay
        /\ pc = "wait"
    BY <1>8 DEF Wait
  <2>2. idx \in 1..N
    BY <2>1 DEF TypeOK, OnTime, Waiting
  <2>3. t \in Int
    BY <2>2
  <2>4. \/ pc' \in {"nap", "sleep"} /\ 10 * (wake' - now) <= 11 * Second /\ wake' \in Int
        \/ pc' = "publish"
    <3>1. \/ pc' = "nap" /\ wake' = now + Second
          \/ pc' = "sleep" /\ wake' = t /\ ~(10 * (t - now) > 11 * Second)
          \/ pc' = "publish"
      BY <1>8 DEF Wait, Far
    <3> HIDE DEF t
    <3> QED BY <1>0, <2>3, <3>1
  <2>5. stopped => now <= base + delay /\ 10 * (now - base - delay) <= 11 * Second
    BY <2>1 DEF StopInTime, InLoop
  <2> HIDE DEF base
  <2>6. ASSUME stopped, 10 * (wake' - now) <= 11 * Second, wake' \in Int
        PROVE  10 * (wake' - base - delay) <= 11 * Second
    <3>1. now <= base + delay
      BY <2>5, <2>6
    <3>2. delay \in Int /\ Second \in Int /\ wake' \in Int
      BY <1>0, <2>6
    <3> DEFINE w == wake'
    <3>3. w \in Int /\ 10 * (w - now) <= 11 * Second
      BY <2>6
    <3> HIDE DEF w
    <3>4. 10 * (w - base - delay) <= 11 * Second
      BY <1>0, <3>1, <3>2, <3>3, SleepBound
    <3> QED BY <3>4 DEF w
  <2> QED BY <2>1, <2>4, <2>5, <2>6 DEF StopInTime, InLoop, base
<1>9. CASE NapEnds
  BY <1>9 DEF StopInTime, InLoop, NapEnds, Goto
<1>10. CASE SleepEnds
  BY <1>10 DEF StopInTime, InLoop, SleepEnds, Goto
<1>11. CASE Publish
  BY <1>11 DEF StopInTime, InLoop, Publish, Goto
<1>12. CASE UNCHANGED vars
  BY <1>12 DEF StopInTime, vars
<1> QED BY <1>1, <1>2, <1>3, <1>4, <1>5, <1>6, <1>7, <1>8, <1>9, <1>10, <1>11,
           <1>12 DEF Next, ListStep, LoopStep

\* A step keeps OneAfterStop.
LEMMA OneAfterStopStep ==
    ASSUME TypeOK, Started, OnTime, OneAfterStop, [Next]_vars
    PROVE  OneAfterStop'
<1>1. CASE Publish
  <2>1. pc = "publish" /\ pc' = "next" /\ stopped' = stopped
    BY <1>1 DEF Publish, Goto
  <2>2. \A n \in 1..Len(published) : ~published[n].stopped
    BY <2>1 DEF OneAfterStop
  <2>3. \A n \in 1..Len(published') :
            published'[n].stopped => n = Len(published) + 1 /\ stopped
    BY <1>1, <2>2, PublishAppends
  <2> QED BY <2>1, <2>3 DEF OneAfterStop
<1>2. CASE published' = published /\ ~Publish
  <2>1. (stopped => stopped') /\ (stopped /\ pc \in {"next", "done"} =>
           pc' \in {"next", "done"})
    BY <1>2 DEF Next, vars, Tick, start, stop, StopReturned, ListStep, ListFails,
           ListRaises, ListReturns, LoopStep, NextCoordinate, Wait, NapEnds,
           SleepEnds, Goto, Started
  <2> QED BY <1>2, <2>1 DEF OneAfterStop
<1> QED BY <1>1, <1>2, PublishedStep

\* A step keeps FromPlan.
LEMMA FromPlanStep ==
    ASSUME TypeOK, OnTime, FromPlan, [Next]_vars
    PROVE  FromPlan'
<1>0. idx <= idx' /\ idx \in Int /\ idx' \in Int
  BY Entries, TypeStep, Monotonic DEF TypeOK
<1>1. CASE Publish
  <2> SUFFICES ASSUME NEW n \in 1..Len(published')
               PROVE  \E k \in 1..N :
                         /\ k < idx'
                         /\ published'[n].scheduled = Coordinates[k].time
                         /\ published'[n].shifts
                              = publish_to_ports(Coordinates[k].range_rate)
    BY DEF FromPlan, N, Coordinates
  <2>1. CASE n \in 1..Len(published)
    <3>1. PICK k \in 1..N :
             /\ k < idx
             /\ published[n].scheduled = Coordinates[k].time
             /\ published[n].shifts = publish_to_ports(Coordinates[k].range_rate)
      BY <2>1 DEF FromPlan
    <3>2. published'[n] = published[n]
      BY <1>1, <2>1, PublishAppends
    <3>3. k < idx'
      BY <1>0, <3>1, Entries
    <3> QED BY <3>1, <3>2, <3>3
  <2>2. CASE n = Len(published) + 1
    <3>1. idx \in 1..N /\ idx' = idx + 1
      BY <1>1, PublishAppends DEF Publish
    <3>2. idx < idx'
      BY <1>0, <3>1
    <3> QED BY <1>1, <2>2, <3>1, <3>2, PublishAppends
  <2>3. n \in 1..Len(published) \/ n = Len(published) + 1
    BY <1>1, PublishAppends
  <2> QED BY <2>1, <2>2, <2>3
<1>2. CASE published' = published
  <2> SUFFICES ASSUME NEW n \in 1..Len(published)
               PROVE  \E k \in 1..N :
                         /\ k < idx'
                         /\ published[n].scheduled = Coordinates[k].time
                         /\ published[n].shifts
                              = publish_to_ports(Coordinates[k].range_rate)
    BY <1>2 DEF FromPlan, N, Coordinates
  <2>1. PICK k \in 1..N :
           /\ k < idx
           /\ published[n].scheduled = Coordinates[k].time
           /\ published[n].shifts = publish_to_ports(Coordinates[k].range_rate)
    BY DEF FromPlan
  <2>2. k < idx'
    BY <1>0, <2>1, Entries
  <2> QED BY <2>1, <2>2
<1> QED BY <1>1, <1>2, PublishedStep

\* Where the published corrections and the past entries are kept, the entries
\* published are.
LEMMA PublishedStays ==
    ASSUME TypeOK, OnTime, [Next]_vars, NEW s,
           \E n \in 1..Len(published) : published[n].scheduled = s
    PROVE  \E n \in 1..Len(published') : published'[n].scheduled = s
<1>1. CASE Publish
  <2>1. PICK n \in 1..Len(published) : published[n].scheduled = s
    OBVIOUS
  <2>2. n \in 1..Len(published') /\ published'[n] = published[n]
    BY <1>1, PublishAppends
  <2> QED BY <2>1, <2>2
<1> QED BY <1>1, PublishedStep

\* A step keeps the corrections in the order of their times: the entry at hand
\* is later than every one behind it.
LEMMA OrderStep ==
    ASSUME TypeOK, OnTime, FromPlan, InSchedule, OneSecondApart, [Next]_vars,
           NEW m \in 1..Len(published'), NEW n \in 1..Len(published'), m < n
    PROVE  published'[m].scheduled < published'[n].scheduled
<1>1. CASE Publish
  <2>0. m \in 1..Len(published)
    BY <1>1, PublishAppends
  <2>1. CASE n \in 1..Len(published)
    BY <1>1, <2>0, <2>1, PublishAppends DEF InSchedule
  <2>2. CASE n = Len(published) + 1
    <3>1. PICK k \in 1..N : k < idx /\ published[m].scheduled = Coordinates[k].time
      BY <2>0 DEF FromPlan
    <3>2. idx \in 1..N
      BY <1>1, PublishAppends
    <3>3. /\ Coordinates[k].time + Interval <= Coordinates[idx].time
          /\ Interval \in Nat \ {0}
          /\ Coordinates[k].time \in Int /\ Coordinates[idx].time \in Int
      BY <3>1, <3>2, Entries
    <3>4. published'[m].scheduled = Coordinates[k].time
      BY <1>1, <2>0, <3>1, PublishAppends
    <3>5. published'[n].scheduled = Coordinates[idx].time
      BY <1>1, <2>2, PublishAppends
    <3> QED BY <3>3, <3>4, <3>5
  <2> QED BY <1>1, <2>1, <2>2, PublishAppends
<1>2. CASE published' = published
  BY <1>2 DEF InSchedule
<1> QED BY <1>1, <1>2, PublishedStep

\* A step that comes to the top of the loop is in time for the next entry.
LEMMA TopStep ==
    ASSUME TypeOK, OnTime, InSchedule, OneSecondApart, [Next]_vars, pc' = "next"
    PROVE  \/ now' <= listedAt' + delay'
           \/ idx' > 1 /\ now' <= Coordinates[idx' - 1].time + delay'
<1> USE Entries
<1>0. /\ now \in Int /\ delay \in Nat /\ listedAt \in Int /\ idx \in 1..(N + 1)
      /\ idx > 1 => Coordinates[idx - 1].time \in Int
  <2>1. idx \in 1..(N + 1) /\ (idx > 1 => idx - 1 \in 1..N)
    BY DEF TypeOK
  <2> QED BY <2>1 DEF TypeOK
<1>1. pc = "next" =>
         \/ now <= listedAt + delay
         \/ idx > 1 /\ now <= Coordinates[idx - 1].time + delay
  BY DEF InSchedule
<1>2. CASE Tick
  <2>1. /\ pc = "next" /\ now' = now + 1 /\ delay' = delay + 1
        /\ listedAt' = listedAt /\ idx' = idx
    BY <1>2 DEF Tick, Runnable, Asleep, InLoop
  <2> QED BY <1>0, <1>1, <2>1
<1>3. CASE ListReturns
  <2>1. now' = now /\ listedAt' = now /\ delay' = delay
    BY <1>3 DEF ListReturns
  <2> QED BY <1>0, <2>1
<1>4. CASE NextCoordinate
  <2>1. /\ pc = "next" /\ idx' = idx + 1 /\ idx <= N
        /\ now' = now /\ delay' = delay /\ listedAt' = listedAt
    BY <1>4 DEF NextCoordinate, Goto, N
  <2>2. CASE now <= listedAt + delay
    BY <2>1, <2>2
  <2>3. CASE idx > 1 /\ now <= Coordinates[idx - 1].time + delay
    <3>1. idx - 1 \in 1..N /\ idx \in 1..N /\ idx - 1 < idx
      BY <1>0, <2>1, <2>3
    <3>2. /\ Coordinates[idx - 1].time + Interval <= Coordinates[idx].time
          /\ Coordinates[idx - 1].time \in Int /\ Coordinates[idx].time \in Int
      BY <3>1
    <3>3. now <= Coordinates[idx].time + delay
      BY <1>0, <2>3, <3>2
    <3>4. idx' > 1 /\ idx' - 1 = idx
      BY <1>0, <2>1
    <3> QED BY <2>1, <3>3, <3>4
  <2> QED BY <1>1, <2>1, <2>2, <2>3
<1>5. CASE Publish
  <2>1. /\ now <= Coordinates[idx].time + delay
        /\ now' = now /\ delay' = delay /\ idx' = idx + 1
    BY <1>5 DEF Publish, Goto, OnTime, Waiting
  <2>2. idx' > 1 /\ idx' - 1 = idx
    BY <1>0, <2>1
  <2> QED BY <2>1, <2>2
<1>6. CASE pc = "next" /\ UNCHANGED <<now, delay, listedAt, idx>>
  BY <1>1, <1>6
<1>7. (start \/ stop \/ StopReturned \/ ListFails \/ ListRaises \/ Wait \/ NapEnds
         \/ SleepEnds \/ UNCHANGED vars) =>
      pc = "next" /\ UNCHANGED <<now, delay, listedAt, idx>>
  BY DEF start, stop, StopReturned, ListFails, ListRaises, Wait, NapEnds,
         SleepEnds, vars, Goto
<1> QED BY <1>2, <1>3, <1>4, <1>5, <1>6, <1>7 DEF Next, ListStep, LoopStep

\* A step leaves behind no entry that was ahead of it, unless published.
LEMMA NoneMissedStep ==
    ASSUME TypeOK, Started, OnTime, InSchedule, OneSecondApart, [Next]_vars,
           delay' < Interval, NEW k \in 1..N, k < idx',
           Coordinates[k].time >= listedAt' + delay'
    PROVE  \E n \in 1..Len(published') : published'[n].scheduled = Coordinates[k].time
<1> USE Entries
<1> DEFINE Out(j) == \E n \in 1..Len(published) :
                        published[n].scheduled = Coordinates[j].time
<1>0. /\ delay \in Nat /\ delay' \in Nat /\ delay <= delay'
      /\ now \in Int /\ idx \in Int /\ idx' \in Int
      /\ Coordinates[k].time \in Int /\ listedAt \in Int
  <2>1. TypeOK'
    BY TypeStep
  <2>2. Coordinates[k].time \in Int
    OBVIOUS
  <2> QED BY <2>1, <2>2, Monotonic DEF TypeOK
<1>1. CASE k < idx /\ listedAt' = listedAt
  <2>1. delay < Interval /\ Coordinates[k].time >= listedAt + delay
    BY <1>0, <1>1
  <2>2. Out(k)
    BY <1>1, <2>1 DEF InSchedule
  <2> QED BY <2>2, PublishedStays
<1>2. CASE ListReturns
  <2>1. idx' = 1
    BY <1>2 DEF ListReturns, Goto, Started
  <2> QED BY <2>1
<1>3. CASE NextCoordinate /\ idx' = idx + 1 /\ k = idx
  <2>1. /\ pc = "next" /\ Coordinates[idx].time < now
        /\ delay' = delay /\ listedAt' = listedAt
    BY <1>0, <1>3 DEF NextCoordinate, Goto
  <2>2. idx > 1 /\ now <= Coordinates[idx - 1].time + delay
    <3>1. ~(now <= listedAt + delay)
      BY <1>0, <1>3, <2>1
    <3> QED BY <2>1, <3>1 DEF InSchedule
  <2>3. idx - 1 \in 1..N /\ idx \in 1..N /\ idx - 1 < idx
    BY <1>0, <1>3, <2>2
  <2>4. /\ Coordinates[idx - 1].time + Interval <= Coordinates[idx].time
        /\ Coordinates[idx - 1].time \in Int /\ Coordinates[idx].time \in Int
    BY <2>3
  <2> QED BY <1>0, <2>1, <2>2, <2>4
<1>4. CASE Publish /\ k = idx
  <2>1. /\ Len(published) + 1 \in 1..Len(published')
        /\ published'[Len(published) + 1].scheduled = Coordinates[k].time
    BY <1>4, PublishAppends
  <2> QED BY <2>1
<1>5. CASE ~ListReturns
  <2>1. listedAt' = listedAt
    BY <1>5 DEF Next, vars, Tick, start, stop, StopReturned, ListStep, ListFails,
       ListRaises, LoopStep, NextCoordinate, Wait, NapEnds, SleepEnds, Publish
  <2>2. idx' = idx \/ (idx' = idx + 1 /\ (NextCoordinate \/ Publish))
    BY <1>5 DEF Next, vars, Tick, start, stop, StopReturned, ListStep, ListFails,
       ListRaises, LoopStep, NextCoordinate, Wait, NapEnds, SleepEnds, Publish
  <2>3. k < idx \/ (k = idx /\ idx' = idx + 1)
    BY <1>0, <2>2
  <2> QED BY <1>1, <1>3, <1>4, <2>1, <2>2, <2>3
<1> QED BY <1>2, <1>5

\* A step keeps InSchedule.
LEMMA InScheduleStep ==
    ASSUME TypeOK, Started, OnTime, FromPlan, InSchedule, [Next]_vars
    PROVE  InSchedule'
<1> SUFFICES ASSUME OneSecondApart
             PROVE  /\ \A m, n \in 1..Len(published') :
                          m < n => published'[m].scheduled < published'[n].scheduled
                    /\ pc' = "next" =>
                          \/ now' <= listedAt' + delay'
                          \/ idx' > 1 /\ now' <= Coordinates[idx' - 1].time + delay'
                    /\ delay' < Interval =>
                          \A k \in 1..N :
                              k < idx' /\ Coordinates[k].time >= listedAt' + delay' =>
                                  \E n \in 1..Len(published') :
                                      published'[n].scheduled = Coordinates[k].time
  BY DEF InSchedule, OneSecondApart, N, Coordinates, interpolate_coordinates, Interval
<1> QED BY OrderStep, TopStep, NoneMissedStep

-----------------------------------------------------------------------------
(* The theorems.                                                           *)

LEMMA InitInv == Init => IInv
<1> SUFFICES ASSUME Init PROVE IInv
  OBVIOUS
<1>1. published = <<>> /\ Len(published) = 0 /\ published \in Seq(Correction)
  BY DEF Init
<1>2. TypeOK
  <2>1. N \in Nat
    BY Entries
  <2>2. /\ now = 0 /\ delay = 0 /\ block = "new" /\ stopped = FALSE /\ pc = "none"
        /\ retries = 0 /\ idx = 1 /\ wake = 0 /\ listedAt = 0 /\ stoppedAt = 0
    BY DEF Init
  <2>3. stopped \in BOOLEAN
    BY <2>2
  <2>4. published \in Seq(Correction)
    BY <1>1
  <2>5. idx \in 1..(N + 1)
    BY <2>1, <2>2
  <2>6. now \in Nat /\ delay \in Nat /\ retries \in Nat /\ wake \in Int
        /\ listedAt \in Nat /\ listedAt <= now /\ stoppedAt \in Nat /\ stoppedAt <= now
    BY <2>2
  <2>7. /\ block \in {"new", "running", "joining", "stopped"}
        /\ pc \in {"none", "list", "done"} \cup InLoop
    BY <2>2
  <2> QED BY <2>3, <2>4, <2>5, <2>6, <2>7 DEF TypeOK
<1>3. Started /\ OnTime /\ StopInTime
  BY DEF Init, Started, OnTime, StopInTime, Waiting, InLoop
<1>4. Punctual /\ OneAfterStop /\ FromPlan
  BY <1>1 DEF Punctual, OneAfterStop, FromPlan
<1>5. InSchedule
  <2>1. idx = 1 /\ pc = "none" /\ \A k \in 1..N : ~(k < idx)
    BY Entries DEF Init
  <2> QED BY <1>1, <2>1 DEF InSchedule
<1> QED BY <1>2, <1>3, <1>4, <1>5 DEF IInv

LEMMA NextInv == IInv /\ [Next]_vars => IInv'
<1> SUFFICES ASSUME IInv, [Next]_vars PROVE IInv'
  OBVIOUS
<1>1. TypeOK /\ Started /\ OnTime /\ Punctual /\ StopInTime /\ OneAfterStop
      /\ FromPlan /\ InSchedule
  BY DEF IInv
<1>2. TypeOK' /\ Started' /\ OnTime' /\ Punctual'
  BY <1>1, TypeStep, StartedStep, OnTimeStep, PunctualStep
<1>3. StopInTime' /\ OneAfterStop' /\ FromPlan' /\ InSchedule'
  BY <1>1, StopInTimeStep, OneAfterStopStep, FromPlanStep, InScheduleStep
<1> QED BY <1>2, <1>3 DEF IInv

\* The inductive invariant holds in every reachable state.
THEOREM DopplerInvariant == Spec => []IInv
BY InitInv, NextInv, PTL DEF Spec

\* processing_loop publishes no shift before its time and none later than the
\* scheduler made it, whatever the plan and whenever the response came.
THEOREM AlwaysPunctual == Spec => []Punctual
<1>1. IInv => Punctual
  BY DEF IInv
<1> QED BY <1>1, DopplerInvariant, PTL

\* After stop() the loop publishes at most once more and ends within 1.1 s of
\* stop(), or of the plan, plus the delays.
THEOREM StopIsHeeded == Spec => []StopHeeded
<1>1. IInv => StopHeeded
  <2> SUFFICES ASSUME IInv PROVE StopHeeded
    OBVIOUS
  <2>1. \A m, n \in 1..Len(published) :
           published[m].stopped /\ published[n].stopped => m = n
    BY DEF IInv, OneAfterStop
  <2>2. stopped /\ pc \in InLoop =>
           10 * (now - Later(stoppedAt, listedAt) - delay) <= 11 * Second
    BY DEF IInv, StopInTime
  <2> QED BY <2>1, <2>2 DEF StopHeeded
<1> QED BY <1>1, DopplerInvariant, PTL

\* Shifts are published in the order of their times, none twice, and a loop
\* that came to the end left none out that it could have published.
THEOREM KeepsSchedule == Spec => []ScheduleKept
<1>1. IInv => ScheduleKept
  <2> SUFFICES ASSUME IInv, OneSecondApart
               PROVE  /\ \A m, n \in 1..Len(published) :
                            m < n => published[m].scheduled < published[n].scheduled
                      /\ pc = "done" /\ idx > Len(Coordinates) /\ delay < Interval =>
                            \A k \in 1..Len(Coordinates) :
                                Coordinates[k].time >= listedAt + delay =>
                                    \E n \in 1..Len(published) :
                                        published[n].scheduled = Coordinates[k].time
    BY DEF ScheduleKept
  <2>1. InSchedule /\ idx \in Int
    BY Entries DEF IInv, TypeOK
  <2>2. idx > N => \A k \in 1..N : k < idx
    BY <2>1, Entries
  <2> QED BY <2>1, <2>2 DEF InSchedule, N
<1> QED BY <1>1, DopplerInvariant, PTL

\* Every shift published is the one that the plan's coordinates call for.
THEOREM ShiftsAreInterpolated == Spec => []ShiftsInterpolate
<1>1. IInv => ShiftsInterpolate
  <2> SUFFICES ASSUME IInv, OneSecondApart, NEW n \in 1..Len(published),
                      NEW i \in 1..Len(satellite_coordinates)
               PROVE  LET p == published[n]
                          t == satellite_coordinates[i].time
                      IN /\ p.scheduled = t => p.shifts.downlink_shift = ShiftOf(i)
                         /\ t < p.scheduled /\ p.scheduled < t + Second =>
                               Between(p.shifts.downlink_shift, ShiftOf(i), ShiftOf(i + 1))
                         /\ p.shifts.uplink_shift * downlink_frequency
                               = -(p.shifts.downlink_shift * uplink_frequency)
    BY DEF ShiftsInterpolate
  <2>1. PICK k \in 1..N :
           /\ published[n].scheduled = Coordinates[k].time
           /\ published[n].shifts = publish_to_ports(Coordinates[k].range_rate)
    BY DEF IInv, FromPlan
  <2>2. k \in 1..Len(Coordinates)
    BY DEF N
  <2> QED BY <2>1, <2>2, EntryShifts
<1> QED BY <1>1, DopplerInvariant, PTL

=============================================================================
