-------------------------- MODULE QuietHours_proofs --------------------------
(***************************************************************************)
(* Lemmas about the quiet-hours arithmetic, for every length of the day,   *)
(* every window and every timezone.  An instant lies on some local day at  *)
(* some local time; both are unique, and local days are ordered whole.     *)
(***************************************************************************)
EXTENDS QuietHours, Integers, TLAPS

\* Some local day and time: x is k whole days and a remainder.
LEMMA Division ==
  ASSUME NEW x \in Nat
  PROVE  \E k \in Nat : x = (k * DayLength) + (x % DayLength)
<1>1. x \div DayLength \in Nat /\ x = ((x \div DayLength) * DayLength) + (x % DayLength)
  BY DayLengthAssumption
<1> QED BY <1>1

\* No other: the remainder of k days and a time of day is that time.
LEMMA Remainder ==
  ASSUME NEW k \in Nat, NEW l \in TimeOfDay
  PROVE  ((k * DayLength) + l) % DayLength = l
BY DayLengthAssumption DEF TimeOfDay

\* An earlier day is over before a later one begins.
LEMMA DaysOrdered ==
  ASSUME NEW d \in Int, NEW k \in Int, d < k
  PROVE  (d * DayLength) + DayLength <= k * DayLength
<1>1. k * DayLength = (d * DayLength) + ((k - d) * DayLength)
  BY DayLengthAssumption
<1>2. (k - d) * DayLength >= DayLength
  BY DayLengthAssumption
<1> QED BY <1>1, <1>2, DayLengthAssumption

\* The local reading of an instant is a time of day.
LEMMA LocalTimeType ==
  ASSUME NEW t \in Nat, NEW offset \in Nat
  PROVE  LocalTime(t, offset) \in TimeOfDay
BY DayLengthAssumption DEF LocalTime, TimeOfDay

\* So many units later it is so much later, on the same local day or the next.
LEMMA LocalTimeLater ==
  ASSUME NEW t \in Nat, NEW offset \in Nat, NEW j \in 0 .. DayLength
  PROVE  LocalTime(t + j, offset) =
           IF LocalTime(t, offset) + j < DayLength THEN LocalTime(t, offset) + j
                                                   ELSE LocalTime(t, offset) + j - DayLength
<1> DEFINE local == LocalTime(t, offset)
<1>1. PICK k \in Nat : t + offset = (k * DayLength) + local
  BY Division DEF LocalTime
<1>2. local \in TimeOfDay BY LocalTimeType
<1>3. k * DayLength \in Nat /\ (k + 1) * DayLength = (k * DayLength) + DayLength
  BY DayLengthAssumption
<1> HIDE DEF local
<1>4. CASE local + j < DayLength
  <2>1. local + j \in TimeOfDay BY <1>2, <1>4, DayLengthAssumption DEF TimeOfDay
  <2>2. t + j + offset = (k * DayLength) + (local + j)
    BY <1>1, <1>2, <1>3, DayLengthAssumption DEF TimeOfDay
  <2>3. LocalTime(t + j, offset) = local + j BY <2>1, <2>2, Remainder DEF LocalTime
  <2> QED BY <1>4, <2>3 DEF local
<1>5. CASE ~(local + j < DayLength)
  <2>1. local + j - DayLength \in TimeOfDay BY <1>2, <1>5, DayLengthAssumption DEF TimeOfDay
  <2>2. t + j + offset = ((k + 1) * DayLength) + (local + j - DayLength)
    BY <1>1, <1>2, <1>3, DayLengthAssumption DEF TimeOfDay
  <2>3. LocalTime(t + j, offset) = local + j - DayLength
    BY <2>1, <2>2, Remainder DEF LocalTime
  <2> QED BY <1>5, <2>3 DEF local
<1> QED BY <1>4, <1>5

-----------------------------------------------------------------------------

\* There is a resume instant exactly in quiet hours; it lies ahead, less than
\* a day, is outside quiet hours, and every instant up to it is inside them.
THEOREM ResumeAtFirstLoudInstant ==
  ASSUME NEW t \in Nat, NEW start \in TimeOfDay, NEW end \in TimeOfDay, NEW offset \in Nat
  PROVE  /\ ~InQuietHours(t, start, end, offset) => QuietHoursResume(t, start, end, offset) = {}
         /\ InQuietHours(t, start, end, offset) =>
              \E r \in Nat :
                /\ QuietHoursResume(t, start, end, offset) = {r}
                /\ t < r /\ r < t + DayLength
                /\ ~InQuietHours(r, start, end, offset)
                /\ \A u \in t .. r - 1 : InQuietHours(u, start, end, offset)
<1> DEFINE local == LocalTime(t, offset)
           wait == IF end > local THEN end - local ELSE end + DayLength - local
<1>1. ~InQuietHours(t, start, end, offset) => QuietHoursResume(t, start, end, offset) = {}
  BY DEF QuietHoursResume
<1>2. ASSUME InQuietHours(t, start, end, offset)
      PROVE  \E r \in Nat :
                /\ QuietHoursResume(t, start, end, offset) = {r}
                /\ t < r /\ r < t + DayLength
                /\ ~InQuietHours(r, start, end, offset)
                /\ \A u \in t .. r - 1 : InQuietHours(u, start, end, offset)
  <2>1. local \in 0 .. DayLength - 1 /\ end \in 0 .. DayLength - 1 /\ start \in 0 .. DayLength - 1
    BY LocalTimeType DEF TimeOfDay
  <2>2. QuietHoursResume(t, start, end, offset) = {t + wait}
    BY <1>2 DEF QuietHoursResume
  <2>3. \/ start < end /\ start <= local /\ local < end
        \/ end < start /\ (start <= local \/ local < end)
    BY <1>2 DEF InQuietHours
  <2>4. \A j \in 0 .. DayLength :
          LocalTime(t + j, offset) = IF local + j < DayLength THEN local + j
                                                             ELSE local + j - DayLength
    BY LocalTimeLater
  <2> HIDE DEF local
  <2>5. wait \in 1 .. DayLength - 1 BY <2>1, <2>3, DayLengthAssumption
  <2>6. LocalTime(t + wait, offset) = end
    <3>1. wait \in 0 .. DayLength BY <2>5, DayLengthAssumption
    <3> QED BY <2>1, <2>4, <3>1, DayLengthAssumption
  <2>7. ~InQuietHours(t + wait, start, end, offset)
    BY <2>1, <2>6, DayLengthAssumption DEF InQuietHours
  <2>8. ASSUME NEW u \in t .. (t + wait) - 1 PROVE InQuietHours(u, start, end, offset)
    <3> DEFINE j == u - t
    <3>1. j \in 0 .. DayLength /\ j < wait /\ u = t + j BY <2>5, DayLengthAssumption
    <3>2. LocalTime(u, offset) = IF local + j < DayLength THEN local + j
                                                         ELSE local + j - DayLength
      BY <2>4, <3>1
    <3> HIDE DEF j
    <3> QED BY <2>1, <2>3, <3>1, <3>2, DayLengthAssumption DEF InQuietHours
  <2>9. t + wait \in Nat /\ t < t + wait /\ t + wait < t + DayLength
    BY <2>5, DayLengthAssumption
  <2> QED BY <2>2, <2>7, <2>8, <2>9
<1> QED BY <1>1, <1>2

\* Messaging resumes at one instant, later than the one asked about, or never
\* stopped.
LEMMA ResumeType ==
  ASSUME NEW t \in Nat, NEW start \in TimeOfDay, NEW end \in TimeOfDay, NEW offset \in Nat
  PROVE  \/ QuietHoursResume(t, start, end, offset) = {}
         \/ \E r \in Nat : r > t /\ QuietHoursResume(t, start, end, offset) = {r}
<1>1. CASE ~InQuietHours(t, start, end, offset)
  BY <1>1, ResumeAtFirstLoudInstant
<1>2. CASE InQuietHours(t, start, end, offset)
  <2>1. PICK r \in Nat : QuietHoursResume(t, start, end, offset) = {r} /\ t < r
    BY <1>2, ResumeAtFirstLoudInstant
  <2> QED BY <2>1
<1> QED BY <1>1, <1>2
=============================================================================
