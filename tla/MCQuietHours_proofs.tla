------------------------ MODULE MCQuietHours_proofs --------------------------
(***************************************************************************)
(* The reference without a modulus agrees with the code's arithmetic for   *)
(* every length of the day.  The inductive invariant is only the range of  *)
(* the variables: up to two days and one timezone offset, an instant is on *)
(* local day 0, 1 or 2, and the resume time on day 3 at the latest, all    *)
(* between the first and the last window of QuietInstants.                 *)
(***************************************************************************)
EXTENDS MCQuietHours, QuietHours_proofs

IInv ==
  /\ t \in Nat /\ t <= 2 * DayLength
  /\ start \in TimeOfDay /\ end \in TimeOfDay /\ offset \in TimeOfDay

LEMMA Invariance == Spec => []IInv
<1>1. Init => IInv BY DayLengthAssumption DEF Init, IInv
<1>2. IInv /\ [Next]_vars => IInv' BY DayLengthAssumption DEF Next, IInv, vars
<1> QED BY <1>1, <1>2, PTL DEF Spec

\* An instant on one of the first five local days is in quiet hours exactly when
\* it lies in a window that opened on its own local day or the day before.
LEMMA QuietIsInSomeWindow ==
  ASSUME IInv, NEW u \in Nat, u + offset < 5 * DayLength
  PROVE  InQuietHours(u, start, end, offset) <=> u \in QuietInstants
<1> DEFINE local == LocalTime(u, offset)
<1>1. PICK k \in Nat : u + offset = (k * DayLength) + local
  BY Division DEF LocalTime, IInv, TimeOfDay
<1>2. /\ local \in 0 .. DayLength - 1 /\ start \in 0 .. DayLength - 1
      /\ end \in 0 .. DayLength - 1 /\ offset \in 0 .. DayLength - 1
  <2>1. offset \in Nat BY DayLengthAssumption DEF IInv, TimeOfDay
  <2>2. local \in TimeOfDay BY <2>1, LocalTimeType
  <2> QED BY <2>2 DEF IInv, TimeOfDay
<1>3. \A d \in Int : d * DayLength \in Int /\ (d + 1) * DayLength = (d * DayLength) + DayLength
  BY DayLengthAssumption
<1>4. k < 5
  <2> SUFFICES ASSUME 5 < k \/ k = 5 PROVE FALSE OBVIOUS
  <2>1. 5 * DayLength <= k * DayLength BY DaysOrdered, <1>3, DayLengthAssumption
  <2> QED BY <1>1, <1>2, <1>3, <2>1, DayLengthAssumption
<1>5. InQuietHours(u, start, end, offset) <=>
        \/ start < end /\ start <= local /\ local < end
        \/ end < start /\ (start <= local \/ local < end)
  BY DEF InQuietHours
<1> HIDE DEF local
\* Membership in the window of day d, without the timezone.
<1>6. ASSUME NEW d \in Int
      PROVE  u \in Window(d) <=>
               /\ (d * DayLength) + start <= (k * DayLength) + local
               /\ (k * DayLength) + local
                    < (d * DayLength) + end + (IF end < start THEN DayLength ELSE 0)
  BY <1>1, <1>2, <1>3, DayLengthAssumption DEF Window
<1>7. ASSUME InQuietHours(u, start, end, offset) PROVE u \in QuietInstants
  <2>1. CASE start <= local
    <3>1. u \in Window(k) BY <1>2, <1>3, <1>5, <1>6, <1>7, <2>1, DayLengthAssumption
    <3> QED BY <1>4, <3>1 DEF QuietInstants
  <2>2. CASE ~(start <= local)
    <3>1. k - 1 \in Int /\ k * DayLength = ((k - 1) * DayLength) + DayLength
      BY <1>3
    <3>2. u \in Window(k - 1)
      BY <1>2, <1>3, <1>5, <1>6, <1>7, <2>2, <3>1, DayLengthAssumption
    <3> QED BY <1>4, <3>2 DEF QuietInstants
  <2> QED BY <2>1, <2>2
<1>8. ASSUME u \in QuietInstants PROVE InQuietHours(u, start, end, offset)
  <2>1. PICK d \in -1 .. 5 : u \in Window(d) BY <1>8 DEF QuietInstants
  <2>2. /\ d \in Int
        /\ (d * DayLength) + start <= (k * DayLength) + local
        /\ (k * DayLength) + local
             < (d * DayLength) + end + (IF end < start THEN DayLength ELSE 0)
    BY <1>6, <2>1
  <2>3. CASE d = k
    BY <1>2, <1>3, <1>5, <2>2, <2>3, DayLengthAssumption
  <2>4. CASE k < d
    <3>1. (k * DayLength) + DayLength <= d * DayLength BY <2>2, <2>4, DaysOrdered
    <3> QED BY <1>2, <1>3, <2>2, <3>1, DayLengthAssumption
  <2>5. CASE d < k
    <3>1. (d * DayLength) + DayLength <= k * DayLength BY <2>2, <2>5, DaysOrdered
    <3>2. CASE d = k - 1
      <4>1. k * DayLength = (d * DayLength) + DayLength BY <1>3, <2>2, <3>2
      <4> QED BY <1>2, <1>3, <1>5, <2>2, <4>1, DayLengthAssumption
    <3>3. CASE d < k - 1
      <4>1. d + 1 \in Int /\ d + 1 < k BY <2>2, <3>3
      <4>2. ((d + 1) * DayLength) + DayLength <= k * DayLength BY <4>1, DaysOrdered
      <4>3. (d * DayLength) + DayLength + DayLength <= k * DayLength BY <1>3, <2>2, <4>2
      <4> QED BY <1>2, <1>3, <2>2, <4>3, DayLengthAssumption
    <3> QED BY <2>2, <2>5, <3>2, <3>3
  <2> QED BY <2>2, <2>3, <2>4, <2>5
<1> QED BY <1>7, <1>8

-----------------------------------------------------------------------------

\* Within the run's two days the local day is early enough.
LEMMA FirstDays ==
  ASSUME IInv
  PROVE  t + offset < 5 * DayLength /\ \A u \in Nat : u <= t + DayLength => u + offset < 5 * DayLength
BY DayLengthAssumption DEF IInv, TimeOfDay

\* The wall-clock test of in_quiet_hours is membership in the daily windows,
\* whatever the length of the day, the window and the timezone.
THEOREM DailyWindow == Spec => []QuietIsTheDailyWindow
<1>1. IInv => QuietIsTheDailyWindow
  BY QuietIsInSomeWindow, FirstDays DEF QuietIsTheDailyWindow, IInv
<1> QED BY <1>1, Invariance, PTL

\* quiet_hours_resume_utc answers exactly in quiet hours, and then with the
\* first instant that is outside them.
THEOREM FirstLoudInstant == Spec => []ResumeIsFirstLoudInstant
<1>1. ASSUME IInv PROVE ResumeIsFirstLoudInstant
  <2> DEFINE resume == QuietHoursResume(t, start, end, offset)
  <2>1. /\ t \in Nat /\ start \in TimeOfDay /\ end \in TimeOfDay /\ offset \in Nat
        /\ DayLength \in Nat
    BY <1>1, DayLengthAssumption DEF IInv, TimeOfDay
  <2>2. InQuietHours(t, start, end, offset) <=> t \in QuietInstants
    BY <1>1, <2>1, QuietIsInSomeWindow, FirstDays
  <2>3. CASE ~InQuietHours(t, start, end, offset)
    <3>1. resume = {} BY <2>1, <2>3, ResumeAtFirstLoudInstant
    <3> QED BY <2>2, <2>3, <3>1 DEF ResumeIsFirstLoudInstant
  <2>4. CASE InQuietHours(t, start, end, offset)
    <3>1. PICK r \in Nat :
            /\ resume = {r} /\ t < r /\ r < t + DayLength
            /\ ~InQuietHours(r, start, end, offset)
            /\ \A u \in t .. r - 1 : InQuietHours(u, start, end, offset)
      BY <2>1, <2>4, ResumeAtFirstLoudInstant
    <3>2. r \notin QuietInstants
      <4>1. r <= t + DayLength BY <2>1, <3>1
      <4> QED BY <1>1, <3>1, <4>1, QuietIsInSomeWindow, FirstDays
    <3>3. ASSUME NEW u \in t .. r - 1 PROVE u \in QuietInstants
      <4>1. u \in Nat /\ u <= t + DayLength BY <2>1, <3>1
      <4> QED BY <1>1, <3>1, <4>1, QuietIsInSomeWindow, FirstDays
    <3> HIDE DEF resume
    <3> QED BY <2>2, <2>4, <3>1, <3>2, <3>3 DEF ResumeIsFirstLoudInstant, resume
  <2> QED BY <2>3, <2>4
<1> QED BY <1>1, Invariance, PTL
=============================================================================
