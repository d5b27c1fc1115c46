----------------------------- MODULE QuietHours -----------------------------
(***************************************************************************)
(* Quiet-hours arithmetic of app/guardrails/policy.py.  Instants are       *)
(* naturals (UTC); a day has DayLength units; a merchant timezone is a     *)
(* fixed offset from UTC (the deployments use Asia/Kolkata, which has no   *)
(* daylight saving).  The window [start, end) may cross local midnight.    *)
(***************************************************************************)
EXTENDS Naturals

CONSTANT DayLength

ASSUME DayLengthAssumption == DayLength \in Nat \ {0}

TimeOfDay == 0 .. DayLength - 1

\* The merchant's wall-clock reading at the UTC instant t.
LocalTime(t, offset) == (t + offset) % DayLength

\* Slip: the closing time itself still counts as quiet.
InQuietHoursInclusive(t, start, end, offset) ==
  LET local == LocalTime(t, offset)
  IN  \/ start < end /\ start <= local /\ local <= end
      \/ end < start /\ (start <= local \/ local <= end)

\* start = end switches the window off; start > end crosses midnight.
InQuietHours(t, start, end, offset) ==
  LET local == LocalTime(t, offset)
  IN  \/ start < end /\ start <= local /\ local < end
      \/ end < start /\ (start <= local \/ local < end)

\* Slip: always tomorrow's closing time, although today's is still to come.
QuietHoursResumeTomorrow(t, start, end, offset) ==
  IF InQuietHours(t, start, end, offset)
  THEN {t + end + DayLength - LocalTime(t, offset)} ELSE {}

\* Slip: the window is over at local midnight.
QuietHoursResumeMidnight(t, start, end, offset) ==
  IF InQuietHours(t, start, end, offset)
  THEN {t + DayLength - LocalTime(t, offset)} ELSE {}

\* The first local occurrence of `end` strictly after t: today's, or tomorrow's
\* when today's is not in the future.  The empty set stands for None.
QuietHoursResume(t, start, end, offset) ==
  LET local == LocalTime(t, offset)
      wait  == IF end > local THEN end - local ELSE end + DayLength - local
  IN  IF InQuietHours(t, start, end, offset) THEN {t + wait} ELSE {}
=============================================================================
