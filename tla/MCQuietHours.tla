---------------------------- MODULE MCQuietHours ----------------------------
(* The quiet-hours arithmetic against a reference that knows no modulus: a  *)
(* clock runs over two days under every window and every timezone offset.   *)
EXTENDS QuietHours, Integers

VARIABLES t, start, end, offset

vars == <<t, start, end, offset>>

Init ==
  /\ t = 0
  /\ start \in TimeOfDay /\ end \in TimeOfDay /\ offset \in TimeOfDay

Next ==
  /\ t < 2 * DayLength
  /\ t' = t + 1
  /\ UNCHANGED <<start, end, offset>>

Spec == Init /\ [][Next]_vars

-----------------------------------------------------------------------------

\* The window that opens at `start` of local day d, in UTC; closing before it
\* opens means closing on the next day.
Window(d) ==
  LET opens == d * DayLength + start - offset
      closes == d * DayLength + end - offset + (IF end < start THEN DayLength ELSE 0)
  IN  opens .. closes - 1

QuietInstants == UNION {Window(d) : d \in -1 .. 5}

\* The wall-clock test is membership in one of the daily windows, the one that
\* crosses midnight included, and no window at all when start equals end
\* (in_quiet_hours).
QuietIsTheDailyWindow == InQuietHours(t, start, end, offset) <=> t \in QuietInstants

\* A resume time exists exactly in quiet hours and is the first instant after t
\* that is outside them: the case is deferred neither into another quiet window
\* nor past the moment it could have been acted on (quiet_hours_resume_utc).
ResumeIsFirstLoudInstant ==
  LET resume == QuietHoursResume(t, start, end, offset)
  IN  /\ resume # {} <=> t \in QuietInstants
      /\ \A r \in resume : t < r /\ r \notin QuietInstants /\ t .. r - 1 \subseteq QuietInstants
=============================================================================
