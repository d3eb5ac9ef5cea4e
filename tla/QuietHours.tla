----------------------------- MODULE QuietHours -----------------------------
(***************************************************************************)
(* The per-user quiet window of scheduler/quiet_hours.py.                  *)
(*                                                                         *)
(* An instant is a number of minutes of UTC.  A window record holds the    *)
(* owner's settings: [from, to) in local hours, and the time zone as the   *)
(* offset to add to UTC (0 .. Day-1: a zone west of Greenwich is written   *)
(* as its offset plus one day, which gives the same local hour).  Zones    *)
(* whose offset changes during the run (daylight saving) are not modelled. *)
(***************************************************************************)
EXTENDS Integers

CONSTANTS MinutesPerHour, HoursPerDay,   \* 60 and 24 in the program
          JitterMax                      \* JITTER_MAX_MIN, 30

ASSUME QuietAssumption ==
  /\ MinutesPerHour \in Nat \ {0}
  /\ HoursPerDay \in Nat \ {0}
  /\ JitterMax \in Nat
  /\ JitterMax < MinutesPerHour          \* jitter never leaves the hour

Hours == 0 .. (HoursPerDay - 1)
Day == HoursPerDay * MinutesPerHour

\* The settings a user can have: /quiet and Settings refuse from = to.
QuietWindow ==
  {w \in [from : Hours, to : Hours, offset : 0 .. (Day - 1)] : w.from # w.to}

Local(t, w) == t + w.offset
LocalHour(t, w) == (Local(t, w) % Day) \div MinutesPerHour
LocalDay(t, w) == Local(t, w) \div Day

\* Slip: the hour the window ends at still counts as quiet.
IsQuietThroughEnd(t, w) ==
  LET hour == LocalHour(t, w)
  IN  IF w.from < w.to
      THEN w.from <= hour /\ hour <= w.to
      ELSE w.from <= hour \/ hour <= w.to

\* is_quiet_now: a same-day window, or one that wraps midnight.
IsQuiet(t, w) ==
  LET hour == LocalHour(t, w)
  IN  IF w.from < w.to
      THEN w.from <= hour /\ hour < w.to
      ELSE w.from <= hour \/ hour < w.to

\* Slip: an end that has passed today is not moved to tomorrow.
WindowEndToday(t, w) ==
  LET local == Local(t, w)
  IN  local - (local % Day) + w.to * MinutesPerHour - w.offset

\* Slip: to_hour:00 sharp counts as still to come.
WindowEndNow(t, w) ==
  LET local == Local(t, w)
      today == local - (local % Day) + w.to * MinutesPerHour
  IN  (IF today < local THEN today + Day ELSE today) - w.offset

\* The local to_hour:00 that comes next, as UTC (before the jitter).
WindowEnd(t, w) ==
  LET local == Local(t, w)
      today == local - (local % Day) + w.to * MinutesPerHour
      target == IF today <= local THEN today + Day ELSE today
  IN  target - w.offset

\* next_post_quiet: any of the instants the jitter can pick.
NextPostQuiet(t, w) == {WindowEnd(t, w) + j : j \in 0 .. JitterMax}

-----------------------------------------------------------------------------
(* Properties of the two functions, at instant t for settings w.            *)

\* Whenever it is computed, a post-quiet time lies ahead and outside the window:
\* a deferred or snoozed reminder is not deferred a second time
\* (quiet_hours.py:59-72 against 37-48).
PostQuietIsAwake(t, w) ==
  \A at \in NextPostQuiet(t, w) : t < at /\ ~IsQuiet(at, w)

\* From inside the window, its end is the first minute that is not quiet: no
\* waking time is skipped (quiet_hours.py:67-70).
DeferralIsExact(t, w) ==
  IsQuiet(t, w) => /\ ~IsQuiet(WindowEnd(t, w), w)
                   /\ \A u \in t .. (WindowEnd(t, w) - 1) : IsQuiet(u, w)

\* "until tomorrow" (reactions.py:130), the button snooze_tomorrow: the reminder
\* comes back on a later local day.  The code does not keep this.
TomorrowIsLaterDay(t, w) ==
  \A at \in NextPostQuiet(t, w) : LocalDay(t, w) < LocalDay(at, w)
=============================================================================
