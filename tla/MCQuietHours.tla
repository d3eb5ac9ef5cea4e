---------------------------- MODULE MCQuietHours ----------------------------
(* The quiet-hours functions over a real day (24 hours of 60 minutes, jitter *)
(* of 0..30): a clock that walks through the hours of one day, from several   *)
(* minutes of the hour, for each of a set of windows and time zones.          *)
EXTENDS QuietHours

CONSTANT Settings      \* the windows and time zones to try

ASSUME ClockAssumption == Settings \subseteq QuietWindow

WindowHours == {0, 1, 9, 12, 17, 22, 23}
Offsets == {0, 180, 345, 1140}           \* UTC, +3 h, +5 h 45 min, -5 h
ManySettings == {w \in [from : WindowHours, to : WindowHours, offset : Offsets] :
                   w.from # w.to}

\* The defaults of config.py: 22-9, Moscow.
DefaultSettings == {[from |-> 22, to |-> 9, offset |-> 180]}

VARIABLES now, settings

Init == /\ now \in {0, 1, 29, 30, 31, 59}
        /\ settings \in Settings

NextHour == now' = (now + MinutesPerHour) % Day /\ UNCHANGED settings

Spec == Init /\ [][NextHour]_<<now, settings>>

\* quiet_hours.py:51-72: see PostQuietIsAwake.
AlwaysAwake == PostQuietIsAwake(now, settings)

\* quiet_hours.py:67-70: see DeferralIsExact.
AlwaysExact == DeferralIsExact(now, settings)

\* reactions.py:130: see TomorrowIsLaterDay.
AlwaysLaterDay == TomorrowIsLaterDay(now, settings)
=============================================================================
