------------------------------ MODULE Reminder ------------------------------
(***************************************************************************)
(* What a reminder is to its owner: it is pending, snoozed or done; its    *)
(* nudges climb a ladder, one recorded nudge per step; only an answer to a *)
(* nudge of its own brings it back; only the top of the ladder starts      *)
(* again; and a deletion takes everything and is final.  No sessions, no   *)
(* copies, no clock, no quiet hours: NudgeEngine implements this with them.*)
(***************************************************************************)
EXTENDS Tones

CONSTANTS Reminders, Nudges      \* reminders, and the ids of recorded nudges

VARIABLES
  status,     \* of a reminder
  level,      \* nudges since it was created or last snoozed for being ignored
  told,       \* its recorded nudges
  answered    \* those of them its owner has answered

life == <<status, level, told, answered>>

Alive == {"pending", "snoozed", "done"}

Init ==
  /\ status = [r \in Reminders |-> "absent"]
  /\ level = [r \in Reminders |-> 0]
  /\ told = [r \in Reminders |-> {}]
  /\ answered = [r \in Reminders |-> {}]

Create(r) ==
  /\ status[r] = "absent"
  /\ status' = [status EXCEPT ![r] = "pending"]
  /\ UNCHANGED <<level, told, answered>>

\* A nudge that was under way when its reminder was closed is still recorded,
\* and leaves it closed.
Nudge(r) ==
  /\ status[r] \in Alive
  /\ \E n \in Nudges : /\ \A s \in Reminders : n \notin told[s]
                       /\ told' = [told EXCEPT ![r] = @ \cup {n}]
  /\ level' = [level EXCEPT ![r] = @ + 1]
  /\ UNCHANGED <<status, answered>>

\* Only from the top of the ladder.
StartAgain(r) ==
  /\ status[r] \in Alive
  /\ ToneAfter(level[r]) = CapTone
  /\ status' = [status EXCEPT ![r] = "snoozed"]
  /\ level' = [level EXCEPT ![r] = 0]
  /\ UNCHANGED <<told, answered>>

Retire(r) ==
  /\ status[r] \in Alive
  /\ status' = [status EXCEPT ![r] = "done"]
  /\ UNCHANGED <<level, told, answered>>

\* An answer may close, snooze or bring back the reminder it is about.
Answer(r) ==
  /\ \E n \in told[r] : answered' = [answered EXCEPT ![r] = @ \cup {n}]
  /\ \E s \in Alive : status' = [status EXCEPT ![r] = s]
  /\ UNCHANGED <<level, told>>

Delete(gone) ==
  /\ \A r \in gone : status[r] \in Alive
  /\ status' = [r \in Reminders |-> IF r \in gone THEN "deleted" ELSE status[r]]
  /\ level' = [r \in Reminders |-> IF r \in gone THEN 0 ELSE level[r]]
  /\ told' = [r \in Reminders |-> IF r \in gone THEN {} ELSE told[r]]
  /\ answered' = [r \in Reminders |-> IF r \in gone THEN {} ELSE answered[r]]

Next ==
  \/ \E r \in Reminders : Create(r) \/ Nudge(r) \/ StartAgain(r) \/ Retire(r) \/ Answer(r)
  \/ \E gone \in SUBSET Reminders : Delete(gone)

Spec == Init /\ [][Next]_life
=============================================================================
