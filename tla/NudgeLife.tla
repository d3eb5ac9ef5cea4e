----------------------------- MODULE NudgeLife -----------------------------
(***************************************************************************)
(* NudgeEngine implements Reminder: the trigger's state and iteration count*)
(* are the status and the level, its rows of nudge_logs the recorded       *)
(* nudges, those with a user_reaction the answered ones.  A message on its *)
(* way, a tick's copy and a handler between read and commit are no part of *)
(* the reminder: they become visible with the commit that ends them.       *)
(***************************************************************************)
EXTENDS NudgeEngine

Answered(t) == {i \in LogsOf(t) : logs[i].reaction # NoReaction}

Life == INSTANCE Reminder WITH
  Reminders <- Triggers,
  Nudges    <- LogIds,
  status    <- [t \in Triggers |-> trig[t].state],
  level     <- [t \in Triggers |-> trig[t].iter],
  told      <- [t \in Triggers |-> LogsOf(t)],
  answered  <- [t \in Triggers |-> Answered(t)]

\* Whatever ticks, handlers and commands do to each other's rows, every commit
\* is one step in the life of a reminder, or of none: the log and the step up
\* the ladder appear together, nothing closed comes back without an answer to
\* one of its own nudges, nothing deleted comes back at all
\* (nudge_engine.py:105-217, reactions.py:73-170, events.py, forget.py).
ImplementsReminder == Life!Spec
=============================================================================
