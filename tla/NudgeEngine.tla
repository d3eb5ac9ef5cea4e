---------------------------- MODULE NudgeEngine ----------------------------
(***************************************************************************)
(* The firing loop (scheduler/nudge_engine.py) running against the         *)
(* reaction handler (bot/handlers/reactions.py) and the commands that      *)
(* create and delete reminders, on one owner's rows of the database.       *)
(*                                                                         *)
(* The scheduler is one process and its ticks never overlap.  The handlers *)
(* are coroutines of the bot and api processes.  They share only Postgres  *)
(* (READ COMMITTED, no row is locked by a SELECT) and the Telegram chat.   *)
(*                                                                         *)
(* A tick reads every due row ONCE (the owner, the event and the trigger's *)
(* nudge logs with it) into a session that commits many times and expires  *)
(* nothing, so for the whole tick it works on that copy.  A session writes *)
(* back only the columns it changed, measured against its copy.            *)
(***************************************************************************)
EXTENDS Tones, QuietHours, FiniteSets

CONSTANTS
  Triggers,        \* ids of the reminders (an event and its one trigger)
  NoTrigger,
  Handlers,        \* reaction coroutines that may be in flight at once
  IntervalAfter,   \* _INTERVAL_AFTER: minutes until the next nudge, by tone
  CapSnooze,       \* CAP_SNOOZE and the 12 hours of silent_12h
  Windows,         \* the settings /quiet and /timezone can choose from
  DefaultWindow,   \* the settings of a newly registered owner
  StartTimes,      \* the dtstart values /add can be given
  MaxLogs,         \* bound: nudge_logs ids handed out
  MaxTime,         \* bound: the last instant of the clock
  MaxFaults        \* bound: ticks killed half way

ASSUME EngineAssumption ==
  /\ NoTrigger \notin Triggers
  /\ IntervalAfter \in [Tones -> Nat \ {0}]
  /\ CapSnooze \in Nat \ {0}
  /\ Windows \subseteq QuietWindow /\ DefaultWindow \in Windows
  /\ StartTimes \subseteq Nat
  /\ MaxLogs \in Nat /\ MaxTime \in Nat /\ MaxFaults \in Nat

VARIABLES
  clock,     \* now, in minutes
  window,    \* the owner's quiet hours and time zone (users row)
  trig,      \* triggers rows, with events.is_active
  logs,      \* nudge_logs rows
  nextLog,   \* the nudge_logs id sequence: never rolled back, never reused
  sent,      \* messages delivered: the log id in the buttons, the reminder
  tick,      \* the session of the tick in flight
  tasks,     \* the sessions of the reaction handlers in flight
  faults     \* ticks killed so far

vars == <<clock, window, trig, logs, nextLog, sent, tick, tasks, faults>>

LogIds == 1 .. MaxLogs
NoTime == -1                                  \* NULL in a timestamp column
NoLog == 0

Actions == {"ack", "snooze_1h", "snooze_tomorrow", "silent_12h"}
NoReaction == "none"

\* TriggerState as far as the program uses it, and the two ways not to exist.
States == {"pending", "snoozed", "done"}
Row == [state : States \cup {"absent", "deleted"}, next : Nat \cup {NoTime},
        tone : Tones, iter : Nat, active : BOOLEAN]
NoRow == [state |-> "absent", next |-> NoTime, tone |-> FirstTone,
          iter |-> 0, active |-> TRUE]
Gone == [NoRow EXCEPT !.state = "deleted"]

LogRow == [trigger : Triggers \cup {NoTrigger}, fired : Nat, tone : Tones,
           reaction : Actions \cup {NoReaction}]
Unlogged == [trigger |-> NoTrigger, fired |-> 0, tone |-> FirstTone,
             reaction |-> NoReaction]

Exists(t) == trig[t].state \in States
LogsOf(t) == {i \in LogIds : logs[i].trigger = t}

-----------------------------------------------------------------------------
(* The sessions.                                                           *)

\* A reaction handler between its read and its commit: the log, and the UPDATE
\* it is about to send.  A column that would not change, measured against the
\* copy the handler read, is left out of it.
KeepState == "keep"
KeepTime == -2
TaskRow == [log : LogIds \cup {NoLog}, reaction : Actions,
            state : States \cup {KeepState}, next : Nat \cup {NoTime, KeepTime}]
NoTask == [log |-> NoLog, reaction |-> "ack", state |-> KeepState, next |-> KeepTime]

\* No tick in flight.
NoTick == [pc |-> "idle", now |-> 0, todo |-> {}, window |-> DefaultWindow,
           loaded |-> [t \in Triggers |-> NoRow],
           silent |-> [t \in Triggers |-> 0], cur |-> NoTrigger, log |-> NoLog]

Idle == tick.pc = "idle"

\* _load_due's WHERE clause at instant `now`.
Due(now) == {t \in Triggers : /\ trig[t].state = "pending"
                              /\ trig[t].next # NoTime
                              /\ trig[t].next <= now}

\* _consecutive_silent_count.  One process fires, so the order of the ids is
\* the order of fired_at.
SilentCount(t) ==
  LET latest == {i \in LogsOf(t) :
                   Cardinality({j \in LogsOf(t) : i < j}) < CapIterations}
      silent == {i \in latest : logs[i].reaction = NoReaction}
  IN  IF Cardinality(latest) < CapIterations /\ silent # latest
      THEN 0 ELSE Cardinality(silent)

\* Slip: the log is inserted without its foreign key, so nothing is locked.
Unlocked(t) == FALSE

\* The tick holds the key-share lock its INSERT into nudge_logs took on t, so
\* a DELETE of t waits; an UPDATE of t does not.
Locked(t) == tick.cur = t

\* t is the next of the loaded rows, in next_fire_at order.
Head(t) == /\ tick.pc = "next"
           /\ t \in tick.todo
           /\ \A u \in tick.todo : tick.loaded[t].next <= tick.loaded[u].next

\* The loop goes on to the next loaded row; after the last one the tick ends.
Proceed(t) ==
  tick' = IF tick.todo = {t}
          THEN NoTick
          ELSE [tick EXCEPT !.pc = "next", !.todo = @ \ {t}, !.cur = NoTrigger,
                            !.log = NoLog, !.loaded[t] = NoRow, !.silent[t] = 0]

QuietAtTick == IsQuiet(tick.now, tick.window)

CapReached(t) == /\ tick.loaded[t].tone = CapTone
                 /\ tick.silent[t] >= CapIterations

\* Slip: the cap resets the tone and forgets the count.
CappedKeepsCount(row) ==
  [row EXCEPT !.state = "snoozed", !.next = tick.now + CapSnooze, !.tone = FirstTone]

\* What the cap writes: snoozed, and the ladder starts again.
Capped(row) ==
  [row EXCEPT !.state = "snoozed", !.next = tick.now + CapSnooze,
              !.tone = FirstTone, !.iter = 0]

\* Slip: the next nudge is planned from the planned time of this one.
NudgedFromPlan(row) ==
  LET old == tick.loaded[tick.cur]
      tone == Escalate(old.tone)
  IN  [row EXCEPT !.next = old.next + IntervalAfter[tone],
                  !.tone = tone, !.iter = old.iter + 1]
\* Slip: the whole row is written back, the state the tick read included.
NudgedWholeRow(row) ==
  LET old == tick.loaded[tick.cur]
      tone == Escalate(old.tone)
  IN  [old EXCEPT !.next = tick.now + IntervalAfter[tone],
                  !.tone = tone, !.iter = old.iter + 1]

\* What a nudge writes.  The state column is not assigned, so it keeps whatever
\* another session has put there.
Nudged(row) ==
  LET old == tick.loaded[tick.cur]
      tone == Escalate(old.tone)
  IN  [row EXCEPT !.next = tick.now + IntervalAfter[tone],
                  !.tone = tone, !.iter = old.iter + 1]

\* Slip: ids are one more than the largest committed one.
LargestPlusOne ==
  1 + Cardinality({i \in LogIds : \E j \in LogIds :
                     i <= j /\ logs[j].trigger # NoTrigger})

\* The id the sequence hands out.
NewLogId == nextLog

-----------------------------------------------------------------------------
Init ==
  /\ clock = 0
  /\ window = DefaultWindow
  /\ trig = [t \in Triggers |-> NoRow]
  /\ logs = [i \in LogIds |-> Unlogged]
  /\ nextLog = 1
  /\ sent = {}
  /\ tick = NoTick
  /\ tasks = [h \in Handlers |-> NoTask]
  /\ faults = 0

-----------------------------------------------------------------------------
(* The tick (NudgeEngine.run_once), one action per commit or outside call.  *)

\* _load_due: the rows that are due, the owner's settings and the reactions
\* recorded so far, all as of this instant.  With nothing due it does nothing.
LoadDue ==
  /\ Idle
  /\ Due(clock) # {}
  /\ tick' = [pc |-> "next", now |-> clock, todo |-> Due(clock), window |-> window,
              loaded |-> [t \in Triggers |-> IF t \in Due(clock) THEN trig[t] ELSE NoRow],
              silent |-> [t \in Triggers |-> IF t \in Due(clock) THEN SilentCount(t) ELSE 0],
              cur |-> NoTrigger, log |-> NoLog]
  /\ UNCHANGED <<clock, window, trig, logs, nextLog, sent, tasks, faults>>

\* The event was switched off: the trigger is closed.  Only the state changes.
Retire(t) ==
  /\ Head(t) /\ Exists(t)
  /\ ~tick.loaded[t].active
  /\ trig' = [trig EXCEPT ![t].state = "done"]
  /\ Proceed(t)
  /\ UNCHANGED <<clock, window, logs, nextLog, sent, tasks, faults>>

\* Quiet hours guard: only next_fire_at moves.
Defer(t) ==
  /\ Head(t) /\ Exists(t)
  /\ tick.loaded[t].active
  /\ QuietAtTick
  /\ \E at \in NextPostQuiet(tick.now, tick.window) :
       trig' = [trig EXCEPT ![t].next = at]
  /\ Proceed(t)
  /\ UNCHANGED <<clock, window, logs, nextLog, sent, tasks, faults>>

\* Cap guard: snooze, and start the ladder again.
CapAndSnooze(t) ==
  /\ Head(t) /\ Exists(t)
  /\ tick.loaded[t].active
  /\ ~QuietAtTick
  /\ CapReached(t)
  /\ trig' = [trig EXCEPT ![t] = Capped(@)]
  /\ Proceed(t)
  /\ UNCHANGED <<clock, window, logs, nextLog, sent, tasks, faults>>

\* Compose the text and flush the INSERT: the log gets its id, which goes into
\* the buttons.  The row itself stays invisible to others until the commit.
Compose(t) ==
  /\ Head(t) /\ Exists(t)
  /\ tick.loaded[t].active
  /\ ~QuietAtTick
  /\ ~CapReached(t)
  /\ nextLog \in LogIds
  /\ tick' = [tick EXCEPT !.pc = "flushed", !.cur = t, !.log = NewLogId]
  /\ nextLog' = nextLog + 1
  /\ UNCHANGED <<clock, window, trig, logs, sent, tasks, faults>>

\* Slip: nothing catches the exception of a send that did reach the chat.
SendRaises ==
  /\ tick.pc = "flushed"
  /\ sent' = sent \cup {[log |-> tick.log, trigger |-> tick.cur]}
  /\ tick' = NoTick
  /\ UNCHANGED <<clock, window, trig, logs, nextLog, tasks, faults>>

\* _compose_message raises what is no LLMError, an SDK client that cannot be made
\* for one: it does so at every tick, and nothing catches it, so the tick ends.
ComposeRaises(t) ==
  /\ Head(t) /\ Exists(t)
  /\ tick.loaded[t].active
  /\ ~QuietAtTick
  /\ ~CapReached(t)
  /\ tick' = NoTick
  /\ UNCHANGED <<clock, window, trig, logs, nextLog, sent, tasks, faults>>

\* send_message returned, or raised after Telegram had taken the message.
SendReaches ==
  /\ tick.pc = "flushed"
  /\ sent' = sent \cup {[log |-> tick.log, trigger |-> tick.cur]}
  /\ tick' = [tick EXCEPT !.pc = "sent"]
  /\ UNCHANGED <<clock, window, trig, logs, nextLog, tasks, faults>>

\* send_message raised and nothing reached the chat: the log is kept all the same.
SendFails ==
  /\ tick.pc = "flushed"
  /\ tick' = [tick EXCEPT !.pc = "sent"]
  /\ UNCHANGED <<clock, window, trig, logs, nextLog, sent, tasks, faults>>

\* Schedule the next nudge and commit it together with the log.
CommitNudge ==
  LET t == tick.cur
  IN  /\ tick.pc = "sent"
      /\ logs' = [logs EXCEPT ![tick.log] =
                    [trigger |-> t, fired |-> tick.now,
                     tone |-> tick.loaded[t].tone, reaction |-> NoReaction]]
      /\ trig' = [trig EXCEPT ![t] = Nudged(@)]
      /\ Proceed(t)
      /\ UNCHANGED <<clock, window, nextLog, sent, tasks, faults>>

\* The row was deleted under the tick: the UPDATE matches nothing, or the
\* INSERT breaks its foreign key.  Nothing catches that, so the whole tick
\* ends and the rows after this one wait for the next.
RowVanished(t) ==
  /\ Head(t) /\ ~Exists(t)
  /\ tick' = NoTick
  /\ UNCHANGED <<clock, window, trig, logs, nextLog, sent, tasks, faults>>

\* The process is killed, restarted or its tick cancelled, or the database
\* connection is lost: what was not committed is rolled back.
TickDies ==
  /\ ~Idle
  /\ faults < MaxFaults
  /\ faults' = faults + 1
  /\ tick' = NoTick
  /\ UNCHANGED <<clock, window, trig, logs, nextLog, sent, tasks>>

EngineStep ==
  \/ LoadDue \/ SendReaches \/ SendFails \/ CommitNudge
  \/ \E t \in Triggers :
       \/ Retire(t) \/ Defer(t) \/ CapAndSnooze(t)
       \/ Compose(t) \/ ComposeRaises(t) \/ RowVanished(t)

-----------------------------------------------------------------------------
(* The reaction handler: a read, then one commit.                           *)

\* Slip: a word that is not a TriggerState.
MisspelledState == [ack |-> "done", snooze_1h |-> "pending",
                    snooze_tomorrow |-> "pending", silent_12h |-> "silent"]

\* _apply_action_to_trigger: the state a button asks for, and the times
\* next_fire_at may get (the jitter picks one).
WantedState == [ack |-> "done", snooze_1h |-> "pending",
                snooze_tomorrow |-> "pending", silent_12h |-> "snoozed"]

WantedTimes(action) ==
  CASE action = "ack"             -> {NoTime}
    [] action = "snooze_1h"       -> {clock + MinutesPerHour}
    [] action = "snooze_tomorrow" -> NextPostQuiet(clock, window)
    [] action = "silent_12h"      -> {clock + CapSnooze}

\* The owner taps a button of a delivered message.  The handler reads the log
\* with its trigger and its owner, and works out the new columns.  A log that
\* does not exist, or that has a reaction already, is only answered: no change.
\* (Two computed times never coincide, so only NULL can be found unchanged.)
TapLoad(h, action) ==
  \E m \in sent :
    LET log == logs[m.log]
        row == trig[log.trigger]
    IN  /\ tasks[h] = NoTask
        /\ log.trigger # NoTrigger
        /\ log.reaction = NoReaction
        /\ \E next \in WantedTimes(action) :
             tasks' = [tasks EXCEPT ![h] =
               [log |-> m.log, reaction |-> action,
                state |-> IF row.state = WantedState[action]
                          THEN KeepState ELSE WantedState[action],
                next |-> IF row.next = NoTime /\ next = NoTime THEN KeepTime ELSE next]]
        /\ UNCHANGED <<clock, window, trig, logs, nextLog, sent, tick, faults>>

\* The commit: the reaction and the trigger, in one transaction.  It fails when
\* the rows are gone.
TapCommit(h) ==
  LET task == tasks[h]
      t == logs[task.log].trigger
  IN  /\ task # NoTask
      /\ t # NoTrigger
      /\ logs' = [logs EXCEPT ![task.log].reaction = task.reaction]
      /\ trig' = [trig EXCEPT
                   ![t].state = IF task.state = KeepState THEN @ ELSE task.state,
                   ![t].next = IF task.next = KeepTime THEN @ ELSE task.next]
      /\ tasks' = [tasks EXCEPT ![h] = NoTask]
      /\ UNCHANGED <<clock, window, nextLog, sent, tick, faults>>

\* The transaction is rolled back: rows gone, connection lost, process killed.
TapFails(h) ==
  /\ tasks[h] # NoTask
  /\ tasks' = [tasks EXCEPT ![h] = NoTask]
  /\ UNCHANGED <<clock, window, trig, logs, nextLog, sent, tick, faults>>

TapStep == \E h \in Handlers : \/ \E action \in Actions : TapLoad(h, action)
                              \/ TapCommit(h)
                              \/ TapFails(h)

-----------------------------------------------------------------------------
(* The owner's commands, and the clock.                                     *)

\* /add: the event and its one-shot trigger, in one transaction.
AddEvent(t) ==
  /\ trig[t].state = "absent"
  /\ \E at \in StartTimes :
       trig' = [trig EXCEPT ![t].state = "pending", ![t].next = at]
  /\ UNCHANGED <<clock, window, logs, nextLog, sent, tick, tasks, faults>>

\* Deleting an event takes its trigger and its logs along (ON DELETE CASCADE).
Erase(gone) ==
  /\ \A t \in gone : ~Locked(t)
  /\ trig' = [t \in Triggers |-> IF t \in gone THEN Gone ELSE trig[t]]
  /\ logs' = [i \in LogIds |-> IF logs[i].trigger \in gone THEN Unlogged ELSE logs[i]]
  /\ UNCHANGED <<clock, nextLog, sent, tick, tasks, faults>>

\* /delete.
DeleteEvent(t) ==
  /\ Exists(t)
  /\ Erase({t})
  /\ UNCHANGED window

\* /forget, confirmed: the user row goes and everything with it.  The next
\* update from the chat registers the owner again, with the default settings.
Forget ==
  /\ \E t \in Triggers : Exists(t)
  /\ Erase({t \in Triggers : Exists(t)})
  /\ window' = DefaultWindow

\* /quiet: other hours in the same zone, and /timezone: the same hours in another.
SetWindow(w) ==
  /\ window' = w
  /\ UNCHANGED <<clock, trig, logs, nextLog, sent, tick, tasks, faults>>
SetQuiet(w) == w.offset = window.offset /\ SetWindow(w)
SetTimezone(w) == w.from = window.from /\ w.to = window.to /\ SetWindow(w)

\* Nothing under src/ clears events.is_active; the operator can.
Deactivate(t) ==
  /\ Exists(t)
  /\ trig' = [trig EXCEPT ![t].active = FALSE]
  /\ UNCHANGED <<clock, window, logs, nextLog, sent, tick, tasks, faults>>

Advance ==
  /\ clock < MaxTime
  /\ clock' = clock + 1
  /\ UNCHANGED <<window, trig, logs, nextLog, sent, tick, tasks, faults>>

OwnerStep == \/ \E t \in Triggers : AddEvent(t) \/ DeleteEvent(t) \/ Deactivate(t)
             \/ Forget
             \/ \E w \in Windows : SetQuiet(w) \/ SetTimezone(w)

Next == EngineStep \/ TickDies \/ TapStep \/ OwnerStep \/ Advance

Spec == Init /\ [][Next]_vars

\* supervisord keeps the scheduler running and APScheduler starts a tick every
\* minute, so a step the tick can take is taken in the end.  Nothing is assumed
\* of the owner, of the handlers or of the clock.
FairSpec == Spec /\ WF_vars(EngineStep)

-----------------------------------------------------------------------------
(* Properties.                                                              *)

\* Every variable keeps its shape.
TypeOK ==
  /\ clock \in Nat
  /\ window \in Windows
  /\ trig \in [Triggers -> Row]
  /\ logs \in [LogIds -> LogRow]
  /\ nextLog \in Nat \ {0}
  /\ sent \subseteq [log : LogIds, trigger : Triggers]
  /\ tick \in [pc : {"idle", "next", "flushed", "sent"}, now : Nat,
               todo : SUBSET Triggers, window : Windows,
               loaded : [Triggers -> Row], silent : [Triggers -> Nat],
               cur : Triggers \cup {NoTrigger}, log : LogIds \cup {NoLog}]
  /\ tasks \in [Handlers -> TaskRow]
  /\ faults \in Nat

\* The copy a tick works on has not been overtaken where that would matter: of
\* the rows still to be processed, those that exist carry the tone and the count
\* that were read, and the row whose log is already inserted exists.
CopyCurrent ==
  /\ \A t \in tick.todo :
       /\ trig[t].state # "absent"
       /\ Exists(t) => /\ tick.loaded[t].tone = trig[t].tone
                       /\ tick.loaded[t].iter = trig[t].iter
  /\ tick.pc = "idle" => tick.todo = {}
  /\ tick.pc \in {"idle", "next"} => tick.cur = NoTrigger
  /\ tick.pc \in {"flushed", "sent"} =>
       tick.cur \in tick.todo /\ Exists(tick.cur) /\ tick.log \in LogIds

\* A reminder not created yet has the defaults of the columns.
AbsentIsBlank == \A t \in Triggers : trig[t].state = "absent" => trig[t] = NoRow

\* Ids are handed out once: the log in flight, the logs of the table and the
\* buttons in the chat all carry ids the sequence has passed, and the id of the
\* log in flight is in no row and only in the message of that same nudge.
IdsFresh ==
  /\ \A i \in LogIds : logs[i].trigger # NoTrigger => i < nextLog
  /\ \A m \in sent : m.log < nextLog
  /\ tick.pc \in {"flushed", "sent"} =>
       /\ tick.log < nextLog
       /\ logs[tick.log].trigger = NoTrigger
       /\ \A m \in sent : m.log = tick.log => m.trigger = tick.cur

\* A log belongs to a reminder that exists: a deletion takes the logs along, also
\* the one whose INSERT it has to wait for.
LogsHaveRow == \A i \in LogIds : logs[i].trigger # NoTrigger => Exists(logs[i].trigger)

TaskHasLog == \A h \in Handlers : tasks[h] # NoTask => tasks[h].log \in LogIds

\* The tone of a reminder is the one its iteration count calls for, although
\* the tick computes both from a copy other sessions write past
\* (nudge_engine.py:209-212): no step is lost or taken twice.
ToneTracksIteration ==
  \A t \in Triggers : Exists(t) => trig[t].tone = ToneAfter(trig[t].iter)

\* The buttons of a delivered message either answer "not for you" or act on the
\* reminder the message was about, also when its log was rolled back after the
\* message had left (nudge_engine.py:173-198).
ButtonsPointHome ==
  \A m \in sent : logs[m.log].trigger \in {NoTrigger, m.trigger}

\* What the ticks and the handlers preserve together: the inductive invariant of
\* the proofs (nudge_engine.py:96-217, reactions.py:73-104).
SessionInvariant ==
  /\ TypeOK /\ CopyCurrent /\ AbsentIsBlank /\ IdsFresh /\ LogsHaveRow /\ TaskHasLog
  /\ ToneTracksIteration /\ ButtonsPointHome

\* The nudges of t before log i, the last three of them.
LastBefore(t, i) ==
  {j \in LogsOf(t) :
     j < i /\ Cardinality({k \in LogsOf(t) : j < k /\ k < i}) < CapIterations}

\* After three HARD nudges without a reaction a reminder gets no fourth, although
\* the count is taken from a copy and the ladder stays at HARD: an ignored
\* reminder does not go on for ever (nudge_engine.py:10-14).
HardStopsAtThree ==
  \A t \in Triggers : \A i \in LogsOf(t) :
    logs[i].tone = CapTone /\ Cardinality(LastBefore(t, i)) = CapIterations
      => \E j \in LastBefore(t, i) : logs[j].tone # CapTone \/ logs[j].reaction # NoReaction

\* As long as nobody reacts, two nudges of a reminder are at least the interval
\* of the later one's tone apart (nudge_engine.py:211-216).
IgnoredNudgesPaced ==
  \A t \in Triggers :
    (\A i \in LogsOf(t) : logs[i].reaction = NoReaction)
      => \A i, j \in LogsOf(t) :
           i < j => logs[i].fired + IntervalAfter[logs[j].tone] <= logs[j].fired

\* Messages whose log is lost, so that the nudge is sent again and the buttons
\* of the first copy are dead, are no more than the ticks killed half way: a
\* failing send does not make one (nudge_engine.py:195-206).
OrphanedMessages ==
  {m \in sent : /\ Exists(m.trigger)
                /\ logs[m.log].trigger = NoTrigger
                /\ m.log # tick.log}
OrphansNeedFaults == Cardinality(OrphanedMessages) <= faults

\* Only the commit of a snooze button brings a closed or snoozed reminder back:
\* a tick that read it while it was pending does not, nor does another button
\* whose handler read it before it was closed (nudge_engine.py:209-217 and
\* reactions.py:143-170, which leave out the columns they did not change).
OnlySnoozeRevives ==
  [][\A t \in Triggers :
       trig[t].state \in {"snoozed", "done"} /\ trig'[t].state = "pending"
         => \E h \in Handlers : /\ tasks[h].log \in LogsOf(t)
                               /\ tasks[h].state = "pending"
                               /\ tasks'[h] = NoTask]_vars

\* From some time on no text fails to be composed.
ComposeRecovers == <>[][~\E t \in Triggers : ComposeRaises(t)]_vars

\* If composing a text raises only so often, a reminder that is due does not stay
\* due: some tick nudges, defers, caps or closes it, or its owner moves or removes
\* it, in spite of the ticks that die, of the texts that raise and of the rows that
\* vanish under others (nudge_engine.py:96-103).  Without the condition one row
\* that raises at every tick keeps itself and all rows after it due for ever.
DueIsHandled ==
  ComposeRecovers => \A t \in Triggers : t \in Due(clock) ~> t \notin Due(clock)

-----------------------------------------------------------------------------
(* What the comments and the texts promise and the code does not keep: the  *)
(* configurations engine_v_* find each of these violated.                   *)

\* "snooze the trigger for 12 h" (nudge_engine.py:12), "silent for 12 hours"
\* (README.md:29): a snoozed reminder whose time has come leaves the snooze.
SnoozeEnds ==
  \A t \in Triggers :
    trig[t].state = "snoozed" /\ trig[t].next <= clock
      ~> ~(trig[t].state = "snoozed" /\ trig[t].next <= clock)

\* "ack -> Trigger.state = DONE, no further fires" (reactions.py:12): once a
\* nudge was acknowledged, no message about that reminder leaves any more.
AckSilences ==
  [][\A m \in sent' \ sent :
       \A i \in LogsOf(m.trigger) : logs[i].reaction # "ack"]_vars

\* "Idempotency: if reaction already set, just acknowledge" (reactions.py:91).
ReactionWrittenOnce ==
  [][\A i \in LogIds : logs[i].reaction # NoReaction /\ logs'[i].trigger # NoTrigger
       => logs'[i].reaction = logs[i].reaction]_vars

\* "snooze_1h -> next_fire_at = now + 1h" (reactions.py:13): unless its owner
\* does something, a pending reminder set for later is not pulled forward.
SnoozeKept ==
  [][\A t \in Triggers :
       /\ trig[t].state = "pending" /\ clock < trig[t].next
       /\ trig'[t].state = "pending" /\ tasks' = tasks
       => trig[t].next <= trig'[t].next]_vars

\* "Reach CAP_TONE + this many silent iterations -> 12h snooze + reset"
\* (tones.py:48): a reminder the cap snoozes had that many HARD nudges without a
\* reaction.
CapAfterHard ==
  [][\A t \in Triggers :
       trig[t].iter > 0 /\ Exists(t) /\ trig'[t].state = "snoozed" /\ trig'[t].iter = 0
         => Cardinality({i \in LogsOf(t) : logs[i].tone = CapTone /\ logs[i].reaction = NoReaction})
              >= CapIterations]_vars

\* "the user has ignored 3 consecutive nudges (user_reaction IS NULL on the last
\* N logs)" (nudge_engine.py:10-12) when the cap snoozes a reminder.
CapMeansIgnored ==
  [][\A t \in Triggers :
       trig[t].iter > 0 /\ Exists(t) /\ trig'[t].state = "snoozed" /\ trig'[t].iter = 0
         => SilentCount(t) >= CapIterations]_vars

\* "don't fire reminders during sleep window" (quiet_hours.py:3): no message
\* leaves inside the owner's quiet hours.
QuietKept ==
  [][sent' # sent => ~IsQuiet(clock, window)]_vars
=============================================================================
