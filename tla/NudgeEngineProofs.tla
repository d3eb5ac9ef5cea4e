------------------------- MODULE NudgeEngineProofs -------------------------
(***************************************************************************)
(* Proofs about NudgeEngine for every set of reminders and handlers, every *)
(* bound, every interval and every quiet window: the invariant the sessions*)
(* rely on, the refinement of Reminder, how often, how harshly and how soon*)
(* a reminder is nudged under any reactions and crashes, and how many      *)
(* messages lose their log.                                                *)
(***************************************************************************)
EXTENDS NudgeLife, TLAPS, FiniteSetTheorems, WellFoundedInduction

-----------------------------------------------------------------------------
(* The operators the actions are built from.                               *)

LEMMA LadderStep ==
  /\ ToneAfter(0) = FirstTone
  /\ \A n \in Nat : /\ ToneAfter(n) \in Tones
                    /\ Escalate(ToneAfter(n)) = ToneAfter(n + 1)
<1>1. ToneAfter(0) = FirstTone
  BY DEF ToneAfter, ToneOrder, FirstTone
<1>2. ASSUME NEW n \in Nat
      PROVE  ToneAfter(n) \in Tones /\ Escalate(ToneAfter(n)) = ToneAfter(n + 1)
  <2>1. n = 0 \/ n = 1 \/ n = 2 \/ n >= 3
    OBVIOUS
  <2>2. CASE n = 0
    BY <2>2 DEF ToneAfter, ToneOrder, Escalate, CapTone, Tones
  <2>3. CASE n = 1
    BY <2>3 DEF ToneAfter, ToneOrder, Escalate, CapTone, Tones
  <2>4. CASE n = 2
    BY <2>4 DEF ToneAfter, ToneOrder, Escalate, CapTone, Tones
  <2>5. CASE n >= 3
    BY <2>5 DEF ToneAfter, Escalate, CapTone, Tones
  <2>6. QED
    BY <2>1, <2>2, <2>3, <2>4, <2>5
<1>3. QED
  BY <1>1, <1>2

LEMMA EscalateType ==
  ASSUME NEW tone \in Tones
  PROVE  Escalate(tone) \in Tones
  BY DEF Escalate, Tones, CapTone

\* A post-quiet time lies ahead.
LEMMA PostQuietAhead ==
  ASSUME NEW t \in Nat, NEW w \in QuietWindow, NEW at \in NextPostQuiet(t, w)
  PROVE  at \in Nat /\ t < at
<1> DEFINE r == Local(t, w) % Day
           end == w.to * MinutesPerHour
<1>1. Day \in Nat \ {0}
  BY QuietAssumption, Z3 DEF Day
<1>2. end \in Nat
  BY QuietAssumption, Z3 DEF QuietWindow, Hours
<1>3. Local(t, w) \in Nat /\ w.offset \in Nat /\ Local(t, w) = t + w.offset
  BY <1>1 DEF QuietWindow, Local
<1>4. r \in 0 .. (Day - 1)
  BY <1>1, <1>3, Z3
<1> HIDE DEF r, end
<1>5. WindowEnd(t, w) \in Int /\ t < WindowEnd(t, w)
  <2>1. WindowEnd(t, w) = (IF Local(t, w) - r + end <= Local(t, w)
                           THEN Local(t, w) - r + end + Day
                           ELSE Local(t, w) - r + end) - w.offset
    BY DEF WindowEnd, r, end
  <2>2. QED
    BY <1>1, <1>2, <1>3, <1>4, <2>1
<1>6. PICK j \in Nat : at = WindowEnd(t, w) + j
  BY QuietAssumption DEF NextPostQuiet
<1>7. QED
  BY <1>5, <1>6

LEMMA SilentCountType ==
  ASSUME NEW t
  PROVE  SilentCount(t) \in Nat
<1> DEFINE latest == {i \in LogsOf(t) :
                        Cardinality({j \in LogsOf(t) : i < j}) < CapIterations}
           silent == {i \in latest : logs[i].reaction = NoReaction}
<1>1. IsFiniteSet(silent)
  <2>1. IsFiniteSet(LogIds)
    BY FS_Interval, EngineAssumption DEF LogIds
  <2>2. silent \subseteq LogIds
    BY DEF LogsOf
  <2>3. QED
    BY <2>1, <2>2, FS_Subset
<1>2. Cardinality(silent) \in Nat
  BY <1>1, FS_CardinalityType
<1>3. QED
  BY <1>2 DEF SilentCount

LEMMA WantedType ==
  ASSUME TypeOK, NEW action \in Actions
  PROVE  /\ WantedState[action] \in States
         /\ WantedTimes(action) \subseteq Nat \cup {NoTime}
<1>1. window \in QuietWindow
  BY EngineAssumption DEF TypeOK
<1>2. WantedState[action] \in States
  BY DEF WantedState, Actions, States
<1>3. CASE action = "ack"
  BY <1>2, <1>3 DEF WantedTimes
<1>4. CASE action = "snooze_1h"
  BY <1>2, <1>4, QuietAssumption DEF WantedTimes, TypeOK
<1>5. CASE action = "snooze_tomorrow"
  BY <1>1, <1>2, <1>5, PostQuietAhead DEF WantedTimes, TypeOK
<1>6. CASE action = "silent_12h"
  BY <1>2, <1>6, EngineAssumption DEF WantedTimes, TypeOK
<1>7. QED
  BY <1>3, <1>4, <1>5, <1>6 DEF Actions

-----------------------------------------------------------------------------
(* The invariant.                                                          *)

LEMMA NoTickType ==
  /\ NoTick.pc = "idle" /\ NoTick.todo = {} /\ NoTick.cur = NoTrigger
  /\ NoTick \in [pc : {"idle", "next", "flushed", "sent"}, now : Nat,
                 todo : SUBSET Triggers, window : Windows,
                 loaded : [Triggers -> Row], silent : [Triggers -> Nat],
                 cur : Triggers \cup {NoTrigger}, log : LogIds \cup {NoLog}]
<1>1. NoRow \in Row
  BY DEF NoRow, Row, States, FirstTone, Tones
<1>2. QED
  BY <1>1, EngineAssumption DEF NoTick, NoLog

LEMMA InitInvariant == Init => SessionInvariant
<1> SUFFICES ASSUME Init PROVE SessionInvariant
  OBVIOUS
<1>1. NoRow \in Row /\ Unlogged \in LogRow /\ NoTask \in TaskRow
  BY DEF NoRow, Row, States, FirstTone, Tones, Unlogged, LogRow, NoReaction, NoTask,
         TaskRow, Actions, NoLog, KeepState, KeepTime
<1>2. TypeOK
  BY <1>1, NoTickType, EngineAssumption DEF Init, TypeOK
<1>3. CopyCurrent
  BY NoTickType DEF Init, CopyCurrent
<1>4. AbsentIsBlank /\ TaskHasLog
  BY DEF Init, AbsentIsBlank, TaskHasLog
<1>5. IdsFresh /\ LogsHaveRow /\ ButtonsPointHome
  BY NoTickType DEF Init, IdsFresh, LogsHaveRow, ButtonsPointHome, Unlogged
<1>6. ToneTracksIteration
  BY DEF Init, ToneTracksIteration, Exists, NoRow, States
<1>7. QED
  BY <1>2, <1>3, <1>4, <1>5, <1>6 DEF SessionInvariant

\* A tick that ends, by itself or not, leaves only the rows to look at.
LEMMA TickEnds ==
  ASSUME SessionInvariant, tick' = NoTick,
         UNCHANGED <<clock, window, trig, logs, nextLog, sent, tasks>>,
         faults' \in Nat
  PROVE  SessionInvariant'
<1>1. TypeOK'
  BY NoTickType DEF SessionInvariant, TypeOK
<1>2. CopyCurrent'
  BY NoTickType DEF CopyCurrent
<1>3. (AbsentIsBlank /\ TaskHasLog)'
  BY DEF SessionInvariant, AbsentIsBlank, TaskHasLog
<1>4. (IdsFresh /\ ButtonsPointHome)'
  BY NoTickType DEF SessionInvariant, IdsFresh, ButtonsPointHome
<1>5. (ToneTracksIteration /\ LogsHaveRow)'
  BY DEF SessionInvariant, ToneTracksIteration, LogsHaveRow, Exists
<1>6. QED
  BY <1>1, <1>2, <1>3, <1>4, <1>5 DEF SessionInvariant

\* Going on to the next row keeps the copies of the others.
LEMMA ProceedKeeps ==
  ASSUME TypeOK, NEW t \in tick.todo, Proceed(t)
  PROVE  /\ tick' \in [pc : {"idle", "next"}, now : Nat,
                      todo : SUBSET Triggers, window : Windows,
                      loaded : [Triggers -> Row], silent : [Triggers -> Nat],
                      cur : {NoTrigger}, log : {NoLog}]
         /\ tick'.todo = tick.todo \ {t}
         /\ tick'.pc = "idle" => tick'.todo = {}
         /\ \A u \in tick'.todo : tick'.loaded[u] = tick.loaded[u]
<1>1. NoRow \in Row /\ t \in Triggers
  BY DEF NoRow, Row, States, FirstTone, Tones, TypeOK
<1>2. CASE tick.todo = {t}
  BY <1>1, <1>2, EngineAssumption DEF Proceed, NoTick, TypeOK, NoLog
<1>3. CASE tick.todo # {t}
  BY <1>1, <1>3 DEF Proceed, TypeOK, NoLog
<1>4. QED
  BY <1>2, <1>3

\* The three commits that write a row without a log.
LEMMA RowWritten ==
  ASSUME SessionInvariant, NEW t \in Triggers, Head(t), Proceed(t),
         NEW row \in Row, row.state \in States, row.tone = ToneAfter(row.iter),
         trig' = [trig EXCEPT ![t] = row],
         UNCHANGED <<clock, window, logs, nextLog, sent, tasks, faults>>
  PROVE  SessionInvariant'
<1>1. t \in tick.todo /\ TypeOK
  BY DEF Head, SessionInvariant
<1>2. /\ tick' \in [pc : {"idle", "next"}, now : Nat,
                   todo : SUBSET Triggers, window : Windows,
                   loaded : [Triggers -> Row], silent : [Triggers -> Nat],
                   cur : {NoTrigger}, log : {NoLog}]
      /\ tick'.todo = tick.todo \ {t}
      /\ tick'.pc = "idle" => tick'.todo = {}
      /\ \A u \in tick'.todo : tick'.loaded[u] = tick.loaded[u]
  BY <1>1, ProceedKeeps
<1>3. \A u \in Triggers : u # t => trig'[u] = trig[u]
  BY <1>1 DEF TypeOK
<1>4. trig'[t] = row
  BY <1>1 DEF TypeOK
<1>5. TypeOK'
  BY <1>1, <1>2 DEF TypeOK
<1>6. CopyCurrent'
  <2>1. \A u \in tick'.todo : /\ trig'[u].state # "absent"
                              /\ Exists(u)' => /\ tick'.loaded[u].tone = trig'[u].tone
                                               /\ tick'.loaded[u].iter = trig'[u].iter
    BY <1>1, <1>2, <1>3 DEF SessionInvariant, CopyCurrent, Exists, TypeOK
  <2>2. QED
    BY <1>2, <2>1 DEF CopyCurrent
<1>7. AbsentIsBlank'
  BY <1>3, <1>4 DEF SessionInvariant, AbsentIsBlank, States
<1>8. TaskHasLog' /\ ButtonsPointHome'
  BY DEF SessionInvariant, TaskHasLog, ButtonsPointHome
<1>9. IdsFresh'
  BY <1>2 DEF SessionInvariant, IdsFresh
<1>10. (ToneTracksIteration /\ LogsHaveRow)'
  BY <1>1, <1>3, <1>4 DEF SessionInvariant, ToneTracksIteration, LogsHaveRow, Exists,
                          TypeOK, LogRow
<1>11. QED
  BY <1>5, <1>6, <1>7, <1>8, <1>9, <1>10 DEF SessionInvariant

LEMMA RetireKeeps ==
  ASSUME SessionInvariant, NEW t \in Triggers, Retire(t)
  PROVE  SessionInvariant'
<1> DEFINE row == [trig[t] EXCEPT !.state = "done"]
<1>1. trig[t] \in Row /\ trig[t].tone = ToneAfter(trig[t].iter)
  BY DEF SessionInvariant, TypeOK, ToneTracksIteration, Retire
<1>2. row \in Row /\ row.state \in States /\ row.tone = ToneAfter(row.iter)
  BY <1>1 DEF Row, States
<1>3. trig' = [trig EXCEPT ![t] = row]
  BY DEF Retire
<1> HIDE DEF row
<1>4. QED
  BY <1>2, <1>3, RowWritten DEF Retire

LEMMA DeferKeeps ==
  ASSUME SessionInvariant, NEW t \in Triggers, Defer(t)
  PROVE  SessionInvariant'
<1>1. PICK at \in NextPostQuiet(tick.now, tick.window) :
        trig' = [trig EXCEPT ![t].next = at]
  BY DEF Defer
<1> DEFINE row == [trig[t] EXCEPT !.next = at]
<1>2. tick.now \in Nat /\ tick.window \in QuietWindow
  BY EngineAssumption DEF SessionInvariant, TypeOK
<1>3. at \in Nat
  BY <1>2, PostQuietAhead
<1>4. trig[t] \in Row /\ trig[t].state \in States /\ trig[t].tone = ToneAfter(trig[t].iter)
  BY DEF SessionInvariant, TypeOK, ToneTracksIteration, Defer, Exists
<1>5. row \in Row /\ row.state \in States /\ row.tone = ToneAfter(row.iter)
  BY <1>3, <1>4 DEF Row
<1>6. trig' = [trig EXCEPT ![t] = row]
  BY <1>1
<1> HIDE DEF row
<1>7. QED
  BY <1>5, <1>6, RowWritten DEF Defer

LEMMA CapKeeps ==
  ASSUME SessionInvariant, NEW t \in Triggers, CapAndSnooze(t)
  PROVE  SessionInvariant'
<1> DEFINE row == Capped(trig[t])
<1>1. trig[t] \in Row /\ tick.now \in Nat /\ CapSnooze \in Nat
  BY EngineAssumption DEF SessionInvariant, TypeOK
<1>2. row \in Row /\ row.state \in States /\ row.tone = FirstTone /\ row.iter = 0
  <2>1. ASSUME NEW n \in Nat, NEW r \in Row
        PROVE  LET c == [r EXCEPT !.state = "snoozed", !.next = n,
                                  !.tone = FirstTone, !.iter = 0]
               IN  c \in Row /\ c.state \in States /\ c.tone = FirstTone /\ c.iter = 0
    BY DEF Row, States, FirstTone, Tones
  <2>2. tick.now + CapSnooze \in Nat
    BY <1>1
  <2>3. QED
    BY <1>1, <2>1, <2>2 DEF Capped
<1>3. row.tone = ToneAfter(row.iter)
  BY <1>2, LadderStep
<1>4. trig' = [trig EXCEPT ![t] = row]
  BY DEF CapAndSnooze
<1> HIDE DEF row
<1>5. QED
  BY <1>2, <1>3, <1>4, RowWritten DEF CapAndSnooze

\* The due rows are copied at the instant they are read: the copy is current.
LEMMA LoadKeeps ==
  ASSUME SessionInvariant, LoadDue
  PROVE  SessionInvariant'
<1>1. TypeOK
  BY DEF SessionInvariant
<1>2. Due(clock) \subseteq Triggers
  BY DEF Due
<1>3. NoRow \in Row
  BY DEF NoRow, Row, States, FirstTone, Tones
<1> DEFINE rows == [t \in Triggers |-> IF t \in Due(clock) THEN trig[t] ELSE NoRow]
           counts == [t \in Triggers |-> IF t \in Due(clock) THEN SilentCount(t) ELSE 0]
<1>4. rows \in [Triggers -> Row]
  BY <1>1, <1>3 DEF TypeOK
<1>5. counts \in [Triggers -> Nat]
  BY SilentCountType
<1>6. \A t \in Due(clock) : rows[t] = trig[t]
  BY <1>2
<1>7. tick' = [pc |-> "next", now |-> clock, todo |-> Due(clock), window |-> window,
               loaded |-> rows, silent |-> counts, cur |-> NoTrigger, log |-> NoLog]
  BY DEF LoadDue
<1>8. UNCHANGED <<clock, window, trig, logs, nextLog, sent, tasks, faults>>
  BY DEF LoadDue
<1> HIDE DEF rows, counts
<1>9. TypeOK'
  BY <1>1, <1>2, <1>4, <1>5, <1>7, <1>8 DEF TypeOK
<1>10. CopyCurrent'
  <2>1. \A t \in Due(clock) : trig[t].state # "absent"
    BY DEF Due
  <2>2. QED
    BY <1>6, <1>7, <1>8, <2>1 DEF CopyCurrent, Exists
<1>11. (AbsentIsBlank /\ LogsHaveRow /\ TaskHasLog /\ ButtonsPointHome /\ ToneTracksIteration)'
  BY <1>8 DEF SessionInvariant, AbsentIsBlank, LogsHaveRow, TaskHasLog, ButtonsPointHome,
              ToneTracksIteration, Exists
<1>12. IdsFresh'
  BY <1>7, <1>8 DEF SessionInvariant, IdsFresh
<1>13. QED
  BY <1>9, <1>10, <1>11, <1>12 DEF SessionInvariant

\* The id of a new log is in no row and in no message: the sequence never
\* hands out an id twice.
LEMMA ComposeKeeps ==
  ASSUME SessionInvariant, NEW t \in Triggers, Compose(t)
  PROVE  SessionInvariant'
<1>1. TypeOK /\ CopyCurrent /\ IdsFresh
  BY DEF SessionInvariant
<1>2. /\ tick' = [tick EXCEPT !.pc = "flushed", !.cur = t, !.log = nextLog]
      /\ nextLog' = nextLog + 1 /\ nextLog \in LogIds
      /\ t \in tick.todo /\ Exists(t)
      /\ UNCHANGED <<clock, window, trig, logs, sent, tasks, faults>>
  BY DEF Compose, Head, NewLogId
<1>3. /\ tick'.pc = "flushed" /\ tick'.cur = t /\ tick'.log = nextLog
      /\ tick'.todo = tick.todo /\ tick'.loaded = tick.loaded
  BY <1>1, <1>2 DEF TypeOK
<1>4. TypeOK'
  <2>1. nextLog + 1 \in Nat \ {0}
    BY <1>1 DEF TypeOK
  <2>2. t \in Triggers \cup {NoTrigger} /\ nextLog \in LogIds \cup {NoLog}
    BY <1>2
  <2>3. tick' \in [pc : {"idle", "next", "flushed", "sent"}, now : Nat,
                   todo : SUBSET Triggers, window : Windows,
                   loaded : [Triggers -> Row], silent : [Triggers -> Nat],
                   cur : Triggers \cup {NoTrigger}, log : LogIds \cup {NoLog}]
    BY <1>1, <1>2, <2>2 DEF TypeOK
  <2>4. QED
    BY <1>1, <1>2, <2>1, <2>3 DEF TypeOK
<1>5. CopyCurrent'
  BY <1>1, <1>2, <1>3 DEF CopyCurrent, Exists
<1>6. (AbsentIsBlank /\ LogsHaveRow /\ TaskHasLog /\ ButtonsPointHome /\ ToneTracksIteration)'
  BY <1>2 DEF SessionInvariant, AbsentIsBlank, LogsHaveRow, TaskHasLog, ButtonsPointHome,
              ToneTracksIteration, Exists
<1>7. IdsFresh'
  <2>1. nextLog \in Nat
    BY <1>1 DEF TypeOK
  <2>2. \A i \in LogIds : logs[i].trigger # NoTrigger => i < nextLog + 1
    <3>1. \A i \in LogIds : i \in Int
      BY EngineAssumption DEF LogIds
    <3>2. QED
      BY <1>1, <2>1, <3>1 DEF IdsFresh
  <2>3. \A m \in sent : m.log < nextLog /\ m.log \in Int
    BY <1>1, EngineAssumption DEF IdsFresh, TypeOK, LogIds
  <2>4. \A m \in sent : m.log < nextLog + 1 /\ m.log # nextLog
    BY <2>1, <2>3
  <2>5. logs[nextLog].trigger = NoTrigger
    BY <1>1, <1>2, <2>1 DEF IdsFresh
  <2>6. nextLog < nextLog + 1
    BY <2>1
  <2>7. QED
    BY <1>2, <1>3, <2>2, <2>4, <2>5, <2>6 DEF IdsFresh
<1>8. QED
  BY <1>4, <1>5, <1>6, <1>7 DEF SessionInvariant

\* A message that leaves carries the id of the log in flight, which no row has
\* yet: its buttons are dead until the commit.
LEMMA SendKeeps ==
  ASSUME SessionInvariant, SendReaches \/ SendFails
  PROVE  SessionInvariant'
<1> DEFINE m == [log |-> tick.log, trigger |-> tick.cur]
<1>1. TypeOK /\ CopyCurrent /\ IdsFresh
  BY DEF SessionInvariant
<1>2. /\ tick.pc = "flushed"
      /\ sent' = sent \/ sent' = sent \cup {m}
      /\ tick' = [tick EXCEPT !.pc = "sent"]
      /\ UNCHANGED <<clock, window, trig, logs, nextLog, tasks, faults>>
  BY DEF SendReaches, SendFails
<1>3. /\ tick.cur \in tick.todo /\ Exists(tick.cur) /\ tick.log \in LogIds
      /\ tick.log < nextLog /\ logs[tick.log].trigger = NoTrigger
  BY <1>1, <1>2 DEF CopyCurrent, IdsFresh
<1>4. /\ tick'.pc = "sent" /\ tick'.cur = tick.cur /\ tick'.log = tick.log
      /\ tick'.todo = tick.todo /\ tick'.loaded = tick.loaded
  BY <1>1, <1>2 DEF TypeOK
<1>5. m \in [log : LogIds, trigger : Triggers]
  BY <1>1, <1>3 DEF TypeOK
<1>6. TypeOK'
  BY <1>1, <1>2, <1>5 DEF TypeOK
<1>7. CopyCurrent'
  BY <1>1, <1>2, <1>3, <1>4 DEF CopyCurrent, Exists
<1>8. (AbsentIsBlank /\ LogsHaveRow /\ TaskHasLog /\ ToneTracksIteration)'
  BY <1>2 DEF SessionInvariant, AbsentIsBlank, LogsHaveRow, TaskHasLog, ToneTracksIteration,
              Exists
<1>9. m.log = tick.log /\ m.trigger = tick.cur
  OBVIOUS
<1>10. ButtonsPointHome'
  <2>1. \A n \in sent : logs[n.log].trigger \in {NoTrigger, n.trigger}
    BY DEF SessionInvariant, ButtonsPointHome
  <2>2. QED
    BY <1>2, <1>3, <1>9, <2>1 DEF ButtonsPointHome
<1> HIDE DEF m
<1>11. IdsFresh'
  BY <1>1, <1>2, <1>3, <1>4, <1>9 DEF IdsFresh
<1>12. QED
  BY <1>6, <1>7, <1>8, <1>10, <1>11 DEF SessionInvariant

\* The commit of a nudge: one step up from the copy, which is current, and the
\* log gets the id its message carries.
LEMMA CommitKeeps ==
  ASSUME SessionInvariant, CommitNudge
  PROVE  SessionInvariant'
<1> DEFINE t == tick.cur
           log == [trigger |-> t, fired |-> tick.now,
                   tone |-> tick.loaded[t].tone, reaction |-> NoReaction]
           row == Nudged(trig[t])
<1>1. TypeOK /\ CopyCurrent /\ IdsFresh
  BY DEF SessionInvariant
<1>2. /\ t \in tick.todo /\ t \in Triggers /\ Exists(t) /\ tick.log \in LogIds
      /\ tick.log < nextLog
      /\ \A m \in sent : m.log = tick.log => m.trigger = t
  BY <1>1 DEF CommitNudge, CopyCurrent, IdsFresh, TypeOK
<1>3. /\ tick.loaded[t].tone = trig[t].tone /\ tick.loaded[t].iter = trig[t].iter
      /\ trig[t] \in Row /\ trig[t].tone = ToneAfter(trig[t].iter)
  BY <1>1, <1>2 DEF CopyCurrent, TypeOK, SessionInvariant, ToneTracksIteration
<1>4. row \in Row /\ row.state = trig[t].state /\ row.tone = ToneAfter(row.iter)
  <2> DEFINE old == trig[t]
             tone == Escalate(old.tone)
             next == tick.now + IntervalAfter[tone]
             iter == old.iter + 1
  <2>1. old \in Row /\ old.iter \in Nat /\ tick.now \in Nat
    BY <1>1, <1>3 DEF Row, TypeOK
  <2>2. tone \in Tones /\ tone = ToneAfter(iter)
    BY <1>3, <2>1, LadderStep
  <2>3. next \in Nat /\ iter \in Nat
    BY <2>1, <2>2, EngineAssumption
  <2>4. row = [old EXCEPT !.next = next, !.tone = tone, !.iter = iter]
    BY <1>3 DEF Nudged
  <2> HIDE DEF old, tone, next, iter, row
  <2>5. row \in Row /\ row.state = old.state /\ row.tone = tone /\ row.iter = iter
    BY <2>1, <2>2, <2>3, <2>4 DEF Row
  <2>6. QED
    BY <2>2, <2>5 DEF old
<1>5. log \in LogRow /\ log.trigger = t
  BY <1>1, <1>2 DEF LogRow, Row, TypeOK
<1>6. /\ trig' = [trig EXCEPT ![t] = row] /\ logs' = [logs EXCEPT ![tick.log] = log]
      /\ Proceed(t) /\ UNCHANGED <<clock, window, nextLog, sent, tasks, faults>>
  BY DEF CommitNudge
<1> HIDE DEF t, log, row
<1>7. /\ tick' \in [pc : {"idle", "next"}, now : Nat,
                   todo : SUBSET Triggers, window : Windows,
                   loaded : [Triggers -> Row], silent : [Triggers -> Nat],
                   cur : {NoTrigger}, log : {NoLog}]
      /\ tick'.todo = tick.todo \ {t}
      /\ tick'.pc = "idle" => tick'.todo = {}
      /\ \A u \in tick'.todo : tick'.loaded[u] = tick.loaded[u]
  BY <1>1, <1>2, <1>6, ProceedKeeps
<1>8. trig'[t] = row /\ \A u \in Triggers : u # t => trig'[u] = trig[u]
  BY <1>1, <1>2, <1>6 DEF TypeOK
<1>9. logs'[tick.log] = log /\ \A i \in LogIds : i # tick.log => logs'[i] = logs[i]
  BY <1>1, <1>2, <1>6 DEF TypeOK
<1>10. TypeOK'
  <2>1. trig' \in [Triggers -> Row] /\ logs' \in [LogIds -> LogRow]
    BY <1>1, <1>2, <1>4, <1>5, <1>6 DEF TypeOK
  <2>2. tick' \in [pc : {"idle", "next", "flushed", "sent"}, now : Nat,
                   todo : SUBSET Triggers, window : Windows,
                   loaded : [Triggers -> Row], silent : [Triggers -> Nat],
                   cur : Triggers \cup {NoTrigger}, log : LogIds \cup {NoLog}]
    BY <1>7
  <2>3. QED
    BY <1>1, <1>6, <2>1, <2>2 DEF TypeOK
<1>11. CopyCurrent'
  <2>1. \A u \in tick'.todo : /\ trig'[u].state # "absent"
                              /\ Exists(u)' => /\ tick'.loaded[u].tone = trig'[u].tone
                                               /\ tick'.loaded[u].iter = trig'[u].iter
    BY <1>1, <1>7, <1>8 DEF CopyCurrent, Exists, TypeOK
  <2>2. QED
    BY <1>7, <2>1 DEF CopyCurrent
<1>12. AbsentIsBlank'
  BY <1>2, <1>4, <1>8 DEF SessionInvariant, AbsentIsBlank, Exists, States
<1>13. TaskHasLog'
  BY <1>6 DEF SessionInvariant, TaskHasLog
<1>14. ButtonsPointHome'
  <2>1. \A m \in sent : m.log \in LogIds /\ logs[m.log].trigger \in {NoTrigger, m.trigger}
    BY <1>1 DEF SessionInvariant, ButtonsPointHome, TypeOK
  <2>2. QED
    BY <1>2, <1>5, <1>6, <1>9, <2>1 DEF ButtonsPointHome
<1>15. IdsFresh'
  <2>1. tick'.pc \in {"idle", "next"}
    BY <1>7
  <2>2. QED
    BY <1>1, <1>2, <1>6, <1>9, <2>1 DEF IdsFresh
<1>16. ToneTracksIteration' /\ LogsHaveRow'
  <2>1. \A u \in Triggers : Exists(u)' <=> Exists(u)
    BY <1>2, <1>4, <1>8 DEF Exists
  <2>2. \A i \in LogIds : logs'[i].trigger \in {logs[i].trigger, t}
    BY <1>5, <1>9
  <2>3. LogsHaveRow'
    BY <1>1, <1>2, <2>1, <2>2 DEF SessionInvariant, LogsHaveRow, TypeOK, LogRow
  <2>4. QED
    BY <1>2, <1>4, <1>8, <2>1, <2>3 DEF SessionInvariant, ToneTracksIteration
<1>17. QED
  BY <1>10, <1>11, <1>12, <1>13, <1>14, <1>15, <1>16 DEF SessionInvariant

\* A step of the tick.
LEMMA EngineKeeps ==
  ASSUME SessionInvariant, EngineStep \/ TickDies
  PROVE  SessionInvariant'
<1>1. faults \in Nat
  BY DEF SessionInvariant, TypeOK
<1>2. CASE LoadDue
  BY <1>2, LoadKeeps
<1>3. CASE SendReaches \/ SendFails
  BY <1>3, SendKeeps
<1>4. CASE CommitNudge
  BY <1>4, CommitKeeps
<1>5. CASE TickDies
  BY <1>1, <1>5, TickEnds DEF TickDies
<1>6. CASE \E t \in Triggers :
             \/ Retire(t) \/ Defer(t) \/ CapAndSnooze(t)
             \/ Compose(t) \/ ComposeRaises(t) \/ RowVanished(t)
  <2>1. PICK t \in Triggers :
          \/ Retire(t) \/ Defer(t) \/ CapAndSnooze(t)
          \/ Compose(t) \/ ComposeRaises(t) \/ RowVanished(t)
    BY <1>6
  <2>2. CASE ComposeRaises(t) \/ RowVanished(t)
    BY <1>1, <2>2, TickEnds DEF ComposeRaises, RowVanished
  <2>3. QED
    BY <2>1, <2>2, RetireKeeps, DeferKeeps, CapKeeps, ComposeKeeps
<1>7. QED
  BY <1>2, <1>3, <1>4, <1>5, <1>6 DEF EngineStep

-----------------------------------------------------------------------------
(* The steps of the others, as the tick sees them.                          *)

\* What a step of another session may do to the rows while a tick is in flight:
\* it creates no row the tick has read, it leaves tone and count alone, it does
\* not delete the row whose log is being inserted, and it moves no log.
LEMMA OthersKeep ==
  ASSUME SessionInvariant, TypeOK', TaskHasLog', AbsentIsBlank', LogsHaveRow',
         UNCHANGED <<nextLog, sent, tick>>,
         \A t \in Triggers : /\ trig[t].state # "absent" => trig'[t].state # "absent"
                             /\ Exists(t)' =>
                                  /\ trig'[t].tone = trig[t].tone
                                  /\ trig'[t].iter = trig[t].iter
                                  /\ Exists(t) \/ trig[t].state = "absent"
                             /\ Locked(t) /\ Exists(t) => Exists(t)',
         \A i \in LogIds : logs'[i].trigger \in {logs[i].trigger, NoTrigger}
  PROVE  SessionInvariant'
<1>1. TypeOK /\ CopyCurrent /\ IdsFresh /\ AbsentIsBlank
  BY DEF SessionInvariant
<1>2. CopyCurrent'
  <2>1. \A t \in tick.todo : t \in Triggers /\ trig[t].state # "absent"
    BY <1>1 DEF CopyCurrent, TypeOK
  <2>2. \A t \in tick.todo : /\ trig'[t].state # "absent"
                             /\ Exists(t)' => /\ tick.loaded[t].tone = trig'[t].tone
                                              /\ tick.loaded[t].iter = trig'[t].iter
    BY <1>1, <2>1 DEF CopyCurrent
  <2>3. tick.pc \in {"flushed", "sent"} => Exists(tick.cur)'
    BY <1>1, <2>1 DEF CopyCurrent, Locked
  <2>4. QED
    BY <1>1, <2>2, <2>3 DEF CopyCurrent, Exists
<1>3. IdsFresh'
  <2>1. tick.pc \in {"flushed", "sent"} => tick.log \in LogIds
    BY <1>1 DEF CopyCurrent
  <2>2. QED
    BY <1>1, <2>1 DEF IdsFresh
<1>4. ButtonsPointHome'
  BY <1>1 DEF SessionInvariant, ButtonsPointHome, TypeOK
<1>5. ToneTracksIteration'
  <2>1. ASSUME NEW t \in Triggers, Exists(t)'
        PROVE  trig'[t].tone = ToneAfter(trig'[t].iter)
    <3>1. CASE Exists(t)
      BY <2>1, <3>1 DEF SessionInvariant, ToneTracksIteration
    <3>2. CASE trig[t].state = "absent"
      <4>1. trig[t].tone = FirstTone /\ trig[t].iter = 0
        BY <1>1, <3>2 DEF AbsentIsBlank, NoRow
      <4>2. QED
        BY <2>1, <4>1, LadderStep
    <3>3. QED
      BY <2>1, <3>1, <3>2
  <2>2. QED
    BY <2>1 DEF ToneTracksIteration
<1>6. QED
  BY <1>2, <1>3, <1>4, <1>5 DEF SessionInvariant

\* Steps that leave every row as it is.
LEMMA RowsUntouched ==
  ASSUME SessionInvariant, TypeOK', TaskHasLog',
         UNCHANGED <<trig, logs, nextLog, sent, tick>>
  PROVE  SessionInvariant'
<1>1. TypeOK /\ CopyCurrent /\ IdsFresh
  BY DEF SessionInvariant
<1>2. CopyCurrent'
  BY <1>1 DEF CopyCurrent, Exists
<1>3. IdsFresh'
  BY <1>1 DEF IdsFresh
<1>4. (AbsentIsBlank /\ LogsHaveRow /\ ButtonsPointHome /\ ToneTracksIteration)'
  BY DEF SessionInvariant, AbsentIsBlank, LogsHaveRow, ButtonsPointHome, ToneTracksIteration,
         Exists
<1>5. QED
  BY <1>2, <1>3, <1>4 DEF SessionInvariant

LEMMA TapLoadKeeps ==
  ASSUME SessionInvariant, NEW h \in Handlers, NEW action \in Actions, TapLoad(h, action)
  PROVE  SessionInvariant'
<1>1. TypeOK
  BY DEF SessionInvariant
<1>2. PICK m \in sent, next \in WantedTimes(action) :
        tasks' = [tasks EXCEPT ![h] =
          [log |-> m.log, reaction |-> action,
           state |-> IF trig[logs[m.log].trigger].state = WantedState[action]
                     THEN KeepState ELSE WantedState[action],
           next |-> IF trig[logs[m.log].trigger].next = NoTime /\ next = NoTime
                    THEN KeepTime ELSE next]]
  BY DEF TapLoad
<1>3. UNCHANGED <<clock, window, trig, logs, nextLog, sent, tick, faults>>
  BY DEF TapLoad
<1> DEFINE state == IF trig[logs[m.log].trigger].state = WantedState[action]
                    THEN KeepState ELSE WantedState[action]
           time == IF trig[logs[m.log].trigger].next = NoTime /\ next = NoTime
                   THEN KeepTime ELSE next
           task == [log |-> m.log, reaction |-> action, state |-> state, next |-> time]
<1>4. state \in States \cup {KeepState} /\ time \in Nat \cup {NoTime, KeepTime}
  BY <1>1, <1>2, WantedType
<1>5. m.log \in LogIds
  BY <1>1, <1>2 DEF TypeOK
<1>6. tasks' = [tasks EXCEPT ![h] = task]
  BY <1>2
<1> HIDE DEF state, time
<1>7. task \in TaskRow /\ task.log \in LogIds
  BY <1>4, <1>5 DEF TaskRow
<1> HIDE DEF task
<1>8. TypeOK'
  BY <1>1, <1>3, <1>6, <1>7 DEF TypeOK
<1>9. TaskHasLog'
  BY <1>1, <1>6, <1>7 DEF SessionInvariant, TaskHasLog, TypeOK
<1>10. QED
  BY <1>3, <1>8, <1>9, RowsUntouched

LEMMA TapFailsKeeps ==
  ASSUME SessionInvariant, NEW h \in Handlers, TapFails(h)
  PROVE  SessionInvariant'
<1>1. NoTask \in TaskRow
  BY DEF NoTask, TaskRow, Actions, NoLog, KeepState, KeepTime
<1>2. TypeOK'
  BY <1>1 DEF SessionInvariant, TypeOK, TapFails
<1>3. TaskHasLog'
  BY DEF SessionInvariant, TaskHasLog, TypeOK, TapFails
<1>4. QED
  BY <1>2, <1>3, RowsUntouched DEF TapFails

LEMMA TapCommitKeeps ==
  ASSUME SessionInvariant, NEW h \in Handlers, TapCommit(h)
  PROVE  SessionInvariant'
<1> DEFINE task == tasks[h]
           t == logs[task.log].trigger
           state == IF task.state = KeepState THEN trig[t].state ELSE task.state
           next == IF task.next = KeepTime THEN trig[t].next ELSE task.next
           row == [trig[t] EXCEPT !.state = state, !.next = next]
           log == [logs[task.log] EXCEPT !.reaction = task.reaction]
<1>1. TypeOK /\ AbsentIsBlank /\ LogsHaveRow /\ task \in TaskRow /\ task.log \in LogIds
  BY DEF SessionInvariant, TypeOK, TapCommit, TaskHasLog
<1>2. logs[task.log] \in LogRow /\ t \in Triggers /\ Exists(t) /\ trig[t] \in Row
  BY <1>1 DEF TapCommit, TypeOK, LogRow, LogsHaveRow
<1>3. logs' = [logs EXCEPT ![task.log] = log]
  BY DEF TapCommit
<1>4. trig' = [trig EXCEPT ![t] = row]
  BY DEF TapCommit
<1>5. /\ tasks' = [tasks EXCEPT ![h] = NoTask]
      /\ UNCHANGED <<clock, window, nextLog, sent, tick, faults>>
  BY DEF TapCommit
<1>6. state \in States /\ next \in Nat \cup {NoTime}
  BY <1>1, <1>2 DEF TaskRow, Row, Exists
<1>7. log \in LogRow /\ log.trigger = t
  BY <1>1, <1>2 DEF LogRow, TaskRow
<1> HIDE DEF state, next
<1>8. row \in Row /\ row.state \in States /\ row.tone = trig[t].tone /\ row.iter = trig[t].iter
  BY <1>2, <1>6 DEF Row
<1> HIDE DEF row, log
<1>9. trig'[t] = row /\ \A u \in Triggers : u # t => trig'[u] = trig[u]
  BY <1>1, <1>2, <1>4 DEF TypeOK
<1>10. \A i \in LogIds : logs'[i].trigger = logs[i].trigger
  BY <1>1, <1>3, <1>7 DEF TypeOK
<1>11. NoTask \in TaskRow
  BY DEF NoTask, TaskRow, Actions, NoLog, KeepState, KeepTime
<1> HIDE DEF task, t
<1>12. TypeOK'
  BY <1>1, <1>2, <1>3, <1>4, <1>5, <1>7, <1>8, <1>11 DEF TypeOK
<1>13. TaskHasLog'
  BY <1>1, <1>5 DEF SessionInvariant, TaskHasLog, TypeOK
<1>14. AbsentIsBlank'
  BY <1>1, <1>8, <1>9 DEF AbsentIsBlank, States
<1>15. \A u \in Triggers : Exists(u)' <=> Exists(u)
  BY <1>2, <1>8, <1>9 DEF Exists
<1>16. LogsHaveRow'
  BY <1>1, <1>10, <1>15 DEF LogsHaveRow, TypeOK, LogRow
<1>17. \A u \in Triggers : /\ trig[u].state # "absent" => trig'[u].state # "absent"
                           /\ Exists(u)' => /\ trig'[u].tone = trig[u].tone
                                            /\ trig'[u].iter = trig[u].iter
                                            /\ Exists(u) \/ trig[u].state = "absent"
                           /\ Locked(u) /\ Exists(u) => Exists(u)'
  BY <1>8, <1>9, <1>15 DEF States
<1>18. QED
  BY <1>5, <1>10, <1>12, <1>13, <1>14, <1>16, <1>17, OthersKeep

LEMMA AddKeeps ==
  ASSUME SessionInvariant, NEW t \in Triggers, AddEvent(t)
  PROVE  SessionInvariant'
<1>1. PICK at \in StartTimes : trig' = [trig EXCEPT ![t].state = "pending", ![t].next = at]
  BY DEF AddEvent
<1> DEFINE row == [trig[t] EXCEPT !.state = "pending", !.next = at]
<1>2. /\ TypeOK /\ AbsentIsBlank /\ LogsHaveRow /\ trig[t].state = "absent"
      /\ trig[t] \in Row /\ at \in Nat
  BY <1>1, EngineAssumption DEF SessionInvariant, AddEvent, TypeOK
<1>3. /\ row \in Row /\ row.state = "pending"
      /\ row.tone = trig[t].tone /\ row.iter = trig[t].iter
  BY <1>2 DEF Row, States
<1>4. trig' = [trig EXCEPT ![t] = row]
  BY <1>1
<1>5. UNCHANGED <<clock, window, logs, nextLog, sent, tick, tasks, faults>>
  BY DEF AddEvent
<1> HIDE DEF row
<1>6. trig'[t] = row /\ \A u \in Triggers : u # t => trig'[u] = trig[u]
  BY <1>2, <1>4 DEF TypeOK
<1>7. TypeOK'
  BY <1>2, <1>3, <1>4, <1>5 DEF TypeOK
<1>8. TaskHasLog'
  BY <1>5 DEF SessionInvariant, TaskHasLog
<1>9. AbsentIsBlank'
  BY <1>2, <1>3, <1>6 DEF AbsentIsBlank
<1>10. LogsHaveRow'
  BY <1>2, <1>3, <1>5, <1>6 DEF LogsHaveRow, TypeOK, LogRow, Exists, States
<1>11. \A u \in Triggers : /\ trig[u].state # "absent" => trig'[u].state # "absent"
                           /\ Exists(u)' => /\ trig'[u].tone = trig[u].tone
                                            /\ trig'[u].iter = trig[u].iter
                                            /\ Exists(u) \/ trig[u].state = "absent"
                           /\ Locked(u) /\ Exists(u) => Exists(u)'
  BY <1>2, <1>3, <1>6 DEF Exists, States
<1>12. QED
  BY <1>5, <1>7, <1>8, <1>9, <1>10, <1>11, OthersKeep

LEMMA DeactivateKeeps ==
  ASSUME SessionInvariant, NEW t \in Triggers, Deactivate(t)
  PROVE  SessionInvariant'
<1> DEFINE row == [trig[t] EXCEPT !.active = FALSE]
<1>1. /\ TypeOK /\ AbsentIsBlank /\ LogsHaveRow /\ Exists(t) /\ trig[t] \in Row
      /\ trig' = [trig EXCEPT ![t] = row]
      /\ UNCHANGED <<clock, window, logs, nextLog, sent, tick, tasks, faults>>
  BY DEF SessionInvariant, Deactivate, TypeOK
<1>2. /\ row \in Row /\ row.state = trig[t].state
      /\ row.tone = trig[t].tone /\ row.iter = trig[t].iter
  BY <1>1 DEF Row
<1> HIDE DEF row
<1>3. trig'[t] = row /\ \A u \in Triggers : u # t => trig'[u] = trig[u]
  BY <1>1 DEF TypeOK
<1>4. TypeOK'
  BY <1>1, <1>2 DEF TypeOK
<1>5. TaskHasLog'
  BY <1>1 DEF SessionInvariant, TaskHasLog
<1>6. \A u \in Triggers : trig'[u].state = trig[u].state
  BY <1>2, <1>3
<1>7. AbsentIsBlank'
  BY <1>1, <1>2, <1>3 DEF AbsentIsBlank, Exists, States
<1>8. LogsHaveRow'
  BY <1>1, <1>6 DEF LogsHaveRow, TypeOK, LogRow, Exists
<1>9. \A u \in Triggers : /\ trig[u].state # "absent" => trig'[u].state # "absent"
                          /\ Exists(u)' => /\ trig'[u].tone = trig[u].tone
                                           /\ trig'[u].iter = trig[u].iter
                                           /\ Exists(u) \/ trig[u].state = "absent"
                          /\ Locked(u) /\ Exists(u) => Exists(u)'
  BY <1>2, <1>3, <1>6 DEF Exists
<1>10. QED
  BY <1>1, <1>4, <1>5, <1>7, <1>8, <1>9, OthersKeep

LEMMA EraseKeeps ==
  ASSUME SessionInvariant, NEW gone \in SUBSET Triggers,
         \A t \in gone : Exists(t),
         Erase(gone), window' \in Windows
  PROVE  SessionInvariant'
<1>1. TypeOK /\ AbsentIsBlank /\ LogsHaveRow
  BY DEF SessionInvariant
<1>2. /\ \A t \in gone : ~Locked(t)
      /\ trig' = [t \in Triggers |-> IF t \in gone THEN Gone ELSE trig[t]]
      /\ logs' = [i \in LogIds |-> IF logs[i].trigger \in gone THEN Unlogged ELSE logs[i]]
      /\ UNCHANGED <<clock, nextLog, sent, tick, tasks, faults>>
  BY DEF Erase
<1>3. Gone \in Row /\ Gone.state = "deleted" /\ Unlogged \in LogRow
      /\ Unlogged.trigger = NoTrigger
  BY DEF Gone, NoRow, Row, States, FirstTone, Tones, Unlogged, LogRow, NoReaction
<1>4. TypeOK'
  BY <1>1, <1>2, <1>3 DEF TypeOK
<1>5. TaskHasLog'
  BY <1>2 DEF SessionInvariant, TaskHasLog
<1>6. AbsentIsBlank'
  BY <1>1, <1>2, <1>3 DEF AbsentIsBlank
<1>7. \A t \in Triggers : Exists(t)' <=> Exists(t) /\ t \notin gone
  BY <1>2, <1>3 DEF Exists, States
<1>8. \A i \in LogIds : logs'[i].trigger \in {logs[i].trigger, NoTrigger} \ gone
  BY <1>2, <1>3, EngineAssumption
<1>9. LogsHaveRow'
  BY <1>1, <1>7, <1>8 DEF LogsHaveRow, TypeOK, LogRow
<1>10. \A t \in Triggers : /\ trig[t].state # "absent" => trig'[t].state # "absent"
                           /\ Exists(t)' => /\ trig'[t].tone = trig[t].tone
                                            /\ trig'[t].iter = trig[t].iter
                                            /\ Exists(t) \/ trig[t].state = "absent"
                           /\ Locked(t) /\ Exists(t) => Exists(t)'
  BY <1>2, <1>3, <1>7 DEF States
<1>11. QED
  BY <1>2, <1>4, <1>5, <1>6, <1>8, <1>9, <1>10, OthersKeep

LEMMA OwnerKeeps ==
  ASSUME SessionInvariant, OwnerStep \/ Advance
  PROVE  SessionInvariant'
<1>1. TypeOK
  BY DEF SessionInvariant
<1>2. CASE \E t \in Triggers : AddEvent(t) \/ DeleteEvent(t) \/ Deactivate(t)
  <2>1. PICK t \in Triggers : AddEvent(t) \/ DeleteEvent(t) \/ Deactivate(t)
    BY <1>2
  <2>2. CASE DeleteEvent(t)
    BY <1>1, <2>2, EraseKeeps DEF DeleteEvent, TypeOK
  <2>3. QED
    BY <2>1, <2>2, AddKeeps, DeactivateKeeps
<1>3. CASE Forget
  <2> DEFINE gone == {t \in Triggers : Exists(t)}
  <2>1. Erase(gone) /\ window' \in Windows
    BY <1>3, EngineAssumption DEF Forget
  <2>2. gone \in SUBSET Triggers /\ \A t \in gone : Exists(t)
    OBVIOUS
  <2> HIDE DEF gone
  <2>3. QED
    BY <2>1, <2>2, EraseKeeps
<1>4. CASE (\E w \in Windows : SetQuiet(w) \/ SetTimezone(w)) \/ Advance
  <2>1. (\E w \in Windows : SetWindow(w)) \/ Advance
    BY <1>4 DEF SetQuiet, SetTimezone
  <2>2. TypeOK'
    BY <1>1, <2>1 DEF TypeOK, SetWindow, Advance
  <2>3. TaskHasLog'
    BY <2>1 DEF SessionInvariant, TaskHasLog, SetWindow, Advance
  <2>4. QED
    BY <2>1, <2>2, <2>3, RowsUntouched DEF SetWindow, Advance
<1>5. QED
  BY <1>2, <1>3, <1>4 DEF OwnerStep

-----------------------------------------------------------------------------
(* The theorems.                                                           *)

\* Nothing the owner, the handlers and the scheduler do in any order, nor a tick
\* killed between any two steps, breaks what they rely on of each other.
THEOREM Invariance == Spec => []SessionInvariant
<1>1. SessionInvariant /\ [Next]_vars => SessionInvariant'
  <2> SUFFICES ASSUME SessionInvariant, [Next]_vars PROVE SessionInvariant'
    OBVIOUS
  <2>1. CASE EngineStep \/ TickDies
    BY <2>1, EngineKeeps
  <2>2. CASE TapStep
    BY <2>2, TapLoadKeeps, TapCommitKeeps, TapFailsKeeps DEF TapStep
  <2>3. CASE OwnerStep \/ Advance
    BY <2>3, OwnerKeeps
  <2>4. CASE UNCHANGED vars
    <3>1. TypeOK' /\ TaskHasLog'
      BY <2>4 DEF SessionInvariant, TypeOK, TaskHasLog, vars
    <3>2. QED
      BY <2>4, <3>1, RowsUntouched DEF vars
  <2>5. QED
    BY <2>1, <2>2, <2>3, <2>4 DEF Next
<1>2. QED
  BY <1>1, InitInvariant, PTL DEF Spec

\* Every variable keeps its shape, whatever happens under a tick.
THEOREM TypeCorrect == Spec => []TypeOK
<1>1. SessionInvariant => TypeOK
  BY DEF SessionInvariant
<1>2. QED
  BY <1>1, Invariance, PTL

\* The tone of a reminder is always the one its iteration count calls for.
THEOREM ToneInStep == Spec => []ToneTracksIteration
<1>1. SessionInvariant => ToneTracksIteration
  BY DEF SessionInvariant
<1>2. QED
  BY <1>1, Invariance, PTL

\* No button of a delivered message ever acts on another reminder.
THEOREM ButtonsSafe == Spec => []ButtonsPointHome
<1>1. SessionInvariant => ButtonsPointHome
  BY DEF SessionInvariant
<1>2. QED
  BY <1>1, Invariance, PTL

\* Which commits can make a row pending that was not: the tick's never.
LEMMA StateWrites ==
  ASSUME SessionInvariant, EngineStep \/ TickDies \/ OwnerStep \/ Advance,
         NEW t \in Triggers, trig[t].state \in {"snoozed", "done"}
  PROVE  trig'[t].state # "pending"
<1>1. TypeOK /\ trig[t] \in Row
  BY DEF SessionInvariant, TypeOK
<1>2. CASE UNCHANGED trig
  BY <1>2
<1>3. CASE LoadDue \/ SendReaches \/ SendFails \/ TickDies \/ Advance
  BY <1>2, <1>3 DEF LoadDue, SendReaches, SendFails, TickDies, Advance
<1>4. CASE CommitNudge
  <2>1. tick.cur \in Triggers
    BY <1>4 DEF CommitNudge, SessionInvariant, CopyCurrent, TypeOK
  <2>2. trig' = [trig EXCEPT ![tick.cur] = Nudged(@)]
    BY <1>4 DEF CommitNudge
  <2>3. Nudged(trig[t]).state = trig[t].state
    BY <1>1 DEF Nudged, Row
  <2>4. trig'[t] = trig[t] \/ trig'[t] = Nudged(trig[t])
    BY <1>1, <2>1, <2>2 DEF TypeOK
  <2>5. QED
    BY <2>3, <2>4
<1>5. CASE \E u \in Triggers :
             \/ Retire(u) \/ Defer(u) \/ CapAndSnooze(u)
             \/ Compose(u) \/ ComposeRaises(u) \/ RowVanished(u)
  <2>1. PICK u \in Triggers :
          \/ Retire(u) \/ Defer(u) \/ CapAndSnooze(u)
          \/ Compose(u) \/ ComposeRaises(u) \/ RowVanished(u)
    BY <1>5
  <2>2. CASE Retire(u)
    BY <1>1, <2>2 DEF Retire, TypeOK, Row
  <2>3. CASE Defer(u)
    BY <1>1, <2>3 DEF Defer, TypeOK, Row
  <2>4. CASE CapAndSnooze(u)
    <3>1. Capped(trig[t]).state = "snoozed"
      BY <1>1 DEF Capped, Row
    <3>2. trig'[t] = trig[t] \/ trig'[t] = Capped(trig[t])
      BY <1>1, <2>4 DEF CapAndSnooze, TypeOK
    <3>3. QED
      BY <3>1, <3>2
  <2>5. CASE Compose(u) \/ ComposeRaises(u) \/ RowVanished(u)
    BY <1>2, <2>5 DEF Compose, ComposeRaises, RowVanished
  <2>6. QED
    BY <2>1, <2>2, <2>3, <2>4, <2>5
<1>6. CASE \E u \in Triggers : AddEvent(u) \/ DeleteEvent(u) \/ Deactivate(u)
  <2>1. PICK u \in Triggers : AddEvent(u) \/ DeleteEvent(u) \/ Deactivate(u)
    BY <1>6
  <2>2. CASE AddEvent(u)
    BY <1>1, <2>2 DEF AddEvent, TypeOK
  <2>3. CASE DeleteEvent(u)
    BY <2>3 DEF DeleteEvent, Erase, Gone
  <2>4. CASE Deactivate(u)
    BY <1>1, <2>4 DEF Deactivate, TypeOK, Row
  <2>5. QED
    BY <2>1, <2>2, <2>3, <2>4
<1>7. CASE Forget
  BY <1>7 DEF Forget, Erase, Gone
<1>8. CASE \E w \in Windows : SetQuiet(w) \/ SetTimezone(w)
  BY <1>2, <1>8 DEF SetQuiet, SetTimezone, SetWindow
<1>9. QED
  BY <1>3, <1>4, <1>5, <1>6, <1>7, <1>8 DEF EngineStep, OwnerStep

\* A closed or snoozed reminder comes back only by the commit of a snooze button.
THEOREM OnlySnoozes == Spec => OnlySnoozeRevives
<1>1. ASSUME SessionInvariant, [Next]_vars, NEW t \in Triggers,
             trig[t].state \in {"snoozed", "done"}, trig'[t].state = "pending"
      PROVE  \E h \in Handlers : /\ tasks[h].log \in LogsOf(t)
                                /\ tasks[h].state = "pending"
                                /\ tasks'[h] = NoTask
  <2>1. PICK h \in Handlers : TapCommit(h)
    <3>1. ~(EngineStep \/ TickDies \/ OwnerStep \/ Advance)
      BY <1>1, StateWrites
    <3>2. trig' # trig
      BY <1>1
    <3>3. QED
      BY <1>1, <3>1, <3>2 DEF Next, TapStep, TapLoad, TapFails, vars
  <2> DEFINE task == tasks[h]
             u == logs[task.log].trigger
  <2>2. TypeOK /\ task.log \in LogIds /\ u \in Triggers /\ task \in TaskRow
    BY <1>1, <2>1 DEF SessionInvariant, TypeOK, TaskHasLog, TapCommit, LogRow
  <2>3. /\ trig' = [trig EXCEPT
                     ![u].state = IF task.state = KeepState THEN @ ELSE task.state,
                     ![u].next = IF task.next = KeepTime THEN @ ELSE task.next]
        /\ tasks' = [tasks EXCEPT ![h] = NoTask]
    BY <2>1 DEF TapCommit
  <2> HIDE DEF task, u
  <2>4. \A v \in Triggers : v # u => trig'[v] = trig[v]
    BY <2>2, <2>3 DEF TypeOK
  <2>5. u = t
    BY <1>1, <2>4
  <2>6. trig'[u].state = IF task.state = KeepState THEN trig[u].state ELSE task.state
    BY <2>2, <2>3 DEF TypeOK, Row
  <2>7. task.state = "pending"
    BY <1>1, <2>5, <2>6
  <2>8. tasks'[h] = NoTask
    BY <2>2, <2>3 DEF TypeOK
  <2>9. task.log \in LogsOf(t)
    BY <2>2, <2>5 DEF LogsOf, u
  <2>10. QED
    BY <2>7, <2>8, <2>9 DEF task
<1>2. SessionInvariant /\ [Next]_vars =>
        [\A t \in Triggers :
           trig[t].state \in {"snoozed", "done"} /\ trig'[t].state = "pending"
             => \E h \in Handlers : /\ tasks[h].log \in LogsOf(t)
                                   /\ tasks[h].state = "pending"
                                   /\ tasks'[h] = NoTask]_vars
  BY <1>1
<1>3. QED
  BY <1>2, Invariance, PTL DEF Spec, OnlySnoozeRevives

-----------------------------------------------------------------------------
(* The refinement.                                                         *)

\* What Reminder sees of the rows does not change when only the times, the
\* tones or the active flags do.
LEMMA UnseenStep ==
  ASSUME \A t \in Triggers : trig'[t].state = trig[t].state /\ trig'[t].iter = trig[t].iter,
         \A i \in LogIds : /\ logs'[i].trigger = logs[i].trigger
                           /\ logs'[i].reaction = logs[i].reaction
  PROVE  UNCHANGED Life!life
<1>1. \A t \in Triggers : LogsOf(t)' = LogsOf(t) /\ Answered(t)' = Answered(t)
  BY DEF LogsOf, Answered
<1>2. QED
  BY <1>1 DEF Life!life

LEMMA InitIsLife == Init => Life!Init
<1> SUFFICES ASSUME Init PROVE Life!Init
  OBVIOUS
<1>1. \A t \in Triggers : LogsOf(t) = {} /\ Answered(t) = {}
  BY EngineAssumption DEF Init, LogsOf, Answered, Unlogged
<1>2. \A t \in Triggers : trig[t].state = "absent" /\ trig[t].iter = 0
  BY DEF Init, NoRow
<1>3. QED
  BY <1>1, <1>2 DEF Life!Init

\* The steps that leave the logs alone and write one row.
LEMMA RowStep ==
  ASSUME SessionInvariant, NEW t \in Triggers, NEW row \in Row,
         trig' = [trig EXCEPT ![t] = row], logs' = logs
  PROVE  /\ trig'[t].state = row.state /\ trig'[t].iter = row.iter
         /\ \A u \in Triggers : u # t => trig'[u] = trig[u]
         /\ \A u \in Triggers : LogsOf(u)' = LogsOf(u) /\ Answered(u)' = Answered(u)
  BY DEF SessionInvariant, TypeOK, LogsOf, Answered

LEMMA RetireIsLife ==
  ASSUME SessionInvariant, NEW t \in Triggers, Retire(t)
  PROVE  Life!Retire(t)
<1> DEFINE row == [trig[t] EXCEPT !.state = "done"]
<1>1. trig[t] \in Row /\ trig[t].state \in States
  BY DEF SessionInvariant, TypeOK, Retire, Exists
<1>2. row \in Row /\ row.state = "done" /\ row.iter = trig[t].iter
  BY <1>1 DEF Row, States
<1>3. trig' = [trig EXCEPT ![t] = row] /\ logs' = logs
  BY DEF Retire
<1> HIDE DEF row
<1>4. /\ trig'[t].state = row.state /\ trig'[t].iter = row.iter
      /\ \A u \in Triggers : u # t => trig'[u] = trig[u]
      /\ \A u \in Triggers : LogsOf(u)' = LogsOf(u) /\ Answered(u)' = Answered(u)
  BY <1>2, <1>3, RowStep
<1>5. QED
  BY <1>1, <1>2, <1>4 DEF Life!Retire, Life!Alive, States

LEMMA CapIsLife ==
  ASSUME SessionInvariant, NEW t \in Triggers, CapAndSnooze(t)
  PROVE  Life!StartAgain(t)
<1> DEFINE row == Capped(trig[t])
<1>1. /\ trig[t] \in Row /\ trig[t].state \in States /\ t \in tick.todo
      /\ tick.now \in Nat /\ CapSnooze \in Nat
  BY EngineAssumption DEF SessionInvariant, TypeOK, CapAndSnooze, Exists, Head
<1>2. ToneAfter(trig[t].iter) = CapTone
  BY <1>1 DEF SessionInvariant, CopyCurrent, ToneTracksIteration, CapAndSnooze, CapReached, Exists
<1>3. row \in Row /\ row.state = "snoozed" /\ row.iter = 0
  <2>1. ASSUME NEW n \in Nat, NEW r \in Row
        PROVE  LET c == [r EXCEPT !.state = "snoozed", !.next = n,
                                  !.tone = FirstTone, !.iter = 0]
               IN  c \in Row /\ c.state = "snoozed" /\ c.iter = 0
    BY DEF Row, States, FirstTone, Tones
  <2>2. tick.now + CapSnooze \in Nat
    BY <1>1
  <2>3. QED
    BY <1>1, <2>1, <2>2 DEF Capped
<1>4. trig' = [trig EXCEPT ![t] = row] /\ logs' = logs
  BY DEF CapAndSnooze
<1> HIDE DEF row
<1>5. /\ trig'[t].state = row.state /\ trig'[t].iter = row.iter
      /\ \A u \in Triggers : u # t => trig'[u] = trig[u]
      /\ \A u \in Triggers : LogsOf(u)' = LogsOf(u) /\ Answered(u)' = Answered(u)
  BY <1>3, <1>4, RowStep
<1>6. QED
  BY <1>1, <1>2, <1>3, <1>5 DEF Life!StartAgain, Life!Alive, States,
         Life!ToneAfter, Life!CapTone, Life!ToneOrder, ToneAfter, CapTone, ToneOrder

LEMMA AddIsLife ==
  ASSUME SessionInvariant, NEW t \in Triggers, AddEvent(t)
  PROVE  Life!Create(t)
<1>1. PICK at \in StartTimes : trig' = [trig EXCEPT ![t].state = "pending", ![t].next = at]
  BY DEF AddEvent
<1> DEFINE row == [trig[t] EXCEPT !.state = "pending", !.next = at]
<1>2. trig[t] \in Row /\ trig[t].state = "absent" /\ at \in Nat
  BY <1>1, EngineAssumption DEF SessionInvariant, TypeOK, AddEvent
<1>3. row \in Row /\ row.state = "pending" /\ row.iter = trig[t].iter
  BY <1>2 DEF Row, States
<1>4. trig' = [trig EXCEPT ![t] = row] /\ logs' = logs
  BY <1>1 DEF AddEvent
<1> HIDE DEF row
<1>5. /\ trig'[t].state = row.state /\ trig'[t].iter = row.iter
      /\ \A u \in Triggers : u # t => trig'[u] = trig[u]
      /\ \A u \in Triggers : LogsOf(u)' = LogsOf(u) /\ Answered(u)' = Answered(u)
  BY <1>3, <1>4, RowStep
<1>6. QED
  BY <1>2, <1>3, <1>5 DEF Life!Create

\* The log and the step up the ladder become visible together.
LEMMA CommitIsLife ==
  ASSUME SessionInvariant, CommitNudge, NEW t \in Triggers, t = tick.cur
  PROVE  Life!Nudge(t)
<1>1. t = tick.cur
  OBVIOUS
<1>2. PICK n : n = tick.log
  OBVIOUS
<1> DEFINE row == Nudged(trig[t])
<1>3. /\ t \in Triggers /\ t \in tick.todo /\ trig[t].state \in States
      /\ n \in LogIds /\ logs[n].trigger = NoTrigger
  BY <1>1, <1>2 DEF SessionInvariant, TypeOK, CopyCurrent, IdsFresh, CommitNudge, Exists
<1>4. trig[t] \in Row /\ tick.loaded[t].iter = trig[t].iter /\ trig[t].iter \in Nat
  BY <1>3 DEF SessionInvariant, TypeOK, CopyCurrent, Row, Exists
<1>5. row.state = trig[t].state /\ row.iter = trig[t].iter + 1
  BY <1>1, <1>4 DEF Nudged, Row
<1>6. trig' = [trig EXCEPT ![t] = row]
  BY <1>1 DEF CommitNudge
<1> HIDE DEF row
<1>7. /\ trig'[t].state = trig[t].state /\ trig'[t].iter = trig[t].iter + 1
      /\ \A u \in Triggers : u # t => trig'[u] = trig[u]
  BY <1>3, <1>5, <1>6 DEF SessionInvariant, TypeOK
<1>8. /\ logs'[n].trigger = t /\ logs'[n].reaction = NoReaction
      /\ \A i \in LogIds : i # n => logs'[i] = logs[i]
  BY <1>1, <1>2, <1>3 DEF CommitNudge, SessionInvariant, TypeOK
<1>9. \A u \in Triggers : n \notin LogsOf(u) /\ LogsOf(u) \subseteq LogIds
  BY <1>3, EngineAssumption DEF LogsOf
<1>10. /\ LogsOf(t)' = LogsOf(t) \cup {n}
       /\ \A u \in Triggers : u # t => LogsOf(u)' = LogsOf(u)
  BY <1>3, <1>8, EngineAssumption DEF LogsOf
<1>11. ASSUME NEW u \in Triggers PROVE Answered(u)' = Answered(u)
  <2>1. Answered(u)' = {i \in LogsOf(u)' : logs'[i].reaction # NoReaction}
    BY DEF Answered
  <2>2. LogsOf(u)' = LogsOf(u) \/ LogsOf(u)' = LogsOf(u) \cup {n}
    BY <1>10
  <2>3. Answered(u)' = {i \in LogsOf(u) : logs'[i].reaction # NoReaction}
    BY <1>8, <2>1, <2>2
  <2>4. \A i \in LogsOf(u) : logs'[i] = logs[i]
    BY <1>8, <1>9
  <2>5. QED
    BY <2>3, <2>4 DEF Answered
<1>12. QED
  BY <1>1, <1>3, <1>7, <1>9, <1>10, <1>11 DEF Life!Nudge, Life!Alive, States

\* The commit of a reaction answers a nudge of the reminder it changes.
LEMMA TapIsLife ==
  ASSUME SessionInvariant, NEW h \in Handlers, TapCommit(h)
  PROVE  \E t \in Triggers : Life!Answer(t)
<1>1. PICK task : task = tasks[h]
  OBVIOUS
<1>2. PICK n : n = task.log
  OBVIOUS
<1>3. PICK t : t = logs[n].trigger
  OBVIOUS
<1> DEFINE state == IF task.state = KeepState THEN trig[t].state ELSE task.state
           next == IF task.next = KeepTime THEN trig[t].next ELSE task.next
           row == [trig[t] EXCEPT !.state = state, !.next = next]
<1>4. task \in TaskRow /\ n \in LogIds /\ t \in Triggers /\ task.reaction # NoReaction
  BY <1>1, <1>2, <1>3
     DEF SessionInvariant, TypeOK, TaskHasLog, TapCommit, LogRow, TaskRow, Actions, NoReaction
<1>5. trig[t] \in Row /\ trig[t].state \in States
  BY <1>3, <1>4, EngineAssumption DEF SessionInvariant, TypeOK, LogsHaveRow, Exists
<1>6. state \in States
  BY <1>4, <1>5 DEF TaskRow
<1>7. row.state = state /\ row.iter = trig[t].iter
  BY <1>5 DEF Row
<1>8. trig' = [trig EXCEPT ![t] = row]
  BY <1>1, <1>2, <1>3 DEF TapCommit
<1> HIDE DEF row
<1>9. /\ trig'[t].state = state /\ trig'[t].iter = trig[t].iter
      /\ \A u \in Triggers : u # t => trig'[u] = trig[u]
  BY <1>4, <1>7, <1>8 DEF SessionInvariant, TypeOK
<1> HIDE DEF state
<1>10. /\ logs'[n].trigger = t /\ logs'[n].reaction = task.reaction
       /\ \A i \in LogIds : i # n => logs'[i] = logs[i]
  BY <1>1, <1>2, <1>3, <1>4 DEF TapCommit, SessionInvariant, TypeOK, LogRow
<1>11. n \in LogsOf(t) /\ \A u \in Triggers : LogsOf(u)' = LogsOf(u)
  BY <1>3, <1>4, <1>10 DEF LogsOf
<1>12. /\ Answered(t)' = Answered(t) \cup {n}
       /\ \A u \in Triggers : u # t => Answered(u)' = Answered(u)
  BY <1>3, <1>4, <1>10, <1>11 DEF Answered, LogsOf
<1>13. Life!Answer(t)
  BY <1>4, <1>6, <1>9, <1>11, <1>12 DEF Life!Answer, Life!Alive, States
<1>14. QED
  BY <1>4, <1>13

\* A deletion takes the reminder, its nudges and its answers.
LEMMA EraseIsLife ==
  ASSUME SessionInvariant, NEW gone \in SUBSET Triggers, Erase(gone),
         \A t \in gone : Exists(t)
  PROVE  Life!Delete(gone)
<1>1. /\ \A t \in gone : trig'[t].state = "deleted" /\ trig'[t].iter = 0
      /\ \A t \in Triggers \ gone : trig'[t] = trig[t]
  BY DEF Erase, Gone, NoRow
<1>2. \A i \in LogIds : /\ logs[i].trigger \in gone => logs'[i].trigger = NoTrigger
                        /\ logs[i].trigger \notin gone => logs'[i] = logs[i]
  BY DEF Erase, Unlogged
<1>3. \A t \in gone : LogsOf(t)' = {} /\ Answered(t)' = {}
  BY <1>2, EngineAssumption DEF LogsOf, Answered
<1>4. \A t \in Triggers \ gone : LogsOf(t)' = LogsOf(t) /\ Answered(t)' = Answered(t)
  BY <1>2, EngineAssumption DEF LogsOf, Answered
<1>5. QED
  BY <1>1, <1>3, <1>4 DEF Life!Delete, Life!Alive, Exists, States

\* Every step of the engine, its handlers and its owner is a step of Reminder or
\* none.
LEMMA StepIsLife ==
  SessionInvariant /\ [Next]_vars => [Life!Next]_(Life!life)
<1> SUFFICES ASSUME SessionInvariant, [Next]_vars
             PROVE  Life!Next \/ UNCHANGED Life!life
  OBVIOUS
<1>1. CASE UNCHANGED <<trig, logs>>
  BY <1>1, UnseenStep
<1>2. CASE LoadDue \/ SendReaches \/ SendFails \/ TickDies \/ Advance
  BY <1>1, <1>2 DEF LoadDue, SendReaches, SendFails, TickDies, Advance
<1>3. CASE CommitNudge
  <2>1. PICK t \in Triggers : t = tick.cur
    BY <1>3 DEF CommitNudge, SessionInvariant, TypeOK, CopyCurrent
  <2>2. QED
    BY <1>3, <2>1, CommitIsLife DEF Life!Next
<1>4. CASE \E t \in Triggers :
             \/ Retire(t) \/ Defer(t) \/ CapAndSnooze(t)
             \/ Compose(t) \/ ComposeRaises(t) \/ RowVanished(t)
  <2>1. PICK t \in Triggers :
          \/ Retire(t) \/ Defer(t) \/ CapAndSnooze(t)
          \/ Compose(t) \/ ComposeRaises(t) \/ RowVanished(t)
    BY <1>4
  <2>2. CASE Defer(t)
    <3>1. \A u \in Triggers : trig'[u].state = trig[u].state /\ trig'[u].iter = trig[u].iter
      BY <2>2 DEF Defer, SessionInvariant, TypeOK, Row
    <3>2. QED
      BY <2>2, <3>1, UnseenStep DEF Defer
  <2>3. CASE Compose(t) \/ ComposeRaises(t) \/ RowVanished(t)
    BY <1>1, <2>3 DEF Compose, ComposeRaises, RowVanished
  <2>4. QED
    BY <2>1, <2>2, <2>3, RetireIsLife, CapIsLife DEF Life!Next
<1>5. CASE TapStep
  <2>1. PICK h \in Handlers :
          (\E action \in Actions : TapLoad(h, action)) \/ TapCommit(h) \/ TapFails(h)
    BY <1>5 DEF TapStep
  <2>2. CASE TapCommit(h)
    BY <2>2, TapIsLife DEF Life!Next
  <2>3. QED
    BY <1>1, <2>1, <2>2 DEF TapLoad, TapFails
<1>6. CASE \E t \in Triggers : AddEvent(t) \/ DeleteEvent(t) \/ Deactivate(t)
  <2>1. PICK t \in Triggers : AddEvent(t) \/ DeleteEvent(t) \/ Deactivate(t)
    BY <1>6
  <2>2. CASE DeleteEvent(t)
    BY <2>2, EraseIsLife DEF DeleteEvent, Life!Next
  <2>3. CASE Deactivate(t)
    <3>1. \A u \in Triggers : trig'[u].state = trig[u].state /\ trig'[u].iter = trig[u].iter
      BY <2>3 DEF Deactivate, SessionInvariant, TypeOK, Row
    <3>2. QED
      BY <2>3, <3>1, UnseenStep DEF Deactivate
  <2>4. QED
    BY <2>1, <2>2, <2>3, AddIsLife DEF Life!Next
<1>7. CASE Forget
  <2>1. PICK gone \in SUBSET Triggers : Erase(gone) /\ \A t \in gone : Exists(t)
    BY <1>7 DEF Forget
  <2>2. QED
    BY <2>1, EraseIsLife DEF Life!Next
<1>8. CASE \E w \in Windows : SetQuiet(w) \/ SetTimezone(w)
  BY <1>1, <1>8 DEF SetQuiet, SetTimezone, SetWindow
<1>9. CASE UNCHANGED vars
  BY <1>1, <1>9 DEF vars
<1>10. QED
  BY <1>2, <1>3, <1>4, <1>5, <1>6, <1>7, <1>8, <1>9 DEF Next, EngineStep, OwnerStep

\* NudgeEngine implements Reminder: whatever the sessions do to each other, what
\* is committed is the life of a reminder.
THEOREM Implementation == Spec => ImplementsReminder
<1>1. QED
  BY InitIsLife, StepIsLife, Invariance, PTL DEF Spec, ImplementsReminder, Life!Spec

-----------------------------------------------------------------------------
(* Counting the logs of a reminder.                                        *)

\* A set of ids has a largest one.
LEMMA LargestId ==
  ASSUME NEW S \in SUBSET LogIds, S # {}
  PROVE  \E m \in S : \A j \in S : j <= m
<1> DEFINE R == OpToRel(<, Nat)
           gap == {MaxLogs - i : i \in S}
<1>1. gap \subseteq Nat /\ gap # {}
  <2>1. \A i \in S : MaxLogs - i \in Nat
    BY EngineAssumption DEF LogIds
  <2>2. QED
    BY <2>1
<1>2. IsWellFoundedOn(R, Nat)
  BY NatLessThanWellFounded
<1>3. PICK g \in gap : \A h \in gap : <<h, g>> \notin R
  <2> HIDE DEF R, gap
  <2>1. QED
    BY <1>1, <1>2, WFMin
<1>4. \A h \in gap : ~(h < g)
  BY <1>1, <1>3 DEF OpToRel
<1>5. PICK m \in S : g = MaxLogs - m
  BY <1>3
<1>6. ASSUME NEW j \in S PROVE j <= m
  <2>1. ~(MaxLogs - j < MaxLogs - m)
    BY <1>4, <1>5
  <2>2. j \in Int /\ m \in Int /\ MaxLogs \in Int
    BY EngineAssumption DEF LogIds
  <2>3. QED
    BY <2>1, <2>2
<1>7. QED
  BY <1>6

LEMMA LogIdsFinite ==
  ASSUME NEW S \in SUBSET LogIds
  PROVE  IsFiniteSet(S) /\ Cardinality(S) \in Nat
<1>1. IsFiniteSet(LogIds)
  BY FS_Interval, EngineAssumption DEF LogIds
<1>2. IsFiniteSet(S)
  BY <1>1, FS_Subset
<1>3. QED
  BY <1>2, FS_CardinalityType

\* Of three ids or more, three have fewer than three above them.
LEMMA LastThree ==
  ASSUME NEW S \in SUBSET LogIds, Cardinality(S) >= CapIterations
  PROVE  Cardinality({i \in S : Cardinality({j \in S : i < j}) < CapIterations})
           >= CapIterations
<1> DEFINE Above(i) == {j \in S : i < j}
           latest == {i \in S : Cardinality(Above(i)) < CapIterations}
<1>1. S \subseteq Int /\ IsFiniteSet(S)
  BY LogIdsFinite, EngineAssumption DEF LogIds
<1>2. PICK a \in S : \A j \in S : j <= a
  <2>1. S # {}
    BY FS_EmptySet DEF CapIterations
  <2>2. QED
    BY <2>1, LargestId
<1>3. Cardinality(S \ {a}) = Cardinality(S) - 1 /\ IsFiniteSet(S \ {a})
  BY <1>1, <1>2, FS_RemoveElement
<1>4. PICK b \in S \ {a} : \A j \in S \ {a} : j <= b
  <2>1. S \ {a} # {}
    BY <1>1, <1>3, LogIdsFinite, FS_EmptySet DEF CapIterations
  <2>2. QED
    BY <2>1, LargestId
<1>5. Cardinality(S \ {a, b}) = Cardinality(S) - 2 /\ IsFiniteSet(S \ {a, b})
  <2>1. S \ {a, b} = (S \ {a}) \ {b}
    OBVIOUS
  <2>2. Cardinality((S \ {a}) \ {b}) = Cardinality(S \ {a}) - 1 /\ IsFiniteSet((S \ {a}) \ {b})
    BY <1>3, <1>4, FS_RemoveElement
  <2>3. QED
    BY <1>3, <2>1, <2>2, LogIdsFinite
<1>6. PICK c \in S \ {a, b} : \A j \in S \ {a, b} : j <= c
  <2>1. S \ {a, b} # {}
    BY <1>1, <1>5, LogIdsFinite, FS_EmptySet DEF CapIterations
  <2>2. QED
    BY <2>1, LargestId
<1>7. Above(a) = {} /\ Above(b) \subseteq {a} /\ Above(c) \subseteq {a, b}
  <2>1. \A i, j \in S : j <= i => ~(i < j)
    BY <1>1
  <2>2. \A j \in S : /\ ~(a < j)
                     /\ j # a => ~(b < j)
                     /\ j \notin {a, b} => ~(c < j)
    BY <1>2, <1>4, <1>6, <2>1
  <2>3. QED
    BY <2>2
<1>8. IsFiniteSet({a, b}) /\ Cardinality({a, b}) = 2
  <2>1. {a, b} = {a} \cup {b} /\ IsFiniteSet({a}) /\ Cardinality({a}) = 1 /\ b \notin {a}
    BY <1>4, FS_Singleton
  <2>2. QED
    BY <2>1, FS_AddElement
<1>9. IsFiniteSet({a, b, c}) /\ Cardinality({a, b, c}) = 3
  <2>1. {a, b, c} = {a, b} \cup {c} /\ c \notin {a, b}
    BY <1>6
  <2>2. QED
    BY <1>8, <2>1, FS_AddElement
<1>10. \A T \in SUBSET {a, b} : Cardinality(T) < CapIterations
  <2> SUFFICES ASSUME NEW T \in SUBSET {a, b} PROVE Cardinality(T) < CapIterations
    OBVIOUS
  <2>1. IsFiniteSet(T) /\ Cardinality(T) <= 2
    BY <1>8, FS_Subset
  <2>2. Cardinality(T) \in Nat
    BY <2>1, FS_CardinalityType
  <2>3. QED
    BY <2>1, <2>2 DEF CapIterations
<1>11. {a, b, c} \subseteq latest
  BY <1>2, <1>4, <1>6, <1>7, <1>10
<1>12. IsFiniteSet(latest)
  BY <1>1, FS_Subset
<1> HIDE DEF latest
<1>13. Cardinality({a, b, c}) <= Cardinality(latest)
  BY <1>11, <1>12, FS_Subset
<1>14. Cardinality(latest) \in Nat
  BY <1>12, FS_CardinalityType
<1>15. Cardinality(latest) >= CapIterations
  BY <1>9, <1>13, <1>14 DEF CapIterations
<1>16. QED
  BY <1>15 DEF latest

\* Nobody has reacted to a nudge of t.
Ignored(t) == Answered(t) = {}

\* One of the last three nudges of t has a reaction.
ReactedLately(t) ==
  \E j \in Answered(t) : Cardinality({k \in LogsOf(t) : j < k}) < CapIterations

\* Every nudge so far was a step up: the count is the number of the logs, and
\* the next nudge is planned an interval after each of them.
OnLadder(t) ==
  /\ trig[t].iter = Cardinality(LogsOf(t))
  /\ \A i \in LogsOf(t) : logs[i].fired + IntervalAfter[trig[t].tone] <= trig[t].next

\* The cap has stopped t, and no tick works on it.
Stopped(t) == trig[t].iter = 0 /\ trig[t].state # "pending" /\ t \notin tick.todo

\* What the rows and the copy of one reminder have to do with each other.
LadderOf(t) ==
  /\ Exists(t) => trig[t].iter <= Cardinality(LogsOf(t))
  /\ Exists(t) /\ Ignored(t) => OnLadder(t) \/ Stopped(t)
  /\ Exists(t) /\ t \in tick.todo =>
       /\ Ignored(t) => trig[t].next <= tick.now
       /\ tick.silent[t] < CapIterations /\ Cardinality(LogsOf(t)) >= CapIterations
            => ReactedLately(t)

\* The nudge in flight passed the cap guard, and its log comes after all others.
NudgeInOrder ==
  tick.pc \in {"flushed", "sent"} => ~CapReached(tick.cur) /\ nextLog = tick.log + 1

\* Every HARD nudge of t has a reaction on one of the three before it, and ignored
\* nudges keep their interval.  The first is more than HardStopsAtThree says: the
\* cap counts nudges of any tone, so it comes before the first silent HARD one.
HardAnswered(t) ==
  \A i \in LogsOf(t) :
    logs[i].tone = CapTone =>
      \E j \in Answered(t) :
        j < i /\ Cardinality({k \in LogsOf(t) : j < k /\ k < i}) < CapIterations
Paced(t) ==
  Ignored(t) => \A i, j \in LogsOf(t) :
                  i < j => logs[i].fired + IntervalAfter[logs[j].tone] <= logs[j].fired

Ladder(t) == LadderOf(t) /\ HardAnswered(t) /\ Paced(t)

\* What the properties of the ladder rest on, beside SessionInvariant.
LadderInvariant == NudgeInOrder /\ \A t \in Triggers : Ladder(t)

LEMMA LadderIsSafe ==
  LadderInvariant => HardStopsAtThree /\ IgnoredNudgesPaced
<1> SUFFICES ASSUME LadderInvariant
             PROVE  HardStopsAtThree /\ IgnoredNudgesPaced
  OBVIOUS
<1>1. \A t \in Triggers : HardAnswered(t) /\ Paced(t)
  BY DEF LadderInvariant, Ladder
<1>2. \A t \in Triggers : Ignored(t) <=> \A i \in LogsOf(t) : logs[i].reaction = NoReaction
  BY DEF Ignored, Answered
<1>3. HardStopsAtThree
  BY <1>1 DEF HardStopsAtThree, LastBefore, HardAnswered, Answered
<1>4. IgnoredNudgesPaced
  BY <1>1, <1>2 DEF IgnoredNudgesPaced, Paced
<1>5. QED
  BY <1>3, <1>4

\* A count below the cap means a reaction among the last three, once there are
\* three.
LEMMA CountTells ==
  ASSUME NEW t \in Triggers, SilentCount(t) < CapIterations,
         Cardinality(LogsOf(t)) >= CapIterations
  PROVE  ReactedLately(t)
<1> DEFINE latest == {i \in LogsOf(t) :
                        Cardinality({j \in LogsOf(t) : i < j}) < CapIterations}
           silent == {i \in latest : logs[i].reaction = NoReaction}
<1>1. LogsOf(t) \in SUBSET LogIds
  BY DEF LogsOf
<1>2. Cardinality(latest) >= CapIterations /\ Cardinality(latest) \in Nat
  BY <1>1, LastThree, LogIdsFinite
<1>3. SilentCount(t) = Cardinality(silent)
  BY <1>2 DEF SilentCount, CapIterations
<1>4. silent # latest
  <2> HIDE DEF latest, silent
  <2>1. QED
    BY <1>2, <1>3 DEF CapIterations
<1>5. PICK i \in latest : logs[i].reaction # NoReaction
  BY <1>4
<1>6. QED
  BY <1>5 DEF ReactedLately, Answered

-----------------------------------------------------------------------------
(* The steps.                                                              *)

\* A reminder whose logs, count, tone and time a step leaves alone.
LEMMA LadderFrame ==
  ASSUME NEW t \in Triggers, Ladder(t),
         LogsOf(t)' = LogsOf(t), \A i \in LogsOf(t) : logs'[i] = logs[i],
         Exists(t)' => /\ Exists(t)
                       /\ trig'[t].iter = trig[t].iter
                       /\ trig'[t].tone = trig[t].tone
                       /\ trig'[t].next = trig[t].next
                       /\ trig'[t].state = "pending" => trig[t].state = "pending",
         t \in tick'.todo => /\ t \in tick.todo
                            /\ tick'.now = tick.now
                            /\ tick'.silent[t] = tick.silent[t]
  PROVE  Ladder(t)'
<1>1. Answered(t)' = Answered(t)
  BY DEF Answered
<1>2. Ignored(t)' <=> Ignored(t)
  BY <1>1 DEF Ignored
<1>3. ReactedLately(t)' <=> ReactedLately(t)
  BY <1>1 DEF ReactedLately
<1>4. HardAnswered(t)'
  BY <1>1 DEF Ladder, HardAnswered
<1>5. Paced(t)'
  BY <1>2 DEF Ladder, Paced
<1>6. Exists(t)' /\ Ignored(t)' => OnLadder(t)' \/ Stopped(t)'
  BY <1>2 DEF Ladder, LadderOf, OnLadder, Stopped
<1>7. LadderOf(t)'
  BY <1>2, <1>3, <1>6 DEF Ladder, LadderOf
<1>8. QED
  BY <1>4, <1>5, <1>7 DEF Ladder

\* A reminder without logs is at the foot of the ladder.
LEMMA LadderStart ==
  ASSUME NEW t \in Triggers, LogsOf(t)' = {}, Exists(t)' => trig'[t].iter = 0,
         Exists(t)' => t \notin tick'.todo
  PROVE  Ladder(t)'
<1>1. Answered(t)' = {} /\ Cardinality(LogsOf(t)') = 0
  BY FS_EmptySet DEF Answered
<1>2. HardAnswered(t)' /\ Paced(t)'
  BY <1>1 DEF HardAnswered, Paced, CapIterations
<1>3. LadderOf(t)'
  BY <1>1 DEF LadderOf, OnLadder
<1>4. QED
  BY <1>2, <1>3 DEF Ladder

\* A step that only looks at the rows: a tick keeps the copies it still needs.
LEMMA LadderTick ==
  ASSUME LadderInvariant, UNCHANGED <<trig, logs>>,
         \A t \in tick'.todo : /\ t \in tick.todo
                               /\ tick'.now = tick.now
                               /\ tick'.silent[t] = tick.silent[t]
  PROVE  \A t \in Triggers : Ladder(t)'
<1>1. \A t \in Triggers : LogsOf(t)' = LogsOf(t) /\ (Exists(t)' <=> Exists(t))
  BY DEF LogsOf, Exists
<1>2. QED
  BY <1>1, LadderFrame DEF LadderInvariant

\* Nobody but the tick takes part in the order of the ids.
LEMMA OrderKept ==
  ASSUME NudgeInOrder, UNCHANGED <<tick, nextLog>>
  PROVE  NudgeInOrder'
  BY DEF NudgeInOrder, CapReached

LEMMA ProceedCopies ==
  ASSUME TypeOK, NEW t \in tick.todo, Proceed(t)
  PROVE  /\ tick'.pc \in {"idle", "next"} /\ tick'.log = NoLog
         /\ t \notin tick'.todo
         /\ \A u \in tick'.todo : /\ u \in tick.todo /\ u # t
                                 /\ tick'.now = tick.now
                                 /\ tick'.silent[u] = tick.silent[u]
<1>1. t \in Triggers
  BY DEF TypeOK
<1>2. CASE tick.todo = {t}
  BY <1>2 DEF Proceed, NoTick
<1>3. CASE tick.todo # {t}
  BY <1>1, <1>3 DEF Proceed, TypeOK
<1>4. QED
  BY <1>2, <1>3

\* A commit of the tick that writes one row and no log: the other reminders keep
\* their place, and t is left to show.
LEMMA LadderRow ==
  ASSUME SessionInvariant, LadderInvariant, NEW t \in Triggers, Head(t), Proceed(t),
         NEW row \in Row, trig' = [trig EXCEPT ![t] = row], logs' = logs,
         Ladder(t)'
  PROVE  LadderInvariant'
<1>1. t \in tick.todo /\ TypeOK
  BY DEF Head, SessionInvariant
<1>2. /\ tick'.pc \in {"idle", "next"}
      /\ \A u \in tick'.todo : /\ u \in tick.todo /\ u # t
                              /\ tick'.now = tick.now
                              /\ tick'.silent[u] = tick.silent[u]
  BY <1>1, ProceedCopies
<1>3. ASSUME NEW u \in Triggers, u # t PROVE Ladder(u)'
  <2>1. trig'[u] = trig[u] /\ LogsOf(u)' = LogsOf(u)
    BY <1>1, <1>3 DEF TypeOK, LogsOf
  <2>2. Exists(u)' <=> Exists(u)
    BY <2>1 DEF Exists
  <2>3. QED
    BY <1>2, <2>1, <2>2, LadderFrame DEF LadderInvariant
<1>4. QED
  BY <1>2, <1>3 DEF LadderInvariant, NudgeInOrder

LEMMA RetireLadder ==
  ASSUME SessionInvariant, LadderInvariant, NEW t \in Triggers, Retire(t)
  PROVE  LadderInvariant'
<1> DEFINE row == [trig[t] EXCEPT !.state = "done"]
<1>1. TypeOK /\ t \in tick.todo /\ trig[t] \in Row /\ Exists(t)
  BY DEF SessionInvariant, TypeOK, Retire, Head
<1>2. /\ row \in Row /\ row.state = "done" /\ row.iter = trig[t].iter
      /\ row.tone = trig[t].tone /\ row.next = trig[t].next
  BY <1>1 DEF Row, States
<1>3. trig' = [trig EXCEPT ![t] = row] /\ logs' = logs /\ Head(t) /\ Proceed(t)
  BY DEF Retire
<1> HIDE DEF row
<1>4. trig'[t] = row /\ LogsOf(t)' = LogsOf(t)
  BY <1>1, <1>3 DEF TypeOK, LogsOf
<1>5. t \notin tick'.todo
  BY <1>1, <1>3, ProceedCopies
<1>6. Ladder(t)'
  BY <1>1, <1>2, <1>3, <1>4, <1>5, LadderFrame DEF LadderInvariant
<1>7. QED
  BY <1>2, <1>3, <1>6, LadderRow

\* The end of the window lies after the tick, which came after the planned time.
LEMMA DeferLadder ==
  ASSUME SessionInvariant, LadderInvariant, NEW t \in Triggers, Defer(t)
  PROVE  LadderInvariant'
<1>1. PICK at \in NextPostQuiet(tick.now, tick.window) :
        trig' = [trig EXCEPT ![t].next = at]
  BY DEF Defer
<1> DEFINE row == [trig[t] EXCEPT !.next = at]
<1>2. tick.now \in Nat /\ tick.window \in QuietWindow
  BY EngineAssumption DEF SessionInvariant, TypeOK
<1>3. at \in Nat /\ tick.now < at
  BY <1>2, PostQuietAhead
<1>4. /\ TypeOK /\ t \in tick.todo /\ trig[t] \in Row /\ Exists(t)
      /\ logs' = logs /\ Head(t) /\ Proceed(t)
  BY DEF SessionInvariant, TypeOK, Defer, Head
<1>5. /\ row \in Row /\ row.state = trig[t].state /\ row.iter = trig[t].iter
      /\ row.tone = trig[t].tone /\ row.next = at
  BY <1>3, <1>4 DEF Row
<1>6. trig' = [trig EXCEPT ![t] = row]
  BY <1>1
<1> HIDE DEF row
<1>7. trig'[t] = row /\ LogsOf(t)' = LogsOf(t) /\ Answered(t)' = Answered(t)
  BY <1>4, <1>6 DEF TypeOK, LogsOf, Answered
<1>8. t \notin tick'.todo
  BY <1>4, ProceedCopies
<1>9. Ladder(t)
  BY DEF LadderInvariant
<1>10. Ignored(t)' => OnLadder(t)'
  <2> SUFFICES ASSUME Ignored(t) PROVE OnLadder(t)'
    BY <1>7 DEF Ignored
  <2>1. OnLadder(t) /\ trig[t].next <= tick.now
    BY <1>4, <1>9 DEF Ladder, LadderOf, Stopped
  <2>2. ASSUME NEW i \in LogsOf(t)
        PROVE  logs[i].fired + IntervalAfter[trig[t].tone] <= at
    <3>1. logs[i].fired + IntervalAfter[trig[t].tone] <= trig[t].next
      BY <2>1 DEF OnLadder
    <3>2. logs[i].fired \in Nat /\ IntervalAfter[trig[t].tone] \in Nat /\ trig[t].next \in Int
      BY <1>4, EngineAssumption DEF TypeOK, LogsOf, LogRow, Row, NoTime
    <3>3. QED
      BY <1>2, <1>3, <2>1, <3>1, <3>2
  <2>3. QED
    BY <1>4, <1>5, <1>7, <2>1, <2>2 DEF OnLadder
<1>11. LadderOf(t)'
  BY <1>4, <1>5, <1>7, <1>8, <1>9, <1>10 DEF Ladder, LadderOf
<1>12. HardAnswered(t)' /\ Paced(t)'
  BY <1>4, <1>7, <1>9 DEF Ladder, HardAnswered, Paced, Ignored
<1>13. Ladder(t)'
  BY <1>11, <1>12 DEF Ladder
<1>14. QED
  BY <1>4, <1>5, <1>6, <1>13, LadderRow

\* A capped reminder is stopped: only an answer to one of its nudges starts it.
LEMMA CapLadder ==
  ASSUME SessionInvariant, LadderInvariant, NEW t \in Triggers, CapAndSnooze(t)
  PROVE  LadderInvariant'
<1> DEFINE row == Capped(trig[t])
<1>1. /\ TypeOK /\ t \in tick.todo /\ trig[t] \in Row /\ Exists(t) /\ tick.now \in Nat
      /\ logs' = logs /\ Head(t) /\ Proceed(t) /\ CapSnooze \in Nat
  BY EngineAssumption DEF SessionInvariant, TypeOK, CapAndSnooze, Head
<1>2. row \in Row /\ row.state = "snoozed" /\ row.iter = 0
  <2>1. ASSUME NEW n \in Nat, NEW r \in Row
        PROVE  LET c == [r EXCEPT !.state = "snoozed", !.next = n,
                                  !.tone = FirstTone, !.iter = 0]
               IN  c \in Row /\ c.state = "snoozed" /\ c.iter = 0
    BY DEF Row, States, FirstTone, Tones
  <2>2. tick.now + CapSnooze \in Nat
    BY <1>1
  <2>3. QED
    BY <1>1, <2>1, <2>2 DEF Capped
<1>3. trig' = [trig EXCEPT ![t] = row]
  BY DEF CapAndSnooze
<1> HIDE DEF row
<1>4. trig'[t] = row /\ LogsOf(t)' = LogsOf(t) /\ Answered(t)' = Answered(t)
  BY <1>1, <1>3 DEF TypeOK, LogsOf, Answered
<1>5. t \notin tick'.todo
  BY <1>1, ProceedCopies
<1>6. Cardinality(LogsOf(t)) \in Nat
  BY LogIdsFinite DEF LogsOf
<1>7. LadderOf(t)'
  BY <1>2, <1>4, <1>5, <1>6 DEF LadderOf, Stopped
<1>8. HardAnswered(t)' /\ Paced(t)'
  BY <1>1, <1>4 DEF LadderInvariant, Ladder, HardAnswered, Paced, Ignored
<1>9. Ladder(t)'
  BY <1>7, <1>8 DEF Ladder
<1>10. QED
  BY <1>1, <1>2, <1>3, <1>9, LadderRow

\* The tick reads the rows, the times and the counts at one instant.
LEMMA LoadLadder ==
  ASSUME SessionInvariant, LadderInvariant, LoadDue
  PROVE  LadderInvariant'
<1>1. /\ TypeOK /\ trig' = trig /\ logs' = logs
      /\ tick'.pc = "next" /\ tick'.todo = Due(clock) /\ tick'.now = clock
      /\ \A t \in Due(clock) : tick'.silent[t] = SilentCount(t)
  BY DEF SessionInvariant, LoadDue, Due
<1>2. ASSUME NEW t \in Triggers PROVE Ladder(t)'
  <2>1. LogsOf(t)' = LogsOf(t) /\ Answered(t)' = Answered(t) /\ (Exists(t)' <=> Exists(t))
    BY <1>1 DEF LogsOf, Answered, Exists
  <2>2. CASE t \notin Due(clock)
    BY <1>1, <2>1, <2>2, LadderFrame DEF LadderInvariant
  <2>3. CASE t \in Due(clock)
    <3>1. trig[t].state = "pending" /\ trig[t].next <= clock
      BY <2>3 DEF Due
    <3>2. Ladder(t)
      BY DEF LadderInvariant
    <3>3. Ignored(t)' <=> Ignored(t)
      BY <2>1 DEF Ignored
    <3>4. OnLadder(t)' <=> OnLadder(t)
      BY <1>1, <2>1 DEF OnLadder
    <3>5. Exists(t) /\ Ignored(t) => OnLadder(t)
      BY <3>1, <3>2 DEF Ladder, LadderOf, Stopped
    <3>6. SilentCount(t) < CapIterations /\ Cardinality(LogsOf(t)) >= CapIterations
            => ReactedLately(t)'
      BY <2>1, CountTells DEF ReactedLately
    <3>7. LadderOf(t)'
      BY <1>1, <2>1, <2>3, <3>1, <3>2, <3>3, <3>4, <3>5, <3>6 DEF Ladder, LadderOf
    <3>8. HardAnswered(t)' /\ Paced(t)'
      BY <1>1, <2>1, <3>2, <3>3 DEF Ladder, HardAnswered, Paced
    <3>9. QED
      BY <3>7, <3>8 DEF Ladder
  <2>4. QED
    BY <2>2, <2>3
<1>3. QED
  BY <1>1, <1>2 DEF LadderInvariant, NudgeInOrder

LEMMA SendLadder ==
  ASSUME SessionInvariant, LadderInvariant,
         (\E t \in Triggers : Compose(t)) \/ SendReaches \/ SendFails
  PROVE  LadderInvariant'
<1>1. TypeOK
  BY DEF SessionInvariant
<1>2. /\ UNCHANGED <<trig, logs>> /\ tick'.todo = tick.todo /\ tick'.now = tick.now
      /\ tick'.silent = tick.silent /\ tick'.loaded = tick.loaded
  BY <1>1 DEF Compose, SendReaches, SendFails, TypeOK
<1>3. \A t \in Triggers : Ladder(t)'
  BY <1>2, LadderTick
<1>4. NudgeInOrder'
  <2>1. ASSUME NEW t \in Triggers, Compose(t) PROVE NudgeInOrder'
    <3>1. ~CapReached(t) /\ nextLog' = nextLog + 1 /\ tick'.cur = t /\ tick'.log = nextLog
      BY <1>1, <2>1 DEF Compose, NewLogId, TypeOK
    <3>2. QED
      BY <1>2, <3>1 DEF NudgeInOrder, CapReached
  <2>2. CASE SendReaches \/ SendFails
    <3>1. /\ tick.pc = "flushed" /\ tick'.cur = tick.cur /\ tick'.log = tick.log
          /\ nextLog' = nextLog
      BY <1>1, <2>2 DEF SendReaches, SendFails, TypeOK
    <3>2. QED
      BY <1>2, <3>1 DEF LadderInvariant, NudgeInOrder, CapReached
  <2>3. QED
    BY <2>1, <2>2
<1>5. QED
  BY <1>3, <1>4 DEF LadderInvariant

LEMMA EndLadder ==
  ASSUME LadderInvariant, tick' = NoTick, UNCHANGED <<trig, logs>>
  PROVE  LadderInvariant'
<1>1. tick'.todo = {} /\ tick'.pc = "idle"
  BY NoTickType
<1>2. \A t \in Triggers : Ladder(t)'
  BY <1>1, LadderTick
<1>3. QED
  BY <1>1, <1>2 DEF LadderInvariant, NudgeInOrder

\* A new log: it comes after the others, and what the guards of the tick and the
\* copies say of the reminder holds of it now.
LEMMA CommitLadder ==
  ASSUME SessionInvariant, LadderInvariant, CommitNudge
  PROVE  LadderInvariant'
<1>1. PICK t : t = tick.cur
  OBVIOUS
<1>2. PICK n : n = tick.log
  OBVIOUS
<1> DEFINE row == Nudged(trig[t])
           tone == trig[t].tone
           higher == Escalate(tone)
<1>3. TypeOK /\ CopyCurrent /\ IdsFresh /\ NudgeInOrder /\ \A u \in Triggers : Ladder(u)
  BY DEF SessionInvariant, LadderInvariant
<1>4. /\ t \in Triggers /\ t \in tick.todo /\ Exists(t) /\ trig[t] \in Row
      /\ n \in LogIds /\ logs[n].trigger = NoTrigger /\ tick.now \in Nat
  BY <1>1, <1>2, <1>3 DEF TypeOK, CopyCurrent, IdsFresh, CommitNudge
<1>5. /\ tick.loaded[t].tone = tone /\ tick.loaded[t].iter = trig[t].iter
      /\ trig[t].iter \in Nat /\ tone \in Tones /\ tone = ToneAfter(trig[t].iter)
      /\ higher \in Tones
  BY <1>3, <1>4, EscalateType DEF CopyCurrent, Row, SessionInvariant, ToneTracksIteration
<1>6. /\ IntervalAfter[tone] \in Nat /\ IntervalAfter[higher] \in Nat
  BY <1>5, EngineAssumption
<1>7. /\ row.state = trig[t].state /\ row.tone = higher /\ row.iter = trig[t].iter + 1
      /\ row.next = tick.now + IntervalAfter[higher]
  BY <1>1, <1>4, <1>5 DEF Nudged, Row
<1> HIDE DEF row, tone, higher
<1>8. /\ trig' = [trig EXCEPT ![t] = row] /\ Proceed(t)
      /\ logs' = [logs EXCEPT ![n] = [trigger |-> t, fired |-> tick.now,
                                      tone |-> tone, reaction |-> NoReaction]]
  BY <1>1, <1>2, <1>5 DEF CommitNudge, row
<1>9. trig'[t] = row /\ \A u \in Triggers : u # t => trig'[u] = trig[u]
  BY <1>3, <1>4, <1>8 DEF TypeOK
<1>10. /\ logs'[n].trigger = t /\ logs'[n].fired = tick.now /\ logs'[n].tone = tone
       /\ logs'[n].reaction = NoReaction
       /\ \A i \in LogIds : i # n => logs'[i] = logs[i]
  BY <1>3, <1>4, <1>8 DEF TypeOK
<1>11. \A u \in Triggers : /\ n \notin LogsOf(u) /\ LogsOf(u) \subseteq LogIds
                           /\ \A i \in LogsOf(u) : logs'[i] = logs[i]
  <2>1. \A u \in Triggers : n \notin LogsOf(u) /\ LogsOf(u) \subseteq LogIds
    BY <1>4, EngineAssumption DEF LogsOf
  <2>2. QED
    BY <1>10, <2>1
<1>12. /\ LogsOf(t)' = LogsOf(t) \cup {n}
       /\ \A u \in Triggers : u # t => LogsOf(u)' = LogsOf(u)
  BY <1>4, <1>10, EngineAssumption DEF LogsOf
<1>13. \A i \in LogsOf(t) : i < n /\ i \in Int /\ n \in Int
  <2>1. \A i \in LogsOf(t) : i \in LogIds /\ i < nextLog
    BY <1>3, <1>4, EngineAssumption DEF IdsFresh, LogsOf
  <2>2. nextLog = n + 1
    BY <1>2, <1>3 DEF NudgeInOrder, CommitNudge
  <2>3. QED
    BY <1>4, <1>11, <2>1, <2>2, EngineAssumption DEF LogIds
<1>14. Answered(t)' = Answered(t)
  <2>1. Answered(t)' = {i \in LogsOf(t) \cup {n} : logs'[i].reaction # NoReaction}
    BY <1>12 DEF Answered
  <2>2. Answered(t)' = {i \in LogsOf(t) : logs'[i].reaction # NoReaction}
    BY <1>10, <2>1
  <2>3. QED
    BY <1>4, <1>11, <2>2 DEF Answered
<1>15. /\ Cardinality(LogsOf(t)') = Cardinality(LogsOf(t)) + 1
       /\ Cardinality(LogsOf(t)) \in Nat
  <2>1. IsFiniteSet(LogsOf(t)) /\ Cardinality(LogsOf(t)) \in Nat
    BY LogIdsFinite DEF LogsOf
  <2>2. QED
    BY <1>4, <1>11, <1>12, <2>1, FS_AddElement
<1>16. /\ tick'.pc \in {"idle", "next"} /\ t \notin tick'.todo
       /\ \A u \in tick'.todo : /\ u \in tick.todo /\ u # t
                               /\ tick'.now = tick.now
                               /\ tick'.silent[u] = tick.silent[u]
  BY <1>3, <1>4, <1>8, ProceedCopies
<1>17. Ladder(t) /\ (Ignored(t)' <=> Ignored(t))
  BY <1>3, <1>4, <1>14 DEF Ignored
<1>18. Ignored(t) => OnLadder(t) /\ trig[t].next <= tick.now
  BY <1>4, <1>17 DEF Ladder, LadderOf, Stopped
<1>19. tone = CapTone => ReactedLately(t)
  <2> SUFFICES ASSUME tone = CapTone PROVE ReactedLately(t)
    OBVIOUS
  <2>1. trig[t].iter >= CapIterations
    BY <1>5 DEF ToneAfter, ToneOrder, CapTone, CapIterations
  <2>2. Cardinality(LogsOf(t)) >= CapIterations
    BY <1>4, <1>5, <1>15, <1>17, <2>1 DEF Ladder, LadderOf, CapIterations
  <2>3. tick.silent[t] < CapIterations
    BY <1>1, <1>3, <1>4, <1>5 DEF NudgeInOrder, CapReached, CommitNudge, TypeOK, CapIterations
  <2>4. QED
    BY <1>4, <1>17, <2>2, <2>3 DEF Ladder, LadderOf
<1>20. ASSUME NEW i \in LogsOf(t), Ignored(t)
       PROVE  logs[i].fired + IntervalAfter[tone] <= tick.now
              /\ logs[i].fired <= tick.now
  <2>1. logs[i].fired + IntervalAfter[tone] <= trig[t].next /\ trig[t].next <= tick.now
    BY <1>18, <1>20 DEF OnLadder, tone
  <2>2. logs[i].fired \in Nat /\ trig[t].next \in Int
    BY <1>3, <1>4 DEF TypeOK, LogsOf, LogRow, Row, NoTime
  <2>3. QED
    BY <1>4, <1>6, <2>1, <2>2
<1>21. LadderOf(t)'
  <2>1. trig'[t].iter <= Cardinality(LogsOf(t)')
    BY <1>4, <1>5, <1>7, <1>9, <1>15, <1>17 DEF Ladder, LadderOf
  <2>2. Ignored(t) => OnLadder(t)'
    <3> SUFFICES ASSUME Ignored(t) PROVE OnLadder(t)'
      OBVIOUS
    <3>1. trig'[t].iter = Cardinality(LogsOf(t)')
      BY <1>7, <1>9, <1>15, <1>18 DEF OnLadder
    <3>2. \A i \in LogsOf(t) : logs'[i].fired <= tick.now /\ logs'[i].fired \in Nat
      <4>1. \A i \in LogsOf(t) : logs'[i] = logs[i] /\ logs[i] \in LogRow
        BY <1>3, <1>4, <1>11 DEF TypeOK
      <4>2. QED
        BY <1>20, <4>1 DEF LogRow
    <3>3. \A i \in LogsOf(t)' : logs'[i].fired <= tick.now /\ logs'[i].fired \in Nat
      BY <1>4, <1>10, <1>12, <3>2
    <3>4. \A i \in LogsOf(t)' : logs'[i].fired + IntervalAfter[higher] <= trig'[t].next
      BY <1>4, <1>6, <1>7, <1>9, <3>3
    <3>5. QED
      BY <1>7, <1>9, <3>1, <3>4 DEF OnLadder
  <2>3. QED
    BY <1>16, <1>17, <2>1, <2>2 DEF LadderOf
<1>22. HardAnswered(t)'
  <2>1. ASSUME NEW i \in LogsOf(t), logs[i].tone = CapTone
        PROVE  \E j \in Answered(t) :
                 j < i /\ Cardinality({k \in LogsOf(t)' : j < k /\ k < i}) < CapIterations
    <3>1. PICK j \in Answered(t) :
            j < i /\ Cardinality({k \in LogsOf(t) : j < k /\ k < i}) < CapIterations
      BY <1>17, <2>1 DEF Ladder, HardAnswered
    <3>2. {k \in LogsOf(t)' : j < k /\ k < i} = {k \in LogsOf(t) : j < k /\ k < i}
      BY <1>12, <1>13
    <3>3. QED
      BY <3>1, <3>2
  <2>2. ASSUME tone = CapTone
        PROVE  \E j \in Answered(t) :
                 j < n /\ Cardinality({k \in LogsOf(t)' : j < k /\ k < n}) < CapIterations
    <3>1. PICK j \in Answered(t) : Cardinality({k \in LogsOf(t) : j < k}) < CapIterations
      BY <1>19, <2>2 DEF ReactedLately
    <3>2. j < n /\ {k \in LogsOf(t)' : j < k /\ k < n} = {k \in LogsOf(t) : j < k}
      BY <1>12, <1>13 DEF Answered
    <3>3. QED
      BY <3>1, <3>2
  <2>3. ASSUME NEW i \in LogsOf(t)', logs'[i].tone = CapTone
        PROVE  \E j \in Answered(t) :
                 j < i /\ Cardinality({k \in LogsOf(t)' : j < k /\ k < i}) < CapIterations
    <3>1. CASE i = n
      BY <1>10, <2>2, <2>3, <3>1
    <3>2. CASE i \in LogsOf(t)
      BY <1>4, <1>11, <2>1, <2>3, <3>2
    <3>3. QED
      BY <1>12, <3>1, <3>2
  <2>4. QED
    BY <1>14, <2>3 DEF HardAnswered
<1>23. Paced(t)'
  <2> SUFFICES ASSUME Ignored(t), NEW i \in LogsOf(t)', NEW j \in LogsOf(t)', i < j
               PROVE  logs'[i].fired + IntervalAfter[logs'[j].tone] <= logs'[j].fired
    BY <1>17 DEF Paced
  <2>1. i \in LogsOf(t) /\ logs'[i] = logs[i]
    <3>1. ~(n < n) /\ \A k \in LogsOf(t) : ~(n < k)
      BY <1>4, <1>13, EngineAssumption DEF LogIds
    <3>2. i # n
      BY <1>12, <3>1
    <3>3. QED
      BY <1>4, <1>11, <1>12, <3>2
  <2>2. CASE j = n
    BY <1>10, <1>20, <2>1, <2>2
  <2>3. CASE j # n
    <3>1. j \in LogsOf(t) /\ logs'[j] = logs[j]
      BY <1>4, <1>11, <1>12, <2>3
    <3>2. QED
      BY <1>17, <2>1, <3>1 DEF Ladder, Paced
  <2>4. QED
    BY <2>2, <2>3
<1>24. ASSUME NEW u \in Triggers, u # t PROVE Ladder(u)'
  <2>1. trig'[u] = trig[u] /\ LogsOf(u)' = LogsOf(u)
    BY <1>9, <1>12, <1>24
  <2>2. \A i \in LogsOf(u) : logs'[i] = logs[i]
    BY <1>10, <1>11
  <2>3. Exists(u)' <=> Exists(u)
    BY <2>1 DEF Exists
  <2>4. QED
    BY <1>3, <1>16, <2>1, <2>2, <2>3, LadderFrame
<1>25. Ladder(t)'
  BY <1>21, <1>22, <1>23 DEF Ladder
<1>26. QED
  BY <1>16, <1>24, <1>25 DEF LadderInvariant, NudgeInOrder

\* The commit of a reaction: its reminder is no longer ignored, and what was
\* reacted to stays so.
LEMMA TapLadder ==
  ASSUME SessionInvariant, LadderInvariant, NEW h \in Handlers, TapCommit(h)
  PROVE  LadderInvariant'
<1>1. PICK task : task = tasks[h]
  OBVIOUS
<1>2. PICK n : n = task.log
  OBVIOUS
<1>3. PICK t : t = logs[n].trigger
  OBVIOUS
<1> DEFINE state == IF task.state = KeepState THEN trig[t].state ELSE task.state
           next == IF task.next = KeepTime THEN trig[t].next ELSE task.next
           row == [trig[t] EXCEPT !.state = state, !.next = next]
<1>4. /\ TypeOK /\ task \in TaskRow /\ n \in LogIds /\ t \in Triggers
      /\ task.reaction # NoReaction
  BY <1>1, <1>2, <1>3
     DEF SessionInvariant, TypeOK, TaskHasLog, TapCommit, LogRow, TaskRow, Actions, NoReaction
<1>5. trig[t] \in Row
  BY <1>4 DEF TypeOK
<1>6. row.iter = trig[t].iter
  BY <1>5 DEF Row
<1>7. trig' = [trig EXCEPT ![t] = row] /\ tick' = tick /\ nextLog' = nextLog
  BY <1>1, <1>2, <1>3 DEF TapCommit
<1> HIDE DEF row, state, next
<1>8. trig'[t].iter = trig[t].iter /\ \A u \in Triggers : u # t => trig'[u] = trig[u]
  BY <1>4, <1>6, <1>7 DEF TypeOK
<1>9. logs' = [logs EXCEPT ![n] = [logs[n] EXCEPT !.reaction = task.reaction]]
  BY <1>1, <1>2 DEF TapCommit
<1>10. /\ logs'[n].trigger = t /\ logs'[n].reaction = task.reaction
       /\ \A i \in LogIds : i # n => logs'[i] = logs[i]
       /\ \A i \in LogIds : logs'[i].tone = logs[i].tone
  BY <1>3, <1>4, <1>9 DEF TypeOK, LogRow
<1>11. n \in LogsOf(t) /\ \A u \in Triggers : LogsOf(u)' = LogsOf(u) /\ LogsOf(u) \subseteq LogIds
  BY <1>3, <1>4, <1>10 DEF LogsOf
<1>12. Answered(t)' = Answered(t) \cup {n}
  BY <1>3, <1>4, <1>10, <1>11 DEF Answered, LogsOf
<1>13. Exists(t)
  BY <1>3, <1>4, EngineAssumption DEF SessionInvariant, LogsHaveRow
<1>14. Ladder(t) /\ ~Ignored(t)'
  BY <1>4, <1>12 DEF LadderInvariant, Ignored
<1>15. LadderOf(t)'
  <2>1. trig'[t].iter <= Cardinality(LogsOf(t)')
    BY <1>4, <1>8, <1>11, <1>13, <1>14 DEF Ladder, LadderOf
  <2>2. ReactedLately(t) => ReactedLately(t)'
    BY <1>4, <1>11, <1>12 DEF ReactedLately
  <2>3. t \in tick'.todo /\ tick'.silent[t] < CapIterations
          /\ Cardinality(LogsOf(t)') >= CapIterations => ReactedLately(t)'
    BY <1>4, <1>7, <1>11, <1>13, <1>14, <2>2 DEF Ladder, LadderOf
  <2>4. QED
    BY <1>14, <2>1, <2>3 DEF LadderOf
<1>16. HardAnswered(t)'
  BY <1>4, <1>10, <1>11, <1>12, <1>14 DEF Ladder, HardAnswered
<1>17. Paced(t)'
  BY <1>14 DEF Paced
<1>18. ASSUME NEW u \in Triggers, u # t PROVE Ladder(u)'
  <2>1. trig'[u] = trig[u] /\ LogsOf(u)' = LogsOf(u) /\ n \notin LogsOf(u)
    BY <1>3, <1>8, <1>11, <1>18 DEF LogsOf
  <2>2. \A i \in LogsOf(u) : logs'[i] = logs[i]
    BY <1>10, <1>11, <2>1
  <2>3. Exists(u)' <=> Exists(u)
    BY <2>1 DEF Exists
  <2>4. QED
    BY <1>7, <2>1, <2>2, <2>3, LadderFrame DEF LadderInvariant
<1>19. Ladder(t)'
  BY <1>15, <1>16, <1>17 DEF Ladder
<1>20. QED
  BY <1>7, <1>18, <1>19, OrderKept DEF LadderInvariant

LEMMA AddLadder ==
  ASSUME SessionInvariant, LadderInvariant, NEW t \in Triggers, AddEvent(t)
  PROVE  LadderInvariant'
<1>1. PICK at \in StartTimes : trig' = [trig EXCEPT ![t].state = "pending", ![t].next = at]
  BY DEF AddEvent
<1>2. /\ TypeOK /\ trig[t].state = "absent" /\ trig[t].iter = 0 /\ trig[t] \in Row
      /\ logs' = logs /\ tick' = tick /\ nextLog' = nextLog
  BY DEF SessionInvariant, TypeOK, AbsentIsBlank, AddEvent, NoRow
<1>3. trig'[t].iter = 0 /\ \A u \in Triggers : u # t => trig'[u] = trig[u]
  BY <1>1, <1>2 DEF TypeOK, Row
<1>4. \A u \in Triggers : LogsOf(u)' = LogsOf(u)
  BY <1>2 DEF LogsOf
<1>5. LogsOf(t) = {} /\ t \notin tick.todo
  BY <1>2, EngineAssumption
     DEF SessionInvariant, LogsHaveRow, CopyCurrent, LogsOf, Exists, States
<1>6. Ladder(t)'
  BY <1>2, <1>3, <1>4, <1>5, LadderStart
<1>7. ASSUME NEW u \in Triggers, u # t PROVE Ladder(u)'
  <2>1. trig'[u] = trig[u] /\ (Exists(u)' <=> Exists(u))
    BY <1>3, <1>7 DEF Exists
  <2>2. QED
    BY <1>2, <1>4, <2>1, LadderFrame DEF LadderInvariant
<1>8. QED
  BY <1>2, <1>6, <1>7, OrderKept DEF LadderInvariant

LEMMA DeactivateLadder ==
  ASSUME SessionInvariant, LadderInvariant, NEW t \in Triggers, Deactivate(t)
  PROVE  LadderInvariant'
<1>1. /\ trig' = [trig EXCEPT ![t].active = FALSE] /\ TypeOK /\ trig[t] \in Row
      /\ logs' = logs /\ tick' = tick /\ nextLog' = nextLog
  BY DEF Deactivate, SessionInvariant, TypeOK
<1>2. ASSUME NEW u \in Triggers PROVE Ladder(u)'
  <2>1. /\ trig'[u].state = trig[u].state /\ trig'[u].iter = trig[u].iter
        /\ trig'[u].tone = trig[u].tone /\ trig'[u].next = trig[u].next
    BY <1>1 DEF TypeOK, Row
  <2>2. LogsOf(u)' = LogsOf(u) /\ (Exists(u)' <=> Exists(u))
    BY <1>1, <2>1 DEF LogsOf, Exists
  <2>3. QED
    BY <1>1, <2>1, <2>2, LadderFrame DEF LadderInvariant
<1>3. QED
  BY <1>1, <1>2, OrderKept DEF LadderInvariant

LEMMA EraseLadder ==
  ASSUME SessionInvariant, LadderInvariant, NEW gone \in SUBSET Triggers, Erase(gone)
  PROVE  LadderInvariant'
<1>1. /\ \A t \in gone : trig'[t].state = "deleted"
      /\ \A t \in Triggers \ gone : trig'[t] = trig[t]
      /\ tick' = tick /\ nextLog' = nextLog
  BY DEF Erase, Gone, NoRow
<1>2. \A i \in LogIds : /\ logs[i].trigger \in gone => logs'[i].trigger = NoTrigger
                        /\ logs[i].trigger \notin gone => logs'[i] = logs[i]
  BY DEF Erase, Unlogged
<1>3. ASSUME NEW t \in gone PROVE Ladder(t)'
  <2>1. LogsOf(t)' = {} /\ ~Exists(t)'
    BY <1>1, <1>2, EngineAssumption DEF LogsOf, Exists, States
  <2>2. QED
    BY <2>1, LadderStart
<1>4. ASSUME NEW t \in Triggers \ gone PROVE Ladder(t)'
  <2>1. LogsOf(t)' = LogsOf(t) /\ \A i \in LogsOf(t) : logs'[i] = logs[i]
    BY <1>2, EngineAssumption DEF LogsOf
  <2>2. trig'[t] = trig[t] /\ (Exists(t)' <=> Exists(t))
    BY <1>1 DEF Exists
  <2>3. QED
    BY <1>1, <2>1, <2>2, LadderFrame DEF LadderInvariant
<1>5. QED
  BY <1>1, <1>3, <1>4, OrderKept DEF LadderInvariant

LEMMA LadderPreserved ==
  ASSUME SessionInvariant, LadderInvariant, [Next]_vars
  PROVE  LadderInvariant'
<1>1. CASE UNCHANGED <<trig, logs, tick, nextLog>>
  BY <1>1, LadderTick, OrderKept DEF LadderInvariant
<1>2. CASE LoadDue
  BY <1>2, LoadLadder
<1>3. CASE SendReaches \/ SendFails
  BY <1>3, SendLadder
<1>4. CASE CommitNudge
  BY <1>4, CommitLadder
<1>5. CASE TickDies
  BY <1>5, EndLadder DEF TickDies
<1>6. CASE \E t \in Triggers :
             \/ Retire(t) \/ Defer(t) \/ CapAndSnooze(t)
             \/ Compose(t) \/ ComposeRaises(t) \/ RowVanished(t)
  <2>1. PICK t \in Triggers :
          \/ Retire(t) \/ Defer(t) \/ CapAndSnooze(t)
          \/ Compose(t) \/ ComposeRaises(t) \/ RowVanished(t)
    BY <1>6
  <2>2. CASE ComposeRaises(t) \/ RowVanished(t)
    BY <2>2, EndLadder DEF ComposeRaises, RowVanished
  <2>3. CASE Compose(t)
    BY <2>3, SendLadder
  <2>4. QED
    BY <2>1, <2>2, <2>3, RetireLadder, DeferLadder, CapLadder
<1>7. CASE TapStep
  <2>1. PICK h \in Handlers :
          (\E action \in Actions : TapLoad(h, action)) \/ TapCommit(h) \/ TapFails(h)
    BY <1>7 DEF TapStep
  <2>2. CASE TapCommit(h)
    BY <2>2, TapLadder
  <2>3. QED
    BY <1>1, <2>1, <2>2 DEF TapLoad, TapFails
<1>8. CASE \E t \in Triggers : AddEvent(t) \/ DeleteEvent(t) \/ Deactivate(t)
  <2>1. PICK t \in Triggers : AddEvent(t) \/ DeleteEvent(t) \/ Deactivate(t)
    BY <1>8
  <2>2. CASE DeleteEvent(t)
    BY <2>2, EraseLadder DEF DeleteEvent
  <2>3. QED
    BY <2>1, <2>2, AddLadder, DeactivateLadder
<1>9. CASE Forget
  BY <1>9, EraseLadder DEF Forget
<1>10. CASE (\E w \in Windows : SetQuiet(w) \/ SetTimezone(w)) \/ Advance \/ UNCHANGED vars
  BY <1>1, <1>10 DEF SetQuiet, SetTimezone, SetWindow, Advance, vars
<1>11. QED
  BY <1>2, <1>3, <1>4, <1>5, <1>6, <1>7, <1>8, <1>9, <1>10 DEF Next, EngineStep, OwnerStep

\* The counts, times and reactions of every reminder fit together, for any
\* reactions, deletions and crashes between the steps of a tick
\* (nudge_engine.py:96-217, reactions.py:73-170).
THEOREM LadderHolds == Spec => [](SessionInvariant /\ LadderInvariant)
<1>1. Init => LadderInvariant
  <2> SUFFICES ASSUME Init PROVE LadderInvariant
    OBVIOUS
  <2>1. \A t \in Triggers : LogsOf(t) = {} /\ Answered(t) = {} /\ ~Exists(t)
    BY EngineAssumption DEF Init, LogsOf, Answered, Unlogged, Exists, NoRow, States
  <2>2. \A t \in Triggers : Ladder(t)
    BY <2>1, FS_EmptySet
       DEF Ladder, LadderOf, HardAnswered, Paced, CapIterations
  <2>3. NudgeInOrder
    BY NoTickType DEF Init, NudgeInOrder
  <2>4. QED
    BY <2>2, <2>3 DEF LadderInvariant
<1>2. SessionInvariant /\ LadderInvariant /\ [Next]_vars => LadderInvariant'
  BY LadderPreserved
<1>3. QED
  BY <1>1, <1>2, Invariance, PTL DEF Spec

\* After three HARD nudges without a reaction there is no fourth, for any number
\* of nudges and whatever the tick's copy of the logs has missed
\* (nudge_engine.py:155-170).
THEOREM HardStops == Spec => []HardStopsAtThree
BY LadderHolds, LadderIsSafe, PTL

\* Ignored nudges of one reminder keep the interval of their tone, for any
\* intervals, windows and delays of a tick.
THEOREM IgnoredPaced == Spec => []IgnoredNudgesPaced
BY LadderHolds, LadderIsSafe, PTL

-----------------------------------------------------------------------------
(* The messages whose log is lost.                                         *)

\* What the count of the orphaned messages rests on, beside SessionInvariant.
OrphanInvariant ==
  /\ tick.pc \in {"idle", "next"} => tick.log = NoLog
  /\ \A m \in sent : trig[m.trigger].state # "absent"
  /\ IsFiniteSet(OrphanedMessages)
  /\ OrphansNeedFaults

\* A step that makes no orphan, of a tick that does not die.
LEMMA OrphansShrink ==
  ASSUME SessionInvariant, OrphanInvariant, faults' = faults,
         tick'.pc \in {"idle", "next"} => tick'.log = NoLog,
         \A m \in sent' : trig'[m.trigger].state # "absent",
         OrphanedMessages' \subseteq OrphanedMessages
  PROVE  OrphanInvariant'
<1>1. /\ IsFiniteSet(OrphanedMessages') /\ Cardinality(OrphanedMessages) \in Nat
      /\ Cardinality(OrphanedMessages') <= Cardinality(OrphanedMessages)
  BY FS_Subset, FS_CardinalityType DEF OrphanInvariant
<1>2. Cardinality(OrphanedMessages') \in Nat /\ faults \in Nat
  BY <1>1, FS_CardinalityType DEF SessionInvariant, TypeOK
<1>3. OrphansNeedFaults'
  BY <1>1, <1>2 DEF OrphanInvariant, OrphansNeedFaults
<1>4. QED
  BY <1>1, <1>3 DEF OrphanInvariant

\* A step that leaves the messages, the logs' reminders and the log in flight
\* alone, and neither creates nor revives the reminder of a message.
LEMMA OrphansSame ==
  ASSUME SessionInvariant, OrphanInvariant, sent' = sent, faults' = faults,
         tick'.log = tick.log, tick'.pc \in {"idle", "next"} => tick'.log = NoLog,
         \A i \in LogIds : logs'[i].trigger = logs[i].trigger,
         \A t \in Triggers : trig[t].state # "absent" =>
           /\ trig'[t].state # "absent"
           /\ Exists(t)' => Exists(t)
  PROVE  OrphanInvariant'
<1>1. \A m \in sent : m.log \in LogIds /\ m.trigger \in Triggers
  BY DEF SessionInvariant, TypeOK
<1>2. \A m \in sent' : trig'[m.trigger].state # "absent"
  BY <1>1 DEF OrphanInvariant
<1>3. ASSUME NEW m \in OrphanedMessages' PROVE m \in OrphanedMessages
  <2>1. /\ m \in sent /\ Exists(m.trigger)' /\ logs'[m.log].trigger = NoTrigger
        /\ m.log # tick.log
    BY <1>3 DEF OrphanedMessages
  <2>2. logs[m.log].trigger = NoTrigger
    BY <1>1, <2>1
  <2>3. Exists(m.trigger)
    BY <1>1, <2>1 DEF OrphanInvariant
  <2>4. QED
    BY <2>1, <2>2, <2>3 DEF OrphanedMessages
<1>4. QED
  BY <1>2, <1>3, OrphansShrink

\* A step of the tick on the next row, before a log is inserted.
LEMMA RowOrphans ==
  ASSUME SessionInvariant, OrphanInvariant, NEW t \in Triggers,
         Retire(t) \/ Defer(t) \/ CapAndSnooze(t)
  PROVE  OrphanInvariant'
<1>1. /\ t \in tick.todo /\ tick.pc = "next" /\ Proceed(t) /\ Exists(t) /\ TypeOK
      /\ sent' = sent /\ faults' = faults /\ logs' = logs
  BY DEF Retire, Defer, CapAndSnooze, Head, SessionInvariant
<1>2. tick.log = NoLog /\ tick'.log = NoLog
  BY <1>1, ProceedCopies DEF OrphanInvariant
<1>3. (\A u \in Triggers : u # t => trig'[u] = trig[u]) /\ trig'[t].state # "absent"
  <2>1. trig[t] \in Row /\ trig[t].state # "absent"
    BY <1>1 DEF TypeOK, Exists, States
  <2>2. CASE Retire(t)
    BY <1>1, <2>1, <2>2 DEF TypeOK, Row, Retire
  <2>3. CASE Defer(t)
    BY <1>1, <2>1, <2>3 DEF TypeOK, Row, Defer
  <2>4. CASE CapAndSnooze(t)
    <3>1. trig' = [trig EXCEPT ![t] = Capped(trig[t])]
      BY <2>4 DEF CapAndSnooze
    <3>2. Capped(trig[t]).state = "snoozed"
      BY <2>1 DEF Row, Capped
    <3>3. QED
      BY <1>1, <3>1, <3>2 DEF TypeOK
  <2>5. QED
    BY <2>2, <2>3, <2>4
<1>5. \A u \in Triggers : trig[u].state # "absent" =>
        trig'[u].state # "absent" /\ (Exists(u)' => Exists(u))
  BY <1>1, <1>3 DEF Exists
<1>6. QED
  BY <1>1, <1>2, <1>5, OrphansSame

LEMMA SendOrphans ==
  ASSUME SessionInvariant, OrphanInvariant, SendReaches
  PROVE  OrphanInvariant'
<1>1. /\ tick'.log = tick.log /\ tick'.pc = "sent"
      /\ tick.cur \in Triggers /\ Exists(tick.cur)
      /\ sent' = sent \cup {[log |-> tick.log, trigger |-> tick.cur]}
      /\ UNCHANGED <<trig, logs, faults>>
  BY DEF SessionInvariant, TypeOK, CopyCurrent, SendReaches
<1>2. \A m \in sent' : trig'[m.trigger].state # "absent"
  BY <1>1 DEF OrphanInvariant, Exists, States
<1>3. \A m \in sent' : m.log # tick.log => m \in sent
  BY <1>1
<1>4. \A m \in OrphanedMessages' : m \in OrphanedMessages
  BY <1>1, <1>3 DEF OrphanedMessages, Exists
<1>5. QED
  BY <1>1, <1>2, <1>4, OrphansShrink

\* The id of a log that is just inserted is in no message.
LEMMA ComposeOrphans ==
  ASSUME SessionInvariant, OrphanInvariant, NEW t \in Triggers, Compose(t)
  PROVE  OrphanInvariant'
<1>1. /\ tick'.pc = "flushed" /\ tick'.log = nextLog /\ tick.log = NoLog
      /\ UNCHANGED <<trig, logs, sent, faults>>
  BY DEF SessionInvariant, TypeOK, OrphanInvariant, Compose, Head, NewLogId
<1>2. \A m \in sent : m.log # NoLog
  BY EngineAssumption DEF SessionInvariant, TypeOK, LogIds, NoLog
<1>3. \A m \in OrphanedMessages' : m \in OrphanedMessages
  BY <1>1, <1>2 DEF OrphanedMessages, Exists
<1>4. \A m \in sent' : trig'[m.trigger].state # "absent"
  BY <1>1 DEF OrphanInvariant
<1>5. QED
  BY <1>1, <1>3, <1>4, OrphansShrink

\* The log becomes visible, so its message is no orphan when the tick forgets it.
LEMMA CommitOrphans ==
  ASSUME SessionInvariant, OrphanInvariant, CommitNudge
  PROVE  OrphanInvariant'
<1>1. PICK t : t = tick.cur
  OBVIOUS
<1>2. /\ t \in tick.todo /\ t \in Triggers /\ Exists(t) /\ tick.log \in LogIds
      /\ TypeOK /\ Proceed(t) /\ sent' = sent /\ faults' = faults
  BY <1>1 DEF SessionInvariant, TypeOK, CopyCurrent, CommitNudge
<1>3. tick'.log = NoLog
  BY <1>2, ProceedCopies
<1>4. /\ logs'[tick.log].trigger = t
      /\ \A i \in LogIds : i # tick.log => logs'[i] = logs[i]
  BY <1>1, <1>2 DEF TypeOK, CommitNudge
<1>5. /\ trig'[t].state = trig[t].state
      /\ \A u \in Triggers : u # t => trig'[u] = trig[u]
  <2>1. trig' = [trig EXCEPT ![t] = Nudged(trig[t])]
    BY <1>1 DEF CommitNudge
  <2>2. Nudged(trig[t]).state = trig[t].state
    BY <1>2 DEF TypeOK, Row, Nudged
  <2>3. QED
    BY <1>2, <2>1, <2>2 DEF TypeOK
<1>6. \A m \in sent : m.log \in LogIds /\ m.trigger \in Triggers
  BY <1>2 DEF TypeOK
<1>7. \A m \in sent' : trig'[m.trigger].state # "absent"
  BY <1>2, <1>5, <1>6 DEF OrphanInvariant
<1>8. ASSUME NEW m \in OrphanedMessages' PROVE m \in OrphanedMessages
  <2>1. m \in sent /\ Exists(m.trigger)' /\ logs'[m.log].trigger = NoTrigger
    BY <1>2, <1>8 DEF OrphanedMessages
  <2>2. m.log # tick.log
    BY <1>2, <1>4, <2>1, EngineAssumption
  <2>3. logs[m.log].trigger = NoTrigger
    BY <1>4, <1>6, <2>1, <2>2
  <2>4. Exists(m.trigger)
    BY <1>2, <1>5, <1>6, <2>1 DEF Exists
  <2>5. QED
    BY <2>1, <2>2, <2>3, <2>4 DEF OrphanedMessages
<1>9. QED
  BY <1>2, <1>3, <1>7, <1>8, OrphansShrink

\* A tick that dies leaves one orphan at most: the message of its nudge in flight.
LEMMA DeathOrphans ==
  ASSUME SessionInvariant, OrphanInvariant, TickDies
  PROVE  OrphanInvariant'
<1> DEFINE x == [log |-> tick.log, trigger |-> tick.cur]
<1>1. /\ tick'.log = NoLog /\ faults' = faults + 1
      /\ UNCHANGED <<trig, logs, sent>>
  BY DEF TickDies, NoTick
<1>2. \A m \in sent : m.log # NoLog /\ m = [log |-> m.log, trigger |-> m.trigger]
  BY EngineAssumption DEF SessionInvariant, TypeOK, LogIds, NoLog
<1>3. ASSUME NEW m \in sent, m.log = tick.log PROVE m = x
  <2>1. tick.pc \in {"flushed", "sent"}
    BY <1>2, <1>3 DEF OrphanInvariant, SessionInvariant, TypeOK
  <2>2. m.trigger = tick.cur
    BY <1>3, <2>1 DEF SessionInvariant, IdsFresh
  <2>3. QED
    BY <1>2, <1>3, <2>2
<1>4. OrphanedMessages' \subseteq OrphanedMessages \cup {x}
  BY <1>1, <1>3 DEF OrphanedMessages, Exists
<1>5. /\ IsFiniteSet(OrphanedMessages \cup {x})
      /\ Cardinality(OrphanedMessages \cup {x}) <= Cardinality(OrphanedMessages) + 1
  <2>1. IsFiniteSet(OrphanedMessages) /\ Cardinality(OrphanedMessages) \in Nat
    BY FS_CardinalityType DEF OrphanInvariant
  <2>2. /\ IsFiniteSet(OrphanedMessages \cup {x})
        /\ \/ Cardinality(OrphanedMessages \cup {x}) = Cardinality(OrphanedMessages)
           \/ Cardinality(OrphanedMessages \cup {x}) = Cardinality(OrphanedMessages) + 1
    BY <2>1, FS_AddElement
  <2>3. QED
    BY <2>1, <2>2
<1> HIDE DEF x
<1>6. /\ IsFiniteSet(OrphanedMessages')
      /\ Cardinality(OrphanedMessages') <= Cardinality(OrphanedMessages \cup {x})
  BY <1>4, <1>5, FS_Subset
<1>7. /\ Cardinality(OrphanedMessages') \in Nat
      /\ Cardinality(OrphanedMessages \cup {x}) \in Nat
      /\ Cardinality(OrphanedMessages) \in Nat
  BY <1>5, <1>6, FS_CardinalityType DEF OrphanInvariant
<1>8. OrphansNeedFaults'
  <2>1. faults \in Nat /\ Cardinality(OrphanedMessages) <= faults
    BY DEF SessionInvariant, TypeOK, OrphanInvariant, OrphansNeedFaults
  <2>2. QED
    BY <1>1, <1>5, <1>6, <1>7, <2>1 DEF OrphansNeedFaults
<1>9. QED
  BY <1>1, <1>6, <1>8 DEF OrphanInvariant

LEMMA TapOrphans ==
  ASSUME SessionInvariant, OrphanInvariant, NEW h \in Handlers, TapCommit(h)
  PROVE  OrphanInvariant'
<1>1. PICK n : n = tasks[h].log
  OBVIOUS
<1>2. PICK t : t = logs[n].trigger
  OBVIOUS
<1>3. TypeOK /\ n \in LogIds /\ t \in Triggers /\ tasks[h] \in TaskRow
  BY <1>1, <1>2 DEF SessionInvariant, TypeOK, TaskHasLog, TapCommit, LogRow
<1>4. Exists(t)
  BY <1>2, <1>3, EngineAssumption DEF SessionInvariant, LogsHaveRow
<1>5. /\ UNCHANGED <<tick, sent, faults>>
      /\ \A i \in LogIds : logs'[i].trigger = logs[i].trigger
  BY <1>1, <1>3 DEF TapCommit, TypeOK, LogRow
<1>6. /\ trig'[t].state \in States
      /\ \A u \in Triggers : u # t => trig'[u] = trig[u]
  <2>1. trig[t] \in Row /\ trig[t].state \in States
    BY <1>3, <1>4 DEF TypeOK, Exists
  <2>2. tasks[h].state # KeepState => tasks[h].state \in States
    BY <1>3 DEF TaskRow
  <2>3. QED
    BY <1>1, <1>2, <1>3, <2>1, <2>2 DEF TapCommit, TypeOK, Row
<1>7. \A u \in Triggers : trig[u].state # "absent" =>
        trig'[u].state # "absent" /\ (Exists(u)' => Exists(u))
  BY <1>4, <1>6 DEF Exists, States
<1>8. tick'.pc \in {"idle", "next"} => tick'.log = NoLog
  BY <1>5 DEF OrphanInvariant
<1>9. QED
  BY <1>5, <1>7, <1>8, OrphansSame

LEMMA OwnerOrphans ==
  ASSUME SessionInvariant, OrphanInvariant, NEW t \in Triggers,
         AddEvent(t) \/ Deactivate(t)
  PROVE  OrphanInvariant'
<1>1. /\ UNCHANGED <<logs, tick, sent, faults>> /\ TypeOK
      /\ \A u \in Triggers : u # t => trig'[u] = trig[u]
  BY DEF AddEvent, Deactivate, SessionInvariant, TypeOK
<1>2. trig[t].state # "absent" => trig'[t].state = trig[t].state
  BY <1>1 DEF AddEvent, Deactivate, TypeOK, Row
<1>3. \A u \in Triggers : trig[u].state # "absent" =>
        trig'[u].state # "absent" /\ (Exists(u)' => Exists(u))
  BY <1>1, <1>2 DEF Exists
<1>4. tick'.pc \in {"idle", "next"} => tick'.log = NoLog
  BY <1>1 DEF OrphanInvariant
<1>5. QED
  BY <1>1, <1>3, <1>4, OrphansSame

\* A deletion takes the logs of its own reminders only, and the message of such a
\* log is about that reminder.
LEMMA EraseOrphans ==
  ASSUME SessionInvariant, OrphanInvariant, NEW gone \in SUBSET Triggers, Erase(gone)
  PROVE  OrphanInvariant'
<1>1. /\ UNCHANGED <<tick, sent, faults>>
      /\ \A t \in gone : trig'[t].state = "deleted"
      /\ \A t \in Triggers \ gone : trig'[t] = trig[t]
      /\ \A i \in LogIds : logs[i].trigger \notin gone => logs'[i] = logs[i]
  BY DEF Erase, Gone, NoRow
<1>2. \A m \in sent : /\ m.log \in LogIds /\ m.trigger \in Triggers
                     /\ logs[m.log].trigger \in {NoTrigger, m.trigger}
  BY DEF SessionInvariant, TypeOK, ButtonsPointHome
<1>3. \A m \in sent' : trig'[m.trigger].state # "absent"
  BY <1>1, <1>2 DEF OrphanInvariant
<1>4. ASSUME NEW m \in OrphanedMessages' PROVE m \in OrphanedMessages
  <2>1. /\ m \in sent /\ trig'[m.trigger].state \in States
        /\ logs'[m.log].trigger = NoTrigger /\ m.log # tick.log
    BY <1>1, <1>4 DEF OrphanedMessages, Exists
  <2>2. m.trigger \notin gone
    BY <1>1, <2>1 DEF States
  <2>3. Exists(m.trigger)
    BY <1>1, <1>2, <2>1, <2>2 DEF Exists
  <2>4. logs[m.log].trigger = NoTrigger
    BY <1>1, <1>2, <2>1, <2>2, EngineAssumption
  <2>5. QED
    BY <2>1, <2>3, <2>4 DEF OrphanedMessages
<1>5. tick'.pc \in {"idle", "next"} => tick'.log = NoLog
  BY <1>1 DEF OrphanInvariant
<1>6. QED
  BY <1>1, <1>3, <1>4, <1>5, OrphansShrink

LEMMA OrphansPreserved ==
  ASSUME SessionInvariant, OrphanInvariant, [Next]_vars
  PROVE  OrphanInvariant'
<1>1. ASSUME UNCHANGED <<trig, logs, sent, faults>>, tick'.log = tick.log,
             tick'.pc \in {"idle", "next"} => tick'.log = NoLog
      PROVE  OrphanInvariant'
  BY <1>1, OrphansSame DEF Exists
<1>2. CASE UNCHANGED <<trig, logs, sent, faults, tick>>
  BY <1>1, <1>2 DEF OrphanInvariant
<1>3. CASE LoadDue
  BY <1>1, <1>3 DEF LoadDue, Idle, OrphanInvariant
<1>4. CASE SendFails
  <2>1. tick'.pc = "sent" /\ tick'.log = tick.log
    BY <1>4 DEF SendFails, SessionInvariant, TypeOK
  <2>2. QED
    BY <1>1, <1>4, <2>1 DEF SendFails
<1>5. CASE \E t \in Triggers :
             \/ Retire(t) \/ Defer(t) \/ CapAndSnooze(t)
             \/ Compose(t) \/ ComposeRaises(t) \/ RowVanished(t)
  <2>1. PICK t \in Triggers :
          \/ Retire(t) \/ Defer(t) \/ CapAndSnooze(t)
          \/ Compose(t) \/ ComposeRaises(t) \/ RowVanished(t)
    BY <1>5
  <2>2. CASE ComposeRaises(t) \/ RowVanished(t)
    BY <1>1, <2>2 DEF ComposeRaises, RowVanished, Head, NoTick, OrphanInvariant
  <2>3. QED
    BY <2>1, <2>2, RowOrphans, ComposeOrphans
<1>6. CASE TapStep
  <2>1. PICK h \in Handlers :
          (\E action \in Actions : TapLoad(h, action)) \/ TapCommit(h) \/ TapFails(h)
    BY <1>6 DEF TapStep
  <2>2. CASE TapCommit(h)
    BY <2>2, TapOrphans
  <2>3. QED
    BY <1>2, <2>1, <2>2 DEF TapLoad, TapFails
<1>7. CASE \E t \in Triggers : AddEvent(t) \/ DeleteEvent(t) \/ Deactivate(t)
  BY <1>7, OwnerOrphans, EraseOrphans DEF DeleteEvent
<1>8. CASE Forget
  BY <1>8, EraseOrphans DEF Forget
<1>9. CASE (\E w \in Windows : SetQuiet(w) \/ SetTimezone(w)) \/ Advance \/ UNCHANGED vars
  BY <1>2, <1>9 DEF SetQuiet, SetTimezone, SetWindow, Advance, vars
<1>10. QED
  BY <1>3, <1>4, <1>5, <1>6, <1>7, <1>8, <1>9, SendOrphans, CommitOrphans, DeathOrphans
     DEF Next, EngineStep, OwnerStep

\* Only a tick that is killed between the send and the commit loses the log of a
\* message, and no more than one: a failing send, a deleted row, a rejected tap or
\* a second reminder in the same tick loses none (nudge_engine.py:173-217).
THEOREM OrphansCounted == Spec => []OrphansNeedFaults
<1>1. Init => OrphanInvariant
  <2> SUFFICES ASSUME Init PROVE OrphanInvariant
    OBVIOUS
  <2>1. OrphanedMessages = {} /\ tick.log = NoLog /\ sent = {} /\ faults = 0
    BY DEF Init, OrphanedMessages, NoTick
  <2>2. QED
    BY <2>1, FS_EmptySet DEF OrphanInvariant, OrphansNeedFaults
<1>2. SessionInvariant /\ OrphanInvariant /\ [Next]_vars => OrphanInvariant'
  BY OrphansPreserved
<1>3. OrphanInvariant => OrphansNeedFaults
  BY DEF OrphanInvariant
<1>4. QED
  BY <1>1, <1>2, <1>3, Invariance, PTL DEF Spec
=============================================================================
