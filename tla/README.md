# Callendulla: specifications and proofs

Callendulla is a self-hosted Telegram bot that nags its owner about reminders in
an escalating tone. This directory holds TLA+ models of its core, TLC runs that
check them on small instances, and TLAPS proofs for every value of the constants.
Paths below are relative to `src/callendulla/` unless they say otherwise.

Contents: [the system](#the-system), [modules](#modules-and-the-code),
[runs](#runs), [disagreements found](#where-the-code-and-its-texts-disagree),
[proofs](#proofs), [what is left out](#abstractions-and-what-is-not-modelled),
[plan](#plan).

## The system

Three processes run beside Postgres and Redis (`deploy/supervisord.conf`): *api*
(FastAPI, two workers), *bot* (aiogram) and *scheduler* (one APScheduler job a
minute). They share nothing but the database, Redis and the chat at Telegram.
Several containers of the same image may run over one database.

| component | state it keeps | operations | properties that make it correct |
|---|---|---|---|
| Firing loop, `scheduler/nudge_engine.py` | `triggers` (state, `next_fire_at`, tone, iteration), `nudge_logs`; a session per tick | `run_once`: retire, defer, cap, nudge | a due reminder is handled; the ladder and the cap hold; a closed reminder stays closed; ids in buttons never lead astray |
| Tone ladder, `scheduler/tones.py` | none | `escalate`, `interval_after` | tone and iteration agree |
| Quiet hours, `scheduler/quiet_hours.py` | none (the owner's settings) | `is_quiet_now`, `next_post_quiet` | a deferred time is ahead and awake; no waking time is skipped |
| Reaction buttons, `bot/handlers/reactions.py` | one transaction over `nudge_logs` and `triggers` | ack, snooze 1 h, snooze to tomorrow, silent 12 h | only a button of its own brings a closed reminder back |
| Commands, `bot/handlers/events.py`, `db/repositories/event.py` | `events`, `triggers` | /add, /list, /delete | a deletion takes everything along, also under a tick |
| Accounts, `bot/middleware/user.py`, `bot/handlers/forget.py`, `settings.py`, `ical.py` | `users`, the detached copy every handler holds | first contact, promotion, /forget, /quiet, /timezone, /voice, /ical, /rotate_ical | one row a person; nothing survives /forget; no update reaches another account; a revoked token stays revoked |
| Rate limiter, `core/rate_limit.py` | a sorted set a key in Redis | `check` | never more than the limit in a window; a refusal has a cause |
| Voice diary, `bot/handlers/diary.py`, `core/voice_crypto.py`, `docs/key-rotation.md` | `voice_diary`, background tasks, the key a process was started with | store, transcribe, play, forget, rotate the key | a forgotten entry stays gone; what nobody touched during a rotation opens afterwards |
| Webhook, `api/webhook.py`, `api/app.py`, `bot/main.py` | registration and pending updates at Telegram | start, stop, deliver, refuse, poll | no update is skipped; repeats have a cause; pending updates that validate end |
| Configuration and LLM adapters, `config.py`, `llm/` | the settings and the SDK client of each process | validators, `build_provider`, `generate` | what starts has what it presumes; a due reminder gets a text, never a blank one |
| Deployment, `deploy/`, `migrations/` | schema, `alembic_version`, stage of a container | wait, upgrade, serve, restart | the schema is whole or absent; every container serves at last; one message per scheduler and due time |
| STT and TTS, logging, version, help, rendering | none, or constant | | wording and pure input/output |

How they interact. The scheduler and the handlers write the same rows without
any lock taken by a read: sessions run under READ COMMITTED, are never expired
(`db/session.py:82`) and write back only the columns they changed. A tick loads
everything it needs once (`Trigger.nudges` too, `db/models.py:309`), then awaits
an LLM and Telegram for each row, committing after each. Messages carry the log
id handed out before the commit, so the chat can hold ids the database lost. A
handler holds a copy of its user that the middleware's session has read. Every
process keeps the settings of its start, while `.env`, the webhook and the stored
keys change under it.

What is hard to test there: a reaction, a deletion or a change of settings
between a tick's read and its commit; two taps, two first contacts or two changes
of one row in flight; a kill between the delivery and the commit; an exception in
one row that ends the tick for all; a cap that counts copies; transactions that
reach Redis in another order than their stamps; a rotation script that runs
beside the bot; workers that register and delete one webhook; containers that
migrate at once. `PROJECT.json` lists these hazards at their lines with the
properties that watch each.

## Modules and the code

| module | what it is |
|---|---|
| `Tones` | the ladder of `scheduler/tones.py` and the cap's constants |
| `QuietHours` | `scheduler/quiet_hours.py` in minutes of UTC, and properties of its two functions |
| `NudgeEngine` | the tick, the reaction handlers, the commands, crashes and the clock over one owner's rows; extends the two above |
| `Reminder` | the abstract life of a reminder: no sessions, no copies, no clock |
| `NudgeLife` | `NudgeEngine` implements `Reminder` (INSTANCE with the refinement mapping) |
| `Accounts` | middleware, registration, settings, the feed's token, /forget, over many people and many updates in flight |
| `RateLimiter` | one key of the sliding window, its two Redis commands apart |
| `VoiceDiary` | entries, background transcription, restarts, the change of the key with its script |
| `Webhook` | API workers, the polling process, Telegram's queue and its one webhook |
| `Startup` | environments, validators, the LLM adapter and the text of a due reminder |
| `Deployment` | containers, migrations, Postgres, and a scheduler in each container |
| `MC...` | values of the constants for TLC; `MCQuietHours` is a clock that walks through a day |
| `...Proofs` | the theorems about the module of that name; `QuietHoursProofs` ends with the clock of `MCQuietHours`, and `NudgeEngineProofs` has the refinement of `NudgeLife` too |

The modules are separate where the code is: what two components share is a row or
a setting, and each module keeps as much of the other side as it can observe.
`NudgeEngine` has the commands and /forget because they change rows under a tick;
`Startup` and `Deployment` reduce a reminder to "due" because the rest of its life
is `NudgeEngine`'s; `Accounts` has the erasure that the other modules see as a
deletion by cascade.

`NudgeEngine`, variable by variable: `trig` is `triggers` joined with
`events.is_active` (a reminder is an event and the one trigger `create` makes for
it); `logs` is `nudge_logs` indexed by id; `nextLog` is the id sequence, which a
rollback does not turn back; `sent` is what reached the chat, as the id in the
buttons and the reminder the text was about; `window` is the owner's row;
`tick` is the session of the tick in flight (its instant `now`, the rows still to
do, the copies it loaded, the count of silent nudges it will find in them);
`tasks[h]` is a reaction handler between its read and its commit, holding the
UPDATE it is about to send; `clock` is the time; `faults` counts killed ticks.

| action | code |
|---|---|
| `LoadDue` | `run_once` and `_load_due`; with nothing due a tick changes nothing |
| `Retire`, `Defer`, `CapAndSnooze` | the three early returns of `_process_one`, each with its commit |
| `Compose` | the text and the flushed INSERT, whose foreign key check locks the trigger row against DELETE (`Locked`) |
| `ComposeRaises` | `_compose_message` raises something other than `LLMError`: nothing catches it, the tick ends. Not a fault that is counted: it may recur at every tick |
| `SendReaches`, `SendFails` | `send_message`: returned or raised with the message delivered, or raised without; both outcomes go on |
| `CommitNudge` | the new tone, count and time, with the log, in one transaction. The state column is not assigned, so it keeps what others wrote |
| `RowVanished` | the row was deleted: the UPDATE matches nothing (`StaleDataError`) or the INSERT fails; nothing catches it, the tick ends |
| `TickDies` | a kill, a cancelled job or a lost connection: rollback |
| `TapLoad`, `TapCommit`, `TapFails` | `handle_nudge_reaction`: the read with its early returns, the one commit, or its rollback |
| `AddEvent`, `DeleteEvent`, `Forget`, `SetQuiet`, `SetTimezone` | the commands; deletions cascade and wait for `Locked` rows |
| `Deactivate`, `Advance` | external: an operator clears `is_active`; time passes |

A handler's UPDATE omits columns equal to the copy it read: an ack of a reminder
already `done` in the copy writes no state, so it cannot close a reminder another
snooze reopened meanwhile. `KeepState` and `KeepTime` stand for that.

`Reminder` sees of a reminder its status, its level on the ladder, the recorded
nudges and which of them were answered. `NudgeLife` maps them to the trigger's
state and iteration count, its rows of `nudge_logs`, and those with a
`user_reaction`. A copy, a message on its way and a handler between read and
commit are no part of it: every commit is one `Reminder` step, everything else a
stutter.

`Accounts`: `users` and `events` are the rows, `next` the id sequences and the
count of tokens drawn, `task[h]` an update between two steps of its handler, with
the detached `copy` the middleware hands over and the columns its UPDATE will
write; `answer` is the last link shown; `stored` remembers every token.

| action | code |
|---|---|
| `Receive`, `Register`, `Promote`, `Refresh` | `UserMiddleware.__call__`: the look-up, then the INSERT or the promotion with its commit, the refresh, the dispatch |
| `Drop` | a unique violation, `StaleDataError`, a killed process: the update ends |
| `Add`, `DeleteEvent`, `ShowLink`, `Forget` | handlers that work with the copy |
| `Change`, `Rotate`, then `Write` | handlers that read the row by its id and write back the columns that differ, with the CHECK on the quiet hours |
| `Reconfigure` | another owner or policy in `.env`, and a restart |

`RateLimiter`: `entries` is the sorted set (score and member are the same instant),
`expires` its EXPIRE, `check[c]` a call of `check`.

| action | code |
|---|---|
| `PassThrough`, `Stamp` | `limit <= 0`; `now = time.time()` |
| `Execute` | the MULTI/EXEC: trim, count, add, expire |
| `Admit`, `Remove`, `Deny` | the decision; ZREM; ZRANGE and the answer with `retry_after` |
| `Fail`, `LoseKey`, `Advance` | a command or worker lost half way; a restart or eviction of Redis; time and the key's expiry |

`VoiceDiary`: a ciphertext is the key it was made with. `task[i]` is how far the
handler and the background transcription of an entry are; `running` and `env` are
the key of the processes and of `.env`; `rotation` is the operator in
`docs/key-rotation.md`, with the rows the script has read.

| action | code |
|---|---|
| `Save`, `Refresh`, `Reply`, `Fail` | `handle_voice` |
| `LookUp`, `WriteTranscript` | `_transcribe_and_persist` |
| `Play`, `ShowTranscript`, `ForgetEntry`, `ForgetUser` | the commands |
| `Crash`, `Recreate` | supervisord restarts a process; the container is recreated and reads `.env` |
| `ScriptRead`, `ScriptCommit`, `ScriptDies`, `EditEnv` | the script's read and its single commit; a script killed before it; the edit of `.env` |

`key-rotation.md:112` warns of a database half re-encrypted when the script fails. It
cannot be: the script's one commit (line 85) makes it all or nothing, which
`SettledReadable` rests on.

`Webhook`: `hook` and `queue` are Telegram's; `worker[w]` has the settings of its
start and the update it handles (`heard` while Telegram waits for the answer);
`poller` is `run_polling`; `runs` and `gone` are history.

| action | code |
|---|---|
| `Launch`, `SetWebhook`, `StartPlain`, `Stop`, `Shutdown`, `Kill` | `create_app` and its lifespan, uvicorn's orderly stop, a kill |
| `Deliver`, `Answer`, `TimeOut` | the route: 403 for another secret, the handler before the 200, exceptions swallowed; Telegram gives up waiting |
| `Refuse` | the route's 400 for a body `Update.model_validate` rejects (`Malformed`): no handler runs, the update stays pending and is posted again, although the docstring says "always returns 200" |
| `PollerStart`, `Poll`, `PollerRuns`, `PollerDies` | `run_polling` (aiogram's getUpdates with its offset). It never reads `BOT_MODE` and supervisord starts it in every mode. One malformed update makes a whole getUpdates unreadable |
| `EditEnv`, `Send` | the operator; a user |

`Startup`: `env` is what the next start reads, `front[p]` and `sched` what the
running processes keep of it.

| action | code |
|---|---|
| `StartFront`, `StartScheduler` | `get_settings` with all validators, `Settings.webhook_url`, `build_provider` and the `ValueError` turned into "no LLM" |
| `EditEnv`, `KillFront`, `KillScheduler` | the operator, kills |
| `Register`, `SetTimezone`, `FallDue`, `Forget` | where zones and due reminders come from |
| `LoadDue`, `TickFails`, `ClientRaises`, `Answered`, `FallBack` | a tick row by row: a zone that does not load or a row that has gone ends it; the SDK client is made outside the `try`; a reply is read by the adapter's own rule; `LLMError` or no adapter gives the template |

`Deployment`: `ctr[c]` is a container's stage in `deploy/entrypoint.sh` and the
tables of its open transaction, `schema` and `version` what is committed.

| action | code |
|---|---|
| `Start`, `Wait`, `ReadVersion`, `CreateTable`, `CommitUpgrade` | the entrypoint: wait for Postgres, `alembic upgrade head` in one transaction (`migrations/env.py`), or SKIP_MIGRATIONS |
| `Die`, `PostgresStops`, `PostgresStarts` | kills and restarts |
| `FallDue`, `LoadDue`, `Send`, `Commit`, `PutOff`, `TickDies` | the order of read, message and commit in each scheduler's tick |

Definitions under a comment *Slip:* are used by nothing. Each is a variant of the
definition below it with a plausible mistake; substituting it makes one property
fail (`PROJECT.json`, "mutants"), which shows the property depends on that line.

## Runs

Twelve runs: ten that pass and two that end in a counterexample. Bounds are the
constants named `Max...` in the guards, and nothing else. Deadlock is checked unless
a run may really stop at its bounds.

| run | instance | shows |
|---|---|---|
| `engine_ladder` | one reminder, one handler, four logs (three silent nudges, and one more after a reaction), times 0..4 | `ToneTracksIteration`, `IgnoredNudgesPaced` |
| `engine_race` | one reminder, two handlers, a crash, three logs | `TypeOK`, `OrphansNeedFaults`, `OnlySnoozeRevives`, and the refinement `ImplementsReminder` |
| `engine_pair` | two reminders due in one tick, three settings, a crash, texts that raise, fair ticks | `DueIsHandled`, `ButtonsPointHome`, `SessionInvariant` |
| `quiet_hours` | the real 24 x 60 day and jitter 0..30, windows over 7 hours, 4 zones, 6 minutes of each hour | `AlwaysAwake`, `AlwaysExact` |
| `limiter` | four checks, limit 0, 1 or 2, a window of 4, a delay of 1, instants 0..7, a lost key | `AtMostLimit`, `DenialHasCause` |
| `diary` | two users, two entries, two rotations (three keys), crashes | `TypeOK`, `EntriesHaveOwner`, `SettledReadable`, `DeletedStaysDeleted` |
| `accounts` | two people, two updates in flight, both policies, two ids and tokens, a restart with another owner | `TypeOK`, `OneAccount`, `EventsHaveOwner`, `LinkIsOwn`, `OwnerActsAsOwner`, `QuietHoursDiffer`, `OnlyOwnUpdates`, `RevokedStaysRevoked` |
| `webhook` | two workers and a poller, two secrets, both modes, two updates of which the second does not validate, a fault, two stops, a leave, an edit, fair | `TypeOK`, `NoneSkipped`, `RepeatHasCause`, `PendingEnds` |
| `startup` | two people, an api worker, bot and scheduler, every provider and key, every kind of broken setting, an edit, a kill, fair ticks | `TypeOK`, `SettingsSuffice`, `DueZonesLoad`, `NeverBlank`, `DueGetsText` |
| `deploy` | two containers that migrate and one that does not, two reminders, two faults, fair restarts | `SchemaWhole`, `ServesSchema`, `OnceEach`, `EachServes` |
| `engine_v_snooze` | one reminder, fair ticks | `SnoozeEnds` is violated |
| `webhook_v_loss` | two workers, a changed secret, no fault | `RotationDropsNothing` is violated |

Why the bounds are enough.

- The engine's day has five hours of two minutes with jitter 0..1, intervals 2, 1, 1, 1
  and a cap snooze of 2: every order of "due", "quiet", "snoozed", "window end" that
  minutes and hours produce occurs within a few steps. Four logs reach the cap, which
  looks at the last three, and the top of the ladder, which a reaction before the cap
  opens; a fourth HARD nudge after three ignored ones would be the seventh log, so the
  property about it is proved and not run (`HardStops`). A handler makes one read and one
  commit, so two of them with the tick give every overlap of three sessions on one row.
- `limiter`: with a limit of 2, four checks are two over it; a window of 4 less the delay
  holds three distinct stamps, so the limit can be exceeded inside it, and the clock runs
  on until entries fall out of the window and the key expires.
- `diary`: two rotations let an entry written late in the first meet the second.
- `accounts`: two ids let a person be erased and register again under the
  updates of the old account, or two people share the tables. With two tokens one
  can be revoked and the other live.
- `webhook`: two workers make every order of "set" and "delete" on the one webhook;
  a third would repeat one of the two. Of the two updates one can be ahead of the malformed
  one, behind which getUpdates blocks, or handled before it was sent.
- `deploy`: one container that commits, one that loses the race, one that never migrates.

Fairness, stated in `FairSpec` of the modules that have one, is weak fairness
(strong in one place of `Webhook`) of what something outside the program keeps running,
never of a user, an operator or a fault:

- `NudgeEngine`: `EngineStep`. supervisord restarts the scheduler, APScheduler starts
  a tick each minute with `coalesce=True, max_instances=1` (`scheduler/main.py`,
  `build_scheduler`), and awaits end in a result or an exception.
- `Startup`: `StartScheduler` and `TickStep`, for the same reason.
- `Webhook`: workers and the poller start again and go on; Telegram posts what is
  pending, as its documentation says and `api/webhook.py` counts on. That is strong
  fairness for each update: one that could be posted again and again is posted in the
  end, also when others are refused and retried in between. That Telegram gives up
  after an hour is not modelled; it would only take updates away.
- `Deployment`: docker restarts containers and Postgres (`restart: unless-stopped` in
  `docker-compose.yml`), and the entrypoint's steps go on.

`PendingEnds` speaks of the time during which all workers run in webhook mode and none
is leaving, and of updates that validate; one that does not is refused at every post.
Outside of that the code gives no such promise; see the next section.
`RepeatHasCause` allows one repetition for each fault, one for each change of `.env`, which
restarts the poller, and a single one (`Handover`) once a worker has stopped: it deletes
the webhook under another that still handles the update, and the poller fetches it.
`DueIsHandled` holds if the texts that raise come to an end (`ComposeRecovers`). Without
that condition it is false, as `startup_v_text` shows at the adapter.
`DueGetsText` leaves out the scheduler that refuses to start and the SDK that refuses the key.

## Where the code and its texts disagree

Two disagreements are listed runs, quoted under "findings". The others are recorded
by a property at the end of the module concerned, with the quotation, and a
configuration of the same name that any reader can run
(`tlc -config engine_v_ack.cfg MCNudgeEngine`); each ends in a counterexample.

| configuration | what happens |
|---|---|
| `engine_v_snooze` (run) | a snoozed reminder never fires again: only `PENDING` rows are selected and nothing ends `SNOOZED`. The same is true after the automatic cap |
| `webhook_v_loss` (run) | after a change of the secret the starting workers drop the pending updates, which `docs/key-rotation.md` says Telegram delivers later |
| `engine_v_hard` | a silent owner never hears the last step of the ladder: the cap counts the last three logs of any tone, so it fires at the first tick at HARD, where `tones.py:48`, `db/models.py:302-304` and the repository's `README.md:32` speak of silent nudges at HARD |
| `startup_v_text` | an SDK client that cannot be made raises outside the `try`: no `LLMError` as `llm/base.py:31` demands, no fallback, and each tick ends at its first row that needs a text. The example `.env` with its empty Gemini key is such a case |
| `engine_v_lost_snooze` | the commit of a tick in flight overwrites the time a snooze button has set |
| `engine_v_idempotent` | two taps in flight both find no reaction, and the second overwrites the first |
| `engine_v_cap` | the cap counts reactions in copies made at the start of the tick and snoozes a reminder just reacted to |
| `engine_v_ack` | a nudge leaves after the reminder was acknowledged |
| `engine_v_quiet` | a message leaves inside the quiet window: the check used the start of the tick |
| `quiet_v_tomorrow` | "tomorrow" tapped after midnight is today |
| `limiter_v_threshold` | two checks over the limit are both in the set: the removal is no part of the transaction |
| `limiter_v_member` | two checks of one microsecond share a member and both pass |
| `diary_v_safe_path` | an entry stored between the script's read and the restart cannot be opened afterwards, on the path called safe |
| `diary_v_announced` | the script's commit empties a transcript that was announced meanwhile |
| `accounts_v_quiet` | two /quiet in flight leave hours neither asked for |
| `accounts_v_link` | /ical shows a link that was revoked since its copy was read |
| `webhook_v_modes` | the two modes that `.env.example` calls mutually exclusive are both served: a worker that stops deletes the webhook, the poller fetches what another worker still handles, and the update is handled twice without a fault |
| `webhook_v_polling` | in polling mode a webhook left by a killed worker keeps getUpdates refused |
| `startup_v_zone` | people are registered in a `DEFAULT_TIMEZONE` nobody has validated |
| `startup_v_key` | without a key nothing starts, although the guide says the bot works without an LLM |
| `deploy_v_race` | two containers nudge about the same due time: each has a scheduler |

Read, not run: /add reads a time in the zone of its copy, the one before a /timezone just
committed (`settings.py:112`). The "09:00" of the button for tomorrow is the owner's
`to_hour` (`reactions.py:156-158`). `deploy/supervisord.conf` starts `src.api.main`, `src.bot.main`
and `src.scheduler.main`, while the package is `callendulla` and has no `api/main.py`;
and `run_polling` is called by nothing. The models take the processes these lines intend.

## Proofs

TLAPS checks every theorem below for all values of the constants, under the named
`...Assumption` of the module, which TLC evaluates in each run.

`QuietHoursProofs`: a post-quiet time is ahead and awake (`PostQuietAwake`) and the end
of the window is the first minute that is not quiet (`DeferralExact`), for every
instant, window and offset and any division of the day, when the jitter is shorter
than an hour. Euclidean division is unique (`DivisionUnique`), so the hour of
`d * Day + h * MinutesPerHour + m` is `h`; `WindowEndIs` brings the end into that form.
`AwakeAllDay` and `ExactAllDay` carry the two to the clock of the run `quiet_hours`, for any
windows and zones.

`NudgeEngineProofs`: `Invariance`, and from it `TypeCorrect`, `ToneInStep`,
`ButtonsSafe` and the action property `OnlySnoozes`. `ToneTracksIteration` and
`ButtonsPointHome` are not inductive alone. The tick steps the tone from its *copy*,
so the copy must be current in tone and count (`CopyCurrent`), which holds because
only ticks write these columns, ticks do not overlap, ids are not reused, and a row whose
log is in flight cannot be deleted. The id in a message is in no row and no other
message until the commit (`IdsFresh`), a reaction finds its row (`LogsHaveRow`,
`TaskHasLog`), and a row not created yet has the defaults (`AbsentIsBlank`). The
conjunction is `SessionInvariant`, which `engine_pair` checks as well. One lemma per
action; `RowWritten` serves the commits without a log, `OthersKeep` says what other
sessions may do under a tick.

`NudgeEngineProofs`, the refinement: `Implementation`, that `NudgeEngine` implements `Reminder`. Initial
states map to the initial state; `StepIsLife` has one case per action. The refinement
needs `SessionInvariant`: that a nudge is new, that only the top of the ladder starts
again and that an answer is one to a nudge of its own all come from it.

`NudgeEngineProofs`, the ladder: `HardStops` and `IgnoredPaced`. The first says that after three
HARD nudges without a reaction there is no fourth (`HardStopsAtThree`), although the cap
counts in copies: the one thing the code and its texts agree on, for in the code the
cap comes sooner (`engine_v_hard`). Neither is inductive, alone or together.
`LadderInvariant` adds what relates the rows, the logs and the tick's copy of one reminder
(`LadderOf`): the iteration count never exceeds the number of logs; a reminder nobody has
reacted to either counts all its logs and is planned an interval after each (`OnLadder`) or
was stopped by the cap and is in no tick (`Stopped`); and where the copy holds fewer than
three silent nudges of three or more, one of the last three logs does have a reaction
(`ReactedLately`), because reactions are only added, and only the tick that works on a row
adds a log to it. `NudgeInOrder` says that a nudge in flight has passed the cap guard
and gets the largest id. A reaction can fall between the copy and the commit: it makes
the cap stop a reminder somebody reacted to (`engine_v_cap`), and breaks neither of the two.
`LastThree` (of three ids or more, three have fewer than three above them) takes the largest id
three times. `LadderRow` is the lemma for a step that writes one row, with a
lemma for each action on top of it.

`NudgeEngineProofs`, the lost logs: `OrphansCounted`. `OrphanInvariant` adds to
`OrphansNeedFaults` that the orphans are finitely many, that no log is in flight between two
rows and that the reminder of a message was created. Then every step but
`TickDies` leaves the set of orphans as it is or smaller (`OrphansShrink`), and
`TickDies` adds at most the one in flight.

`AccountsProofs`: `AccountsInvariant` is `RowsOK` (types, one row a person, tokens used
once), `TasksOK` (what an update in flight holds is its sender's, and a token it is about
to store is new) and `PendingDiffer` (no two updates are about to store one token).
From it the theorems `AccountsTyped`, `OnePerson`, `EventsOwned`, `LinksOwn`, `HoursDiffer`,
`OwnerRecognised`, and with `RowStep` the action properties `Revocation` and `OwnUpdates`.

`RateLimiterProofs`: `LimiterInvariant` is `TypeOK`, `OutlivedByKey` (the key outlives every
entry that can still count), `EntriesKept` (what was let through stays in the set until
it is a window old) and `AtMostLimit`; the proof bounds the passed checks by the
entries counted (`RateHolds`). It assumes what the property states: that the key was not
lost and stamps differ. `DenialsHaveCause` needs no such assumption: every entry is the stamp of
a check whose transaction has run (`EntriesAreStamps`), entries with one stamp are one
element, so the checks that count are at least the entries counted (`CountedChecks`); and a
check that has run stays run (`ExecutedStays`).

`StartupProofs`: `StartupHolds`, and from it `StartupTyped`, `SettingsAreSound`,
`DueZonesAreSound` and `TextIsNeverBlank`, the four invariants of the run `startup`. The
zones are not inductive without `DueOnce`: an owner is due at most once, so that the row
that leaves the queue is the owner's only place in it and /forget leaves none behind.
`ValidHook` and `ValidProvider` say what the validators and `build_provider` leave true of
an environment that starts, `AcceptedIsText` what an adapter lets through;
`RemovedOnce` is the lemma about `RemoveFirst`.

`VoiceDiaryProofs`: `DiaryInvariant` adds that ids are fresh, that keys are in step
(`KeysInStep`: the processes run with the key of `.env` until it is edited)
and that the script's copy is current for what nobody touched (`CopyCurrent`). From it
`NothingOfTheErased`, `RotationKeepsSettled`, `OwnerReads`, `Erasure`, `DiaryTyped`.

`WebhookProofs`: `DeliveryInvariant` (`PolledHeld`: what the next getUpdates would confirm was
handled or is in the poller's hands) gives `WebhookTyped` and `UpdatesKept`. `Repeats` counts, for each
update, its tries: the runs, the workers that have it in their hands, and the poller
that holds it. `RepeatInvariant` bounds them by one more than the faults and restarts, and
more sharply where somebody is about to be given the update (`TriesBounded`): Telegram posts
it only while a webhook is registered and nobody is waited for, the poller fetches it only while
none is and its offset has not passed it. The hard case is the hand-over: a worker that stops
deletes the webhook while another still has the update and Telegram waits, so the poller
fetches it a second time without any fault. `HookStands` says that until a worker stops in order
the webhook stands as long as anybody handles an update, so this repetition is paid for by
`Handover`; and it happens once to an update, since then the poller's offset passes it, and
the poller loses the offset only by a fault or an edit. The theorem assumes finitely many
workers and nothing about modes, secrets or what validates.

`DeploymentProofs`: `IInv` joins `SchemaWhole`, `ServesSchema`, `OnceEach`, `TypeOK` and
`Unsent` (about a row still to do nothing was sent since it fell due, but for the faults) to `DeploymentTyped`,
`WholeSchema`, `MigratedFirst`, `EachOnce`.

Only model-checked: the four liveness properties (fairness and ENABLED are out of the
prover's reach), `DueIsHandled`, `PendingEnds`, `DueGetsText` and `EachServes`. Every
safety property of a passing run is a theorem. Only proved: `HardStops`, `OwnerReads`,
`LimiterTyped`, `DeploymentTyped`.

No module uses RECURSIVE operators. The library's induction rules take an operator as a
parameter, which the provers cannot instantiate; where a proof needs a largest id or a first
index it takes the least element of a set of numbers, from the well-foundedness of `<`
(`LargestId`, `LeastOf`). `Startup` takes a served owner out of the queue with
`RemoveFirst`, which has a definition the provers can expand; `SelectSeq` has none.

## Abstractions and what is not modelled

- One owner in `NudgeEngine`. The tick treats owners' rows alike and no property of that
  module relates two owners; the check that a log is the caller's own is left out there.
- Zones with a changing offset (daylight saving).
- Texts: prompts, templates and answers. A text is of the LLM, of the template or blank.
- `last_fired_at`, `last_cap_snooze_at` and `tg_message_id`, which nothing reads;
  `nudge_cache`, which nothing uses; settings nothing reads.
- Kinds other than one-shot: nothing in the program creates them.
- `RowVanished` at the INSERT would also use up an id; gaps in ids change nothing.
- Seconds: `NudgeEngine` counts whole minutes, so instants of different handlers coincide
  more often than in the program, which only adds behaviours.
- `LoadDue` reads the due rows, their events, owners and logs at one instant; the code
  uses a SELECT for each under READ COMMITTED, and a commit may fall between two of them. A
  tick can then hold a reminder's row from before a reaction beside its logs from after it,
  which no state of the model shows: the row is nudged as if the reaction came late, and the
  cap counts it as if it came in time.
- `entrypoint.sh:57-60`, no `alembic.ini`: the shipped image has one, so `Deployment` leaves out
  the start without a migration.
- A late tick is the free interleaving of `Advance` with `LoadDue`.
- `RateLimiter` has one key and a window in the member's resolution; the header of the
  answer is `retry`.
- A refused stranger in `Accounts` leaves no state behind and is left out.
- Telegram, aiogram, uvicorn, Redis, Postgres, Alembic, docker and the SDKs are modelled
  from how the code uses them; definitions that stand for them alone are `external`.
- Log text, redaction, version, source and help, the rendering of the feed and of lists,
  the TTS (called by nothing), `downgrade()` and the backup example: input, output or unused.

## Plan

Done: the engine with its abstraction, quiet hours, accounts, limiter, diary, webhook,
startup, deployment, with their proofs. Left:

1. Theorems without the conditions the properties have: how far the rate is exceeded when
   the key is lost, and what a rotation leaves of an entry somebody touched.
2. An abstract specification for a second component (the diary's entries, or the window of
   the limiter), implemented by the detailed one.
3. A zone whose offset changes, in `QuietHours` and in what the tick defers to.
4. The handler that runs twice (`Webhook`) composed with the reaction's early return
   (`NudgeEngine`).
