------------------------------ MODULE Startup ------------------------------
(***************************************************************************)
(* What the environment of an instance decides: whether its processes      *)
(* start (config.py), which LLM adapter the scheduler builds               *)
(* (llm/factory.py, scheduler/main.py), the zone new users are given, and, *)
(* from there, whether a due reminder gets its text                        *)
(* (NudgeEngine._compose_message and the four adapters under llm/).        *)
(*                                                                         *)
(* Every process reads the environment once, when it starts, so processes  *)
(* started at different times may run on different values.  Each keeps     *)
(* here only what it uses of them.  The ladder and the settings of a       *)
(* reminder are NudgeEngine's; here a reminder is due or not.              *)
(***************************************************************************)
EXTENDS Integers, Sequences, SequencesExt

CONSTANTS
  Envs,        \* environments the operator may write
  Workers,     \* the api's processes
  Bot,         \* the process of run_polling
  Users,       \* people; each has at most one reminder
  Refusing,    \* kind and key for which the SDK's client constructor raises
  MaxEdits,    \* bound: edits of the environment
  MaxKills     \* bound: processes killed, constructors failing for a moment

Kinds == {"gemini", "openai", "anthropic", "ollama"}
Keys == {"unset", "empty", "given"}
Zones == {"known", "unknown"}            \* to the tz database

Env == [mode : {"polling", "webhook"}, host : {"unset", "malformed", "given"},
        path : {"unset", "relative", "absolute"}, secret : {"unset", "short", "long"},
        secrets : {"sound", "unsound"}, quiet : {"equal", "differ"},
        kind : Kinds, key : Keys, zone : Zones]

ASSUME StartupAssumption ==
  /\ Envs \subseteq Env
  /\ Refusing \subseteq Kinds \X {"empty", "given"}
  /\ Bot \notin Workers
  /\ MaxEdits \in Nat /\ MaxKills \in Nat

FrontEnds == Workers \cup {Bot}

VARIABLES
  env,     \* the environment as the next start will read it
  front,   \* the front ends: their state, default zone and webhook
  sched,   \* the scheduler: its state, its adapter, whether that has a client
  zone,    \* users.timezone, "none" without a row
  due,     \* owners of the due reminders, in next_fire_at order
  todo,    \* the rows the tick in flight has still to process
  text,    \* the kind of text the last nudge of a user had
  edits, kills

vars == <<env, front, sched, zone, due, todo, text, edits, kills>>

-----------------------------------------------------------------------------
(* Settings.                                                                *)

\* Slip: WEBHOOK_PATH may be left out.
PathOptional(e) == e.mode = "webhook" => e.host = "given" /\ e.secret = "long"
\* Slip: WEBHOOK_SECRET may be left out.
SecretOptional(e) == e.mode = "webhook" => e.host = "given" /\ e.path = "absolute"
\* _check_webhook_secret_present.
WebhookComplete(e) ==
  e.mode = "webhook" => e.host = "given" /\ e.path = "absolute" /\ e.secret = "long"

\* _check_llm_api_key_when_needed: an empty value is a value.
KeyPresent(e) == e.kind # "ollama" => e.key # "unset"

\* get_settings: all the validators.  DEFAULT_TIMEZONE has none.
Valid(e) ==
  /\ e.host # "malformed"
  /\ e.secrets = "sound"
  /\ WebhookComplete(e)
  /\ KeyPresent(e)
  /\ e.quiet = "differ"

\* build_provider, with its ValueError turned into "no LLM" by _async_run.
NoLLM == [kind |-> "none", key |-> "unset"]
BuildProvider(e) ==
  IF e.kind # "ollama" /\ e.key = "unset" THEN NoLLM ELSE [kind |-> e.kind, key |-> e.key]

\* Settings.webhook_url and the secret: what the lifespan hands to set_webhook.
\* The two asserts stop the worker; a missing host or path would not.
Hook(e) ==
  CASE e.mode = "polling" -> "none"
    [] e.mode = "webhook" /\ e.secret = "unset" -> "assert"
    [] e.mode = "webhook" /\ e.secret # "unset"
         /\ e.host = "given" /\ e.path = "absolute" -> "sound"
    [] OTHER -> "broken"

Down == [state |-> "down", zone |-> "known", hook |-> "none"]
SchedDown == [state |-> "down", llm |-> NoLLM, client |-> FALSE]

-----------------------------------------------------------------------------
(* The adapters.  A reply of the model is a sequence of pieces - candidates'*)
(* parts, content blocks, choices - each with text, blank, or of another    *)
(* kind (a tool call, a safety block).                                      *)

Pieces == {"text", "blank", "other"}
Replies == UNION {[1 .. n -> Pieces] : n \in 0 .. 2}

\* Slip: a reply is used as it comes.
AnyReply(reply) == reply # <<>>

\* _extract_text: the text parts of all candidates.
GeminiText(reply) == "text" \in Range(reply)
\* AnthropicProvider.generate: the text blocks.
AnthropicText(reply) == "text" \in Range(reply)
\* OpenAIProvider.generate: the first choice.
OpenAIText(reply) == reply # <<>> /\ reply[1] = "text"
\* OllamaProvider.generate: the one message.
OllamaText(reply) == reply # <<>> /\ reply[1] = "text"

\* Does the adapter return this reply, or raise LLMError?
Accepts(kind, reply) ==
  CASE kind = "gemini"    -> GeminiText(reply)
    [] kind = "openai"    -> OpenAIText(reply)
    [] kind = "anthropic" -> AnthropicText(reply)
    [] kind = "ollama"    -> OllamaText(reply)

\* What the adapter returns is blank unless it has kept a piece of text.
TextOf(kind, reply) ==
  LET read == IF kind \in {"gemini", "anthropic"} THEN Range(reply)
              ELSE {reply[i] : i \in DOMAIN reply \cap {1}}
  IN  IF "text" \in read THEN "llm" ELSE "blank"

-----------------------------------------------------------------------------
Init ==
  /\ env \in Envs
  /\ front = [p \in FrontEnds |-> Down]
  /\ sched = SchedDown
  /\ zone = [u \in Users |-> "none"]
  /\ due = <<>>
  /\ todo = <<>>
  /\ text = [u \in Users |-> "none"]
  /\ edits = 0
  /\ kills = 0

-----------------------------------------------------------------------------
(* The processes.                                                           *)

\* create_app with its lifespan, or run_polling: Settings is built first, and
\* a ValidationError ends the process.
StartFront(p) ==
  /\ front[p].state = "down"
  /\ front' = [front EXCEPT ![p] =
       IF ~Valid(env) THEN [Down EXCEPT !.state = "refused"]
       ELSE IF p = Bot THEN [state |-> "up", zone |-> env.zone, hook |-> "none"]
       ELSE [state |-> IF Hook(env) = "assert" THEN "asserted" ELSE "up",
             zone |-> env.zone, hook |-> Hook(env)]]
  /\ UNCHANGED <<env, sched, zone, due, todo, text, edits, kills>>

\* _async_run of the scheduler.
StartScheduler ==
  /\ sched.state = "down"
  /\ sched' = IF Valid(env)
              THEN [state |-> "up", llm |-> BuildProvider(env), client |-> FALSE]
              ELSE [SchedDown EXCEPT !.state = "refused"]
  /\ UNCHANGED <<env, front, zone, due, todo, text, edits, kills>>

\* The operator edits .env and starts again what did not start.
EditEnv ==
  /\ edits < MaxEdits
  /\ edits' = edits + 1
  /\ env' \in Envs
  /\ front' = [p \in FrontEnds |-> IF front[p].state = "up" THEN front[p] ELSE Down]
  /\ sched' = IF sched.state = "up" THEN sched ELSE SchedDown
  /\ UNCHANGED <<zone, due, todo, text, kills>>

\* A process is killed or restarted; a tick in flight is lost.
KillFront(p) ==
  /\ front[p].state = "up"
  /\ kills < MaxKills
  /\ kills' = kills + 1
  /\ front' = [front EXCEPT ![p] = Down]
  /\ UNCHANGED <<env, sched, zone, due, todo, text, edits>>

KillScheduler ==
  /\ sched.state = "up"
  /\ kills < MaxKills
  /\ kills' = kills + 1
  /\ sched' = SchedDown
  /\ todo' = <<>>
  /\ UNCHANGED <<env, front, zone, due, text, edits>>

-----------------------------------------------------------------------------
(* The owner of a reminder.                                                 *)

\* p is handed updates: the bot polls, an api worker needs its webhook.
Handles(p) == front[p].state = "up" /\ (p = Bot \/ front[p].hook # "none")
Served == \E p \in FrontEnds : Handles(p)

\* The middleware registers a new user with the process's default zone.
Register(u) ==
  /\ zone[u] = "none"
  /\ \E p \in FrontEnds : Handles(p) /\ zone' = [zone EXCEPT ![u] = front[p].zone]
  /\ UNCHANGED <<env, front, sched, due, todo, text, edits, kills>>

\* /timezone takes only zones the tz database has.
SetTimezone(u) ==
  /\ Served
  /\ zone[u] # "none"
  /\ zone' = [zone EXCEPT ![u] = "known"]
  /\ UNCHANGED <<env, front, sched, due, todo, text, edits, kills>>

\* Slip: a zone that does not load is taken for UTC.
ParsesInUTC(u) == zone[u] # "none"
\* _parse_dt refuses a time in a zone that does not load.
Parses(u) == zone[u] = "known"

\* /add, until its time has come; or a later nudge of the same reminder has.
FallDue(u) ==
  /\ Parses(u)
  /\ u \notin Range(due)
  /\ due' = Append(due, u)
  /\ UNCHANGED <<env, front, sched, zone, todo, text, edits, kills>>

\* /forget: the row goes, and its reminder with it.
Forget(u) ==
  /\ Served
  /\ zone[u] # "none"
  /\ zone' = [zone EXCEPT ![u] = "none"]
  /\ due' = RemoveFirst(due, u)
  /\ text' = [text EXCEPT ![u] = "none"]
  /\ UNCHANGED <<env, front, sched, todo, edits, kills>>

-----------------------------------------------------------------------------
(* The tick.                                                                *)

LoadDue ==
  /\ sched.state = "up"
  /\ todo = <<>> /\ due # <<>>
  /\ todo' = due
  /\ UNCHANGED <<env, front, sched, zone, due, text, edits, kills>>

\* The nudge leaves with this text, and the reminder is rescheduled.
Nudge(u, kind) ==
  /\ text' = [text EXCEPT ![u] = kind]
  /\ due' = RemoveFirst(due, u)
  /\ todo' = Tail(todo)
  /\ UNCHANGED <<env, front, zone, edits, kills>>

\* The row of u can be processed: it is still there, and its owner's zone loads.
Ready(u) == zone[u] = "known" /\ u \in Range(due)
Current == sched.state = "up" /\ todo # <<>> /\ Ready(Head(todo))

\* Nothing catches the error: the tick ends, the rows after this one wait.
TickFails ==
  /\ sched.state = "up"
  /\ todo # <<>>
  /\ ~Ready(Head(todo))
  /\ todo' = <<>>
  /\ UNCHANGED <<env, front, sched, zone, due, text, edits, kills>>

\* _ensure_client makes the client on the first call and keeps it.
CanMakeClient == sched.client \/ <<sched.llm.kind, sched.llm.key>> \notin Refusing

\* The constructor's exception is raised outside generate's try, so it is no
\* LLMError and the engine does not catch it.
ClientRaises ==
  /\ Current
  /\ sched.llm # NoLLM
  /\ ~sched.client
  /\ \/ ~CanMakeClient /\ UNCHANGED kills
     \/ kills < MaxKills /\ kills' = kills + 1
  /\ todo' = <<>>
  /\ UNCHANGED <<env, front, sched, zone, due, text, edits>>

\* The model answers, with something usable or not.
Answered ==
  /\ Current
  /\ sched.llm # NoLLM
  /\ CanMakeClient
  /\ \E reply \in Replies :
       Nudge(Head(todo), IF Accepts(sched.llm.kind, reply)
                         THEN TextOf(sched.llm.kind, reply) ELSE "template")
  /\ sched' = [sched EXCEPT !.client = TRUE]

\* Slip: the exception of the request is not turned into an LLMError.
RequestLeaks ==
  /\ Current
  /\ sched.llm # NoLLM
  /\ CanMakeClient
  /\ todo' = <<>>
  /\ sched' = [sched EXCEPT !.client = TRUE]
  /\ UNCHANGED <<env, front, zone, due, text, edits, kills>>

\* The request raises, which generate makes an LLMError, or there is no adapter:
\* the engine falls back to the template bank.
FallBack ==
  /\ Current
  /\ sched.llm # NoLLM => CanMakeClient
  /\ Nudge(Head(todo), "template")
  /\ sched' = [sched EXCEPT !.client = sched.llm # NoLLM]

TickStep == LoadDue \/ TickFails \/ ClientRaises \/ Answered \/ FallBack

Next ==
  \/ \E p \in FrontEnds : StartFront(p) \/ KillFront(p)
  \/ StartScheduler \/ KillScheduler \/ EditEnv
  \/ \E u \in Users : Register(u) \/ SetTimezone(u) \/ FallDue(u) \/ Forget(u)
  \/ TickStep

Spec == Init /\ [][Next]_vars

\* supervisord starts the scheduler (autorestart) and APScheduler its ticks.
FairSpec == Spec /\ WF_vars(StartScheduler) /\ WF_vars(TickStep)

-----------------------------------------------------------------------------
(* Properties.                                                              *)

\* Every variable keeps its shape; no worker stops at an assert.
TypeOK ==
  /\ env \in Envs
  /\ front \in [FrontEnds -> [state : {"down", "refused", "up"}, zone : Zones,
                              hook : {"none", "sound", "broken"}]]
  /\ sched \in [state : {"down", "refused", "up"}, client : BOOLEAN,
                llm : {NoLLM} \cup [kind : Kinds, key : Keys]]
  /\ zone \in [Users -> Zones \cup {"none"}]
  /\ due \in Seq(Users) /\ todo \in Seq(Users)
  /\ text \in [Users -> {"none", "template", "llm", "blank"}]
  /\ edits \in 0 .. MaxEdits /\ kills \in 0 .. MaxKills

\* What the processes only assert in part, or fall back from, follows from the
\* validators: a worker that serves in webhook mode has registered an address
\* Telegram can post to, and a secret; a running scheduler has an adapter, and is
\* not silently without an LLM (app.py:79-82, config.py:226-241,
\* factory.py:25-28, scheduler/main.py:69-75).
SettingsSuffice ==
  /\ \A p \in FrontEnds : front[p].state = "up" => front[p].hook # "broken"
  /\ sched.state = "up" => sched.llm # NoLLM

\* A reminder becomes due only for an owner whose zone loads, although nobody
\* checks the zone a user is registered with: no tick ends at such a row, which
\* would come first again in every later tick (quiet_hours.py:42, events.py:54-63).
DueZonesLoad == \A u \in Range(due) : zone[u] = "known"

\* No nudge is blank, whatever pieces the model answers with (Telegram would
\* refuse it, and the reminder would escalate unseen; llm/*.py).
NeverBlank == \A u \in Users : text[u] # "blank"

\* A due reminder is nudged or withdrawn, whatever the model answers and although
\* a kill may take the tick, unless the scheduler refuses to start or the SDK
\* refuses the key (nudge_engine.py:237-265).
DueGetsText ==
  \A u \in Users : (u \in Range(due))
                     ~> (u \notin Range(due) \/ sched.state = "refused" \/ ~CanMakeClient)

-----------------------------------------------------------------------------
(* What the comments promise and the code does not keep.                    *)

\* "the timezone was validated at user registration time" (events.py:58-59).
RegisteredZoneLoads == \A u \in Users : zone[u] # "unknown"

\* "Если LLM не настроен - бот всё равно работает" (docs/install.md:36): what is
\* refused has another cause than a missing key.
NoKeyNeeded ==
  sched.state = "refused" => ~Valid([env EXCEPT !.key = "given"])

\* "the user gets a message regardless of upstream availability"
\* (nudge_engine.py:241-242).
TextRegardless ==
  \A u \in Users : (u \in Range(due)) ~> (u \notin Range(due) \/ sched.state = "refused")
=============================================================================
