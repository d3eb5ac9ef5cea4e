------------------------------- MODULE Webhook -------------------------------
(***************************************************************************)
(* How updates reach the handlers: the processes that serve the API, which *)
(* register the webhook when they start and delete it when they stop       *)
(* (api/app.py), the route Telegram posts to (api/webhook.py), and the     *)
(* process that polls instead (bot/main.py).                               *)
(*                                                                         *)
(* Telegram keeps one queue and at most one webhook for the bot, whichever *)
(* process registered it.  It posts an update until it is answered with    *)
(* 200; while a webhook is registered it refuses getUpdates.  supervisord  *)
(* starts the polling process in every mode: BOT_MODE only decides whether *)
(* the API processes register a webhook.                                   *)
(***************************************************************************)
EXTENDS Integers, FiniteSets

CONSTANTS
  Workers,     \* API processes: uvicorn's workers, of every replica
  Secrets,     \* values WEBHOOK_SECRET is given
  NoHook,
  Modes,       \* values BOT_MODE is given
  Malformed,   \* the updates aiogram's Update does not validate
  MaxUpdates,  \* bound: updates sent
  MaxFaults,   \* bound: killed processes, timeouts, calls of Telegram that raise
  MaxStops,    \* bound: orderly stops that a start follows
  MaxLeaves,   \* bound: orderly stops of a replica that is taken away
  MaxEdits     \* bound: changes of .env

ASSUME WebhookAssumption ==
  /\ NoHook \notin Secrets
  /\ Modes \subseteq {"webhook", "polling"}
  /\ Malformed \subseteq 1 .. MaxUpdates
  /\ {MaxUpdates, MaxFaults, MaxStops, MaxLeaves, MaxEdits} \subseteq Nat

VARIABLES
  env,      \* .env
  worker,   \* an API process, with the settings it has read
  hook,     \* the secret of the webhook registered at Telegram
  queue,    \* updates pending at Telegram
  next,     \* the next update's id
  poller,   \* the polling process: updates it is handling, and its offset
  runs,     \* history: how often an update was handled
  gone,     \* history: updates dropped, or confirmed by a poller that died
  count     \* faults, stops, leaves and edits so far

vars == <<env, worker, hook, queue, next, poller, runs, gone, count>>

Updates == 1 .. MaxUpdates
NoUpdate == 0
Env == [mode : Modes, secret : Secrets]
Worker == [stage : {"down", "starting", "up", "stopping", "leaving", "off"},
           set : Env, update : Updates \cup {NoUpdate}, heard : BOOLEAN]
Poller == [up : BOOLEAN, got : SUBSET Updates, offset : Nat]
NoPoller == [up |-> FALSE, got |-> {}, offset |-> 0]
Bounds == [faults |-> MaxFaults, stops |-> MaxStops, leaves |-> MaxLeaves, edits |-> MaxEdits]

\* One more of a bounded kind of event.
Counted(kind) ==
  /\ count[kind] < Bounds[kind]
  /\ count' = [count EXCEPT ![kind] = @ + 1]

\* The worker passes to a stage with nothing in its hands.
Enter(w, stage) ==
  worker' = [worker EXCEPT ![w].stage = stage, ![w].update = NoUpdate, ![w].heard = FALSE]

-----------------------------------------------------------------------------
Init ==
  /\ env \in Env
  /\ worker = [w \in Workers |-> [stage |-> "down", set |-> env, update |-> NoUpdate, heard |-> FALSE]]
  /\ hook = NoHook
  /\ queue = {}
  /\ next = 1
  /\ poller = NoPoller
  /\ runs = [u \in Updates |-> 0]
  /\ gone = {}
  /\ count = [k \in DOMAIN Bounds |-> 0]

\* A user writes to the bot.
Send ==
  /\ next \in Updates
  /\ queue' = queue \cup {next}
  /\ next' = next + 1
  /\ UNCHANGED <<env, worker, hook, poller, runs, gone, count>>

\* The operator changes .env, and restarts the polling process at once; the API
\* processes read it when they start.
EditEnv ==
  /\ Counted("edits")
  /\ env' \in Env \ {env}
  /\ poller' = NoPoller
  /\ gone' = gone \cup (poller.got \ queue)
  /\ UNCHANGED <<worker, hook, queue, next, runs>>

-----------------------------------------------------------------------------
(* The API processes.                                                       *)

\* create_app reads the settings.
Launch(w) ==
  /\ worker[w].stage = "down"
  /\ worker' = [worker EXCEPT ![w].stage = "starting", ![w].set = env]
  /\ UNCHANGED <<env, hook, queue, next, poller, runs, gone, count>>

\* Slip: nothing is registered where a webhook is registered already.
KeptIfAny(w) == IF hook = NoHook THEN worker[w].set.secret ELSE hook
\* What a start leaves registered.
Registered(w) == worker[w].set.secret

\* The lifespan's startup in webhook mode: set_webhook, with
\* drop_pending_updates.  The call may raise although Telegram obeyed.
SetWebhook(w) ==
  /\ worker[w].stage = "starting" /\ worker[w].set.mode = "webhook"
  /\ hook' = Registered(w)
  /\ queue' = {}
  /\ gone' = gone \cup queue
  /\ \/ Enter(w, "up") /\ UNCHANGED count
     \/ Enter(w, "down") /\ Counted("faults")
  /\ UNCHANGED <<env, next, poller, runs>>

\* The same in polling mode.
StartPlain(w) ==
  /\ worker[w].stage = "starting" /\ worker[w].set.mode = "polling"
  /\ Enter(w, "up")
  /\ UNCHANGED <<env, hook, queue, next, poller, runs, gone, count>>

\* Telegram waits for an answer about the update.
Waiting(u) == \E w \in Workers : worker[w].update = u /\ worker[w].heard

\* Slip: the update is answered first and handled in the background.
Answered(u) == queue \ {u}
\* The route answers after the handler.
Unanswered(u) == queue

\* A post with the worker's own secret; with another one it is answered 403,
\* which changes nothing and leaves the update pending.
Deliver(w, u) ==
  /\ worker[w].stage = "up" /\ worker[w].set.mode = "webhook"
  /\ worker[w].update = NoUpdate
  /\ hook = worker[w].set.secret
  /\ u \in queue /\ ~Waiting(u)
  /\ worker' = [worker EXCEPT ![w].update = u, ![w].heard = TRUE]
  /\ queue' = Unanswered(u)
  /\ UNCHANGED <<env, hook, next, poller, runs, gone, count>>

\* The body does not validate: 400 before the dispatcher has seen it, and the
\* update stays pending.
Refuse(w) ==
  /\ worker[w].update \in Malformed
  /\ Enter(w, worker[w].stage)
  /\ UNCHANGED <<env, hook, queue, next, poller, runs, gone, count>>

\* Slip: a handler that raises is answered with 500.
OnlySuccess(w) == queue
\* 200 takes the update off the queue, if Telegram still waits for it.
Confirmed(w) == IF worker[w].heard THEN queue \ {worker[w].update} ELSE queue

\* feed_webhook_update returns or raises: 200 either way.
Answer(w) ==
  LET u == worker[w].update
  IN  /\ u # NoUpdate /\ u \notin Malformed
      /\ runs' = [runs EXCEPT ![u] = @ + 1]
      /\ queue' = Confirmed(w)
      /\ Enter(w, worker[w].stage)
      /\ UNCHANGED <<env, hook, next, poller, gone, count>>

\* Telegram waits no longer; the handler runs on.
TimeOut(w) ==
  /\ worker[w].heard
  /\ Counted("faults")
  /\ worker' = [worker EXCEPT ![w].heard = FALSE]
  /\ UNCHANGED <<env, hook, queue, next, poller, runs, gone>>

\* No further connection is accepted; those that are open end first.
Stop(w) ==
  /\ worker[w].stage = "up"
  /\ \/ Counted("stops") /\ worker' = [worker EXCEPT ![w].stage = "stopping"]
     \/ Counted("leaves") /\ worker' = [worker EXCEPT ![w].stage = "leaving"]
  /\ UNCHANGED <<env, hook, queue, next, poller, runs, gone>>

\* Slip: the open connections are not waited for.
AtOnce(w) == TRUE
\* uvicorn's graceful shutdown.
Drained(w) == worker[w].update = NoUpdate

After(stage) == IF stage = "leaving" THEN "off" ELSE "down"

\* The lifespan's shutdown: delete_webhook in webhook mode, which keeps the
\* pending updates; an exception is logged.
Shutdown(w) ==
  /\ worker[w].stage \in {"stopping", "leaving"}
  /\ Drained(w)
  /\ worker' = [worker EXCEPT ![w].stage = After(@)]
  /\ \/ /\ hook' = IF worker[w].set.mode = "webhook" THEN NoHook ELSE hook
        /\ UNCHANGED count
     \/ worker[w].set.mode = "webhook" /\ Counted("faults") /\ UNCHANGED hook
  /\ UNCHANGED <<env, queue, next, poller, runs, gone>>

\* A killed process deletes nothing; supervisord or docker starts it again.
Kill(w) ==
  /\ worker[w].stage \notin {"down", "off"}
  /\ Counted("faults")
  /\ Enter(w, After(worker[w].stage))
  /\ UNCHANGED <<env, hook, queue, next, poller, runs, gone>>

-----------------------------------------------------------------------------
(* run_polling.                                                             *)

\* It does not look at BOT_MODE.
PollerStart ==
  /\ ~poller.up
  /\ poller' = [NoPoller EXCEPT !.up = TRUE]
  /\ UNCHANGED <<env, worker, hook, queue, next, runs, gone, count>>

\* getUpdates confirms what lies below the offset and returns the rest; each
\* update is handled in a task of its own.  A reply with an update that does not
\* validate is lost as a whole, and asked for again.
Poll ==
  LET new == {u \in queue : u >= poller.offset}
      read == IF new \cap Malformed = {} THEN new ELSE {}
  IN  /\ poller.up /\ hook = NoHook /\ queue # {}
      /\ queue' = new
      /\ poller' = [poller EXCEPT !.got = @ \cup read,
                                  !.offset = IF read = {} THEN @ ELSE next]
      /\ UNCHANGED <<env, worker, hook, next, runs, gone, count>>

PollerRuns(u) ==
  /\ u \in poller.got
  /\ poller' = [poller EXCEPT !.got = @ \ {u}]
  /\ runs' = [runs EXCEPT ![u] = @ + 1]
  /\ UNCHANGED <<env, worker, hook, queue, next, gone, count>>

\* The offset dies with the process.
PollerDies ==
  /\ poller.up
  /\ Counted("faults")
  /\ poller' = NoPoller
  /\ gone' = gone \cup (poller.got \ queue)
  /\ UNCHANGED <<env, worker, hook, queue, next, runs>>

-----------------------------------------------------------------------------
WorkerStep(w) ==
  \/ Launch(w) \/ SetWebhook(w) \/ StartPlain(w)
  \/ (\E u \in Updates : Deliver(w, u)) \/ Refuse(w) \/ Answer(w) \/ TimeOut(w)
  \/ Stop(w) \/ Shutdown(w) \/ Kill(w)
PollerStep ==
  \/ PollerStart \/ Poll \/ PollerDies
  \/ \E u \in Updates : PollerRuns(u)

Next == Send \/ EditEnv \/ (\E w \in Workers : WorkerStep(w)) \/ PollerStep

Spec == Init /\ [][Next]_vars

\* Processes are started again and get on with their work.  Telegram posts each
\* pending update again and again, also while others are refused: an update that
\* could be posted over and over is posted in the end.
FairSpec ==
  /\ Spec
  /\ \A w \in Workers :
       /\ WF_vars(Launch(w)) /\ WF_vars(SetWebhook(w)) /\ WF_vars(StartPlain(w))
       /\ WF_vars(Refuse(w)) /\ WF_vars(Answer(w)) /\ WF_vars(Shutdown(w))
  /\ WF_vars(PollerStart) /\ WF_vars(Poll)
  /\ \A u \in Updates : /\ SF_vars(\E w \in Workers : Deliver(w, u))
                        /\ WF_vars(PollerRuns(u))

-----------------------------------------------------------------------------
(* Properties.                                                              *)

\* Types; and only a process that is up, or has connections to finish, handles
\* an update.
TypeOK ==
  /\ env \in Env
  /\ worker \in [Workers -> Worker]
  /\ \A w \in Workers : worker[w].update # NoUpdate
                          => worker[w].stage \in {"up", "stopping", "leaving"}
  /\ hook \in Secrets \cup {NoHook}
  /\ queue \subseteq Updates /\ next \in Nat \ {0} /\ \A u \in queue : u < next
  /\ poller \in Poller
  /\ runs \in [Updates -> Nat] /\ gone \subseteq Updates
  /\ count \in [DOMAIN Bounds -> Nat]

\* An update leaves Telegram's queue only after a handler has run on it, unless
\* a start dropped it or the polling process has confirmed it and holds it, or
\* died with it (webhook.py:87-92).  So a killed worker repeats an update but
\* never skips one.
NoneSkipped ==
  \A u \in Updates : u < next /\ u \notin queue
    => runs[u] > 0 \/ u \in gone \/ u \in poller.got

\* A worker has stopped in order, or is about to: it deletes the webhook.
Handover == IF count["stops"] + count["leaves"] = 0 THEN 0 ELSE 1

\* An update is handled again only after a fault, after a change of .env, which
\* restarts the polling process, or, once, because a worker that stops deletes the
\* webhook while another still handles the update and so lets the polling process
\* fetch it.  A raising handler, a refused secret and any number of further stops
\* repeat nothing (webhook.py:86-92, app.py:86-103, bot/main.py:84-95).
RepeatHasCause ==
  \A u \in Updates : runs[u] <= 1 + count["faults"] + count["edits"] + Handover

\* Every API process runs in webhook mode, and none is being taken away.
AllServe == \A w \in Workers : worker[w].set.mode = "webhook"
                               /\ worker[w].stage \notin {"leaving", "off"}

\* While that lasts, each pending update that validates is handled or dropped at
\* last, whatever order the processes stop, start and change their secrets in and
\* however often another update is refused: the last to stop starts again and
\* registers its own secret (app.py:82-103, webhook.py:61-92).  One that does not
\* validate is answered 400 at every post and may stay pending for ever.
PendingEnds ==
  \A u \in Updates \ Malformed :
    (u \in queue /\ AllServe) ~> (u \notin queue \/ ~AllServe)

-----------------------------------------------------------------------------
(* What the texts promise and the code does not keep.                       *)

\* "All pending updates in Telegram's queue get 403, but Telegram can retry:
\* nothing is lost" (docs/key-rotation.md:32-33), said of a changed secret.
RotationDropsNothing == [][count["edits"] > 0 => gone' = gone]_vars

\* "polling or webhook, MUTUALLY EXCLUSIVE" (.env.example:15), said of BOT_MODE:
\* without a fault or a change of it no update is handled twice.
OneModeAtATime ==
  count["faults"] + count["edits"] = 0 => \A u \in Updates : runs[u] <= 1

\* "The bot fetches its updates itself" (docs/install.md:55): once every process
\* runs with BOT_MODE=polling the pending updates are fetched.
PollingHears ==
  \A u \in Updates :
    (u \in queue /\ env.mode = "polling" /\ \A w \in Workers : worker[w].set.mode = "polling")
      ~> (u \notin queue \/ env.mode # "polling")
=============================================================================
