--------------------------- MODULE WebhookProofs ---------------------------
(***************************************************************************)
(* No update is skipped, for any number of workers, secrets and modes, and *)
(* every repetition of one has its own cause.                              *)
(***************************************************************************)
EXTENDS Webhook, TLAPS, FiniteSetTheorems

\* What the polling process has been given and not confirmed yet was handled by
\* it or is in its hands: the next getUpdates may confirm it.
PolledHeld ==
  /\ poller.offset <= next
  /\ ~poller.up => poller.got = {}
  /\ \A u \in queue : u < poller.offset => u \in poller.got \/ runs[u] > 0

\* The inductive invariant.
DeliveryInvariant == TypeOK /\ PolledHeld /\ NoneSkipped

LEMMA BoundsType == DOMAIN Bounds = {"faults", "stops", "leaves", "edits"}
  BY DEF Bounds

\* The steps that change neither queue nor poller nor what was handled.
LEMMA Bystanders ==
  ASSUME DeliveryInvariant, UNCHANGED <<queue, next, poller, runs, gone>>
  PROVE  PolledHeld' /\ NoneSkipped'
  BY DEF DeliveryInvariant, PolledHeld, NoneSkipped

LEMMA CountedType ==
  ASSUME TypeOK, NEW kind \in DOMAIN Bounds, Counted(kind)
  PROVE  count' \in [DOMAIN Bounds -> Nat]
  BY DEF TypeOK, Counted

\* A worker entering a stage empty-handed keeps its shape.
LEMMA EnterType ==
  ASSUME TypeOK, NEW w \in Workers,
         NEW stage \in {"down", "starting", "up", "stopping", "leaving", "off"},
         Enter(w, stage)
  PROVE  /\ worker' \in [Workers -> Worker]
         /\ \A v \in Workers : worker'[v].update # NoUpdate
              => worker'[v].stage \in {"up", "stopping", "leaving"}
<1>1. worker \in [Workers -> Worker] /\ worker[w] \in Worker
  BY DEF TypeOK
<1> DEFINE row == [worker[w] EXCEPT !.stage = stage, !.update = NoUpdate, !.heard = FALSE]
<1>2. row \in Worker /\ row.update = NoUpdate
  BY <1>1 DEF Worker
<1>3. worker' = [worker EXCEPT ![w] = row]
  BY <1>1 DEF Enter
<1> HIDE DEF row
<1>4. QED
  BY <1>1, <1>2, <1>3 DEF TypeOK

LEMMA InitDelivers == Init => DeliveryInvariant
<1> SUFFICES ASSUME Init PROVE DeliveryInvariant
  OBVIOUS
<1>1. TypeOK
  <2>1. worker \in [Workers -> Worker]
    BY DEF Init, Worker
  <2>2. poller \in Poller
    BY DEF Init, Poller, NoPoller
  <2>3. \A w \in Workers : worker[w].update = NoUpdate
    BY DEF Init
  <2>4. runs \in [Updates -> Nat] /\ count \in [DOMAIN Bounds -> Nat]
    BY DEF Init
  <2>5. /\ env \in Env /\ hook = NoHook /\ queue = {} /\ gone = {}
        /\ next \in Nat \ {0}
    BY DEF Init
  <2>6. QED
    BY <2>1, <2>2, <2>3, <2>4, <2>5 DEF TypeOK
<1>2. PolledHeld
  BY DEF Init, PolledHeld, NoPoller
<1>3. NoneSkipped
  BY DEF Init, NoneSkipped, Updates
<1>4. QED
  BY <1>1, <1>2, <1>3 DEF DeliveryInvariant

LEMMA SendDelivers ==
  ASSUME DeliveryInvariant, Send
  PROVE  DeliveryInvariant'
<1>1. TypeOK'
  BY DEF Send, DeliveryInvariant, TypeOK, Updates
<1>2. PolledHeld'
  BY DEF Send, DeliveryInvariant, PolledHeld, TypeOK, Poller, Updates
<1>3. NoneSkipped'
  <2>1. \A u \in Updates : u < next + 1 => u < next \/ u = next
    BY DEF DeliveryInvariant, TypeOK, Updates
  <2>2. QED
    BY <2>1 DEF Send, DeliveryInvariant, NoneSkipped
<1>4. QED
  BY <1>1, <1>2, <1>3 DEF DeliveryInvariant

\* The steps that lose what the polling process holds: a death, and the restart
\* that follows a change of .env.
LEMMA PollerLost ==
  ASSUME DeliveryInvariant, poller' = NoPoller, gone' = gone \cup (poller.got \ queue),
         UNCHANGED <<queue, next, runs>>
  PROVE  /\ PolledHeld' /\ NoneSkipped'
         /\ poller' \in Poller /\ gone' \subseteq Updates
<1>1. poller.got \subseteq Updates /\ gone \subseteq Updates /\ queue \subseteq Updates
  BY DEF DeliveryInvariant, TypeOK, Poller
<1>2. PolledHeld'
  BY <1>1 DEF DeliveryInvariant, TypeOK, PolledHeld, NoPoller, Updates
<1>3. NoneSkipped'
  BY DEF DeliveryInvariant, NoneSkipped
<1>4. QED
  BY <1>1, <1>2, <1>3 DEF NoPoller, Poller

LEMMA EditDelivers ==
  ASSUME DeliveryInvariant, EditEnv
  PROVE  DeliveryInvariant'
<1>1. PolledHeld' /\ NoneSkipped' /\ poller' \in Poller /\ gone' \subseteq Updates
  BY PollerLost DEF EditEnv
<1>2. count' \in [DOMAIN Bounds -> Nat]
  BY BoundsType, CountedType DEF EditEnv, DeliveryInvariant
<1>3. TypeOK'
  BY <1>1, <1>2 DEF EditEnv, DeliveryInvariant, TypeOK
<1>4. QED
  BY <1>1, <1>3 DEF DeliveryInvariant

LEMMA WorkerStarts ==
  ASSUME DeliveryInvariant, NEW w \in Workers,
         Launch(w) \/ StartPlain(w) \/ Refuse(w) \/ Kill(w)
  PROVE  DeliveryInvariant'
<1>1. TypeOK /\ worker \in [Workers -> Worker] /\ worker[w] \in Worker
  BY DEF DeliveryInvariant, TypeOK
<1>2. CASE Launch(w)
  <2> DEFINE row == [worker[w] EXCEPT !.stage = "starting", !.set = env]
  <2>1. row \in Worker /\ row.update = NoUpdate
    BY <1>1, <1>2 DEF Launch, TypeOK, Worker
  <2>2. worker' = [worker EXCEPT ![w] = row]
    BY <1>2 DEF Launch
  <2> HIDE DEF row
  <2>3. TypeOK'
    BY <1>1, <1>2, <2>1, <2>2 DEF Launch, TypeOK
  <2>4. QED
    BY <1>2, <2>3, Bystanders DEF Launch, DeliveryInvariant
<1>3. CASE StartPlain(w)
  <2>1. TypeOK'
    BY <1>1, <1>3, EnterType DEF StartPlain, TypeOK
  <2>2. QED
    BY <1>3, <2>1, Bystanders DEF StartPlain, DeliveryInvariant
<1>4. CASE Kill(w)
  <2>1. After(worker[w].stage) \in {"down", "off"}
    BY DEF After
  <2>2. count' \in [DOMAIN Bounds -> Nat]
    BY <1>1, <1>4, BoundsType, CountedType DEF Kill
  <2>3. TypeOK'
    BY <1>1, <1>4, <2>1, <2>2, EnterType DEF Kill, TypeOK
  <2>4. QED
    BY <1>4, <2>3, Bystanders DEF Kill, DeliveryInvariant
<1>5. CASE Refuse(w)
  <2>1. PICK stage : stage = worker[w].stage
    OBVIOUS
  <2>2. TypeOK'
    BY <1>1, <1>5, <2>1, EnterType DEF Refuse, TypeOK, Worker
  <2>3. QED
    BY <1>5, <2>2, Bystanders DEF Refuse, DeliveryInvariant
<1>6. QED
  BY <1>2, <1>3, <1>4, <1>5

LEMMA SetWebhookDelivers ==
  ASSUME DeliveryInvariant, NEW w \in Workers, SetWebhook(w)
  PROVE  DeliveryInvariant'
<1>1. TypeOK /\ worker[w] \in Worker
  BY DEF DeliveryInvariant, TypeOK
<1>2. hook' \in Secrets
  BY <1>1 DEF SetWebhook, Registered, Worker, Env
<1>3. Enter(w, "up") \/ Enter(w, "down")
  BY DEF SetWebhook
<1>4. count' \in [DOMAIN Bounds -> Nat]
  BY <1>1, BoundsType, CountedType DEF SetWebhook, TypeOK
<1>5. /\ worker' \in [Workers -> Worker]
      /\ \A v \in Workers : worker'[v].update # NoUpdate
           => worker'[v].stage \in {"up", "stopping", "leaving"}
  BY <1>1, <1>3, EnterType
<1>6. TypeOK'
  BY <1>1, <1>2, <1>4, <1>5 DEF SetWebhook, TypeOK
<1>7. PolledHeld' /\ NoneSkipped'
  BY DEF SetWebhook, DeliveryInvariant, PolledHeld, NoneSkipped
<1>8. QED
  BY <1>6, <1>7 DEF DeliveryInvariant

LEMMA DeliverDelivers ==
  ASSUME DeliveryInvariant, NEW w \in Workers, NEW u \in Updates, Deliver(w, u)
  PROVE  DeliveryInvariant'
<1>1. TypeOK /\ worker \in [Workers -> Worker] /\ worker[w] \in Worker
  BY DEF DeliveryInvariant, TypeOK
<1>2. worker' = [worker EXCEPT ![w].update = u, ![w].heard = TRUE]
  BY DEF Deliver
<1> DEFINE row == [worker[w] EXCEPT !.update = u, !.heard = TRUE]
<1>3. row \in Worker /\ row.stage = "up"
  BY <1>1 DEF Deliver, TypeOK, Worker
<1>4. worker' = [worker EXCEPT ![w] = row]
  BY <1>2
<1> HIDE DEF row
<1>5. TypeOK'
  BY <1>1, <1>3, <1>4 DEF Deliver, Unanswered, TypeOK
<1>6. QED
  BY <1>5, Bystanders DEF Deliver, Unanswered, DeliveryInvariant

\* The update leaves the queue only in the step that counts its handling.
LEMMA AnswerDelivers ==
  ASSUME DeliveryInvariant, NEW w \in Workers, Answer(w)
  PROVE  DeliveryInvariant'
<1>1. TypeOK /\ worker \in [Workers -> Worker] /\ worker[w] \in Worker
  BY DEF DeliveryInvariant, TypeOK
<1>2. PICK u \in Updates : u = worker[w].update
  BY <1>1 DEF Answer, Worker
<1>3. queue' = queue \/ queue' = queue \ {u}
  BY <1>2 DEF Answer, Confirmed
<1>4. runs' = [runs EXCEPT ![u] = @ + 1]
  BY <1>2 DEF Answer
<1>5. /\ runs' \in [Updates -> Nat] /\ runs'[u] > 0
      /\ \A v \in Updates : v # u => runs'[v] = runs[v]
  BY <1>1, <1>2, <1>4 DEF TypeOK
<1>6. PolledHeld'
  BY <1>3, <1>5 DEF Answer, DeliveryInvariant, PolledHeld, TypeOK
<1>7. NoneSkipped'
  BY <1>3, <1>5 DEF Answer, DeliveryInvariant, NoneSkipped
<1>8. PICK stage : stage = worker[w].stage
  OBVIOUS
<1>9. /\ worker' \in [Workers -> Worker]
      /\ \A v \in Workers : worker'[v].update # NoUpdate
           => worker'[v].stage \in {"up", "stopping", "leaving"}
  BY <1>1, <1>8, EnterType DEF Answer, Worker
<1>10. TypeOK'
  BY <1>1, <1>3, <1>5, <1>9 DEF Answer, TypeOK
<1>11. QED
  BY <1>6, <1>7, <1>10 DEF DeliveryInvariant

LEMMA WorkerEnds ==
  ASSUME DeliveryInvariant, NEW w \in Workers,
         TimeOut(w) \/ Stop(w) \/ Shutdown(w)
  PROVE  DeliveryInvariant'
<1>1. TypeOK /\ worker \in [Workers -> Worker] /\ worker[w] \in Worker
  BY DEF DeliveryInvariant, TypeOK
<1>2. count' \in [DOMAIN Bounds -> Nat]
  BY <1>1, BoundsType, CountedType DEF TimeOut, Stop, Shutdown, TypeOK
<1>3. PICK row \in Worker : /\ worker' = [worker EXCEPT ![w] = row]
                            /\ row.update # NoUpdate => row.stage \in {"up", "stopping", "leaving"}
  <2>1. CASE TimeOut(w)
    <3>1. [worker[w] EXCEPT !.heard = FALSE] \in Worker
      BY <1>1 DEF Worker
    <3>2. QED
      BY <1>1, <2>1, <3>1 DEF TimeOut, TypeOK, Worker
  <2>2. CASE Stop(w)
    <3>1. \A s \in {"stopping", "leaving"} : [worker[w] EXCEPT !.stage = s] \in Worker
      BY <1>1 DEF Worker
    <3>2. PICK s \in {"stopping", "leaving"} : worker' = [worker EXCEPT ![w].stage = s]
      BY <2>2 DEF Stop
    <3>3. [worker[w] EXCEPT !.stage = s].stage = s
      BY <1>1 DEF Worker
    <3>4. QED
      BY <3>1, <3>2, <3>3
  <2>3. CASE Shutdown(w)
    <3>1. PICK s \in {"down", "off"} : worker' = [worker EXCEPT ![w].stage = s]
      BY <1>1, <2>3 DEF Shutdown, After
    <3>2. /\ [worker[w] EXCEPT !.stage = s] \in Worker
          /\ [worker[w] EXCEPT !.stage = s].update = NoUpdate
      BY <1>1, <2>3 DEF Worker, Shutdown, Drained
    <3>3. QED
      BY <3>1, <3>2
  <2>4. QED
    BY <2>1, <2>2, <2>3
<1>4. hook' \in Secrets \cup {NoHook}
  BY <1>1 DEF TimeOut, Stop, Shutdown, TypeOK
<1>5. UNCHANGED <<env, queue, next, poller, runs, gone>>
  BY DEF TimeOut, Stop, Shutdown
<1>6. TypeOK'
  BY <1>1, <1>2, <1>3, <1>4, <1>5 DEF TypeOK
<1>7. QED
  BY <1>5, <1>6, Bystanders DEF DeliveryInvariant

LEMMA PollerDelivers ==
  ASSUME DeliveryInvariant, PollerStep
  PROVE  DeliveryInvariant'
<1>1. TypeOK /\ poller \in Poller
  BY DEF DeliveryInvariant, TypeOK
<1>2. CASE PollerStart
  <2>1. poller' = [up |-> TRUE, got |-> {}, offset |-> 0]
    BY <1>2 DEF PollerStart, NoPoller
  <2>2. TypeOK'
    <3>1. poller' \in Poller
      BY <2>1 DEF Poller
    <3>2. QED
      BY <1>1, <1>2, <3>1 DEF PollerStart, TypeOK
  <2>3. PolledHeld'
    BY <1>1, <1>2, <2>1 DEF PollerStart, DeliveryInvariant, PolledHeld, TypeOK, Updates
  <2>4. NoneSkipped'
    BY <1>2, <2>1 DEF PollerStart, DeliveryInvariant, PolledHeld, NoneSkipped
  <2>5. QED
    BY <2>2, <2>3, <2>4 DEF DeliveryInvariant
<1>3. CASE Poll
  <2> DEFINE new == {u \in queue : u >= poller.offset}
             read == IF new \cap Malformed = {} THEN new ELSE {}
  <2>2. queue' = new /\ UNCHANGED <<env, worker, hook, next, runs, gone, count>>
    BY <1>3 DEF Poll
  <2>3. /\ new \subseteq queue /\ queue \subseteq Updates
        /\ \A u \in queue : u \notin new => u < poller.offset
        /\ \A u \in new : ~(u < poller.offset)
    BY <1>1 DEF TypeOK, Poller, Updates
  <2>4. read = new \/ read = {}
    OBVIOUS
  <2>5. poller' = [poller EXCEPT !.got = @ \cup read,
                                 !.offset = IF read = {} THEN @ ELSE next]
    BY <1>3 DEF Poll
  <2>6. poller.up
    BY <1>3 DEF Poll
  <2> HIDE DEF new, read
  <2>7. /\ poller' \in Poller /\ poller'.got = poller.got \cup read
        /\ poller'.offset <= next /\ poller'.up
        /\ read = {} => poller'.offset = poller.offset
    <3>1. /\ poller.offset \in Nat /\ next \in Nat /\ poller.offset <= next
          /\ read \subseteq Updates
      BY <1>1, <2>3, <2>4 DEF DeliveryInvariant, PolledHeld, TypeOK, Poller
    <3>2. PICK read2 \in SUBSET Updates : read2 = read
      BY <3>1
    <3>3. PICK offset \in Nat : /\ offset = IF read = {} THEN poller.offset ELSE next
                               /\ offset <= next
      BY <3>1
    <3>4. poller' = [[poller EXCEPT !.got = @ \cup read2] EXCEPT !.offset = offset]
      BY <1>1, <2>5, <3>2, <3>3 DEF Poller
    <3>5. QED
      BY <1>1, <2>6, <3>2, <3>3, <3>4 DEF Poller
  <2>8. TypeOK'
    BY <1>1, <2>2, <2>3, <2>7 DEF TypeOK
  <2>9. PolledHeld'
    <3>1. CASE read = new
      BY <2>2, <2>7, <3>1 DEF PolledHeld
    <3>2. CASE read = {}
      BY <2>2, <2>3, <2>7, <3>2 DEF PolledHeld
    <3>3. QED
      BY <2>4, <3>1, <3>2
  <2>10. NoneSkipped'
    BY <2>2, <2>3, <2>7 DEF DeliveryInvariant, PolledHeld, NoneSkipped
  <2>11. QED
    BY <2>8, <2>9, <2>10 DEF DeliveryInvariant
<1>4. CASE PollerDies
  <2>1. PolledHeld' /\ NoneSkipped' /\ poller' \in Poller /\ gone' \subseteq Updates
    BY <1>4, PollerLost DEF PollerDies
  <2>2. count' \in [DOMAIN Bounds -> Nat]
    BY <1>1, <1>4, BoundsType, CountedType DEF PollerDies
  <2>3. TypeOK'
    BY <1>4, <2>1, <2>2 DEF PollerDies, DeliveryInvariant, TypeOK
  <2>4. QED
    BY <2>1, <2>3 DEF DeliveryInvariant
<1>5. CASE \E u \in Updates : PollerRuns(u)
  <2>1. PICK u \in Updates : PollerRuns(u)
    BY <1>5
  <2>2. /\ poller' = [poller EXCEPT !.got = @ \ {u}] /\ runs' = [runs EXCEPT ![u] = @ + 1]
        /\ UNCHANGED <<env, worker, hook, queue, next, gone, count>>
    BY <2>1 DEF PollerRuns
  <2>3. /\ poller' \in Poller /\ poller'.got = poller.got \ {u}
        /\ poller'.offset = poller.offset /\ poller'.up = poller.up
    BY <1>1, <2>2 DEF Poller
  <2>4. /\ runs' \in [Updates -> Nat] /\ runs'[u] > 0
        /\ \A v \in Updates : v # u => runs'[v] = runs[v]
    BY <1>1, <2>2 DEF TypeOK
  <2>5. TypeOK'
    BY <1>1, <2>2, <2>3, <2>4 DEF TypeOK
  <2>6. PolledHeld'
    BY <1>1, <2>2, <2>3, <2>4 DEF DeliveryInvariant, PolledHeld, TypeOK
  <2>7. NoneSkipped'
    BY <2>2, <2>3, <2>4 DEF DeliveryInvariant, NoneSkipped
  <2>8. QED
    BY <2>5, <2>6, <2>7 DEF DeliveryInvariant
<1>6. QED
  BY <1>2, <1>3, <1>4, <1>5 DEF PollerStep

LEMMA StepDelivers ==
  ASSUME DeliveryInvariant, [Next]_vars
  PROVE  DeliveryInvariant'
<1>1. CASE Send \/ EditEnv \/ PollerStep
  BY <1>1, SendDelivers, EditDelivers, PollerDelivers
<1>2. CASE \E w \in Workers : WorkerStep(w)
  BY <1>2, WorkerStarts, SetWebhookDelivers, DeliverDelivers, AnswerDelivers, WorkerEnds
     DEF WorkerStep
<1>3. CASE UNCHANGED vars
  <2>1. TypeOK'
    BY <1>3 DEF vars, DeliveryInvariant, TypeOK
  <2>2. QED
    BY <1>3, <2>1, Bystanders DEF vars, DeliveryInvariant
<1>4. QED
  BY <1>1, <1>2, <1>3 DEF Next

\* Whatever starts, stops, dies, drops or polls, in any order, keeps account of
\* every update.
THEOREM DeliveryInvariance == Spec => []DeliveryInvariant
<1>1. QED
  BY InitDelivers, StepDelivers, PTL DEF Spec

\* Every variable keeps its shape, and only a process with open connections
\* handles an update.
THEOREM WebhookTyped == Spec => []TypeOK
<1>1. DeliveryInvariant => TypeOK
  BY DEF DeliveryInvariant
<1>2. QED
  BY <1>1, DeliveryInvariance, PTL

\* No update leaves the queue unhandled, unless it was dropped by a start or held
\* by the polling process.
THEOREM UpdatesKept == Spec => []NoneSkipped
<1>1. DeliveryInvariant => NoneSkipped
  BY DEF DeliveryInvariant
<1>2. QED
  BY <1>1, DeliveryInvariance, PTL

-----------------------------------------------------------------------------
(* Repeated updates.                                                       *)

\* The workers that have u in their hands, whether Telegram still waits or not.
Busy(u) == {w \in Workers : worker[w].update = u}
Held(u) == IF u \in poller.got THEN 1 ELSE 0

\* How often u was or is being handled.
Tries(u) == runs[u] + Cardinality(Busy(u)) + Held(u)

Faults == count["faults"]

\* What makes up for a repetition beside the faults.
Restarts == count["edits"] + Handover

\* Until a worker stops in order the webhook stands as long as anybody handles an
\* update.
HookStands ==
  /\ ~poller.up => poller = NoPoller
  /\ \A u \in poller.got : u < poller.offset
  /\ \A w \in Workers : worker[w].stage \in {"stopping", "leaving"} => Handover = 1
  /\ Handover = 0 => \A w \in Workers : worker[w].update # NoUpdate => hook # NoHook

\* The bound, sharper by one where somebody is about to be given u: Telegram, which
\* posts it while a webhook is registered and it waits for no one, or the poller,
\* which fetches it while none is and its offset has not passed it.  What has not
\* been sent was never tried.
TriesBounded(u) ==
  /\ Tries(u) <= 1 + Faults + Restarts
  /\ u \in queue /\ hook # NoHook =>
       Tries(u) <= 1 + Faults /\ (~Waiting(u) => Tries(u) <= Faults)
  /\ u \in queue /\ hook = NoHook /\ poller.offset <= u => Tries(u) <= Faults + Restarts
  /\ u >= next => Tries(u) = 0

RepeatInvariant == DeliveryInvariant /\ HookStands /\ \A u \in Updates : TriesBounded(u)

\* Faults, edits and stops are only ever counted up.
LEMMA CountsGrow ==
  ASSUME TypeOK, NEW kind \in DOMAIN Bounds, Counted(kind)
  PROVE  /\ Faults' = IF kind = "faults" THEN Faults + 1 ELSE Faults
         /\ count'["edits"] = IF kind = "edits" THEN count["edits"] + 1 ELSE count["edits"]
         /\ Handover' = IF kind \in {"stops", "leaves"} THEN 1 ELSE Handover
<1>1. /\ count' = [count EXCEPT ![kind] = @ + 1]
      /\ \A k \in DOMAIN Bounds : count[k] \in Nat
      /\ count \in [DOMAIN Bounds -> Nat]
  BY DEF TypeOK, Counted
<1>2. \A k \in DOMAIN Bounds : count'[k] = IF k = kind THEN count[k] + 1 ELSE count[k]
  BY <1>1
<1>3. kind \in {"faults", "stops", "leaves", "edits"}
  BY BoundsType
<1>4. count'["stops"] + count'["leaves"] =
        count["stops"] + count["leaves"] + (IF kind \in {"stops", "leaves"} THEN 1 ELSE 0)
  BY <1>1, <1>2, <1>3, BoundsType
<1>5. count["stops"] + count["leaves"] \in Nat
  BY <1>1, BoundsType
<1>6. QED
  BY <1>2, <1>3, <1>4, <1>5, BoundsType DEF Faults, Handover

LEMMA CountsType ==
  /\ TypeOK => /\ Faults \in Nat /\ count["edits"] \in Nat /\ Restarts \in Nat
               /\ Handover \in {0, 1}
  /\ TypeOK' => /\ Faults' \in Nat /\ count'["edits"] \in Nat /\ Restarts' \in Nat
                /\ Handover' \in {0, 1}
  BY BoundsType DEF TypeOK, Faults, Restarts, Handover

LEMMA TriesType ==
  ASSUME IsFiniteSet(Workers), TypeOK, NEW u \in Updates
  PROVE  /\ runs[u] \in Nat /\ Held(u) \in {0, 1} /\ Tries(u) \in Nat
         /\ IsFiniteSet(Busy(u)) /\ Cardinality(Busy(u)) \in Nat
<1>1. IsFiniteSet(Busy(u)) /\ Cardinality(Busy(u)) \in Nat
  BY FS_Subset, FS_CardinalityType DEF Busy
<1>2. runs[u] \in Nat /\ Held(u) \in {0, 1}
  BY DEF TypeOK, Held
<1>3. QED
  BY <1>1, <1>2 DEF Tries

\* Fewer workers, or the same, and no more runs or polled updates.
LEMMA TriesFall ==
  ASSUME IsFiniteSet(Workers), TypeOK, TypeOK', NEW u \in Updates,
         Busy(u)' \subseteq Busy(u), runs'[u] = runs[u], poller'.got \subseteq poller.got
  PROVE  Tries(u)' <= Tries(u)
<1>1. /\ IsFiniteSet(Busy(u)) /\ Cardinality(Busy(u)) \in Nat /\ runs[u] \in Nat
  BY TriesType
<1>2. Cardinality(Busy(u)') <= Cardinality(Busy(u)) /\ Cardinality(Busy(u)') \in Nat
  BY <1>1, FS_Subset, FS_CardinalityType
<1>3. Held(u)' <= Held(u) /\ Held(u)' \in Nat /\ Held(u) \in Nat
  BY DEF Held
<1>4. QED
  BY <1>1, <1>2, <1>3 DEF Tries

\* A bound on a sum, raised or kept.
LEMMA SumKept ==
  ASSUME NEW a \in Nat, NEW b \in Nat, NEW c \in Nat, NEW d \in Nat, c >= a, d >= b
  PROVE  /\ c + d > a + b \/ (c = a /\ d = b)
         /\ \A t \in Nat : c + d > a + b /\ t <= 1 + a + b => t <= c + d
  OBVIOUS

\* A step that starts no try: what sharpens the bound of an update that is still
\* pending was there before, or a fault, a restart or the end of a try has made up
\* for it.
LEMMA NoNewTry ==
  ASSUME IsFiniteSet(Workers), RepeatInvariant, DeliveryInvariant', HookStands',
         \A u \in Updates : Tries(u)' <= Tries(u),
         next' = next, Faults' >= Faults, Restarts' >= Restarts,
         \A u \in queue' : /\ u \in queue
                           /\ hook' \in {hook, NoHook}
                           /\ Waiting(u) => \/ Waiting(u)' \/ Faults' > Faults
                                            \/ Tries(u)' < Tries(u)
                           /\ \/ poller'.offset = poller.offset
                              \/ Faults' + Restarts' > Faults + Restarts
  PROVE  RepeatInvariant'
<1> SUFFICES ASSUME NEW u \in Updates PROVE TriesBounded(u)'
  BY DEF RepeatInvariant
<1>1. TypeOK /\ TypeOK' /\ TriesBounded(u)
  BY DEF RepeatInvariant, DeliveryInvariant
<1>2. /\ Tries(u) \in Nat /\ Faults \in Nat /\ Restarts \in Nat
      /\ Faults' \in Nat /\ Restarts' \in Nat
  BY <1>1, TriesType, CountsType
<1>3. Tries(u)' \in Nat
  <2>1. runs'[u] \in Nat /\ Held(u)' \in {0, 1}
    BY <1>1 DEF TypeOK, Held
  <2>2. Cardinality(Busy(u)') \in Nat
    BY FS_Subset, FS_CardinalityType DEF Busy
  <2>3. QED
    BY <2>1, <2>2 DEF Tries
<1>4. Tries(u)' <= Tries(u) /\ Faults' >= Faults /\ Restarts' >= Restarts
  OBVIOUS
<1>5. Tries(u)' <= 1 + Faults' + Restarts'
  BY <1>1, <1>2, <1>3, <1>4 DEF TriesBounded
<1>6. ASSUME u \in queue', hook' # NoHook
      PROVE  Tries(u)' <= 1 + Faults' /\ (~Waiting(u)' => Tries(u)' <= Faults')
  <2>1. /\ u \in queue /\ hook # NoHook
        /\ Waiting(u) => Waiting(u)' \/ Faults' > Faults \/ Tries(u)' < Tries(u)
    BY <1>6
  <2>2. Tries(u) <= 1 + Faults /\ (~Waiting(u) => Tries(u) <= Faults)
    BY <1>1, <2>1 DEF TriesBounded
  <2>3. QED
    BY <1>2, <1>3, <1>4, <2>1, <2>2
<1>7. ASSUME u \in queue', hook' = NoHook, poller'.offset <= u
      PROVE  Tries(u)' <= Faults' + Restarts'
  <2>1. /\ u \in queue
        /\ Waiting(u) => Waiting(u)' \/ Faults' > Faults \/ Tries(u)' < Tries(u)
        /\ \/ poller'.offset = poller.offset
           \/ Faults' + Restarts' > Faults + Restarts
    BY <1>7
  <2>2. CASE hook # NoHook
    <3>1. Tries(u) <= 1 + Faults /\ (~Waiting(u) => Tries(u) <= Faults)
      BY <1>1, <2>1, <2>2 DEF TriesBounded
    <3>2. Waiting(u)' => Restarts' >= 1
      <4>1. Waiting(u)' => Handover' # 0
        BY <1>7 DEF HookStands, Waiting, Updates, NoUpdate
      <4>2. QED
        BY <1>1, <4>1, CountsType DEF Restarts
    <3>3. \/ Tries(u) <= Faults
          \/ Restarts' >= 1
          \/ Faults' > Faults
          \/ Tries(u)' < Tries(u)
      BY <2>1, <3>1, <3>2
    <3>4. QED
      BY <1>2, <1>3, <1>4, <3>1, <3>3
  <2>3. CASE hook = NoHook
    <3>1. /\ Tries(u) <= 1 + Faults + Restarts
          /\ poller.offset <= u => Tries(u) <= Faults + Restarts
      BY <1>1, <2>1, <2>3 DEF TriesBounded
    <3>2. CASE Faults' + Restarts' > Faults + Restarts
      <4>1. Tries(u)' <= 1 + Faults + Restarts
        BY <1>2, <1>3, <1>4, <3>1
      <4>2. QED
        BY <1>2, <1>3, <1>4, <3>2, <4>1, SumKept
    <3>3. CASE ~(Faults' + Restarts' > Faults + Restarts)
      <4>1. poller'.offset = poller.offset
        BY <2>1, <3>3
      <4>2. Tries(u) <= Faults + Restarts
        BY <1>7, <3>1, <4>1
      <4>3. QED
        BY <1>2, <1>3, <1>4, <4>2
    <3>4. QED
      BY <3>2, <3>3
  <2>4. QED
    BY <2>2, <2>3
<1>8. u >= next' => Tries(u)' = 0
  BY <1>1, <1>2, <1>3, <1>4 DEF TriesBounded
<1>9. QED
  BY <1>5, <1>6, <1>7, <1>8 DEF TriesBounded

\* A worker deletes the webhook when it has been stopped; only a registered webhook
\* hands it an update.
LEMMA WorkerHook ==
  ASSUME TypeOK, HookStands, NEW w \in Workers, WorkerStep(w)
  PROVE  HookStands'
<1>1. worker \in [Workers -> Worker] /\ worker[w] \in Worker /\ poller' = poller
  BY DEF TypeOK, WorkerStep, Launch, SetWebhook, StartPlain, Deliver, Refuse, Answer, TimeOut,
         Stop, Shutdown, Kill
<1>2. \A v \in Workers : v # w => worker'[v] = worker[v]
  BY <1>1 DEF WorkerStep, Launch, SetWebhook, StartPlain, Deliver, Refuse, Answer, TimeOut, Stop,
              Shutdown, Kill, Enter
<1>3. Handover \in {0, 1}
  BY CountsType
<1>4. /\ Handover' = Handover \/ Handover' = 1
      /\ Stop(w) => Handover' = 1
  BY CountsGrow, BoundsType
     DEF WorkerStep, Launch, SetWebhook, StartPlain, Deliver, Refuse, Answer, TimeOut, Stop,
         Shutdown, Kill, Handover
<1>5. \/ worker'[w].stage = worker[w].stage
      \/ worker'[w].stage \notin {"stopping", "leaving"}
      \/ Stop(w)
  <2>1. CASE Launch(w)
    BY <1>1, <2>1 DEF Launch, Worker
  <2>2. CASE SetWebhook(w) \/ StartPlain(w) \/ Refuse(w) \/ Answer(w) \/ Kill(w)
    BY <1>1, <2>2 DEF SetWebhook, StartPlain, Refuse, Answer, Kill, Enter, Worker, After
  <2>3. CASE \E u \in Updates : Deliver(w, u)
    BY <1>1, <2>3 DEF Deliver, Worker
  <2>4. CASE TimeOut(w)
    BY <1>1, <2>4 DEF TimeOut, Worker
  <2>5. CASE Shutdown(w)
    BY <1>1, <2>5 DEF Shutdown, Worker, After
  <2>6. QED
    BY <2>1, <2>2, <2>3, <2>4, <2>5 DEF WorkerStep
<1>6. \/ hook' = hook /\ worker'[w].update \in {worker[w].update, NoUpdate}
      \/ hook' # NoHook
      \/ worker[w].stage \in {"stopping", "leaving"}
  <2>1. CASE Launch(w) \/ StartPlain(w) \/ Refuse(w) \/ Answer(w) \/ Kill(w)
    BY <1>1, <2>1 DEF Launch, StartPlain, Refuse, Answer, Kill, Enter, Worker
  <2>2. CASE SetWebhook(w)
    BY <1>1, <2>2, WebhookAssumption DEF SetWebhook, Registered, Worker, Env
  <2>3. CASE \E u \in Updates : Deliver(w, u)
    BY <1>1, <2>3, WebhookAssumption DEF Deliver, Worker, Env
  <2>4. CASE TimeOut(w) \/ Stop(w)
    BY <1>1, <2>4 DEF TimeOut, Stop, Worker
  <2>5. CASE Shutdown(w)
    BY <2>5 DEF Shutdown
  <2>6. QED
    BY <2>1, <2>2, <2>3, <2>4, <2>5 DEF WorkerStep
<1>7. \A v \in Workers : worker'[v].stage \in {"stopping", "leaving"} => Handover' = 1
  BY <1>2, <1>4, <1>5 DEF HookStands
<1>8. Handover' = 0 => \A v \in Workers : worker'[v].update # NoUpdate => hook' # NoHook
  BY <1>2, <1>3, <1>4, <1>6 DEF HookStands
<1>9. QED
  BY <1>1, <1>7, <1>8 DEF HookStands

\* The poller fetches what lies below its new offset.
LEMMA PollerHook ==
  ASSUME DeliveryInvariant, HookStands, PollerStep
  PROVE  HookStands'
<1>1. TypeOK /\ poller \in Poller /\ PolledHeld
  BY DEF DeliveryInvariant, TypeOK
<1>2. hook' = hook /\ worker' = worker /\ Handover' = Handover
  BY <1>1, CountsGrow, BoundsType
     DEF PollerStep, PollerStart, Poll, PollerDies, PollerRuns, Handover
<1>3. /\ ~poller'.up => poller' = NoPoller
      /\ \A u \in poller'.got : u < poller'.offset
  <2>1. CASE PollerStart
    BY <2>1 DEF PollerStart, NoPoller
  <2>2. CASE Poll
    <3> DEFINE new == {u \in queue : u >= poller.offset}
               read == IF new \cap Malformed = {} THEN new ELSE {}
    <3>1. /\ read \subseteq queue /\ poller.up
          /\ poller' = [poller EXCEPT !.got = @ \cup read,
                                      !.offset = IF read = {} THEN @ ELSE next]
      BY <2>2 DEF Poll
    <3> HIDE DEF read
    <3>2. poller'.up = poller.up
      BY <1>1, <3>1 DEF Poller
    <3>3. CASE read = {}
      BY <1>1, <3>1, <3>2, <3>3 DEF Poller, HookStands
    <3>4. CASE read # {}
      <4>1. /\ poller'.got \subseteq poller.got \cup queue
            /\ poller'.offset = next
        BY <1>1, <3>1, <3>4 DEF Poller
      <4>2. poller.offset \in Nat /\ next \in Nat /\ poller.got \subseteq Int
        BY <1>1 DEF TypeOK, Poller, Updates
      <4>3. \A u \in poller.got \cup queue : u < next
        BY <1>1, <4>2 DEF TypeOK, PolledHeld, HookStands
      <4>4. QED
        BY <3>1, <3>2, <4>1, <4>3 DEF HookStands
    <3>5. QED
      BY <3>3, <3>4
  <2>3. CASE PollerDies
    BY <2>3 DEF PollerDies, NoPoller
  <2>4. CASE \E u \in Updates : PollerRuns(u)
    BY <1>1, <2>4 DEF PollerRuns, HookStands, Poller, NoPoller
  <2>5. QED
    BY <2>1, <2>2, <2>3, <2>4 DEF PollerStep
<1>4. QED
  BY <1>2, <1>3 DEF HookStands

LEMMA HookKept ==
  ASSUME DeliveryInvariant, HookStands, [Next]_vars
  PROVE  HookStands'
<1>1. TypeOK
  BY DEF DeliveryInvariant
<1>2. CASE EditEnv
  <2>1. Handover' = Handover
    BY <1>1, <1>2, CountsGrow, BoundsType DEF EditEnv
  <2>2. QED
    BY <1>2, <2>1 DEF EditEnv, HookStands, NoPoller
<1>3. CASE Send
  BY <1>3 DEF Send, HookStands, Handover
<1>4. CASE UNCHANGED vars
  BY <1>4 DEF vars, HookStands, Handover
<1>5. QED
  BY <1>1, <1>2, <1>3, <1>4, WorkerHook, PollerHook DEF Next

\* The steps of the workers that hand nothing over.
LEMMA IdleRepeats ==
  ASSUME IsFiniteSet(Workers), RepeatInvariant, DeliveryInvariant', HookStands',
         NEW w \in Workers,
         Launch(w) \/ SetWebhook(w) \/ StartPlain(w) \/ TimeOut(w) \/ Stop(w)
           \/ Shutdown(w) \/ Kill(w)
  PROVE  RepeatInvariant'
<1>1. TypeOK /\ TypeOK' /\ worker \in [Workers -> Worker] /\ worker[w] \in Worker
  BY DEF RepeatInvariant, DeliveryInvariant, TypeOK
<1>2. /\ Faults \in Nat /\ Faults' \in Nat /\ Restarts \in Nat
      /\ count["edits"] \in Nat /\ Handover \in {0, 1}
  BY <1>1, CountsType
<1>3. /\ Faults' = Faults \/ Faults' = Faults + 1
      /\ TimeOut(w) \/ Kill(w) => Faults' = Faults + 1
      /\ count'["edits"] = count["edits"]
      /\ Handover' = Handover \/ Handover' = 1
  BY <1>1, CountsGrow, BoundsType
     DEF Launch, SetWebhook, StartPlain, TimeOut, Stop, Shutdown, Kill, Faults, Handover
<1>4. /\ runs' = runs /\ next' = next /\ poller' = poller
      /\ \A u \in queue' : u \in queue /\ hook' \in {hook, NoHook}
  BY DEF Launch, SetWebhook, StartPlain, TimeOut, Stop, Shutdown, Kill
<1>5. \A v \in Workers : v # w => worker'[v] = worker[v]
  BY <1>1 DEF Launch, SetWebhook, StartPlain, TimeOut, Stop, Shutdown, Kill, Enter
<1>6. worker'[w].update \in {worker[w].update, NoUpdate}
  BY <1>1 DEF Launch, SetWebhook, StartPlain, TimeOut, Stop, Shutdown, Kill, Enter, Worker
<1>7. \A u \in Updates : Busy(u)' \subseteq Busy(u)
  BY <1>5, <1>6 DEF Busy, Updates, NoUpdate
<1>8. \A u \in Updates : Tries(u)' <= Tries(u)
  BY <1>1, <1>4, <1>7, TriesFall
<1>9. \/ Faults' > Faults
      \/ worker'[w].update = worker[w].update /\ worker'[w].heard = worker[w].heard
      \/ worker[w].update = NoUpdate
  <2>1. CASE Launch(w)
    BY <1>1, <2>1 DEF Launch, Worker
  <2>2. CASE SetWebhook(w) \/ StartPlain(w)
    BY <1>1, <2>2 DEF SetWebhook, StartPlain, TypeOK
  <2>3. CASE Stop(w)
    BY <1>1, <2>3 DEF Stop, Worker
  <2>4. CASE Shutdown(w)
    BY <2>4 DEF Shutdown, Drained
  <2>5. CASE TimeOut(w) \/ Kill(w)
    BY <1>2, <1>3, <2>5
  <2>6. QED
    BY <2>1, <2>2, <2>3, <2>4, <2>5
<1>10. \A u \in Updates : Waiting(u) => Waiting(u)' \/ Faults' > Faults
  BY <1>5, <1>9 DEF Waiting, Updates, NoUpdate
<1>11. Faults' >= Faults /\ Restarts' >= Restarts
  BY <1>2, <1>3 DEF Restarts
<1>12. queue' \subseteq Updates
  BY <1>1 DEF TypeOK
<1>13. QED
  BY <1>4, <1>8, <1>10, <1>11, <1>12, NoNewTry

\* Telegram posts an update only while it waits for no one: one more worker.
LEMMA DeliverRepeats ==
  ASSUME IsFiniteSet(Workers), RepeatInvariant, DeliveryInvariant', HookStands',
         NEW w \in Workers, NEW u \in Updates, Deliver(w, u)
  PROVE  RepeatInvariant'
<1>1. TypeOK /\ worker \in [Workers -> Worker] /\ worker[w] \in Worker
  BY DEF RepeatInvariant, DeliveryInvariant, TypeOK
<1>2. /\ u \in queue /\ ~Waiting(u)
      /\ worker' = [worker EXCEPT ![w].update = u, ![w].heard = TRUE]
  BY DEF Deliver
<1>3. /\ worker'[w].update = u /\ worker'[w].heard
      /\ \A v \in Workers : v # w => worker'[v] = worker[v]
  BY <1>1, <1>2 DEF Worker
<1>4. /\ worker[w].update = NoUpdate /\ u \in Updates /\ u # NoUpdate /\ u < next
      /\ UNCHANGED <<env, next, poller, runs, count, queue, hook>>
      /\ Faults' = Faults /\ Restarts' = Restarts
  BY <1>1 DEF Deliver, Unanswered, TypeOK, Updates, NoUpdate, Faults, Restarts, Handover
<1>5. hook # NoHook
  BY <1>1, WebhookAssumption DEF Deliver, Worker, Env
<1>6. Busy(u)' = Busy(u) \cup {w} /\ w \notin Busy(u) /\ Waiting(u)'
  BY <1>3, <1>4 DEF Busy, Waiting
<1>7. \A v \in Updates : v # u => Busy(v)' = Busy(v) /\ (Waiting(v)' <=> Waiting(v))
  BY <1>3, <1>4 DEF Busy, Waiting, Updates, NoUpdate
<1>8. /\ runs[u] \in Nat /\ Held(u) \in {0, 1} /\ Tries(u) \in Nat
      /\ IsFiniteSet(Busy(u)) /\ Cardinality(Busy(u)) \in Nat
      /\ Faults \in Nat /\ Restarts \in Nat
  BY <1>1, <1>4, TriesType, CountsType
<1>9. Cardinality(Busy(u)') = Cardinality(Busy(u)) + 1
  BY <1>6, <1>8, FS_AddElement
<1>10. Held(u)' = Held(u) /\ runs'[u] = runs[u]
  BY <1>4 DEF Held
<1>11. Tries(u)' = Tries(u) + 1
  BY <1>8, <1>9, <1>10 DEF Tries
<1>12. Tries(u) <= Faults
  BY <1>2, <1>4, <1>5 DEF RepeatInvariant, TriesBounded
<1>13. TriesBounded(u)'
  <2>1. Tries(u)' <= 1 + Faults' /\ Tries(u)' <= 1 + Faults' + Restarts'
    BY <1>4, <1>8, <1>11, <1>12
  <2>2. ~(u >= next')
    BY <1>1, <1>4 DEF TypeOK, Updates
  <2>3. QED
    BY <1>4, <1>5, <1>6, <2>1, <2>2 DEF TriesBounded
<1>14. ASSUME NEW v \in Updates, v # u PROVE TriesBounded(v)'
  <2>1. Busy(v)' = Busy(v) /\ (Waiting(v)' <=> Waiting(v))
    BY <1>7, <1>14
  <2>2. Tries(v)' = Tries(v)
    BY <1>4, <2>1 DEF Tries, Held
  <2>3. QED
    BY <1>4, <2>1, <2>2 DEF RepeatInvariant, TriesBounded
<1>15. QED
  BY <1>13, <1>14 DEF RepeatInvariant

\* The handler has run: one worker fewer, one run more; and if Telegram was still
\* waiting, the update is off the queue.
LEMMA AnswerRepeats ==
  ASSUME IsFiniteSet(Workers), RepeatInvariant, DeliveryInvariant', HookStands',
         NEW w \in Workers, Answer(w)
  PROVE  RepeatInvariant'
<1>1. TypeOK /\ worker \in [Workers -> Worker] /\ worker[w] \in Worker
      /\ runs \in [Updates -> Nat]
  BY DEF RepeatInvariant, DeliveryInvariant, TypeOK
<1>2. PICK u \in Updates : u = worker[w].update
  BY <1>1 DEF Answer, Worker
<1>3. /\ worker'[w].update = NoUpdate
      /\ \A v \in Workers : v # w => worker'[v] = worker[v]
  BY <1>1 DEF Answer, Enter, Worker
<1>4. /\ runs' = [runs EXCEPT ![u] = @ + 1]
      /\ queue' = IF worker[w].heard THEN queue \ {u} ELSE queue
      /\ UNCHANGED <<env, hook, next, poller, count>>
  BY <1>2 DEF Answer, Confirmed
<1>5. /\ Busy(u)' = Busy(u) \ {w} /\ w \in Busy(u)
      /\ ~worker[w].heard => (Waiting(u) => Waiting(u)')
  BY <1>2, <1>3 DEF Busy, Waiting, Updates, NoUpdate
<1>6. \A v \in Updates : v # u => Busy(v)' = Busy(v) /\ (Waiting(v)' <=> Waiting(v))
  BY <1>2, <1>3 DEF Busy, Waiting, Updates, NoUpdate
<1>7. /\ IsFiniteSet(Busy(u)) /\ Cardinality(Busy(u)) \in Nat /\ Held(u) \in {0, 1}
      /\ runs[u] \in Nat
  BY <1>1, TriesType
<1>8. Cardinality(Busy(u)') = Cardinality(Busy(u)) - 1
  BY <1>5, <1>7, FS_RemoveElement
<1>9. \A v \in Updates : Tries(v)' = Tries(v)
  <2>1. Tries(u)' = Tries(u)
    <3>1. runs'[u] = runs[u] + 1 /\ Held(u)' = Held(u)
      BY <1>1, <1>4 DEF Held
    <3>2. QED
      BY <1>7, <1>8, <3>1 DEF Tries
  <2>2. ASSUME NEW v \in Updates, v # u PROVE Tries(v)' = Tries(v)
    <3>1. runs'[v] = runs[v] /\ Held(v)' = Held(v) /\ Busy(v)' = Busy(v)
      BY <1>1, <1>4, <1>6, <2>2 DEF Held
    <3>2. QED
      BY <3>1 DEF Tries
  <2>3. QED
    BY <2>1, <2>2
<1>10. \A v \in Updates : Tries(v)' <= Tries(v)
  BY <1>1, <1>9, TriesType
<1>11. /\ Faults' = Faults /\ Restarts' = Restarts
       /\ Faults \in Nat /\ Restarts \in Nat
  BY <1>1, <1>4, CountsType DEF Faults, Restarts, Handover
<1>12. \A v \in queue' : v \in queue /\ v \in Updates /\ (Waiting(v) => Waiting(v)')
  BY <1>1, <1>4, <1>5, <1>6 DEF TypeOK
<1>13. Faults' >= Faults /\ Restarts' >= Restarts
  BY <1>11
<1>14. QED
  BY <1>4, <1>10, <1>12, <1>13, NoNewTry

\* The body did not validate: one worker fewer, and no run.
LEMMA RefuseRepeats ==
  ASSUME IsFiniteSet(Workers), RepeatInvariant, DeliveryInvariant', HookStands',
         NEW w \in Workers, Refuse(w)
  PROVE  RepeatInvariant'
<1>1. TypeOK /\ TypeOK' /\ worker \in [Workers -> Worker] /\ worker[w] \in Worker
  BY DEF RepeatInvariant, DeliveryInvariant, TypeOK
<1>2. PICK u \in Updates : u = worker[w].update
  BY <1>1, WebhookAssumption DEF Refuse, Updates
<1>3. /\ worker'[w].update = NoUpdate
      /\ \A v \in Workers : v # w => worker'[v] = worker[v]
      /\ UNCHANGED <<env, hook, queue, next, poller, runs, count>>
  BY <1>1 DEF Refuse, Enter, Worker
<1>4. Busy(u)' = Busy(u) \ {w} /\ w \in Busy(u)
  BY <1>2, <1>3 DEF Busy, Updates, NoUpdate
<1>5. \A v \in Updates : v # u => Busy(v)' = Busy(v) /\ (Waiting(v)' <=> Waiting(v))
  BY <1>2, <1>3 DEF Busy, Waiting, Updates, NoUpdate
<1>6. \A v \in Updates : Tries(v)' <= Tries(v)
  BY <1>1, <1>3, <1>4, <1>5, TriesFall
<1>7. Tries(u)' < Tries(u)
  <2>1. /\ IsFiniteSet(Busy(u)) /\ Cardinality(Busy(u)) \in Nat /\ Held(u) \in {0, 1}
        /\ runs[u] \in Nat
    BY <1>1, TriesType
  <2>2. Cardinality(Busy(u)') = Cardinality(Busy(u)) - 1
    BY <1>4, <2>1, FS_RemoveElement
  <2>3. runs'[u] = runs[u] /\ Held(u)' = Held(u)
    BY <1>3 DEF Held
  <2>4. QED
    BY <2>1, <2>2, <2>3 DEF Tries
<1>8. Faults' >= Faults /\ Restarts' >= Restarts
  BY <1>1, <1>3, CountsType DEF Faults, Restarts, Handover
<1>9. queue \subseteq Updates
  BY <1>1 DEF TypeOK
<1>10. QED
  BY <1>3, <1>5, <1>6, <1>7, <1>8, <1>9, NoNewTry

\* The new update was never tried.
LEMMA SendRepeats ==
  ASSUME RepeatInvariant, DeliveryInvariant', HookStands', Send
  PROVE  RepeatInvariant'
<1>1. TypeOK /\ next \in Updates /\ next \in Nat
  BY DEF RepeatInvariant, DeliveryInvariant, TypeOK, Send
<1>2. /\ queue' = queue \cup {next} /\ next' = next + 1
      /\ UNCHANGED <<env, worker, hook, poller, runs, count>>
      /\ Faults' = Faults /\ Restarts' = Restarts
  BY DEF Send, Faults, Restarts, Handover
<1>3. Faults \in Nat /\ Restarts \in Nat
  BY <1>1, CountsType
<1>4. Tries(next) = 0
  BY <1>1 DEF RepeatInvariant, TriesBounded
<1>5. ASSUME NEW u \in Updates PROVE TriesBounded(u)'
  <2>1. Tries(u)' = Tries(u) /\ (Waiting(u)' <=> Waiting(u))
    BY <1>2 DEF Tries, Busy, Held, Waiting
  <2>2. u >= next' => u >= next /\ u # next
    BY <1>1, <1>2 DEF Updates
  <2>3. CASE u = next
    BY <1>2, <1>3, <1>4, <2>1, <2>2, <2>3 DEF TriesBounded
  <2>4. CASE u # next
    BY <1>2, <2>1, <2>2, <2>4 DEF RepeatInvariant, TriesBounded
  <2>5. QED
    BY <2>3, <2>4
<1>6. QED
  BY <1>5 DEF RepeatInvariant

\* The poller is started afresh, or dies: its offset is lost, and unless it was not
\* running a fault or a restart was counted.
LEMMA LossRepeats ==
  ASSUME IsFiniteSet(Workers), RepeatInvariant, DeliveryInvariant', HookStands',
         EditEnv \/ PollerDies \/ PollerStart
  PROVE  RepeatInvariant'
<1>1. TypeOK /\ TypeOK' /\ HookStands
  BY DEF RepeatInvariant, DeliveryInvariant
<1>2. /\ Faults \in Nat /\ Faults' \in Nat /\ Restarts \in Nat
      /\ count["edits"] \in Nat /\ Handover \in {0, 1}
  BY <1>1, CountsType
<1>3. /\ poller'.got = {} /\ poller'.offset = 0
      /\ UNCHANGED <<worker, hook, queue, next, runs>>
  BY DEF EditEnv, PollerDies, PollerStart, NoPoller
<1>4. /\ Faults' >= Faults /\ Restarts' >= Restarts
      /\ \/ poller'.offset = poller.offset
         \/ Faults' + Restarts' > Faults + Restarts
  <2>1. CASE EditEnv
    <3>1. /\ Faults' = Faults /\ count'["edits"] = count["edits"] + 1
          /\ Handover' = Handover
      BY <1>1, <2>1, CountsGrow, BoundsType DEF EditEnv
    <3>2. QED
      BY <1>2, <3>1 DEF Restarts
  <2>2. CASE PollerDies
    <3>1. /\ Faults' = Faults + 1 /\ count'["edits"] = count["edits"]
          /\ Handover' = Handover
      BY <1>1, <2>2, CountsGrow, BoundsType DEF PollerDies
    <3>2. QED
      BY <1>2, <3>1 DEF Restarts
  <2>3. CASE PollerStart
    <3>1. Faults' = Faults /\ Restarts' = Restarts
      BY <2>3 DEF PollerStart, Faults, Restarts, Handover
    <3>2. poller.offset = 0
      BY <1>1, <2>3 DEF PollerStart, HookStands, NoPoller
    <3>3. QED
      BY <1>2, <1>3, <3>1, <3>2
  <2>4. QED
    BY <2>1, <2>2, <2>3
<1>5. \A u \in Updates : Busy(u)' = Busy(u) /\ (Waiting(u)' <=> Waiting(u))
  BY <1>3 DEF Busy, Waiting
<1>6. poller'.got \subseteq poller.got
  BY <1>3
<1>7. \A u \in Updates : Tries(u)' <= Tries(u)
  BY <1>1, <1>3, <1>5, <1>6, TriesFall
<1>8. queue \subseteq Updates
  BY <1>1 DEF TypeOK
<1>9. QED
  BY <1>3, <1>4, <1>5, <1>7, <1>8, NoNewTry

\* getUpdates hands over what waits at or above the offset, or, where something in it
\* does not validate, nothing.
LEMMA PollRepeats ==
  ASSUME IsFiniteSet(Workers), RepeatInvariant, DeliveryInvariant', HookStands', Poll
  PROVE  RepeatInvariant'
<1>1. TypeOK /\ TypeOK' /\ HookStands /\ poller \in Poller /\ PolledHeld
  BY DEF RepeatInvariant, DeliveryInvariant, TypeOK
<1>2. /\ Faults \in Nat /\ Restarts \in Nat
      /\ poller.offset \in Nat /\ next \in Nat /\ queue \subseteq Updates
  BY <1>1, CountsType DEF TypeOK, Poller
<1>3. /\ UNCHANGED <<env, worker, hook, next, runs, count>>
      /\ Faults' = Faults /\ Restarts' = Restarts
      /\ poller.up /\ hook = NoHook
  BY DEF Poll, Faults, Restarts, Handover
<1> DEFINE new == {u \in queue : u >= poller.offset}
           read == IF new \cap Malformed = {} THEN new ELSE {}
<1>4. /\ queue' = {u \in queue : u >= poller.offset}
      /\ read = queue' \/ read = {}
      /\ poller' = [poller EXCEPT !.got = @ \cup read,
                                  !.offset = IF read = {} THEN @ ELSE next]
  BY DEF Poll
<1> HIDE DEF new, read
<1>5. /\ poller'.got = poller.got \cup read
      /\ poller'.offset = IF read = {} THEN poller.offset ELSE next
  BY <1>1, <1>4 DEF Poller
<1>6. \A u \in Updates : Busy(u)' = Busy(u) /\ (Waiting(u)' <=> Waiting(u))
  BY <1>3 DEF Busy, Waiting
<1>7. CASE read = {}
  <2>1. poller'.got = poller.got /\ poller'.offset = poller.offset
    BY <1>5, <1>7
  <2>2. \A u \in Updates : Tries(u)' <= Tries(u)
    BY <1>1, <1>3, <1>6, <2>1, TriesFall
  <2>3. \A u \in queue' : u \in queue /\ u \in Updates
    BY <1>2, <1>4
  <2>4. Faults' >= Faults /\ Restarts' >= Restarts
    BY <1>2, <1>3
  <2>5. QED
    BY <1>3, <1>6, <2>1, <2>2, <2>3, <2>4, NoNewTry
<1>8. CASE read = queue' /\ read # {}
  <2> SUFFICES ASSUME NEW u \in Updates PROVE TriesBounded(u)'
    BY DEF RepeatInvariant
  <2>1. Busy(u)' = Busy(u) /\ (Waiting(u)' <=> Waiting(u)) /\ runs'[u] = runs[u]
    BY <1>3, <1>6
  <2>2. /\ runs[u] \in Nat /\ Held(u) \in {0, 1} /\ Tries(u) \in Nat
        /\ Cardinality(Busy(u)) \in Nat
    BY <1>1, TriesType
  <2>3. CASE u \in queue'
    <3>1. u \in queue /\ poller.offset <= u /\ u < next /\ u \in Nat
      BY <1>1, <1>2, <1>4, <2>3 DEF TypeOK, Updates
    <3>2. Tries(u) <= Faults + Restarts
      BY <1>3, <3>1 DEF RepeatInvariant, TriesBounded
    <3>3. Held(u)' = 1 /\ Held(u) = 0
      <4>1. u \notin poller.got
        BY <1>1, <1>2, <3>1 DEF HookStands
      <4>2. QED
        BY <1>5, <1>8, <2>3, <4>1 DEF Held
    <3>4. Tries(u)' = Tries(u) + 1
      BY <2>1, <2>2, <3>3 DEF Tries
    <3>5. Tries(u)' <= 1 + Faults' + Restarts'
      BY <1>2, <1>3, <2>2, <3>2, <3>4
    <3>6. ~(poller'.offset <= u) /\ ~(u >= next')
      BY <1>2, <1>3, <1>5, <1>8, <3>1
    <3>7. QED
      BY <1>3, <3>5, <3>6 DEF TriesBounded
  <2>4. CASE u \notin queue'
    <3>1. Held(u)' = Held(u)
      BY <1>5, <1>8, <2>4 DEF Held
    <3>2. Tries(u)' = Tries(u)
      BY <2>1, <3>1 DEF Tries
    <3>3. QED
      BY <1>3, <2>4, <3>2 DEF RepeatInvariant, TriesBounded
  <2>5. QED
    BY <2>3, <2>4
<1>9. QED
  BY <1>4, <1>7, <1>8

\* What the poller held it has handled.
LEMMA RunRepeats ==
  ASSUME IsFiniteSet(Workers), RepeatInvariant, DeliveryInvariant', HookStands',
         NEW u \in Updates, PollerRuns(u)
  PROVE  RepeatInvariant'
<1>1. TypeOK /\ poller \in Poller /\ runs \in [Updates -> Nat]
  BY DEF RepeatInvariant, DeliveryInvariant, TypeOK
<1>2. /\ u \in poller.got /\ poller'.got = poller.got \ {u}
      /\ poller'.offset = poller.offset
      /\ runs' = [runs EXCEPT ![u] = @ + 1]
      /\ UNCHANGED <<env, worker, hook, queue, next, count>>
      /\ Faults' = Faults /\ Restarts' = Restarts
  BY <1>1 DEF PollerRuns, Poller, Faults, Restarts, Handover
<1>3. \A v \in Updates : Busy(v)' = Busy(v) /\ (Waiting(v)' <=> Waiting(v))
  BY <1>2 DEF Busy, Waiting
<1>4. ASSUME NEW v \in Updates PROVE Tries(v)' <= Tries(v)
  <2>1. /\ runs[v] \in Nat /\ Cardinality(Busy(v)) \in Nat /\ Tries(v) \in Nat
        /\ Held(v) \in {0, 1}
    BY <1>1, TriesType
  <2>2. CASE v = u
    <3>1. Held(v) = 1 /\ Held(v)' = 0 /\ runs'[v] = runs[v] + 1
      BY <1>1, <1>2, <2>2 DEF Held
    <3>2. QED
      BY <1>3, <2>1, <3>1 DEF Tries
  <2>3. CASE v # u
    <3>1. Held(v)' = Held(v) /\ runs'[v] = runs[v]
      BY <1>1, <1>2, <2>3 DEF Held
    <3>2. QED
      BY <1>3, <2>1, <3>1 DEF Tries
  <2>4. QED
    BY <2>2, <2>3
<1>5. /\ queue \subseteq Updates
      /\ Faults' >= Faults /\ Restarts' >= Restarts
  BY <1>1, <1>2, CountsType DEF TypeOK
<1>6. QED
  BY <1>2, <1>3, <1>4, <1>5, NoNewTry

\* An update is handled again only after a fault, after a change of .env, or once
\* because a worker that stops hands it to the polling process (webhook.py:86-92,
\* app.py:86-103, bot/main.py:84-95), for any finite number of workers, in any mix
\* of modes and secrets and whatever does not validate.
THEOREM Repeats ==
  ASSUME IsFiniteSet(Workers)
  PROVE  Spec => []RepeatHasCause
<1>1. Init => RepeatInvariant
  <2> SUFFICES ASSUME Init PROVE RepeatInvariant
    OBVIOUS
  <2>1. DeliveryInvariant /\ HookStands
    BY InitDelivers, BoundsType DEF Init, HookStands, NoPoller, NoUpdate
  <2>2. Faults = 0 /\ Restarts = 0 /\ queue = {}
    BY BoundsType DEF Init, Faults, Restarts, Handover
  <2>3. \A u \in Updates : Busy(u) = {} /\ runs[u] = 0 /\ Held(u) = 0
    BY DEF Init, Busy, Held, Updates, NoUpdate, NoPoller
  <2>4. \A u \in Updates : Tries(u) = 0
    BY <2>3, FS_EmptySet DEF Tries
  <2>5. QED
    BY <2>1, <2>2, <2>4 DEF RepeatInvariant, TriesBounded
<1>2. RepeatInvariant /\ [Next]_vars => RepeatInvariant'
  <2> SUFFICES ASSUME RepeatInvariant, [Next]_vars PROVE RepeatInvariant'
    OBVIOUS
  <2>1. DeliveryInvariant' /\ HookStands'
    BY StepDelivers, HookKept DEF RepeatInvariant
  <2>2. CASE \E w \in Workers : WorkerStep(w)
    BY <2>1, <2>2, IdleRepeats, DeliverRepeats, RefuseRepeats, AnswerRepeats DEF WorkerStep
  <2>3. CASE Send \/ EditEnv
    BY <2>1, <2>3, SendRepeats, LossRepeats
  <2>4. CASE PollerStep
    BY <2>1, <2>4, LossRepeats, PollRepeats, RunRepeats DEF PollerStep
  <2>5. CASE UNCHANGED vars
    <3>1. \A u \in Updates : TriesBounded(u)'
      BY <2>5 DEF vars, RepeatInvariant, TriesBounded, Tries, Busy, Held, Waiting, Faults,
                  Restarts, Handover
    <3>2. QED
      BY <2>1, <3>1 DEF RepeatInvariant
  <2>6. QED
    BY <2>2, <2>3, <2>4, <2>5 DEF Next
<1>3. RepeatInvariant => RepeatHasCause
  <2> SUFFICES ASSUME RepeatInvariant, NEW u \in Updates
               PROVE  runs[u] <= 1 + count["faults"] + count["edits"] + Handover
    BY DEF RepeatHasCause
  <2>1. TypeOK /\ TriesBounded(u)
    BY DEF RepeatInvariant, DeliveryInvariant
  <2>2. /\ runs[u] \in Nat /\ Held(u) \in Nat /\ Cardinality(Busy(u)) \in Nat
        /\ Faults \in Nat /\ Restarts \in Nat
        /\ count["edits"] \in Nat /\ Handover \in {0, 1}
    BY <2>1, TriesType, CountsType
  <2>3. runs[u] <= 1 + Faults + Restarts
    BY <2>1, <2>2 DEF TriesBounded, Tries
  <2>4. QED
    BY <2>2, <2>3 DEF Faults, Restarts
<1>4. QED
  BY <1>1, <1>2, <1>3, PTL DEF Spec
=============================================================================
