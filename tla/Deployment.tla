----------------------------- MODULE Deployment -----------------------------
(***************************************************************************)
(* Several containers of the image over one Postgres: each goes through    *)
(* deploy/entrypoint.sh, which waits for the database and runs Alembic     *)
(* (migrations/), unless SKIP_MIGRATIONS says another one does, and then   *)
(* runs supervisord, and with it a scheduler of its own.                   *)
(*                                                                         *)
(* DDL is transactional in Postgres, and a CREATE TABLE waits for another  *)
(* transaction that has created the same name.  Of a tick only the order   *)
(* of read, message and commit matters here; NudgeEngine has the rest.     *)
(***************************************************************************)
EXTENDS Integers, Sequences

CONSTANTS
  Containers,
  Skipping,    \* those started with SKIP_MIGRATIONS=1
  Reminders,
  MaxFaults    \* bound: kills, stops and restarts of Postgres

ASSUME DeploymentAssumption == Skipping \subseteq Containers /\ MaxFaults \in Nat

VARIABLES
  postgres,   \* it accepts connections
  schema,     \* the committed tables
  version,    \* alembic_version names the head
  ctr,        \* a container: its stage, and tables made in its open transaction
  due,        \* reminders whose next_fire_at has come
  tick,       \* a scheduler's tick: rows to do, and those it has sent but not committed
  by,         \* history: messages about a reminder since it fell due last
  faults

vars == <<postgres, schema, version, ctr, due, tick, by, faults>>
data == <<due, tick, by>>

Stages == {"down", "waiting", "upgrading", "creating", "serving"}

\* Slip: the events before their owners.
Unsorted == <<"events", "users", "triggers", "nudge_logs", "nudge_cache", "voice_diary">>
\* The tables in the order of upgrade().
Order == <<"users", "events", "triggers", "nudge_logs", "nudge_cache", "voice_diary">>
Tables == {"users", "events", "triggers", "nudge_logs", "nudge_cache", "voice_diary"}

\* The table a foreign key points to.
Parent(table) ==
  CASE table = "events"      -> {"users"}
    [] table = "triggers"    -> {"events"}
    [] table = "nudge_logs"  -> {"triggers"}
    [] table = "voice_diary" -> {"users"}
    [] OTHER                 -> {}

MadeBy(c) == {Order[i] : i \in 1 .. ctr[c].made}
Idle == [todo |-> {}, sent |-> {}]

Down == [stage |-> "down", made |-> 0]
Enter(c, stage) == ctr' = [ctr EXCEPT ![c] = [stage |-> stage, made |-> 0]]

-----------------------------------------------------------------------------
Init ==
  /\ postgres = TRUE
  /\ schema = {}
  /\ version = FALSE
  /\ ctr = [c \in Containers |-> Down]
  /\ due = {}
  /\ tick = [c \in Containers |-> Idle]
  /\ by = [r \in Reminders |-> [c \in Containers |-> 0]]
  /\ faults = 0

Fault == faults < MaxFaults /\ faults' = faults + 1

-----------------------------------------------------------------------------
(* entrypoint.sh.                                                           *)

Start(c) ==
  /\ ctr[c].stage = "down"
  /\ Enter(c, IF c \in Skipping THEN "serving" ELSE "waiting")
  /\ UNCHANGED <<postgres, schema, version, data, faults>>

\* wait_for_postgres: up at last, or the script gives up and the container ends.
Wait(c) ==
  /\ ctr[c].stage = "waiting"
  /\ Enter(c, IF postgres THEN "upgrading" ELSE "down")
  /\ UNCHANGED <<postgres, schema, version, data, faults>>

\* Slip: without "set -e" the processes start although alembic has failed.
StartsAnyway == "serving"
\* What the container comes to when alembic fails: it ends, and is restarted.
AfterFailure == "down"

\* alembic upgrade head, in one transaction: the version it finds ...
ReadVersion(c) ==
  /\ ctr[c].stage = "upgrading"
  /\ postgres
  /\ Enter(c, IF version THEN "serving" ELSE "creating")
  /\ UNCHANGED <<postgres, schema, version, data, faults>>

\* ... the tables one after the other, waiting for a container that is ahead ...
CreateTable(c) ==
  LET table == Order[ctr[c].made + 1]
  IN  /\ ctr[c].stage = "creating" /\ postgres
      /\ ctr[c].made < Len(Order)
      /\ \A d \in Containers \ {c} : ctr[d].made = 0
      /\ IF table \in schema \/ ~(Parent(table) \subseteq MadeBy(c))
         THEN Enter(c, AfterFailure)
         ELSE ctr' = [ctr EXCEPT ![c].made = @ + 1]
      /\ UNCHANGED <<postgres, schema, version, data, faults>>

\* ... and the commit, with the new version.
CommitUpgrade(c) ==
  /\ ctr[c].stage = "creating" /\ postgres
  /\ ctr[c].made = Len(Order)
  /\ schema' = schema \cup MadeBy(c)
  /\ version' = TRUE
  /\ Enter(c, "serving")
  /\ UNCHANGED <<postgres, data, faults>>

\* Slip: every table is committed on its own.
LeftHalf(c) == schema \cup MadeBy(c)
\* What a container that dies leaves in the database.
Left(c) == schema

\* A container is killed or stopped, its tick with it.
Die(c) ==
  /\ ctr[c].stage # "down"
  /\ Fault
  /\ schema' = Left(c)
  /\ Enter(c, "down")
  /\ tick' = [tick EXCEPT ![c] = Idle]
  /\ UNCHANGED <<postgres, version, due, by>>

\* Postgres restarts: open transactions are gone, alembic and the ticks fail.
PostgresStops ==
  /\ postgres
  /\ Fault
  /\ postgres' = FALSE
  /\ ctr' = [c \in Containers |->
       IF ctr[c].stage \in {"upgrading", "creating"}
       THEN [stage |-> AfterFailure, made |-> 0] ELSE ctr[c]]
  /\ tick' = [c \in Containers |-> Idle]
  /\ UNCHANGED <<schema, version, due, by>>

PostgresStarts ==
  /\ ~postgres
  /\ postgres' = TRUE
  /\ UNCHANGED <<schema, version, ctr, data, faults>>

-----------------------------------------------------------------------------
(* The schedulers.                                                          *)

\* next_fire_at is there.
FallDue(r) ==
  /\ schema = Tables
  /\ r \notin due
  /\ due' = due \cup {r}
  /\ by' = [by EXCEPT ![r] = [c \in Containers |-> 0]]
  /\ UNCHANGED <<postgres, schema, version, ctr, tick, faults>>

Ticking(c) == ctr[c].stage = "serving" /\ postgres

\* Slip: a tick may start beside another one of the same scheduler.
MayOverlap(c) == TRUE
\* max_instances=1.
MayTick(c) == tick[c] = Idle

\* A tick reads the due rows; before the schema is there the query raises.
LoadDue(c) ==
  /\ Ticking(c) /\ MayTick(c)
  /\ schema = Tables /\ due # {}
  /\ tick' = [tick EXCEPT ![c] = [todo |-> due, sent |-> {}]]
  /\ UNCHANGED <<postgres, schema, version, ctr, due, by, faults>>

\* The log is flushed, the message leaves.
Send(c, r) ==
  /\ Ticking(c)
  /\ r \in tick[c].todo /\ tick[c].sent = {}
  /\ tick' = [tick EXCEPT ![c] = [todo |-> @.todo \ {r}, sent |-> {r}]]
  /\ by' = [by EXCEPT ![r][c] = @ + 1]
  /\ UNCHANGED <<postgres, schema, version, ctr, due, faults>>

\* The commit moves next_fire_at on, whoever has moved it meanwhile.
Commit(c) ==
  /\ Ticking(c)
  /\ tick[c].sent # {}
  /\ tick' = [tick EXCEPT ![c].sent = {}]
  /\ due' = due \ tick[c].sent
  /\ UNCHANGED <<postgres, schema, version, ctr, by, faults>>

\* A row that is retired, deferred or snoozed by the cap: a commit, no message.
PutOff(c, r) ==
  /\ Ticking(c)
  /\ r \in tick[c].todo /\ tick[c].sent = {}
  /\ tick' = [tick EXCEPT ![c].todo = @ \ {r}]
  /\ due' = due \ {r}
  /\ UNCHANGED <<postgres, schema, version, ctr, by, faults>>

\* The scheduler alone is killed, cancels its tick to stop, or hits an error.
TickDies(c) ==
  /\ tick[c] # Idle
  /\ Fault
  /\ tick' = [tick EXCEPT ![c] = Idle]
  /\ UNCHANGED <<postgres, schema, version, ctr, due, by>>

Upgrade(c) == Wait(c) \/ ReadVersion(c) \/ CreateTable(c) \/ CommitUpgrade(c)

Next ==
  \/ PostgresStops \/ PostgresStarts
  \/ \E r \in Reminders : FallDue(r)
  \/ \E c \in Containers :
       \/ Start(c) \/ Upgrade(c) \/ Die(c)
       \/ LoadDue(c) \/ Commit(c) \/ TickDies(c)
       \/ \E r \in Reminders : Send(c, r) \/ PutOff(c, r)

Spec == Init /\ [][Next]_vars

\* docker restarts containers and Postgres ("restart: unless-stopped"), and the
\* entrypoint gets on.
FairSpec ==
  /\ Spec
  /\ WF_vars(PostgresStarts)
  /\ \A c \in Containers : WF_vars(Start(c)) /\ WF_vars(Upgrade(c))

-----------------------------------------------------------------------------
(* Properties.                                                              *)

TypeOK ==
  /\ postgres \in BOOLEAN /\ version \in BOOLEAN
  /\ schema \subseteq Tables
  /\ ctr \in [Containers -> [stage : Stages, made : 0 .. Len(Order)]]
  /\ due \subseteq Reminders
  /\ tick \in [Containers -> [todo : SUBSET Reminders, sent : SUBSET Reminders]]
  /\ by \in [Reminders -> [Containers -> Nat]]
  /\ faults \in Nat

\* The schema is there as a whole or not at all, and Alembic knows which, however
\* many containers migrate at once and wherever they or Postgres are killed
\* (entrypoint.sh:54-63, env.py:88-96).
SchemaWhole == schema = (IF version THEN Tables ELSE {})

\* A container that migrates serves only a complete schema: when it has lost the
\* race, or alembic has failed, nothing is started (entrypoint.sh:11, 69-78).
ServesSchema ==
  \A c \in Containers \ Skipping : ctr[c].stage = "serving" => schema = Tables

\* One scheduler sends one message each time a reminder falls due, and another one
\* only after a fault, whatever the schedulers beside it do (scheduler/main.py:44-54).
OnceEach == \A r \in Reminders, c \in Containers : by[r][c] <= 1 + faults

\* Every container serves at last: a container that finds the tables of another
\* one in its way, or gave up waiting, comes back and goes through.
EachServes == \A c \in Containers : (ctr[c].stage = "down") ~> (ctr[c].stage = "serving")

-----------------------------------------------------------------------------
(* What the texts promise and the code does not keep.                       *)

\* "the api and bot processes never run the scheduler, so we don't race on
\* triggers when the deployment scales horizontally" (scheduler/main.py:5-7).
NoRaceOnTriggers ==
  \A r \in Reminders, c, d \in Containers : by[r][c] > 0 /\ by[r][d] > 0 => c = d
=============================================================================
