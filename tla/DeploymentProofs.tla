-------------------------- MODULE DeploymentProofs --------------------------
(***************************************************************************)
(* Proofs about Deployment, for any number of containers, any of them      *)
(* without migrations, any reminders and any number of faults.             *)
(***************************************************************************)
EXTENDS Deployment, TLAPS

\* A tick that still has a row to do, or that could load it, has sent no message
\* about it since it fell due, but for the faults.
Unsent ==
  \A r \in Reminders, c \in Containers :
    r \in tick[c].todo \/ (r \in due /\ r \notin tick[c].sent) => by[r][c] <= faults

IInv == TypeOK /\ SchemaWhole /\ ServesSchema /\ OnceEach /\ Unsent

LEMMA OrderLength == Len(Order) = 6
  BY DEF Order

LEMMA AllMade == {Order[i] : i \in 1 .. 6} = Tables
<1>1. 1 .. 6 = {1, 2, 3, 4, 5, 6}
  OBVIOUS
<1>2. /\ Order[1] = "users" /\ Order[2] = "events" /\ Order[3] = "triggers"
      /\ Order[4] = "nudge_logs" /\ Order[5] = "nudge_cache" /\ Order[6] = "voice_diary"
  BY DEF Order
<1>3. {Order[i] : i \in {1, 2, 3, 4, 5, 6}}
        = {Order[1], Order[2], Order[3], Order[4], Order[5], Order[6]}
  OBVIOUS
<1> QED
  BY <1>1, <1>2, <1>3 DEF Tables

\* The initial states.
LEMMA InitHolds == Init => IInv
<1> SUFFICES ASSUME Init PROVE IInv
  OBVIOUS
<1>1. TypeOK
  <2>1. by \in [Reminders -> [Containers -> Nat]]
    BY DEF Init
  <2>2. ctr \in [Containers -> [stage : Stages, made : 0 .. Len(Order)]]
    <3>1. Down \in [stage : Stages, made : 0 .. Len(Order)]
      BY OrderLength DEF Down, Stages
    <3> QED
      BY <3>1 DEF Init
  <2>3. tick \in [Containers -> [todo : SUBSET Reminders, sent : SUBSET Reminders]]
    BY DEF Init, Idle
  <2> QED
    BY <2>1, <2>2, <2>3 DEF Init, TypeOK
<1>2. SchemaWhole
  BY DEF Init, SchemaWhole
<1>3. ServesSchema
  BY DEF Init, ServesSchema, Down
<1>4. OnceEach /\ Unsent
  BY DEF Init, OnceEach, Unsent
<1> QED
  BY <1>1, <1>2, <1>3, <1>4 DEF IInv

-----------------------------------------------------------------------------
(* The entrypoint touches the schema and the stages only.                   *)

LEMMA UpgradeKeeps ==
  ASSUME IInv, NEW c \in Containers, Start(c) \/ Upgrade(c)
  PROVE  IInv'
<1> USE DEF IInv
<1>1. UNCHANGED <<due, tick, by, faults, postgres>>
  BY DEF Start, Upgrade, Wait, ReadVersion, CreateTable, CommitUpgrade, data
<1>2. OnceEach' /\ Unsent'
  BY <1>1 DEF OnceEach, Unsent
<1>3. CASE Start(c)
  <2>1. TypeOK'
    BY <1>1, <1>3, OrderLength DEF TypeOK, Start, Enter, Stages
  <2> QED
    BY <1>2, <1>3, <2>1 DEF TypeOK, SchemaWhole, ServesSchema, Start, Enter
<1>4. CASE Wait(c)
  <2>1. TypeOK'
    BY <1>1, <1>4, OrderLength DEF TypeOK, Wait, Enter, Stages
  <2> QED
    BY <1>2, <1>4, <2>1 DEF TypeOK, SchemaWhole, ServesSchema, Wait, Enter
<1>5. CASE ReadVersion(c)
  <2>1. TypeOK'
    BY <1>1, <1>5, OrderLength DEF TypeOK, ReadVersion, Enter, Stages
  <2> QED
    BY <1>2, <1>5, <2>1 DEF TypeOK, SchemaWhole, ServesSchema, ReadVersion, Enter
<1>6. CASE CreateTable(c)
  <2>1. UNCHANGED <<schema, version>>
    BY <1>6 DEF CreateTable
  <2>2. \/ ctr' = [ctr EXCEPT ![c] = [stage |-> "down", made |-> 0]]
        \/ ctr' = [ctr EXCEPT ![c].made = @ + 1]
    BY <1>6 DEF CreateTable, Enter, AfterFailure
  <2>3. ctr[c].made + 1 \in 0 .. 6 /\ ctr[c].stage = "creating"
    BY <1>6, OrderLength DEF CreateTable, TypeOK
  <2>4. TypeOK'
    BY <1>1, <2>1, <2>2, <2>3, OrderLength DEF TypeOK, Stages
  <2>5. ServesSchema'
    <3>1. ASSUME NEW d \in Containers, ctr'[d].stage = "serving"
          PROVE  ctr[d].stage = "serving"
      <4>1. CASE d = c
        <5>1. ctr'[c].stage = "down" \/ ctr'[c].stage = ctr[c].stage
          BY <2>2 DEF TypeOK
        <5> QED
          BY <2>3, <3>1, <4>1, <5>1
      <4>2. CASE d # c
        BY <2>2, <3>1, <4>2 DEF TypeOK
      <4> QED
        BY <4>1, <4>2
    <3> QED
      BY <2>1, <3>1 DEF ServesSchema
  <2> QED
    BY <1>2, <2>1, <2>4, <2>5 DEF SchemaWhole
<1>7. CASE CommitUpgrade(c)
  <2>1. schema' = Tables
    <3>1. MadeBy(c) = Tables
      BY <1>7, OrderLength, AllMade DEF CommitUpgrade, MadeBy
    <3> QED
      BY <1>7, <3>1 DEF CommitUpgrade, SchemaWhole, TypeOK
  <2>2. TypeOK'
    BY <1>1, <1>7, <2>1, OrderLength DEF TypeOK, CommitUpgrade, Enter, Stages
  <2> QED
    BY <1>2, <1>7, <2>1, <2>2 DEF SchemaWhole, ServesSchema, CommitUpgrade
<1> QED
  BY <1>3, <1>4, <1>5, <1>6, <1>7 DEF Upgrade

-----------------------------------------------------------------------------
(* A fault undoes no more than what was not committed, and is counted.      *)

LEMMA FaultKeeps ==
  ASSUME IInv,
         Fault,
         UNCHANGED <<schema, version, due, by>>,
         postgres' \in BOOLEAN,
         ctr' \in [Containers -> [stage : Stages, made : 0 .. 6]],
         \A c \in Containers : ctr'[c].stage = "serving" => ctr[c].stage = "serving",
         tick' \in [Containers -> [todo : SUBSET Reminders, sent : SUBSET Reminders]]
  PROVE  IInv'
<1>1. TypeOK'
  BY OrderLength DEF IInv, TypeOK, Fault
<1>2. OnceEach' /\ Unsent'
  BY DEF IInv, TypeOK, OnceEach, Unsent, Fault
<1> QED
  BY <1>1, <1>2 DEF IInv, SchemaWhole, ServesSchema

LEMMA IdleTyped == Idle \in [todo : SUBSET Reminders, sent : SUBSET Reminders]
  BY DEF Idle

LEMMA FaultsKeep ==
  ASSUME IInv, PostgresStops \/ (\E c \in Containers : Die(c) \/ TickDies(c))
  PROVE  IInv'
<1> USE OrderLength, IdleTyped
<1>1. CASE PostgresStops
  <2>1. ctr' \in [Containers -> [stage : Stages, made : 0 .. 6]]
    BY <1>1 DEF PostgresStops, IInv, TypeOK, Stages, AfterFailure
  <2>2. \A c \in Containers : ctr'[c].stage = "serving" => ctr[c].stage = "serving"
    BY <1>1 DEF PostgresStops, AfterFailure
  <2>3. tick' \in [Containers -> [todo : SUBSET Reminders, sent : SUBSET Reminders]]
    BY <1>1 DEF PostgresStops
  <2>4. Fault /\ UNCHANGED <<schema, version, due, by>> /\ postgres' \in BOOLEAN
    BY <1>1 DEF PostgresStops
  <2> QED
    BY <2>1, <2>2, <2>3, <2>4, FaultKeeps
<1>2. ASSUME NEW c \in Containers, Die(c)
      PROVE  IInv'
  <2>1. ctr' \in [Containers -> [stage : Stages, made : 0 .. 6]]
    BY <1>2 DEF Die, Enter, IInv, TypeOK, Stages
  <2>2. \A d \in Containers : ctr'[d].stage = "serving" => ctr[d].stage = "serving"
    BY <1>2 DEF Die, Enter, IInv, TypeOK
  <2>3. tick' \in [Containers -> [todo : SUBSET Reminders, sent : SUBSET Reminders]]
    BY <1>2 DEF Die, IInv, TypeOK
  <2>4. Fault /\ UNCHANGED <<schema, version, due, by>> /\ postgres' \in BOOLEAN
    BY <1>2 DEF Die, Left, IInv, TypeOK
  <2> QED
    BY <2>1, <2>2, <2>3, <2>4, FaultKeeps
<1>3. ASSUME NEW c \in Containers, TickDies(c)
      PROVE  IInv'
  <2>1. tick' \in [Containers -> [todo : SUBSET Reminders, sent : SUBSET Reminders]]
    BY <1>3 DEF TickDies, IInv, TypeOK
  <2>2. /\ Fault /\ UNCHANGED <<schema, version, due, by, ctr>> /\ postgres' \in BOOLEAN
        /\ ctr' \in [Containers -> [stage : Stages, made : 0 .. 6]]
    BY <1>3 DEF TickDies, IInv, TypeOK
  <2> QED
    BY <2>1, <2>2, FaultKeeps
<1> QED
  BY <1>1, <1>2, <1>3

-----------------------------------------------------------------------------
(* The schedulers touch the ticks, what is due and the history.             *)

LEMMA TickKeeps ==
  ASSUME IInv, NEW c \in Containers,
         LoadDue(c) \/ Commit(c) \/ \E r \in Reminders : Send(c, r) \/ PutOff(c, r)
  PROVE  IInv'
<1> USE DEF IInv
<1>1. UNCHANGED <<postgres, schema, version, ctr, faults>>
  BY DEF LoadDue, Commit, Send, PutOff
<1>2. SchemaWhole' /\ ServesSchema'
  BY <1>1 DEF SchemaWhole, ServesSchema
<1>3. CASE LoadDue(c)
  <2>1. tick' = [tick EXCEPT ![c] = [todo |-> due, sent |-> {}]] /\ UNCHANGED <<due, by>>
    BY <1>3 DEF LoadDue
  <2>2. tick[c].sent = {}
    BY <1>3 DEF LoadDue, MayTick, Idle
  <2>3. TypeOK'
    BY <1>1, <2>1 DEF TypeOK
  <2>4. Unsent'
    BY <1>1, <2>1, <2>2 DEF Unsent, TypeOK
  <2> QED
    BY <1>1, <1>2, <2>1, <2>3, <2>4 DEF OnceEach
<1>4. CASE Commit(c)
  <2>1. /\ tick' = [tick EXCEPT ![c].sent = {}]
        /\ due' = due \ tick[c].sent /\ by' = by
    BY <1>4 DEF Commit
  <2>2. TypeOK'
    BY <1>1, <2>1 DEF TypeOK
  <2>3. Unsent'
    BY <1>1, <2>1 DEF Unsent, TypeOK
  <2> QED
    BY <1>1, <1>2, <2>1, <2>2, <2>3 DEF OnceEach
<1>5. ASSUME NEW r \in Reminders, Send(c, r)
      PROVE  IInv'
  <2>1. /\ tick' = [tick EXCEPT ![c] = [todo |-> @.todo \ {r}, sent |-> {r}]]
        /\ by' = [by EXCEPT ![r][c] = @ + 1] /\ due' = due
    BY <1>5 DEF Send
  <2>2. tick[c].sent = {} /\ by[r][c] <= faults
    BY <1>5 DEF Send, Unsent
  <2>3. TypeOK'
    BY <1>1, <2>1 DEF TypeOK
  <2>4. \A s \in Reminders, d \in Containers :
          by'[s][d] = IF s = r /\ d = c THEN by[s][d] + 1 ELSE by[s][d]
    BY <2>1 DEF TypeOK
  <2>5. OnceEach'
    BY <1>1, <2>2, <2>4 DEF OnceEach, TypeOK
  <2>6. Unsent'
    BY <1>1, <2>1, <2>2, <2>4 DEF Unsent, TypeOK
  <2> QED
    BY <1>2, <2>3, <2>5, <2>6
<1>6. ASSUME NEW r \in Reminders, PutOff(c, r)
      PROVE  IInv'
  <2>1. /\ tick' = [tick EXCEPT ![c].todo = @ \ {r}]
        /\ due' = due \ {r} /\ by' = by
    BY <1>6 DEF PutOff
  <2>2. TypeOK'
    BY <1>1, <2>1 DEF TypeOK
  <2>3. Unsent'
    BY <1>1, <2>1 DEF Unsent, TypeOK
  <2> QED
    BY <1>1, <1>2, <2>1, <2>2, <2>3 DEF OnceEach
<1> QED
  BY <1>3, <1>4, <1>5, <1>6

LEMMA FallDueKeeps ==
  ASSUME IInv, NEW r \in Reminders, FallDue(r)
  PROVE  IInv'
<1>1. /\ due' = due \cup {r} /\ by' = [by EXCEPT ![r] = [c \in Containers |-> 0]]
      /\ UNCHANGED <<postgres, schema, version, ctr, tick, faults>>
  BY DEF FallDue
<1>2. TypeOK'
  BY <1>1 DEF IInv, TypeOK
<1>3. OnceEach' /\ Unsent'
  BY <1>1 DEF IInv, TypeOK, OnceEach, Unsent
<1> QED
  BY <1>1, <1>2, <1>3 DEF IInv, SchemaWhole, ServesSchema

LEMMA StepHolds == IInv /\ [Next]_vars => IInv'
<1> SUFFICES ASSUME IInv, [Next]_vars PROVE IInv'
  OBVIOUS
<1>1. CASE PostgresStarts
  BY <1>1 DEF PostgresStarts, data, IInv, TypeOK, SchemaWhole, ServesSchema, OnceEach, Unsent
<1>2. CASE UNCHANGED vars
  BY <1>2 DEF vars, IInv, TypeOK, SchemaWhole, ServesSchema, OnceEach, Unsent
<1> QED
  BY <1>1, <1>2, UpgradeKeeps, FaultsKeep, TickKeeps, FallDueKeeps DEF Next

-----------------------------------------------------------------------------
\* The invariant holds of every behaviour.
THEOREM DeploymentInvariance == Spec => []IInv
  BY InitHolds, StepHolds, PTL DEF Spec

\* Type correctness of containers, schema and ticks (entrypoint.sh, main.py).
THEOREM DeploymentTyped == Spec => []TypeOK
  BY DeploymentInvariance, PTL DEF IInv

\* The schema is never there by half, whatever is killed while it is made.
THEOREM WholeSchema == Spec => []SchemaWhole
  BY DeploymentInvariance, PTL DEF IInv

\* No container that migrates serves without the schema.
THEOREM MigratedFirst == Spec => []ServesSchema
  BY DeploymentInvariance, PTL DEF IInv

\* No scheduler sends a second message about one due time without a fault.
THEOREM EachOnce == Spec => []OnceEach
  BY DeploymentInvariance, PTL DEF IInv
=============================================================================
