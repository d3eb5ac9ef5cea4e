--------------------------- MODULE AccountsProofs ---------------------------
(* Proofs about Accounts, for any number of people, handlers and updates.   *)
EXTENDS Accounts, FiniteSetTheorems, TLAPS

Columns == {"tg", "role", "voice", "zone", "from", "to", "token"}

\* The tables, without the updates in flight.
RowsTyped ==
  /\ owner \in People /\ mode \in Modes
  /\ users \in [UserIds -> UserRow]
  /\ events \in [EventIds -> EventRow]
  /\ next \in [user : Nat \ {0}, token : Nat \ {0}, event : Nat \ {0}]
  /\ answer \in [who : People \cup {Nobody}, token : Tokens \cup {NoId}]
  /\ restarts \in Nat /\ stored \subseteq Tokens

\* Ids not handed out yet have no row, and one person has one row.
RowsDiffer ==
  /\ \A i \in UserIds : next.user <= i => users[i] = NoUser
  /\ \A i, j \in UserIds : Exists(i) /\ users[i].tg = users[j].tg => i = j

\* A token is generated once, and stored in one row only.
TokensOnce ==
  /\ \A k \in stored : k < next.token
  /\ \A i \in UserIds : users[i].token # NoId => users[i].token \in stored
  /\ \A i \in UserIds : Exists(i) => users[i].token # NoId
  /\ \A i, j \in UserIds : users[i].token # NoId /\ users[i].token = users[j].token => i = j
  /\ answer.token # NoId => answer.token \in stored

RowsOK ==
  /\ RowsTyped /\ RowsDiffer /\ TokensOnce
  /\ EventsHaveOwner /\ QuietHoursDiffer /\ LinkIsOwn

TaskTyped(t) ==
  /\ t = [stage |-> t.stage, who |-> t.who, id |-> t.id, copy |-> t.copy, change |-> t.change]
  /\ t.stage \in Stages /\ t.who \in People \cup {Nobody}
  /\ t.id \in UserIds \cup {NoId} /\ t.copy \in UserRow
  /\ t.change = [c \in DOMAIN t.change |-> t.change[c]]
  /\ ChangeOK(t.change)

\* The row an update has found or made is its sender's, if it is still there;
\* what it has copied was his; and what it is about to store is new.
TaskOK(t) ==
  /\ TaskTyped(t)
  /\ t.id < next.user
  /\ t.stage # "idle" => t.who \in People
  /\ t.stage = "idle" => t = NoTask
  /\ t.stage \notin {"idle", "registering"} => t.id \in UserIds
  /\ Exists(t.id) => users[t.id].tg = t.who
  /\ t.copy.token # NoId =>
       /\ t.copy.token \in stored
       /\ \A i \in UserIds : users[i].token = t.copy.token => users[i].tg = t.who
  /\ "token" \in DOMAIN t.change =>
       t.change["token"] < next.token /\ t.change["token"] \notin stored
  /\ t.stage = "committed" /\ t.who = owner /\ Exists(t.id) => users[t.id].role = "owner"
  /\ t.stage = "ready" /\ t.who = owner => t.copy.role = "owner"

TasksOK ==
  /\ task = [h \in Handlers |-> task[h]]
  /\ \A h \in Handlers : TaskOK(task[h])

\* No two updates are about to store the same token.
PendingDiffer ==
  \A g, h \in Handlers :
    /\ "token" \in DOMAIN task[g].change /\ "token" \in DOMAIN task[h].change
    /\ task[g].change["token"] = task[h].change["token"]
    => g = h

\* What every step preserves.
AccountsInvariant == RowsOK /\ TasksOK /\ PendingDiffer

LEMMA InvariantTyped == AccountsInvariant => TypeOK /\ OwnerActsAsOwner
BY DEF AccountsInvariant, RowsOK, RowsTyped, TasksOK, TaskOK, TaskTyped, TypeOK, OwnerActsAsOwner

LEMMA NoUserTyped == NoUser \in UserRow /\ NoUser.from # NoUser.to
BY AccountsAssumption DEF NoUser, UserRow, Quiet

LEMMA NoTaskOK ==
  ASSUME RowsTyped
  PROVE  TaskOK(NoTask)
<1>1. /\ NoTask.change = [c \in {} |-> 0] /\ DOMAIN NoTask.change = {}
      /\ NoTask.stage = "idle" /\ NoTask.who = Nobody /\ NoTask.id = 0
      /\ NoTask.copy = NoUser /\ NoTask.copy.token = 0
  BY DEF NoTask, Update, NoChange, NoUser, NoId
<1>2. NoTask.change = [c \in DOMAIN NoTask.change |-> NoTask.change[c]]
  BY <1>1
<1>3. ChangeOK(NoTask.change)
  BY <1>1 DEF ChangeOK
<1>4. NoTask = [stage |-> NoTask.stage, who |-> NoTask.who, id |-> NoTask.id,
                copy |-> NoTask.copy, change |-> NoTask.change]
  BY DEF NoTask, Update
<1>5. TaskTyped(NoTask)
  BY <1>1, <1>2, <1>3, <1>4, NoUserTyped DEF TaskTyped, Stages, NoId
<1>6. ~Exists(NoTask.id)
  BY <1>1 DEF Exists, UserIds
<1>7. QED
  BY <1>1, <1>5, <1>6 DEF TaskOK, RowsTyped, NoId

LEMMA AccountsInit == Init => AccountsInvariant
<1> SUFFICES ASSUME Init PROVE AccountsInvariant
  OBVIOUS
<1>1. RowsTyped
  BY NoUserTyped, AccountsAssumption
     DEF Init, RowsTyped, EventRow, NoEvent, NoAnswer, NoId
<1>2. RowsDiffer /\ TokensOnce /\ EventsHaveOwner /\ QuietHoursDiffer /\ LinkIsOwn
  BY NoUserTyped
     DEF Init, RowsDiffer, TokensOnce, EventsHaveOwner, QuietHoursDiffer, LinkIsOwn, Exists,
         NoUser, NoEvent, NoAnswer, NoId
<1>3. TasksOK
  BY <1>1, NoTaskOK DEF Init, TasksOK
<1>4. PendingDiffer
  BY DEF Init, PendingDiffer, NoTask, Update, NoChange
<1>5. QED
  BY <1>1, <1>2, <1>3, <1>4 DEF AccountsInvariant, RowsOK

-----------------------------------------------------------------------------
(* What a step may do to the rows without disturbing the updates in flight. *)

\* Rows keep their persons, until they go; an owner is not demoted; what is
\* newly stored was not pending.
Undisturbing(t) ==
  /\ next.user <= next'.user /\ next.token <= next'.token
  /\ next' \in [user : Nat \ {0}, token : Nat \ {0}, event : Nat \ {0}]
  /\ owner' = owner
  /\ t.id \in UserIds /\ users'[t.id].tg # Nobody =>
       /\ users[t.id].tg = users'[t.id].tg
       /\ users[t.id].role = "owner" => users'[t.id].role = "owner"
  /\ \A i \in UserIds : users'[i].token # NoId /\ users'[i].token \in stored =>
       users'[i].token = users[i].token /\ users'[i].tg = users[i].tg
  /\ stored \subseteq stored'
  /\ "token" \in DOMAIN t.change => t.change["token"] \notin stored' \ stored

LEMMA TaskKept ==
  ASSUME RowsTyped, NEW t, TaskOK(t), Undisturbing(t)
  PROVE  TaskOK(t)'
<1>1. TaskTyped(t)' /\ t.id < next'.user
  BY DEF TaskOK, TaskTyped, Undisturbing, RowsTyped, UserIds, NoId
<1>2. /\ t.stage # "idle" => t.who \in People
      /\ t.stage = "idle" => t = NoTask
      /\ t.stage \notin {"idle", "registering"} => t.id \in UserIds
      /\ t.stage = "ready" /\ t.who = owner' => t.copy.role = "owner"
  BY DEF TaskOK, Undisturbing
<1>3. /\ Exists(t.id)' => users'[t.id].tg = t.who
      /\ t.stage = "committed" /\ t.who = owner' /\ Exists(t.id)' => users'[t.id].role = "owner"
  BY DEF TaskOK, Undisturbing, Exists
<1>4. t.copy.token # NoId =>
        /\ t.copy.token \in stored'
        /\ \A i \in UserIds : users'[i].token = t.copy.token => users'[i].tg = t.who
  BY DEF TaskOK, Undisturbing
<1>5. "token" \in DOMAIN t.change =>
        t.change["token"] < next'.token /\ t.change["token"] \notin stored'
  BY DEF TaskOK, TaskTyped, ChangeOK, Undisturbing, RowsTyped, Tokens
<1>6. QED
  BY <1>1, <1>2, <1>3, <1>4, <1>5 DEF TaskOK

\* One update moves on, the others are not disturbed.
LEMMA OneTask ==
  ASSUME AccountsInvariant, NEW h \in Handlers, NEW t,
         task' = [task EXCEPT ![h] = t],
         TaskOK(t)',
         \A g \in Handlers \ {h} : Undisturbing(task[g]),
         "token" \in DOMAIN t.change =>
           \/ t.change = task[h].change
           \/ t.change["token"] = next.token
  PROVE  TasksOK' /\ PendingDiffer'
<1>1. /\ task' = [g \in Handlers |-> task'[g]]
      /\ task'[h] = t /\ \A g \in Handlers \ {h} : task'[g] = task[g]
  BY DEF AccountsInvariant, TasksOK
<1>2. ASSUME NEW g \in Handlers \ {h}
      PROVE  TaskOK(task[g])'
  <2>1. PICK u : u = task[g]
    OBVIOUS
  <2>2. RowsTyped /\ TaskOK(u) /\ Undisturbing(u)
    BY <2>1 DEF AccountsInvariant, RowsOK, TasksOK
  <2>3. TaskOK(u)'
    BY <2>2, TaskKept
  <2>4. task'[g] = u
    BY <1>1, <2>1
  <2>5. QED
    BY <2>3, <2>4
<1>3. TasksOK'
  <2>1. TaskOK(task[h])'
    BY <1>1
  <2>2. QED
    BY <1>1, <1>2, <2>1 DEF TasksOK
<1>4. \A g \in Handlers : "token" \in DOMAIN task[g].change => task[g].change["token"] # next.token
  <2> TAKE g \in Handlers
  <2> HAVE "token" \in DOMAIN task[g].change
  <2>1. TaskOK(task[g]) /\ next.token \in Nat
    BY DEF AccountsInvariant, RowsOK, RowsTyped, TasksOK
  <2>2. task[g].change["token"] < next.token /\ task[g].change["token"] \in Tokens
    BY <2>1 DEF TaskOK, TaskTyped, ChangeOK
  <2>3. QED
    BY <2>1, <2>2 DEF Tokens
<1>5. PendingDiffer'
  <2> SUFFICES ASSUME NEW g \in Handlers, NEW k \in Handlers,
                      "token" \in DOMAIN task'[g].change, "token" \in DOMAIN task'[k].change,
                      task'[g].change["token"] = task'[k].change["token"], g # k
               PROVE  FALSE
    BY DEF PendingDiffer
  <2>1. CASE g # h /\ k # h
    BY <1>1, <2>1 DEF AccountsInvariant, PendingDiffer
  <2>2. CASE g = h
    BY <1>1, <1>4, <2>2 DEF AccountsInvariant, PendingDiffer
  <2>3. CASE k = h
    BY <1>1, <1>4, <2>3 DEF AccountsInvariant, PendingDiffer
  <2>4. QED
    BY <2>1, <2>2, <2>3
<1>6. QED
  BY <1>3, <1>5

\* Steps that leave the users alone and hand out at most a token or an event id.
LEMMA SameUsers ==
  ASSUME RowsTyped, UNCHANGED <<owner, users, stored>>,
         next' \in [user : Nat \ {0}, token : Nat \ {0}, event : Nat \ {0}],
         next.user <= next'.user, next.token <= next'.token,
         NEW t
  PROVE  Undisturbing(t)
BY DEF Undisturbing, RowsTyped, Exists
LEMMA FinishTask ==
  ASSUME RowsTyped', NEW h \in Handlers, Finish(h), AccountsInvariant,
         \A g \in Handlers \ {h} : Undisturbing(task[g])
  PROVE  TasksOK' /\ PendingDiffer'
<1>1. TaskOK(NoTask)'
  BY NoTaskOK, PTL
<1>2. QED
  BY <1>1, OneTask DEF Finish, NoTask, Update, NoChange

-----------------------------------------------------------------------------
(* The actions.                                                             *)

\* Steps after which users, owner and the stored tokens are as before.
LEMMA RowsKept ==
  ASSUME RowsOK, UNCHANGED <<owner, mode, users, events, answer, restarts, stored>>,
         next' \in [user : Nat \ {0}, token : Nat \ {0}, event : Nat \ {0}],
         next.user <= next'.user, next.token <= next'.token
  PROVE  RowsOK'
<1>1. RowsTyped'
  BY DEF RowsOK, RowsTyped
<1>2. RowsDiffer'
  BY DEF RowsOK, RowsTyped, RowsDiffer, Exists, UserIds
<1>3. TokensOnce'
  BY DEF RowsOK, RowsTyped, TokensOnce, Tokens, Exists
<1>4. EventsHaveOwner' /\ QuietHoursDiffer' /\ LinkIsOwn'
  BY DEF RowsOK, EventsHaveOwner, QuietHoursDiffer, LinkIsOwn, Exists
<1>5. QED
  BY <1>1, <1>2, <1>3, <1>4 DEF RowsOK

LEMMA RowFacts ==
  ASSUME RowsTyped, NEW i \in UserIds, Exists(i)
  PROVE  users[i] \in UserRow /\ users[i].tg \in People
BY AccountsAssumption DEF RowsTyped, UserRow, Exists

LEMMA NextKept == ASSUME RowsTyped, next' = next
  PROVE  /\ next' \in [user : Nat \ {0}, token : Nat \ {0}, event : Nat \ {0}]
         /\ next.user <= next'.user /\ next.token <= next'.token
BY DEF RowsTyped

LEMMA ReceiveStep ==
  ASSUME AccountsInvariant, NEW h \in Handlers, NEW p \in People, NEW name, Receive(h, p, name)
  PROVE  AccountsInvariant'
<1>1. RowsOK /\ RowsTyped /\ UNCHANGED <<owner, mode, users, events, next, answer, restarts, stored>>
  BY DEF AccountsInvariant, RowsOK, Receive
<1>2. RowsOK' /\ \A g \in Handlers : Undisturbing(task[g])
  BY <1>1, RowsKept, SameUsers, NextKept
<1>3. TasksOK' /\ PendingDiffer'
  <2>1. CASE task' = [task EXCEPT ![h] = Update("registering", p, NoId, NoUser, NoChange)]
    <3>0. PICK t : t = Update("registering", p, NoId, NoUser, NoChange)
      OBVIOUS
    <3>1. task' = [task EXCEPT ![h] = t]
      BY <2>1, <3>0
    <3>2. t.change = NoTask.change /\ t.stage = "registering" /\ t.who = p /\ t.id = NoTask.id
          /\ t.copy = NoTask.copy
          /\ t = [stage |-> t.stage, who |-> t.who, id |-> t.id, copy |-> t.copy, change |-> t.change]
      BY <3>0 DEF NoTask, Update
    <3>3. TaskOK(NoTask)' /\ "token" \notin DOMAIN t.change /\ ~Exists(t.id)' /\ t.copy.token = 0
      <4>1. RowsTyped'
        BY <1>2 DEF RowsOK
      <4>2. TaskOK(NoTask)'
        BY <4>1, NoTaskOK, PTL
      <4>3. QED
        BY <3>2, <4>2 DEF NoTask, Update, NoChange, NoUser, Exists, UserIds, NoId
    <3>4. TaskOK(t)'
      BY <3>2, <3>3 DEF TaskOK, TaskTyped, Stages, NoId
    <3>5. QED
      BY <1>2, <3>1, <3>3, <3>4, OneTask
  <2>2. CASE \E i \in RowsOf(p) :
               task' = [task EXCEPT ![h] =
                 Update(IF p = owner /\ users[i].role # "owner" THEN "promoting" ELSE "ready",
                        p, i, users[i], NoChange)]
    <3>1. PICK i \in RowsOf(p) :
               task' = [task EXCEPT ![h] =
                 Update(IF p = owner /\ users[i].role # "owner" THEN "promoting" ELSE "ready",
                        p, i, users[i], NoChange)]
      BY <2>2
    <3>0. PICK t : t = Update(IF p = owner /\ users[i].role # "owner" THEN "promoting" ELSE "ready",
                              p, i, users[i], NoChange)
      OBVIOUS
    <3>2. i \in UserIds /\ users[i].tg = p /\ Exists(i) /\ users[i] \in UserRow
      BY <1>1, AccountsAssumption DEF RowsOf, Exists, RowsTyped
    <3>3. i < next.user
      BY <1>1, <3>2, AccountsAssumption DEF RowsOK, RowsTyped, RowsDiffer, NoUser, UserIds
    <3>4. /\ t = [stage |-> t.stage, who |-> t.who, id |-> t.id, copy |-> t.copy, change |-> t.change]
          /\ t.stage \in {"promoting", "ready"} /\ t.who = p /\ t.id = i /\ t.copy = users[i]
          /\ t.change = NoChange
          /\ t.stage = "ready" /\ p = owner => users[i].role = "owner"
      BY <3>0 DEF Update
    <3>5. DOMAIN NoChange = {} /\ NoChange = [c \in DOMAIN NoChange |-> NoChange[c]] /\ ChangeOK(NoChange)
      BY DEF NoChange, ChangeOK
    <3>6. TaskTyped(t)
      BY <3>2, <3>4, <3>5 DEF TaskTyped, Stages
    <3>7. t.copy.token # NoId =>
            /\ t.copy.token \in stored
            /\ \A j \in UserIds : users[j].token = t.copy.token => users[j].tg = t.who
      BY <1>1, <3>2, <3>4 DEF RowsOK, TokensOnce
    <3>8. TaskOK(t)
      BY <1>1, <3>2, <3>3, <3>4, <3>5, <3>6, <3>7 DEF TaskOK
    <3>9. TaskOK(t)'
      <4>1. Undisturbing(t)
        BY <1>1, SameUsers, NextKept
      <4>2. QED
        BY <1>1, <3>8, <4>1, TaskKept
    <3>10. QED
      BY <1>2, <3>0, <3>1, <3>4, <3>5, <3>9, OneTask
  <2>3. QED
    BY <2>1, <2>2 DEF Receive
<1>4. QED
  BY <1>2, <1>3 DEF AccountsInvariant

LEMMA RegisterStep ==
  ASSUME AccountsInvariant, NEW h \in Handlers, Register(h)
  PROVE  AccountsInvariant'
<1> DEFINE p == task[h].who
           i == next.user
           new == [NoUser EXCEPT !.tg = p, !.role = RoleOf(p), !.token = next.token]
<1>1. /\ RowsTyped /\ RowsDiffer /\ TokensOnce /\ EventsHaveOwner /\ QuietHoursDiffer /\ LinkIsOwn
      /\ p \in People /\ i \in UserIds /\ next.token \in Tokens
      /\ users' = [users EXCEPT ![i] = new]
      /\ next' = [user |-> next.user + 1, token |-> next.token + 1, event |-> next.event]
      /\ task' = [task EXCEPT ![h] = Update("committed", p, i, NoUser, NoChange)]
      /\ stored' = stored \cup {next.token}
      /\ UNCHANGED <<owner, mode, events, answer, restarts>>
      /\ \A j \in UserIds : users[j].tg # p
  BY DEF AccountsInvariant, RowsOK, TasksOK, TaskOK, Register, NewUserId, NewToken, MayInsert, RowsOf
<1>2. /\ new \in UserRow /\ new.tg = p /\ new.token = next.token /\ new.role = RoleOf(p)
      /\ new.from # new.to
  BY <1>1, NoUserTyped DEF NoUser, UserRow, RoleOf
<1> HIDE DEF new
<1>3. /\ next' \in [user : Nat \ {0}, token : Nat \ {0}, event : Nat \ {0}]
      /\ next'.user = next.user + 1 /\ next'.token = next.token + 1
      /\ i \in Nat /\ next.token \in Nat /\ i # 0 /\ next.token # 0
  BY <1>1 DEF RowsTyped
<1>4. /\ users' \in [UserIds -> UserRow] /\ users'[i] = new
      /\ \A j \in UserIds \ {i} : users'[j] = users[j]
      /\ users[i] = NoUser
  BY <1>1, <1>2, <1>3 DEF RowsTyped, RowsDiffer
<1>5. RowsTyped'
  BY <1>1, <1>3, <1>4 DEF RowsTyped
<1>6. \A j \in UserIds : Exists(j) => Exists(j)' /\ j # i
  BY <1>1, <1>2, <1>4, AccountsAssumption DEF Exists, NoUser
<1>7. next.token \notin stored
  BY <1>1, <1>3 DEF TokensOnce
<1>8. RowsDiffer'
  <2>1. \A j \in UserIds : next'.user <= j => users'[j] = NoUser
    BY <1>1, <1>3, <1>4 DEF RowsDiffer, UserIds
  <2>2. ASSUME NEW j \in UserIds, NEW k \in UserIds, Exists(j)', users'[j].tg = users'[k].tg
        PROVE  j = k
    BY <1>1, <1>2, <1>4, <2>2 DEF RowsDiffer, Exists
  <2>3. QED
    BY <2>1, <2>2 DEF RowsDiffer
<1>9. TokensOnce'
  <2>1. new.token # NoId
    BY <1>2, <1>3 DEF NoId
  <2>2. \A k \in stored' : k < next'.token
    <3> SUFFICES ASSUME NEW k \in stored' PROVE k < next.token + 1
      BY <1>3
    <3>1. CASE k = next.token
      BY <1>3, <3>1
    <3>2. CASE k \in stored
      <4>1. k < next.token /\ k \in Nat
        BY <1>1, <3>2 DEF TokensOnce, RowsTyped, Tokens
      <4>2. QED
        BY <1>3, <4>1
    <3>3. QED
      BY <1>1, <3>1, <3>2
  <2>3. \A j \in UserIds : users'[j].token # NoId => users'[j].token \in stored'
    BY <1>1, <1>2, <1>4 DEF TokensOnce
  <2>4. \A j \in UserIds : Exists(j)' => users'[j].token # NoId
    BY <1>1, <1>4, <2>1 DEF TokensOnce, Exists
  <2>5. ASSUME NEW j \in UserIds, NEW k \in UserIds,
               users'[j].token # NoId, users'[j].token = users'[k].token
        PROVE  j = k
    <3>1. CASE j = i \/ k = i
      BY <1>1, <1>2, <1>4, <1>7, <2>5, <3>1 DEF TokensOnce
    <3>2. CASE j # i /\ k # i
      BY <1>1, <1>4, <2>5, <3>2 DEF TokensOnce
    <3>3. QED
      BY <3>1, <3>2
  <2>6. answer'.token # NoId => answer'.token \in stored'
    BY <1>1 DEF TokensOnce
  <2>7. QED
    BY <2>2, <2>3, <2>4, <2>5, <2>6 DEF TokensOnce
<1>10. EventsHaveOwner' /\ QuietHoursDiffer' /\ LinkIsOwn'
  <2>1. EventsHaveOwner'
    BY <1>1, <1>6 DEF EventsHaveOwner, Exists
  <2>2. QuietHoursDiffer'
    BY <1>1, <1>2, <1>4 DEF QuietHoursDiffer
  <2>3. LinkIsOwn'
    BY <1>1, <1>2, <1>4, <1>7 DEF LinkIsOwn, TokensOnce
  <2>4. QED
    BY <2>1, <2>2, <2>3
<1>11. \A g \in Handlers : Undisturbing(task[g])
  <2> TAKE g \in Handlers
  <2>1. TaskOK(task[g])
    BY DEF AccountsInvariant, TasksOK
  <2>2. task[g].id # i
    BY <2>1, <1>3 DEF TaskOK
  <2>3. task[g].id \in UserIds => users'[task[g].id] = users[task[g].id]
    BY <1>4, <2>2
  <2>4. \A j \in UserIds : users'[j].token # NoId /\ users'[j].token \in stored =>
          users'[j].token = users[j].token /\ users'[j].tg = users[j].tg
    BY <1>2, <1>4, <1>7
  <2>5. "token" \in DOMAIN task[g].change => task[g].change["token"] # next.token
    <3> HAVE "token" \in DOMAIN task[g].change
    <3>1. task[g].change["token"] < next.token /\ task[g].change["token"] \in Tokens
      BY <2>1 DEF TaskOK, TaskTyped, ChangeOK
    <3>2. QED
      BY <1>3, <3>1 DEF Tokens
  <2>6. QED
    BY <1>1, <1>3, <2>3, <2>4, <2>5 DEF Undisturbing
<1>12. PICK t : t = Update("committed", p, i, NoUser, NoChange)
  OBVIOUS
<1>13. TaskOK(t)' /\ "token" \notin DOMAIN t.change
  <2>1. /\ t = [stage |-> t.stage, who |-> t.who, id |-> t.id, copy |-> t.copy, change |-> t.change]
        /\ t.stage = "committed" /\ t.who = p /\ t.id = i /\ t.copy = NoUser /\ t.change = NoChange
    BY <1>12 DEF Update
  <2>2. DOMAIN NoChange = {} /\ NoChange = [c \in DOMAIN NoChange |-> NoChange[c]] /\ ChangeOK(NoChange)
    BY DEF NoChange, ChangeOK
  <2>3. TaskTyped(t)
    BY <1>1, <2>1, <2>2, NoUserTyped DEF TaskTyped, Stages
  <2>4. NoUser.token = NoId
    BY DEF NoUser
  <2>5. p = owner' => users'[i].role = "owner"
    BY <1>1, <1>2, <1>4 DEF RoleOf
  <2>6. QED
    BY <1>1, <1>2, <1>3, <1>4, <2>1, <2>2, <2>3, <2>4, <2>5 DEF TaskOK, TaskTyped
<1>14. TasksOK' /\ PendingDiffer'
  BY <1>1, <1>11, <1>12, <1>13, OneTask
<1>15. QED
  BY <1>5, <1>8, <1>9, <1>10, <1>14 DEF AccountsInvariant, RowsOK

LEMMA PromoteStep ==
  ASSUME AccountsInvariant, NEW h \in Handlers, Promote(h)
  PROVE  AccountsInvariant'
<1> DEFINE i == task[h].id
           new == [users[i] EXCEPT !.role = "owner"]
<1>1. /\ RowsTyped /\ RowsDiffer /\ TokensOnce /\ EventsHaveOwner /\ QuietHoursDiffer /\ LinkIsOwn
      /\ TaskOK(task[h]) /\ task[h].stage = "promoting" /\ Exists(i) /\ i \in UserIds
      /\ users' = [users EXCEPT ![i] = new]
      /\ task' = [task EXCEPT ![h] = Update("committed", task[h].who, i, task[h].copy, NoChange)]
      /\ UNCHANGED <<owner, mode, events, next, answer, restarts, stored>>
  BY DEF AccountsInvariant, RowsOK, TasksOK, Promote, Exists
<1>2. users[i] \in UserRow
  BY <1>1 DEF RowsTyped
<1>3. /\ new \in UserRow /\ new.tg = users[i].tg /\ new.token = users[i].token /\ new.role = "owner"
      /\ new.from = users[i].from /\ new.to = users[i].to
  BY <1>2 DEF UserRow
<1> HIDE DEF new
<1>4. /\ users' \in [UserIds -> UserRow] /\ users'[i] = new
      /\ \A j \in UserIds \ {i} : users'[j] = users[j]
      /\ \A j \in UserIds : users'[j].tg = users[j].tg /\ users'[j].token = users[j].token
                           /\ users'[j].from = users[j].from /\ users'[j].to = users[j].to
  BY <1>1, <1>3 DEF RowsTyped
<1>5. RowsTyped'
  BY <1>1, <1>4 DEF RowsTyped
<1>6. \A j : Exists(j)' <=> Exists(j)
  BY <1>4 DEF Exists
<1>7. RowsDiffer'
  <2>1. i < next.user
    BY <1>1 DEF TaskOK
  <2>2. \A j \in UserIds : next'.user <= j => users'[j] = NoUser
    BY <1>1, <1>4, <2>1 DEF RowsDiffer, RowsTyped, UserIds
  <2>3. QED
    BY <1>1, <1>4, <1>6, <2>2 DEF RowsDiffer
<1>8. TokensOnce' /\ EventsHaveOwner' /\ QuietHoursDiffer' /\ LinkIsOwn'
  BY <1>1, <1>4, <1>6 DEF TokensOnce, EventsHaveOwner, QuietHoursDiffer, LinkIsOwn
<1>9. \A g \in Handlers : Undisturbing(task[g])
  BY <1>1, <1>3, <1>4, <1>6 DEF Undisturbing, RowsTyped, Exists
<1>10. PICK t : t = Update("committed", task[h].who, i, task[h].copy, NoChange)
  OBVIOUS
<1>11. TaskOK(t)' /\ "token" \notin DOMAIN t.change
  <2>1. /\ t = [stage |-> t.stage, who |-> t.who, id |-> t.id, copy |-> t.copy, change |-> t.change]
        /\ t.stage = "committed" /\ t.who = task[h].who /\ t.id = i /\ t.copy = task[h].copy
        /\ t.change = NoChange
    BY <1>10 DEF Update
  <2>2. DOMAIN NoChange = {} /\ NoChange = [c \in DOMAIN NoChange |-> NoChange[c]] /\ ChangeOK(NoChange)
    BY DEF NoChange, ChangeOK
  <2>3. TaskTyped(t)
    BY <1>1, <2>1, <2>2 DEF TaskTyped, TaskOK, Stages
  <2>4. QED
    BY <1>1, <1>3, <1>4, <1>6, <2>1, <2>2, <2>3 DEF TaskOK, TaskTyped
<1>12. TasksOK' /\ PendingDiffer'
  BY <1>1, <1>9, <1>10, <1>11, OneTask
<1>13. QED
  BY <1>5, <1>7, <1>8, <1>12 DEF AccountsInvariant, RowsOK

LEMMA RefreshStep ==
  ASSUME AccountsInvariant, NEW h \in Handlers, Refresh(h)
  PROVE  AccountsInvariant'
<1> DEFINE i == task[h].id
<1>1. /\ RowsOK /\ RowsTyped /\ TokensOnce
      /\ UNCHANGED <<owner, mode, users, events, next, answer, restarts, stored>>
      /\ TaskOK(task[h]) /\ task[h].stage = "committed" /\ Exists(i) /\ i \in UserIds
      /\ task' = [task EXCEPT ![h] = Update("ready", task[h].who, i, users[i], NoChange)]
  BY DEF AccountsInvariant, RowsOK, TasksOK, Refresh, Dispatch, Exists
<1>2. RowsOK' /\ \A g \in Handlers : Undisturbing(task[g])
  BY <1>1, RowsKept, SameUsers, NextKept
<1>3. PICK t : t = Update("ready", task[h].who, i, users[i], NoChange)
  OBVIOUS
<1>4. /\ t = [stage |-> t.stage, who |-> t.who, id |-> t.id, copy |-> t.copy, change |-> t.change]
      /\ t.stage = "ready" /\ t.who = task[h].who /\ t.id = i /\ t.copy = users[i] /\ t.change = NoChange
  BY <1>3 DEF Update
<1>5. DOMAIN NoChange = {} /\ NoChange = [c \in DOMAIN NoChange |-> NoChange[c]] /\ ChangeOK(NoChange)
  BY DEF NoChange, ChangeOK
<1>6. TaskTyped(t) /\ t.who \in People /\ users[i].tg = t.who
  BY <1>1, <1>4, <1>5, RowFacts DEF TaskTyped, TaskOK, Stages
<1>7. t.copy.token # NoId =>
        /\ t.copy.token \in stored
        /\ \A j \in UserIds : users[j].token = t.copy.token => users[j].tg = t.who
  BY <1>1, <1>4, <1>6 DEF TokensOnce
<1>8. TaskOK(t)
  BY <1>1, <1>4, <1>5, <1>6, <1>7 DEF TaskOK
<1>9. Undisturbing(t)
  BY <1>1, SameUsers, NextKept
<1>10. TaskOK(t)'
  BY <1>1, <1>8, <1>9, TaskKept
<1>11. TasksOK' /\ PendingDiffer'
  BY <1>1, <1>2, <1>3, <1>4, <1>5, <1>10, OneTask
<1>12. QED
  BY <1>2, <1>11 DEF AccountsInvariant
\* The handlers that only answer, and those that add or delete an event.
LEMMA EventStep ==
  ASSUME AccountsInvariant, NEW h \in Handlers, Finish(h),
         UNCHANGED <<owner, mode, users, restarts, stored>>,
         next' \in [user : Nat \ {0}, token : Nat \ {0}, event : Nat \ {0}],
         next'.user = next.user, next'.token = next.token,
         events' \in [EventIds -> EventRow],
         \A e \in EventIds : events'[e] = events[e] \/ events'[e].owner = NoId \/ Exists(events'[e].owner),
         answer' = answer \/ answer' = [who |-> task[h].who, token |-> task[h].copy.token]
  PROVE  AccountsInvariant'
<1>1. /\ RowsTyped /\ RowsDiffer /\ TokensOnce /\ EventsHaveOwner /\ QuietHoursDiffer /\ LinkIsOwn
      /\ TaskOK(task[h])
  BY DEF AccountsInvariant, RowsOK, TasksOK
<1>2. next.user \in Nat /\ next.token \in Nat
  BY <1>1 DEF RowsTyped
<1>3. answer' \in [who : People \cup {Nobody}, token : Tokens \cup {NoId}]
  BY <1>1 DEF RowsTyped, TaskOK, TaskTyped, UserRow
<1>4. RowsTyped' /\ RowsDiffer'
  BY <1>1, <1>2, <1>3 DEF RowsTyped, RowsDiffer, Exists
<1>5. TokensOnce'
  BY <1>1, <1>2 DEF TokensOnce, TaskOK, Exists
<1>6. EventsHaveOwner' /\ QuietHoursDiffer' /\ LinkIsOwn'
  BY <1>1 DEF EventsHaveOwner, QuietHoursDiffer, LinkIsOwn, TaskOK, Exists
<1>7. \A g \in Handlers : Undisturbing(task[g])
  BY <1>1, <1>2, SameUsers DEF RowsTyped
<1>8. TasksOK' /\ PendingDiffer'
  BY <1>4, <1>7, FinishTask
<1>9. QED
  BY <1>4, <1>5, <1>6, <1>8 DEF AccountsInvariant, RowsOK

LEMMA QuietStep ==
  ASSUME AccountsInvariant, NEW h \in Handlers, Drop(h) \/ ShowLink(h)
  PROVE  AccountsInvariant'
<1>1. RowsTyped
  BY DEF AccountsInvariant, RowsOK
<1>2. events \in [EventIds -> EventRow]
  BY <1>1 DEF RowsTyped
<1>3. QED
  BY <1>1, <1>2, NextKept, EventStep DEF Drop, ShowLink

LEMMA AddStep ==
  ASSUME AccountsInvariant, NEW h \in Handlers, Add(h)
  PROVE  AccountsInvariant'
<1> DEFINE new == [owner |-> task[h].id, zone |-> task[h].copy.zone]
<1>1. /\ RowsTyped /\ TaskOK(task[h]) /\ Exists(task[h].id)
      /\ next.event \in EventIds /\ events' = [events EXCEPT ![next.event] = new]
      /\ next' = [next EXCEPT !.event = @ + 1]
      /\ Finish(h) /\ UNCHANGED <<owner, mode, users, answer, restarts, stored>>
  BY DEF AccountsInvariant, RowsOK, TasksOK, Add, MayOwn
<1>2. /\ next' \in [user : Nat \ {0}, token : Nat \ {0}, event : Nat \ {0}]
      /\ next'.user = next.user /\ next'.token = next.token
  <2>1. /\ next \in [user : Nat \ {0}, token : Nat \ {0}, event : Nat \ {0}]
        /\ next' = [next EXCEPT !.event = @ + 1]
    BY <1>1 DEF RowsTyped
  <2>2. QED
    BY <2>1
<1>3. new \in EventRow /\ new.owner = task[h].id
  BY <1>1 DEF TaskOK, TaskTyped, UserRow, EventRow, Exists
<1>4. /\ events' \in [EventIds -> EventRow]
      /\ \A e \in EventIds : events'[e] = events[e] \/ Exists(events'[e].owner)
  BY <1>1, <1>3 DEF RowsTyped
<1>5. QED
  BY <1>1, <1>2, <1>4, EventStep

LEMMA DeleteEventStep ==
  ASSUME AccountsInvariant, NEW h \in Handlers, NEW e \in EventIds, DeleteEvent(h, e)
  PROVE  AccountsInvariant'
<1>1. /\ RowsTyped /\ NoEvent \in EventRow /\ NoEvent.owner = NoId
      /\ events' = [events EXCEPT ![e] = NoEvent]
      /\ Finish(h) /\ UNCHANGED <<owner, mode, users, next, answer, restarts, stored>>
  BY AccountsAssumption DEF AccountsInvariant, RowsOK, DeleteEvent, NoEvent, EventRow
<1>2. /\ events' \in [EventIds -> EventRow]
      /\ \A f \in EventIds : events'[f] = events[f] \/ events'[f].owner = NoId
  BY <1>1 DEF RowsTyped
<1>3. QED
  BY <1>1, <1>2, NextKept, EventStep

LEMMA ForgetStep ==
  ASSUME AccountsInvariant, NEW h \in Handlers, Forget(h)
  PROVE  AccountsInvariant'
<1> DEFINE i == task[h].id
<1>1. /\ RowsTyped /\ RowsDiffer /\ TokensOnce /\ EventsHaveOwner /\ QuietHoursDiffer /\ LinkIsOwn
      /\ TaskOK(task[h]) /\ i \in UserIds
      /\ users' = [users EXCEPT ![i] = NoUser]
      /\ events' = [e \in EventIds |-> IF events[e].owner = i THEN NoEvent ELSE events[e]]
      /\ Finish(h) /\ UNCHANGED <<owner, mode, next, answer, restarts, stored>>
  BY DEF AccountsInvariant, RowsOK, TasksOK, TaskOK, Forget
<1>2. /\ users' \in [UserIds -> UserRow]
      /\ \A j \in UserIds : users'[j] = IF j = i THEN NoUser ELSE users[j]
      /\ NoUser.tg = Nobody /\ NoUser.token = NoId /\ NoUser.from # NoUser.to
  BY <1>1, NoUserTyped DEF RowsTyped, NoUser
<1>3. /\ events' \in [EventIds -> EventRow]
      /\ \A e \in EventIds : events'[e].owner # NoId =>
            events'[e].owner = events[e].owner /\ events[e].owner # i
  BY <1>1, AccountsAssumption DEF RowsTyped, EventRow, NoEvent
<1>4. RowsTyped' /\ RowsDiffer'
  BY <1>1, <1>2, <1>3 DEF RowsTyped, RowsDiffer, Exists
<1>5. TokensOnce' /\ QuietHoursDiffer' /\ LinkIsOwn'
  BY <1>1, <1>2 DEF TokensOnce, QuietHoursDiffer, LinkIsOwn, Exists
<1>6. EventsHaveOwner'
  BY <1>1, <1>2, <1>3 DEF EventsHaveOwner, Exists
<1>7. \A g \in Handlers : Undisturbing(task[g])
  BY <1>1, <1>2, NextKept DEF Undisturbing
<1>8. TasksOK' /\ PendingDiffer'
  BY <1>1, <1>4, <1>7, FinishTask
<1>9. QED
  BY <1>4, <1>5, <1>6, <1>8 DEF AccountsInvariant, RowsOK

LEMMA ChangedOK ==
  ASSUME NEW row \in UserRow, NEW wanted \in Choices
  PROVE  /\ ChangeOK(Changed(row, wanted)) /\ "token" \notin DOMAIN Changed(row, wanted)
         /\ Changed(row, wanted) = [c \in DOMAIN Changed(row, wanted) |-> Changed(row, wanted)[c]]
<1>1. CASE wanted \in QuietChoices
  BY <1>1, AccountsAssumption DEF ChangeOK, Changed, Quiet
<1>2. CASE wanted \in [zone : Zones]
  BY <1>2 DEF ChangeOK, Changed
<1>3. CASE wanted \in [voice : Voices]
  BY <1>3 DEF ChangeOK, Changed
<1>4. QED
  BY <1>1, <1>2, <1>3 DEF Choices

LEMMA ChangedToken ==
  ASSUME NEW row \in UserRow, NEW k \in Tokens
  PROVE  LET change == Changed(row, [token |-> k])
         IN  /\ ChangeOK(change) /\ change = [c \in DOMAIN change |-> change[c]]
             /\ "token" \in DOMAIN change => change["token"] = k
BY DEF ChangeOK, Changed

\* A handler that has read its row and is about to write some columns.
LEMMA ReadStep ==
  ASSUME AccountsInvariant, NEW h \in Handlers, NEW wanted, ReadRow(h, wanted),
         UNCHANGED <<owner, mode, users, events, answer, restarts, stored>>,
         next' \in [user : Nat \ {0}, token : Nat \ {0}, event : Nat \ {0}],
         next.user <= next'.user, next.token <= next'.token,
         NEW change, change = Changed(users[task[h].id], wanted),
         ChangeOK(change), change = [c \in DOMAIN change |-> change[c]],
         "token" \in DOMAIN change => change["token"] = next.token /\ next.token < next'.token
  PROVE  AccountsInvariant'
<1>1. /\ RowsOK /\ RowsTyped /\ TokensOnce /\ TaskOK(task[h]) /\ task[h].stage = "ready"
      /\ task' = [task EXCEPT ![h] = Update("writing", task[h].who, task[h].id, task[h].copy, change)]
  BY DEF AccountsInvariant, RowsOK, TasksOK, ReadRow
<1>2. RowsOK' /\ \A g \in Handlers : Undisturbing(task[g])
  BY <1>1, RowsKept, SameUsers
<1>3. PICK t : t = Update("writing", task[h].who, task[h].id, task[h].copy, change)
  OBVIOUS
<1>4. /\ t = [stage |-> t.stage, who |-> t.who, id |-> t.id, copy |-> t.copy, change |-> t.change]
      /\ t.stage = "writing" /\ t.who = task[h].who /\ t.id = task[h].id /\ t.copy = task[h].copy
      /\ t.change = change
  BY <1>3 DEF Update
<1>5. TaskTyped(t)
  BY <1>1, <1>4 DEF TaskTyped, TaskOK, Stages
<1>6. "token" \in DOMAIN t.change =>
        t.change["token"] < next'.token /\ t.change["token"] \notin stored'
  BY <1>1, <1>4 DEF TokensOnce, RowsTyped
<1>7. t.id < next'.user
  BY <1>1, <1>4, <1>5 DEF TaskOK, TaskTyped, RowsTyped, UserIds, NoId
<1>8. TaskOK(t)'
  BY <1>1, <1>4, <1>5, <1>6, <1>7 DEF TaskOK, TaskTyped, Exists
<1>9. TasksOK' /\ PendingDiffer'
  BY <1>1, <1>2, <1>3, <1>4, <1>8, OneTask
<1>10. QED
  BY <1>2, <1>9 DEF AccountsInvariant

LEMMA ChangeStep ==
  ASSUME AccountsInvariant, NEW h \in Handlers, Change(h) \/ Rotate(h)
  PROVE  AccountsInvariant'
<1>1. RowsTyped
  BY DEF AccountsInvariant, RowsOK
<1>2. CASE Change(h)
  <2>1. PICK wanted \in Choices : ReadRow(h, wanted)
    BY <1>2 DEF Change
  <2>2. users[task[h].id] \in UserRow
    BY <1>1, <2>1 DEF ReadRow, Exists, RowsTyped
  <2>3. PICK change : change = Changed(users[task[h].id], wanted)
    OBVIOUS
  <2>4. QED
    BY <1>1, <1>2, <2>1, <2>2, <2>3, ChangedOK, NextKept, ReadStep DEF Change
<1>3. CASE Rotate(h)
  <2>1. /\ ReadRow(h, [token |-> next.token]) /\ next.token \in Tokens
        /\ users[task[h].id] \in UserRow
    BY <1>1, <1>3 DEF Rotate, ReadRow, Exists, RowsTyped
  <2>2. PICK k : k = next.token
    OBVIOUS
  <2>3. PICK change : change = Changed(users[task[h].id], [token |-> k])
    OBVIOUS
  <2>4. /\ next' \in [user : Nat \ {0}, token : Nat \ {0}, event : Nat \ {0}]
        /\ next'.user = next.user /\ next'.token = next.token + 1
        /\ next.user \in Nat /\ next.token \in Nat
    BY <1>1, <1>3 DEF Rotate, RowsTyped
  <2>5. PICK wanted : wanted = [token |-> k]
    OBVIOUS
  <2>6. ReadRow(h, wanted) /\ change = Changed(users[task[h].id], wanted)
    BY <2>1, <2>2, <2>3, <2>5
  <2>7. /\ ChangeOK(change) /\ change = [c \in DOMAIN change |-> change[c]]
        /\ "token" \in DOMAIN change => change["token"] = next.token
    BY <2>1, <2>2, <2>3, ChangedToken
  <2>8. QED
    BY <1>3, <2>4, <2>6, <2>7, ReadStep DEF Rotate
<1>4. QED
  BY <1>2, <1>3
LEMMA OverwrittenOK ==
  ASSUME NEW row \in UserRow, NEW change, ChangeOK(change)
  PROVE  LET new == Overwritten(row, change)
         IN  /\ new \in UserRow /\ new.tg = row.tg /\ new.role = row.role
             /\ new.token = IF "token" \in DOMAIN change THEN change["token"] ELSE row.token
<1> DEFINE new == Overwritten(row, change)
<1>1. new = [c \in Columns |-> IF c \in DOMAIN change THEN change[c] ELSE row[c]]
  BY DEF Overwritten, UserRow, Columns
<1>2. new["tg"] = row["tg"] /\ new["role"] = row["role"]
  BY <1>1 DEF ChangeOK, Columns
<1>3. /\ new["voice"] \in Voices /\ new["zone"] \in Zones
      /\ new["from"] \in 0 .. 23 /\ new["to"] \in 0 .. 23
      /\ new["token"] \in Tokens \cup {NoId}
  BY <1>1 DEF ChangeOK, Columns, UserRow
<1>4. new["token"] = IF "token" \in DOMAIN change THEN change["token"] ELSE row["token"]
  BY <1>1 DEF Columns
<1> HIDE DEF new
<1>5. new = [tg |-> new["tg"], role |-> new["role"], voice |-> new["voice"], zone |-> new["zone"],
             from |-> new["from"], to |-> new["to"], token |-> new["token"]]
  BY <1>1 DEF Columns
<1>6. new \in UserRow
  BY <1>2, <1>3, <1>5 DEF UserRow
<1>7. QED
  BY <1>2, <1>4, <1>5, <1>6 DEF new

LEMMA WriteStep ==
  ASSUME AccountsInvariant, NEW h \in Handlers, Write(h)
  PROVE  AccountsInvariant'
<1> DEFINE i == task[h].id
           change == task[h].change
           row == Overwritten(users[i], change)
<1>1. /\ RowsTyped /\ RowsDiffer /\ TokensOnce /\ EventsHaveOwner /\ QuietHoursDiffer /\ LinkIsOwn
      /\ TaskOK(task[h]) /\ Exists(i) /\ i \in UserIds /\ users[i] \in UserRow
      /\ row.from # row.to
      /\ users' = [users EXCEPT ![i] = row]
      /\ answer' = IF "token" \in DOMAIN change
                   THEN [who |-> task[h].who, token |-> row.token] ELSE answer
      /\ Finish(h)
      /\ stored' = stored \cup {row.token}
      /\ UNCHANGED <<owner, mode, events, next, restarts>>
  BY DEF AccountsInvariant, RowsOK, TasksOK, RowsTyped, Write, QuietHoursValid, Exists
<1>2. /\ row \in UserRow /\ row.tg = users[i].tg /\ row.role = users[i].role
      /\ row.token = IF "token" \in DOMAIN change THEN change["token"] ELSE users[i].token
  BY <1>1, OverwrittenOK DEF TaskOK, TaskTyped
<1> HIDE DEF row
<1>3. /\ users' \in [UserIds -> UserRow] /\ users'[i] = row
      /\ \A j \in UserIds \ {i} : users'[j] = users[j]
      /\ \A j \in UserIds : users'[j].tg = users[j].tg
  BY <1>1, <1>2 DEF RowsTyped
<1>4. \A j : Exists(j)' <=> Exists(j)
  BY <1>3 DEF Exists
<1>5. /\ i < next.user /\ users[i].tg = task[h].who
      /\ users[i].token \in stored /\ users[i].token # NoId /\ users[i].token \in Tokens
      /\ row.token \in Tokens /\ row.token < next.token
      /\ "token" \in DOMAIN change => row.token \notin stored
  BY <1>1, <1>2 DEF TaskOK, TaskTyped, ChangeOK, TokensOnce, UserRow, RowsTyped
<1>6. row.token # NoId
  BY <1>5 DEF Tokens, NoId
<1>7. RowsTyped'
  BY <1>1, <1>3, <1>5 DEF RowsTyped, TaskOK, TaskTyped
<1>8. RowsDiffer'
  <2>1. \A j \in UserIds : next'.user <= j => users'[j] = NoUser
    BY <1>1, <1>3, <1>5 DEF RowsDiffer, RowsTyped, UserIds
  <2>2. QED
    BY <1>1, <1>3, <1>4, <2>1 DEF RowsDiffer
<1>9. TokensOnce'
  <2>1. ASSUME NEW j \in UserIds, NEW k \in UserIds,
               users'[j].token # NoId, users'[j].token = users'[k].token
        PROVE  j = k
    BY <1>1, <1>2, <1>3, <1>5, <2>1 DEF TokensOnce
  <2>2. /\ \A k \in stored' : k < next'.token
        /\ \A j \in UserIds : users'[j].token # NoId => users'[j].token \in stored'
        /\ \A j \in UserIds : Exists(j)' => users'[j].token # NoId
        /\ answer'.token # NoId => answer'.token \in stored'
    BY <1>1, <1>3, <1>4, <1>5, <1>6 DEF TokensOnce
  <2>3. QED
    BY <2>1, <2>2 DEF TokensOnce
<1>10. EventsHaveOwner' /\ QuietHoursDiffer'
  BY <1>1, <1>3, <1>4 DEF EventsHaveOwner, QuietHoursDiffer
<1>11. LinkIsOwn'
  <2>1. CASE "token" \in DOMAIN change
    BY <1>1, <1>3, <1>5, <1>6, <1>9, <2>1 DEF LinkIsOwn, TokensOnce
  <2>2. CASE "token" \notin DOMAIN change
    BY <1>1, <1>2, <1>3, <2>2 DEF LinkIsOwn
  <2>3. QED
    BY <2>1, <2>2
<1>12. ASSUME NEW g \in Handlers \ {h} PROVE Undisturbing(task[g])
  <2>1. \A j \in UserIds : users'[j].token # NoId /\ users'[j].token \in stored =>
          users'[j].token = users[j].token /\ users'[j].tg = users[j].tg
    BY <1>2, <1>3, <1>5
  <2>2. "token" \in DOMAIN task[g].change => task[g].change["token"] \notin stored' \ stored
    BY <1>1, <1>2, <1>5 DEF AccountsInvariant, PendingDiffer
  <2>3. \A j \in UserIds : users'[j].role = users[j].role
    BY <1>2, <1>3
  <2>4. QED
    BY <1>1, <1>3, <2>1, <2>2, <2>3, NextKept DEF Undisturbing
<1>13. TasksOK' /\ PendingDiffer'
  BY <1>1, <1>7, <1>12, FinishTask
<1>14. QED
  BY <1>7, <1>8, <1>9, <1>10, <1>11, <1>13 DEF AccountsInvariant, RowsOK

LEMMA ReconfigureStep ==
  ASSUME AccountsInvariant, Reconfigure
  PROVE  AccountsInvariant'
<1>1. RowsTyped /\ RowsTyped'
  BY DEF AccountsInvariant, RowsOK, RowsTyped, Reconfigure
<1>2. RowsDiffer' /\ TokensOnce' /\ EventsHaveOwner' /\ QuietHoursDiffer' /\ LinkIsOwn'
  BY DEF AccountsInvariant, RowsOK, Reconfigure, RowsDiffer, TokensOnce, EventsHaveOwner,
         QuietHoursDiffer, LinkIsOwn, Exists
<1>3. task' = [h \in Handlers |-> NoTask] /\ DOMAIN NoTask.change = {}
  BY DEF Reconfigure, NoTask, Update, NoChange
<1>4. TaskOK(NoTask)'
  BY <1>1, NoTaskOK, PTL
<1>5. TasksOK'
  BY <1>3, <1>4 DEF TasksOK, NoTask, Update
<1>6. PendingDiffer'
  BY <1>3 DEF PendingDiffer
<1>7. QED
  BY <1>1, <1>2, <1>5, <1>6 DEF AccountsInvariant, RowsOK

LEMMA AccountsNext == AccountsInvariant /\ [Next]_vars => AccountsInvariant'
<1> SUFFICES ASSUME AccountsInvariant, [Next]_vars PROVE AccountsInvariant'
  OBVIOUS
<1>1. ASSUME NEW h \in Handlers, NEW p \in People, NEW name \in Names \cup {NoName},
             Receive(h, p, name)
      PROVE  AccountsInvariant'
  BY <1>1, ReceiveStep
<1>2. ASSUME NEW h \in Handlers, Register(h) PROVE AccountsInvariant'
  BY <1>2, RegisterStep
<1>3. ASSUME NEW h \in Handlers, Promote(h) \/ Refresh(h) PROVE AccountsInvariant'
  BY <1>3, PromoteStep, RefreshStep
<1>4. ASSUME NEW h \in Handlers, Drop(h) \/ ShowLink(h) PROVE AccountsInvariant'
  BY <1>4, QuietStep
<1>5. ASSUME NEW h \in Handlers, Add(h) \/ Forget(h) PROVE AccountsInvariant'
  BY <1>5, AddStep, ForgetStep
<1>6. ASSUME NEW h \in Handlers, NEW e \in EventIds, DeleteEvent(h, e) PROVE AccountsInvariant'
  BY <1>6, DeleteEventStep
<1>7. ASSUME NEW h \in Handlers, Change(h) \/ Rotate(h) PROVE AccountsInvariant'
  BY <1>7, ChangeStep
<1>8. ASSUME NEW h \in Handlers, Write(h) PROVE AccountsInvariant'
  BY <1>8, WriteStep
<1>9. CASE Reconfigure
  BY <1>9, ReconfigureStep
<1>10. CASE UNCHANGED vars
  BY <1>10 DEF vars, AccountsInvariant, RowsOK, RowsTyped, RowsDiffer, TokensOnce, EventsHaveOwner,
               QuietHoursDiffer, LinkIsOwn, TasksOK, TaskOK, TaskTyped, PendingDiffer, Exists
<1>11. QED
  BY <1>1, <1>2, <1>3, <1>4, <1>5, <1>6, <1>7, <1>8, <1>9, <1>10 DEF Next

-----------------------------------------------------------------------------
\* The invariant holds of every behaviour.
THEOREM AccountsInvariance == Spec => []AccountsInvariant
BY AccountsInit, AccountsNext, PTL DEF Spec

\* Every row and every update in flight keeps its shape, and an UPDATE writes no
\* column but the settings and the token.
THEOREM AccountsTyped == Spec => []TypeOK
BY AccountsInvariance, InvariantTyped, PTL

\* However many first updates of a person come together, one row is his
\* (user.py:85-107).
THEOREM OnePerson == Spec => []OneAccount
<1>1. ASSUME AccountsInvariant PROVE OneAccount
  <2> SUFFICES ASSUME NEW p \in People PROVE Cardinality(RowsOf(p)) <= 1
    BY DEF OneAccount
  <2>1. CASE RowsOf(p) = {}
    BY <2>1, FS_EmptySet
  <2>2. CASE RowsOf(p) # {}
    <3>1. PICK i : i \in RowsOf(p)
      BY <2>2
    <3>2. RowsOf(p) = {i}
      BY <1>1, <3>1, AccountsAssumption DEF AccountsInvariant, RowsOK, RowsDiffer, RowsOf, Exists
    <3>3. QED
      BY <3>2, FS_Singleton
  <2>3. QED
    BY <2>1, <2>2
<1>2. QED
  BY <1>1, AccountsInvariance, PTL

\* No event is owned by an account that is gone (events.py:104-115).
THEOREM EventsOwned == Spec => []EventsHaveOwner
BY AccountsInvariance, PTL DEF AccountsInvariant, RowsOK

\* A shown link opens nobody else's feed (bot/handlers/ical.py:46).
THEOREM LinksOwn == Spec => []LinkIsOwn
BY AccountsInvariance, PTL DEF AccountsInvariant, RowsOK

\* The stored quiet hours differ whatever writes of single columns meet
\* (settings.py:157-161, models.py:135-139).
THEOREM HoursDiffer == Spec => []QuietHoursDiffer
BY AccountsInvariance, PTL DEF AccountsInvariant, RowsOK

\* The owner is treated as the owner from his first update on (user.py:91-121).
THEOREM OwnerRecognised == Spec => []OwnerActsAsOwner
BY AccountsInvariance, InvariantTyped, PTL

\* What a step does to an existing or erased row: nothing, or one update changes
\* it, which is its person's, and which stores an old token nowhere.
LEMMA RowStep ==
  ASSUME AccountsInvariant, [Next]_vars, NEW i \in UserIds, users'[i] # users[i]
  PROVE  /\ users'[i].token \in {users[i].token, NoId} \/ users'[i].token \notin stored
         /\ Exists(i) => \E h \in Handlers : task[h].who = users[i].tg /\ task'[h] # task[h]
<1>0. /\ RowsTyped /\ RowsDiffer /\ TokensOnce /\ \A h \in Handlers : TaskOK(task[h])
      /\ task = [h \in Handlers |-> task[h]]
  BY DEF AccountsInvariant, RowsOK, TasksOK
<1>1. ASSUME NEW h \in Handlers, Register(h)
      PROVE  ~Exists(i) /\ users'[i].token \notin stored
  <2>0. /\ next.user \in UserIds
        /\ users' = [users EXCEPT ![next.user] = [NoUser EXCEPT !.tg = task[h].who,
                        !.role = RoleOf(task[h].who), !.token = next.token]]
    BY <1>1 DEF Register, NewUserId, NewToken
  <2>1. i = next.user /\ users'[i].token = next.token
    <3>1. i = next.user
      BY <1>0, <2>0 DEF RowsTyped
    <3>2. [NoUser EXCEPT !.tg = task[h].who, !.role = RoleOf(task[h].who),
                         !.token = next.token].token = next.token
      BY DEF NoUser
    <3>3. QED
      BY <1>0, <2>0, <3>1, <3>2 DEF RowsTyped
  <2>2. QED
    BY <1>0, <2>1, AccountsAssumption DEF RowsTyped, RowsDiffer, TokensOnce, Exists, NoUser, UserIds
<1>2. ASSUME NEW h \in Handlers, Promote(h)
      PROVE  /\ users'[i].token = users[i].token
             /\ task[h].who = users[i].tg /\ task'[h] # task[h]
  <2>1. i = task[h].id /\ users'[i].token = users[i].token /\ Exists(i)
    BY <1>0, <1>2 DEF Promote, RowsTyped, UserRow
  <2>2. task[h].stage = "promoting" /\ task'[h].stage = "committed"
    BY <1>0, <1>2 DEF Promote, Update
  <2>3. QED
    BY <1>0, <2>1, <2>2 DEF TaskOK
<1>3. ASSUME NEW h \in Handlers, Forget(h)
      PROVE  /\ users'[i].token = NoId
             /\ Exists(i) => task[h].who = users[i].tg /\ task'[h] # task[h]
  <2>1. i = task[h].id /\ users'[i].token = NoId
    BY <1>0, <1>3 DEF Forget, RowsTyped, NoUser
  <2>2. task[h].stage = "ready" /\ task'[h].stage = "idle"
    BY <1>0, <1>3 DEF Forget, Finish, NoTask, Update
  <2>3. QED
    BY <1>0, <2>1, <2>2 DEF TaskOK
<1>4. ASSUME NEW h \in Handlers, Write(h)
      PROVE  /\ users'[i].token = users[i].token \/ users'[i].token \notin stored
             /\ task[h].who = users[i].tg /\ task'[h] # task[h]
  <2>1. /\ i = task[h].id /\ Exists(i) /\ users[i] \in UserRow
        /\ users'[i] = Overwritten(users[i], task[h].change)
    BY <1>0, <1>4 DEF Write, RowsTyped
  <2>2. users'[i].token = IF "token" \in DOMAIN task[h].change THEN task[h].change["token"]
                                                              ELSE users[i].token
    <3>1. ChangeOK(task[h].change) /\ users[i] \in UserRow
      BY <1>0, <2>1 DEF TaskOK, TaskTyped
    <3>2. Overwritten(users[i], task[h].change).token =
            IF "token" \in DOMAIN task[h].change THEN task[h].change["token"] ELSE users[i].token
      BY <3>1, OverwrittenOK
    <3>3. QED
      BY <2>1, <3>2
  <2>3. task[h].stage = "writing" /\ task'[h].stage = "idle"
    BY <1>0, <1>4 DEF Write, Finish, NoTask, Update
  <2>4. QED
    BY <1>0, <2>1, <2>2, <2>3 DEF TaskOK
<1>5. \/ \E h \in Handlers : Register(h) \/ Promote(h) \/ Forget(h) \/ Write(h)
      \/ users' = users
  BY DEF Next, vars, Receive, Refresh, Drop, Add, ShowLink, DeleteEvent, Change, Rotate, Reconfigure
<1>6. QED
  BY <1>1, <1>2, <1>3, <1>4, <1>5

\* A replaced or erased token stays dead, whatever handlers still hold of it
\* (bot/handlers/ical.py:75-79).
THEOREM Revocation == Spec => RevokedStaysRevoked
<1>1. ASSUME AccountsInvariant, [Next]_vars
      PROVE  \A k \in stored \ Live : k \notin Live'
  <2> SUFFICES ASSUME NEW k \in stored \ Live, k \in Live' PROVE FALSE
    OBVIOUS
  <2>1. PICK i \in UserIds : users'[i].token = k /\ k # NoId
    BY DEF Live
  <2>2. users[i].token # k
    BY <2>1 DEF Live
  <2>3. QED
    BY <1>1, <2>1, <2>2, RowStep
<1>2. AccountsInvariant /\ [Next]_vars => [\A k \in stored \ Live : k \notin Live']_vars
  BY <1>1
<1>3. QED
  BY <1>2, AccountsInvariance, PTL DEF Spec, RevokedStaysRevoked

\* Nobody's update changes or erases the row of somebody else (user.py:121).
THEOREM OwnUpdates == Spec => OnlyOwnUpdates
<1>1. ASSUME AccountsInvariant, [Next]_vars
      PROVE  \A i \in UserIds : Exists(i) /\ users'[i] # users[i]
               => \E h \in Handlers : task[h].who = users[i].tg /\ task'[h] # task[h]
  BY <1>1, RowStep
<1>2. AccountsInvariant /\ [Next]_vars =>
        [\A i \in UserIds : Exists(i) /\ users'[i] # users[i]
           => \E h \in Handlers : task[h].who = users[i].tg /\ task'[h] # task[h]]_vars
  BY <1>1
<1>3. QED
  BY <1>2, AccountsInvariance, PTL DEF Spec, OnlyOwnUpdates
=============================================================================
