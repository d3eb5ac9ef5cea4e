------------------------------ MODULE Accounts ------------------------------
(***************************************************************************)
(* Accounts: the middleware that looks up or registers the sender of every *)
(* update (bot/middleware/user.py), and the commands that use what it      *)
(* found: /add, /delete, /ical, /rotate_ical, /voice, /timezone, /quiet    *)
(* and the confirmed /forget; and the feed that only knows the token.      *)
(*                                                                         *)
(* Updates are handled concurrently, by several processes, also updates of *)
(* one person.  The middleware closes its session before the handler runs, *)
(* so the handler works with a detached copy of the users row; the         *)
(* handlers that change the row read it again by its id, in a session of   *)
(* their own that writes back the columns it has changed.  Row ids and     *)
(* tokens are never used twice.                                            *)
(***************************************************************************)
EXTENDS Integers, FiniteSets

CONSTANTS
  People,        \* Telegram ids
  Nobody,
  Handlers,      \* updates that may be in flight at once
  Names,         \* Telegram usernames
  NoName,
  Whitelist,     \* WHITELIST_TG_USERNAMES
  Modes,         \* values REGISTRATION_MODE is given
  QuietChoices,  \* arguments /quiet accepts
  DefaultQuiet,  \* QUIET_FROM_HOUR, QUIET_TO_HOUR
  Zones, DefaultZone,
  Voices, DefaultVoice,
  MaxUsers, MaxTokens, MaxEvents,   \* bounds: ids and tokens handed out
  MaxRestarts                       \* bound: restarts with a new configuration

Quiet == [from : 0 .. 23, to : 0 .. 23]

ASSUME AccountsAssumption ==
  /\ Nobody \notin People /\ NoName \notin Names /\ Whitelist \subseteq Names
  /\ Modes \subseteq {"open", "whitelist", "invite"}
  /\ QuietChoices \subseteq Quiet /\ DefaultQuiet \in Quiet
  /\ \A q \in QuietChoices \cup {DefaultQuiet} : q.from # q.to
  /\ DefaultZone \in Zones /\ DefaultVoice \in Voices
  /\ MaxUsers \in Nat /\ MaxTokens \in Nat /\ MaxEvents \in Nat /\ MaxRestarts \in Nat

VARIABLES
  owner,     \* OWNER_TG_ID
  mode,      \* REGISTRATION_MODE
  users,     \* users rows
  events,    \* events rows: the owner's id and the zone the time was read in
  next,      \* the id sequences, and the tokens generated so far
  task,      \* the updates in flight
  answer,    \* the last link shown, and to whom
  restarts,
  stored     \* history: every token a row has had

vars == <<owner, mode, users, events, next, task, answer, restarts, stored>>

UserIds == 1 .. MaxUsers
Tokens == 1 .. MaxTokens
EventIds == 1 .. MaxEvents
NoId == 0

UserRow == [tg : People \cup {Nobody}, role : {"owner", "member"}, voice : Voices,
            zone : Zones, from : 0 .. 23, to : 0 .. 23, token : Tokens \cup {NoId}]
NoUser == [tg |-> Nobody, role |-> "member", voice |-> DefaultVoice,
           zone |-> DefaultZone, from |-> DefaultQuiet.from, to |-> DefaultQuiet.to,
           token |-> NoId]
Exists(i) == i \in UserIds /\ users[i].tg # Nobody
RowsOf(p) == {i \in UserIds : users[i].tg = p}

EventRow == [owner : UserIds \cup {NoId}, zone : Zones]
NoEvent == [owner |-> NoId, zone |-> DefaultZone]

\* An update: its sender, the id and the copy of the row the middleware has
\* found, and the columns its handler is about to write.
Stages == {"idle", "registering", "promoting", "committed", "ready", "writing"}
NoChange == [c \in {} |-> 0]
Update(stage, who, id, copy, change) ==
  [stage |-> stage, who |-> who, id |-> id, copy |-> copy, change |-> change]
NoTask == Update("idle", Nobody, NoId, NoUser, NoChange)
NoAnswer == [who |-> Nobody, token |-> NoId]

Finish(h) == task' = [task EXCEPT ![h] = NoTask]
Dispatch(h, i) == task' = [task EXCEPT ![h] = Update("ready", @.who, i, users[i], NoChange)]

-----------------------------------------------------------------------------
Init ==
  /\ owner \in People
  /\ mode \in Modes
  /\ users = [i \in UserIds |-> NoUser]
  /\ events = [e \in EventIds |-> NoEvent]
  /\ next = [user |-> 1, token |-> 1, event |-> 1]
  /\ task = [h \in Handlers |-> NoTask]
  /\ answer = NoAnswer
  /\ restarts = 0
  /\ stored = {}

-----------------------------------------------------------------------------
(* The middleware.                                                          *)

\* _allowed_to_register.
AllowedToRegister(p, name) ==
  \/ p = owner
  \/ mode = "open"
  \/ mode = "whitelist" /\ name \in Whitelist

\* The row of the sender is looked up.  A stranger who may not register gets no
\* row, and every handler only tells him so: that update is left out.
Receive(h, p, name) ==
  /\ task[h] = NoTask
  /\ \/ /\ RowsOf(p) = {} /\ AllowedToRegister(p, name)
        /\ task' = [task EXCEPT ![h] = Update("registering", p, NoId, NoUser, NoChange)]
     \/ \E i \in RowsOf(p) :
          task' = [task EXCEPT ![h] =
            Update(IF p = owner /\ users[i].role # "owner" THEN "promoting" ELSE "ready",
                   p, i, users[i], NoChange)]
  /\ UNCHANGED <<owner, mode, users, events, next, answer, restarts, stored>>

\* Slip: the column is not declared unique.
MayInsertTwice(p) == TRUE
\* The unique constraint on tg_id.
MayInsert(p) == RowsOf(p) = {}

\* Slip: the owner becomes a member, and is promoted by the next update only.
MemberFirst(p) == "member"
\* The role of a new row.
RoleOf(p) == IF p = owner THEN "owner" ELSE "member"

\* Slip: the lowest id that is free is taken again.
LowestFree == CHOOSE i \in UserIds :
                ~Exists(i) /\ \A j \in UserIds : ~Exists(j) => i <= j
NewUserId == next.user

\* Slip: the token is derived from how many accounts there are.
TokenOfCount == Cardinality({i \in UserIds : Exists(i)}) + 1
\* secrets.token_hex(16).
NewToken == next.token

\* INSERT and commit, with the defaults of the instance and a fresh token.
Register(h) ==
  LET p == task[h].who
  IN  /\ task[h].stage = "registering"
      /\ MayInsert(p)
      /\ next.user \in UserIds /\ next.token \in Tokens
      /\ users' = [users EXCEPT ![NewUserId] =
                    [NoUser EXCEPT !.tg = p, !.role = RoleOf(p), !.token = NewToken]]
      /\ next' = [user |-> next.user + 1, token |-> next.token + 1, event |-> next.event]
      /\ task' = [task EXCEPT ![h] = Update("committed", p, NewUserId, NoUser, NoChange)]
      /\ stored' = stored \cup {NewToken}
      /\ UNCHANGED <<owner, mode, events, answer, restarts>>

\* A row found as a member while .env names its owner.  When the row is gone the
\* UPDATE matches nothing and raises.
Promote(h) ==
  /\ task[h].stage = "promoting"
  /\ Exists(task[h].id)
  /\ users' = [users EXCEPT ![task[h].id].role = "owner"]
  /\ task' = [task EXCEPT ![h] = Update("committed", @.who, @.id, @.copy, NoChange)]
  /\ UNCHANGED <<owner, mode, events, next, answer, restarts, stored>>

\* refresh() after either commit reads the row again; gone, it raises.
Refresh(h) ==
  /\ task[h].stage = "committed"
  /\ Exists(task[h].id)
  /\ Dispatch(h, task[h].id)
  /\ UNCHANGED <<owner, mode, users, events, next, answer, restarts, stored>>

\* The update ends with nothing done: a unique violation, a row that is gone, a
\* handler that only answers, a lost connection, a killed process.
Drop(h) ==
  /\ task[h] # NoTask
  /\ Finish(h)
  /\ UNCHANGED <<owner, mode, users, events, next, answer, restarts, stored>>

-----------------------------------------------------------------------------
(* The handlers that do not change the users row.                           *)

\* Slip: the events table has no foreign key.
AnyOwner(i) == TRUE
\* The foreign key of events.owner_user_id; without the row /add is told to retry.
MayOwn(i) == Exists(i)

\* /add: the time is read in the zone of the copy.
Add(h) ==
  /\ task[h].stage = "ready"
  /\ MayOwn(task[h].id)
  /\ next.event \in EventIds
  /\ events' = [events EXCEPT ![next.event] =
                 [owner |-> task[h].id, zone |-> task[h].copy.zone]]
  /\ next' = [next EXCEPT !.event = @ + 1]
  /\ Finish(h)
  /\ UNCHANGED <<owner, mode, users, answer, restarts, stored>>

\* /delete finds the event by its id and the id of the copy.
DeleteEvent(h, e) ==
  /\ task[h].stage = "ready"
  /\ events[e].owner = task[h].id
  /\ events' = [events EXCEPT ![e] = NoEvent]
  /\ Finish(h)
  /\ UNCHANGED <<owner, mode, users, next, answer, restarts, stored>>

\* /ical shows the link of the copy.
ShowLink(h) ==
  /\ task[h].stage = "ready"
  /\ answer' = [who |-> task[h].who, token |-> task[h].copy.token]
  /\ Finish(h)
  /\ UNCHANGED <<owner, mode, users, events, next, restarts, stored>>

\* /forget, confirmed: the row goes, and what hangs on it by ON DELETE CASCADE.
Forget(h) ==
  LET i == task[h].id
  IN  /\ task[h].stage = "ready"
      /\ users' = [users EXCEPT ![i] = NoUser]
      /\ events' = [e \in EventIds |-> IF events[e].owner = i THEN NoEvent ELSE events[e]]
      /\ Finish(h)
      /\ UNCHANGED <<owner, mode, next, answer, restarts, stored>>

-----------------------------------------------------------------------------
(* The handlers that change the users row: a read by id, then a commit.     *)

\* Slip: /timezone stores what was typed, known to the tz database or not.
AsTyped == QuietChoices \cup [zone : Zones \cup {"typed"}] \cup [voice : Voices]
\* What /quiet, /timezone and /voice may ask for.
Choices == QuietChoices \cup [zone : Zones] \cup [voice : Voices]

\* Slip: every column of the row is written back.
WholeRow(row, wanted) ==
  [c \in DOMAIN row |-> IF c \in DOMAIN wanted THEN wanted[c] ELSE row[c]]
\* The columns of the UPDATE: those that differ from what was read.
Changed(row, wanted) ==
  [c \in {c \in DOMAIN wanted : wanted[c] # row[c]} |-> wanted[c]]

ReadRow(h, wanted) ==
  /\ task[h].stage = "ready"
  /\ Exists(task[h].id)
  /\ task' = [task EXCEPT ![h] =
                 Update("writing", @.who, @.id, @.copy, Changed(users[@.id], wanted))]

Change(h) ==
  /\ \E wanted \in Choices : ReadRow(h, wanted)
  /\ UNCHANGED <<owner, mode, users, events, next, answer, restarts, stored>>

\* /rotate_ical generates the token first.
Rotate(h) ==
  /\ next.token \in Tokens
  /\ ReadRow(h, [token |-> next.token])
  /\ next' = [next EXCEPT !.token = @ + 1]
  /\ UNCHANGED <<owner, mode, users, events, answer, restarts, stored>>

Overwritten(row, change) ==
  [c \in DOMAIN row |-> IF c \in DOMAIN change THEN change[c] ELSE row[c]]

\* Slip: only the handler checks that the two hours differ.
Unchecked(row) == TRUE
\* CHECK quiet_hours_valid, on the row as the UPDATE leaves it.
QuietHoursValid(row) == row.from # row.to

\* The commit; with a row that is gone or a check that fails it raises.
Write(h) ==
  LET i == task[h].id
      row == Overwritten(users[i], task[h].change)
  IN  /\ task[h].stage = "writing"
      /\ Exists(i)
      /\ QuietHoursValid(row)
      /\ users' = [users EXCEPT ![i] = row]
      /\ answer' = IF "token" \in DOMAIN task[h].change
                   THEN [who |-> task[h].who, token |-> row.token] ELSE answer
      /\ Finish(h)
      /\ stored' = stored \cup {row.token}
      /\ UNCHANGED <<owner, mode, events, next, restarts>>

\* The operator names another owner or changes the policy: everything restarts.
Reconfigure ==
  /\ restarts < MaxRestarts
  /\ restarts' = restarts + 1
  /\ owner' \in People /\ mode' \in Modes
  /\ task' = [h \in Handlers |-> NoTask]
  /\ UNCHANGED <<users, events, next, answer, stored>>

Next ==
  \/ \E h \in Handlers :
       \/ \E p \in People, name \in Names \cup {NoName} : Receive(h, p, name)
       \/ Register(h) \/ Promote(h) \/ Refresh(h) \/ Drop(h)
       \/ Add(h) \/ ShowLink(h) \/ Forget(h)
       \/ \E e \in EventIds : DeleteEvent(h, e)
       \/ Change(h) \/ Rotate(h) \/ Write(h)
  \/ Reconfigure

Spec == Init /\ [][Next]_vars

-----------------------------------------------------------------------------
(* Properties.                                                              *)

\* An UPDATE never touches the Telegram id or the role, and keeps the types of
\* the columns it writes.
ChangeOK(change) ==
  /\ DOMAIN change \subseteq {"voice", "zone", "from", "to", "token"}
  /\ "voice" \in DOMAIN change => change["voice"] \in Voices
  /\ "zone" \in DOMAIN change => change["zone"] \in Zones
  /\ "from" \in DOMAIN change => change["from"] \in 0 .. 23
  /\ "to" \in DOMAIN change => change["to"] \in 0 .. 23
  /\ "token" \in DOMAIN change => change["token"] \in Tokens

TypeOK ==
  /\ owner \in People /\ mode \in Modes
  /\ users \in [UserIds -> UserRow]
  /\ events \in [EventIds -> EventRow]
  /\ next \in [user : Nat \ {0}, token : Nat \ {0}, event : Nat \ {0}]
  /\ \A h \in Handlers :
       /\ task[h].stage \in Stages /\ task[h].who \in People \cup {Nobody}
       /\ task[h].id \in UserIds \cup {NoId} /\ task[h].copy \in UserRow
       /\ ChangeOK(task[h].change)
  /\ answer \in [who : People \cup {Nobody}, token : Tokens \cup {NoId}]
  /\ restarts \in Nat /\ stored \subseteq Tokens

\* One person has one account, also when the first updates come together
\* (user.py:85-107): the loser's update is lost, not its account doubled.
OneAccount == \A p \in People : Cardinality(RowsOf(p)) <= 1

\* Nothing is owned by an account that is gone, also not what an update that was
\* under way when it was erased has inserted (events.py:104-115, forget.py:84-89).
EventsHaveOwner == \A e \in EventIds : events[e].owner # NoId => Exists(events[e].owner)

\* The tokens that open a feed.
Live == {users[i].token : i \in UserIds} \ {NoId}

\* A token that was replaced, or whose account was erased, never opens a feed
\* again, whatever handlers read the row before (ical.py:75-79, settings.py:58-61):
\* "the old subscription stops working".
RevokedStaysRevoked == [][\A k \in stored \ Live : k \notin Live']_vars

\* A link shown to one person never opens the feed of another (ical.py:46,
\* ical.py:52-58 of the routes).
LinkIsOwn == \A i \in UserIds : answer.token # NoId /\ users[i].token = answer.token
                                  => users[i].tg = answer.who

\* A row is changed or deleted only by an update of its own person, although
\* handlers hold ids of rows that may have been erased since (user.py:121).
OnlyOwnUpdates ==
  [][\A i \in UserIds : Exists(i) /\ users'[i] # users[i]
       => \E h \in Handlers : task[h].who = users[i].tg /\ task'[h] # task[h]]_vars

\* The stored hours differ, although two /quiet under way at once write one
\* column each (settings.py:157-161).
QuietHoursDiffer == \A i \in UserIds : users[i].from # users[i].to

\* Whoever .env names as the owner is treated as the owner, also by the update
\* that registers or promotes him (user.py:91-121).
OwnerActsAsOwner ==
  \A h \in Handlers : task[h].stage = "ready" /\ task[h].who = owner
                        => task[h].copy.role = "owner"

-----------------------------------------------------------------------------
(* What the texts promise and the code does not keep.                       *)

\* "Quiet hours: <from> -> <to>" (settings.py:164): the stored hours are a pair
\* some /quiet has asked for, or the default.
QuietAsAnswered ==
  \A i \in UserIds : [from |-> users[i].from, to |-> users[i].to]
                       \in QuietChoices \cup {DefaultQuiet}

\* "Copy the URL and add it as a subscription" (ical.py:56): a link works when it
\* is shown.
ShownLinkWorks == [][answer' # answer => answer'.token \in Live']_vars
=============================================================================
