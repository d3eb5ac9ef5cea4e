---------------------------- MODULE RateLimiter ----------------------------
(***************************************************************************)
(* The sliding window of core/rate_limit.py on one key, and the middleware *)
(* that asks it about every request for a feed (one key per client         *)
(* address; keys do not meet).  The workers run checks concurrently; Redis *)
(* runs one command, or one MULTI/EXEC, at a time.                         *)
(*                                                                         *)
(* A check takes the time, then sends a transaction that trims, counts and *)
(* adds, and, when the count was too high, takes its own entry out again   *)
(* with a second command.  Time is counted in the resolution of the        *)
(* member, so that the sorted set is a set of instants.                    *)
(***************************************************************************)
EXTENDS Integers, FiniteSets

CONSTANTS
  Checks,      \* the calls of RateLimiter.check
  Limits,      \* the values ICAL_RATE_LIMIT_PER_IP_HOURLY may have
  Window,      \* window_seconds
  MaxDelay,    \* the longest time between time.time() and the EXEC
  MaxTime,     \* bound: the last instant of the clock
  MaxLosses    \* bound: restarts and evictions of Redis

ASSUME LimiterAssumption ==
  /\ IsFiniteSet(Checks)
  /\ Limits \subseteq Nat
  /\ Window \in Nat \ {0} /\ MaxDelay \in Nat
  /\ MaxTime \in Nat /\ MaxLosses \in Nat

VARIABLES
  clock,     \* now
  limit,     \* the setting the workers were started with
  entries,   \* the sorted set: every score is its own member
  expires,   \* when the key runs out, set anew by every EXPIRE
  check,     \* the calls, finished ones included
  losses     \* times Redis has lost the key

vars == <<clock, limit, entries, expires, check, losses>>

Stages == {"new", "stamped", "under", "over", "removed",
           "admitted", "denied", "failed"}
InFlight == {"stamped", "under", "over", "removed"}
Call == [stage : Stages, now : Nat, retry : Nat]
NewCall == [stage |-> "new", now |-> 0, retry |-> 0]

In(stage) == {c \in Checks : check[c].stage = stage}

Goto(c, stage) == check' = [check EXCEPT ![c].stage = stage]

-----------------------------------------------------------------------------
Init ==
  /\ clock = 0
  /\ limit \in Limits
  /\ entries = {}
  /\ expires = 0
  /\ check = [c \in Checks |-> NewCall]
  /\ losses = 0

\* limit <= 0: the layer is off and Redis is not asked.
PassThrough(c) ==
  /\ check[c].stage = "new"
  /\ limit = 0
  /\ check' = [check EXCEPT ![c].stage = "admitted", ![c].now = clock]
  /\ UNCHANGED <<clock, limit, entries, expires, losses>>

\* now = time.time(), before anything is sent.
Stamp(c) ==
  /\ check[c].stage = "new"
  /\ limit > 0
  /\ check' = [check EXCEPT ![c].stage = "stamped", ![c].now = clock]
  /\ UNCHANGED <<clock, limit, entries, expires, losses>>

\* Slip: the entry exactly one window old is kept.
TrimmedLate(now) == {e \in entries : e >= now - Window}
\* Slip: everything older than this check is dropped.
TrimmedAll(now) == {e \in entries : e > now}

\* ZREMRANGEBYSCORE 0 .. cutoff, the cutoff included.
Trimmed(now) == {e \in entries : e > now - Window}

\* ZADD: the score is the stamp.
Added(now) == Trimmed(now) \cup {now}

\* The transaction: trim, count, add, EXPIRE.  The entry is added whatever the
\* count was.
Execute(c) ==
  LET now == check[c].now
  IN  /\ check[c].stage = "stamped"
      /\ entries' = Added(now)
      /\ expires' = clock + Window + 1
      /\ Goto(c, IF Cardinality(Trimmed(now)) >= limit THEN "over" ELSE "under")
      /\ UNCHANGED <<clock, limit, losses>>

Admit(c) ==
  /\ check[c].stage = "under"
  /\ Goto(c, "admitted")
  /\ UNCHANGED <<clock, limit, entries, expires, losses>>

\* ZREM of the member this check has added.
Remove(c) ==
  /\ check[c].stage = "over"
  /\ entries' = entries \ {check[c].now}
  /\ Goto(c, "removed")
  /\ UNCHANGED <<clock, limit, expires, losses>>

\* ZRANGE 0 0: the answer 429 says when the oldest entry left will be too old.
Deny(c) ==
  /\ check[c].stage = "removed"
  /\ \E wait \in 0 .. clock + Window :
       /\ IF entries = {} THEN wait = 0
          ELSE \E oldest \in entries :
                 /\ \A e \in entries : oldest <= e
                 /\ wait = IF oldest + Window >= check[c].now
                           THEN oldest + Window - check[c].now ELSE 0
       /\ check' = [check EXCEPT ![c].stage = "denied", ![c].retry = wait]
  /\ UNCHANGED <<clock, limit, entries, expires, losses>>

\* A command fails, its answer is lost or the worker is killed: the request
\* ends in an error, and what reached Redis stays there.
Fail(c) ==
  /\ check[c].stage \in InFlight
  /\ Goto(c, "failed")
  /\ UNCHANGED <<clock, limit, entries, expires, losses>>

\* Redis restarts (nothing is persisted) or evicts the key.
LoseKey ==
  /\ losses < MaxLosses
  /\ losses' = losses + 1
  /\ entries' = {}
  /\ UNCHANGED <<clock, limit, expires, check>>

\* Time passes, no further than the slowest transaction allows; a key whose
\* time has come is gone.
Advance ==
  /\ clock < MaxTime
  /\ \A c \in In("stamped") : clock < check[c].now + MaxDelay
  /\ clock' = clock + 1
  /\ entries' = IF expires <= clock + 1 THEN {} ELSE entries
  /\ UNCHANGED <<limit, expires, check, losses>>

Next ==
  \/ \E c \in Checks :
       \/ PassThrough(c) \/ Stamp(c) \/ Execute(c) \/ Admit(c)
       \/ Remove(c) \/ Deny(c) \/ Fail(c)
  \/ LoseKey
  \/ Advance

Spec == Init /\ [][Next]_vars

-----------------------------------------------------------------------------
(* Properties.                                                              *)

\* Every variable keeps its shape, and a check waits no longer than MaxDelay
\* for its transaction.
TypeOK ==
  /\ clock \in Nat
  /\ limit \in Limits
  /\ entries \subseteq 0 .. clock
  /\ expires \in Nat
  /\ check \in [Checks -> Call]
  /\ losses \in Nat
  /\ \A c \in Checks : check[c].now <= clock
  /\ \A c \in In("stamped") : clock <= check[c].now + MaxDelay

\* No two checks have taken the same instant.
DistinctStamps ==
  \A c, d \in Checks :
    check[c].stage # "new" /\ check[d].stage # "new" /\ check[c].now = check[d].now
      => c = d

\* The checks let through (or about to be) with a stamp in from+1 .. to.
Passed(from, to) ==
  {c \in In("under") \cup In("admitted") : from < check[c].now /\ check[c].now <= to}

\* The rate holds: a window shortened by the delay between stamp and execution
\* never has more than `limit` requests let through, in whatever order the
\* transactions arrive, with denied checks in flight and failed ones left behind
\* (rate_limit.py:60-90).  Redis must have kept the key and no two checks may
\* have drawn the same member.
AtMostLimit ==
  limit > 0 /\ losses = 0 /\ DistinctStamps =>
    \A from \in -1 .. clock :
      Cardinality(Passed(from, from + Window - MaxDelay)) <= limit

\* The window slides: a check over the limit, or denied, has `limit` others
\* whose stamps lie less than one window before its own (or later); older
\* requests never count against it, not even when nobody has trimmed the set
\* for a while (rate_limit.py:65-73).
DenialHasCause ==
  \A c \in In("over") \cup In("removed") \cup In("denied") :
    Cardinality({d \in Checks \ {c} : /\ check[d].stage \notin {"new", "stamped"}
                                      /\ check[d].now > check[c].now - Window}) >= limit

-----------------------------------------------------------------------------
(* What the module's own text promises and the code does not keep.          *)

\* "two concurrent requests can't both ZADD past the threshold"
\* (rate_limit.py:13-14): the sorted set is never two entries past the limit.
NeverBothPastThreshold == limit > 0 => Cardinality(entries) <= limit + 1

\* "uniquify members so ZADD doesn't dedup" (rate_limit.py:62): the rate holds,
\* whatever instants the checks have drawn.
AtMostLimitAlways ==
  limit > 0 /\ losses = 0 =>
    \A from \in -1 .. clock :
      Cardinality(Passed(from, from + Window - MaxDelay)) <= limit
=============================================================================
