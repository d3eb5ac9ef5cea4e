------------------------- MODULE RateLimiterProofs -------------------------
(* Proofs about RateLimiter, for any number of checks, any limit, window    *)
(* and delay.  Cardinalities enter in one place only: the transaction that  *)
(* lets a check through counts every entry the bound counts.                *)
EXTENDS RateLimiter, FiniteSetTheorems, TLAPS

\* Every entry runs out with the key or before it: the EXPIRE of the last
\* transaction outlives them all (rate_limit.py:67-68).
OutlivedByKey == \A e \in entries : e + Window < expires

\* The checks let through, at any time.
LetThrough == In("under") \cup In("admitted")

\* Unless Redis lost the key or two checks drew one member, the entry of every
\* check let through is in the set until it is a window old.
EntriesKept ==
  limit > 0 /\ losses = 0 /\ DistinctStamps =>
    \A c \in LetThrough : check[c].now \in entries \/ check[c].now <= clock - Window

\* What every step preserves.
LimiterInvariant == TypeOK /\ OutlivedByKey /\ EntriesKept /\ AtMostLimit

\* Stamps are drawn once and kept, so later distinctness implies earlier one.
LEMMA StampsStay ==
  ASSUME TypeOK, Next
  PROVE  /\ \A c \in Checks : check[c].stage # "new" =>
              check'[c].stage # "new" /\ check'[c].now = check[c].now
         /\ DistinctStamps' => DistinctStamps
         /\ losses' = 0 => losses = 0
         /\ limit' = limit
<1> DEFINE Kept == \A c \in Checks : check[c].stage # "new" =>
                     check'[c].stage # "new" /\ check'[c].now = check[c].now
<1>1. limit' = limit /\ (losses' = 0 => losses = 0)
  <2>1. LoseKey => limit' = limit /\ losses' # 0
    BY DEF LoseKey, TypeOK
  <2>2. Next => limit' = limit /\ (losses' = losses \/ LoseKey)
    BY DEF Next, PassThrough, Stamp, Execute, Admit, Remove, Deny, Fail, LoseKey, Advance
  <2>3. QED
    BY <2>1, <2>2
<1>2. Kept
  <2>1. ASSUME NEW c \in Checks, PassThrough(c) \/ Stamp(c)
        PROVE  Kept
    BY <2>1 DEF PassThrough, Stamp, TypeOK
  <2>2. ASSUME NEW c \in Checks, Execute(c)
        PROVE  Kept
    <3>1. PICK s \in {"over", "under"} : check' = [check EXCEPT ![c].stage = s]
      BY <2>2 DEF Execute, Goto
    <3>2. QED
      BY <3>1 DEF TypeOK, Call
  <2>3. ASSUME NEW c \in Checks, Admit(c) \/ Remove(c) \/ Fail(c)
        PROVE  Kept
    BY <2>3 DEF Admit, Remove, Fail, Goto, TypeOK, Call
  <2>4. ASSUME NEW c \in Checks, Deny(c)
        PROVE  Kept
    BY <2>4 DEF Deny, TypeOK, Call
  <2>5. CASE LoseKey \/ Advance
    BY <2>5 DEF LoseKey, Advance
  <2>6. QED
    BY <2>1, <2>2, <2>3, <2>4, <2>5 DEF Next
<1>3. DistinctStamps' => DistinctStamps
  BY <1>2 DEF DistinctStamps
<1>4. QED
  BY <1>1, <1>2, <1>3

LEMMA TypeStep ==
  ASSUME TypeOK, [Next]_vars
  PROVE  TypeOK'
<1> USE DEF In
<1>1. CASE UNCHANGED vars
  BY <1>1 DEF vars, TypeOK
<1>2. ASSUME NEW c \in Checks, PassThrough(c) \/ Stamp(c)
      PROVE  TypeOK'
  BY <1>2, LimiterAssumption DEF PassThrough, Stamp, TypeOK, Call, Stages
<1>3. ASSUME NEW c \in Checks, Execute(c)
      PROVE  TypeOK'
  <2>1. check[c].now \in 0 .. clock
    BY <1>3 DEF TypeOK, Call
  <2>2. entries' \subseteq 0 .. clock /\ expires' \in Nat
    <3>1. clock \in Nat /\ Window \in Nat /\ entries \subseteq 0 .. clock
      BY LimiterAssumption DEF TypeOK
    <3>2. entries' \subseteq entries \cup {check[c].now} /\ expires' = clock + Window + 1
      BY <1>3 DEF Execute, Added, Trimmed
    <3>3. QED
      BY <2>1, <3>1, <3>2
  <2>3. PICK s \in {"over", "under"} : check' = [check EXCEPT ![c].stage = s]
    BY <1>3 DEF Execute, Goto
  <2>4. check' \in [Checks -> Call]
    BY <2>3 DEF TypeOK, Call, Stages
  <2>5. QED
    BY <1>3, <2>2, <2>3, <2>4 DEF Execute, TypeOK
<1>4. ASSUME NEW c \in Checks, Admit(c) \/ Remove(c) \/ Fail(c)
      PROVE  TypeOK'
  BY <1>4 DEF Admit, Remove, Fail, Goto, TypeOK, Call, Stages
<1>5. ASSUME NEW c \in Checks, Deny(c)
      PROVE  TypeOK'
  <2>1. PICK wait \in 0 .. clock + Window :
          check' = [check EXCEPT ![c].stage = "denied", ![c].retry = wait]
    BY <1>5 DEF Deny
  <2>2. wait \in Nat
    BY LimiterAssumption DEF TypeOK
  <2>3. check' \in [Checks -> Call]
    BY <2>1, <2>2 DEF TypeOK, Call, Stages
  <2>4. QED
    BY <1>5, <2>1, <2>3 DEF Deny, TypeOK
<1>6. CASE LoseKey
  BY <1>6 DEF LoseKey, TypeOK
<1>7. CASE Advance
  <2>1. clock' \in Nat /\ entries' \subseteq 0 .. clock'
    <3>1. clock \in Nat /\ clock' = clock + 1
      BY <1>7 DEF Advance, TypeOK
    <3>2. entries' \subseteq entries /\ entries \subseteq 0 .. clock
      BY <1>7 DEF Advance, TypeOK
    <3>3. QED
      BY <3>1, <3>2
  <2>2. \A c \in Checks : check[c].now \in Nat
    BY DEF TypeOK, Call
  <2>3. /\ \A c \in Checks : check[c].now <= clock'
        /\ \A c \in In("stamped") : clock' <= check[c].now + MaxDelay
    BY <1>7, <2>2, LimiterAssumption DEF Advance, TypeOK
  <2>4. QED
    BY <1>7, <2>1, <2>3 DEF Advance, TypeOK
<1>8. QED
  BY <1>1, <1>2, <1>3, <1>4, <1>5, <1>6, <1>7 DEF Next

LEMMA OutlivedStep ==
  ASSUME TypeOK, OutlivedByKey, [Next]_vars
  PROVE  OutlivedByKey'
<1>1. CASE UNCHANGED vars
  BY <1>1 DEF vars, OutlivedByKey
<1>2. ASSUME NEW c \in Checks, Execute(c)
      PROVE  OutlivedByKey'
  <2>1. \A e \in entries' : e \in 0 .. clock
    BY <1>2 DEF Execute, Added, Trimmed, TypeOK, Call
  <2>2. QED
    BY <1>2, <2>1, LimiterAssumption DEF Execute, OutlivedByKey, TypeOK
<1>3. ASSUME NEW c \in Checks,
             PassThrough(c) \/ Stamp(c) \/ Admit(c) \/ Remove(c) \/ Deny(c) \/ Fail(c)
      PROVE  OutlivedByKey'
  BY <1>3 DEF PassThrough, Stamp, Admit, Remove, Deny, Fail, OutlivedByKey
<1>4. CASE LoseKey \/ Advance
  BY <1>4 DEF LoseKey, Advance, OutlivedByKey
<1>5. QED
  BY <1>1, <1>2, <1>3, <1>4 DEF Next

\* Only the transaction lets a check through that was not through before.
LEMMA LetThroughByExecute ==
  ASSUME TypeOK, Next, limit > 0, NEW c \in Checks, c \notin LetThrough,
         check'[c].stage \in {"under", "admitted"}
  PROVE  Execute(c) /\ check'[c].stage = "under"
<1> USE DEF LetThrough, In
<1>1. check[c].stage \notin {"under", "admitted"}
  OBVIOUS
<1>2. ASSUME NEW d \in Checks, PassThrough(d) \/ Stamp(d)
      PROVE  FALSE
  <2>1. ~PassThrough(d)
    BY LimiterAssumption DEF PassThrough, TypeOK
  <2>2. check' = [check EXCEPT ![d].stage = "stamped", ![d].now = clock]
    BY <1>2, <2>1 DEF Stamp
  <2>3. QED
    BY <1>1, <2>2 DEF TypeOK, Call
<1>3. ASSUME NEW d \in Checks, Admit(d) \/ Remove(d) \/ Fail(d)
      PROVE  FALSE
  BY <1>1, <1>3 DEF Admit, Remove, Fail, Goto, TypeOK, Call
<1>4. ASSUME NEW d \in Checks, Deny(d)
      PROVE  FALSE
  BY <1>1, <1>4 DEF Deny, TypeOK, Call
<1>5. CASE LoseKey \/ Advance
  BY <1>1, <1>5 DEF LoseKey, Advance
<1>6. ASSUME NEW d \in Checks, Execute(d)
      PROVE  Execute(c) /\ check'[c].stage = "under"
  <2>1. PICK s \in {"over", "under"} : check' = [check EXCEPT ![d].stage = s]
    BY <1>6 DEF Execute, Goto
  <2>2. d = c /\ s = "under"
    BY <1>1, <2>1 DEF TypeOK, Call
  <2>3. QED
    BY <1>6, <2>1, <2>2 DEF TypeOK, Call
<1>7. QED
  BY <1>2, <1>3, <1>4, <1>5, <1>6 DEF Next

LEMMA KeptStep ==
  ASSUME TypeOK, OutlivedByKey, EntriesKept, [Next]_vars
  PROVE  EntriesKept'
<1>1. CASE UNCHANGED vars
  BY <1>1 DEF vars, EntriesKept, DistinctStamps, LetThrough, In
<1>2. ASSUME Next PROVE EntriesKept'
  <2> SUFFICES ASSUME limit' > 0, losses' = 0, DistinctStamps', NEW c \in LetThrough'
               PROVE  check'[c].now \in entries' \/ check'[c].now <= clock' - Window
    BY DEF EntriesKept
  <2>1. /\ limit > 0 /\ losses = 0 /\ DistinctStamps
        /\ \A d \in Checks : check[d].stage # "new" =>
             check'[d].stage # "new" /\ check'[d].now = check[d].now
    BY <1>2, StampsStay
  <2>2. c \in Checks
    BY DEF LetThrough, In
  <2>3. \A d \in LetThrough : check[d].now \in entries \/ check[d].now <= clock - Window
    BY <2>1 DEF EntriesKept
  <2>4. CASE c \notin LetThrough
    <3>1. check'[c].stage \in {"under", "admitted"}
      BY DEF LetThrough, In
    <3>2. Execute(c)
      BY <1>2, <2>1, <2>2, <2>4, <3>1, LetThroughByExecute
    <3>3. check[c].now \in entries' /\ check'[c].now = check[c].now
      BY <2>1, <2>2, <3>2 DEF Execute, Added
    <3>4. QED
      BY <3>3
  <2>5. CASE c \in LetThrough
    <3>1. check'[c].now = check[c].now /\ check[c].now \in Nat
      BY <2>1, <2>2, <2>5 DEF LetThrough, In, TypeOK, Call
    <3>2. check[c].now \in entries \/ check[c].now <= clock - Window
      BY <2>3, <2>5
    <3>3. ASSUME NEW d \in Checks, Execute(d)
          PROVE  check[c].now \in entries' \/ check[c].now <= clock' - Window
      BY <3>1, <3>2, <3>3, LimiterAssumption DEF Execute, Added, Trimmed, TypeOK, Call
    <3>4. ASSUME NEW d \in Checks, Remove(d)
          PROVE  check[c].now \in entries' \/ check[c].now <= clock' - Window
      <4>1. check[d].now # check[c].now
        BY <2>1, <2>2, <2>5, <3>4 DEF DistinctStamps, Remove, LetThrough, In
      <4>2. QED
        BY <3>2, <3>4, <4>1 DEF Remove
    <3>5. ASSUME NEW d \in Checks,
                 PassThrough(d) \/ Stamp(d) \/ Admit(d) \/ Deny(d) \/ Fail(d)
          PROVE  check[c].now \in entries' \/ check[c].now <= clock' - Window
      BY <3>2, <3>5 DEF PassThrough, Stamp, Admit, Deny, Fail
    <3>6. CASE LoseKey
      BY <3>6 DEF LoseKey, TypeOK
    <3>7. CASE Advance
      BY <3>1, <3>2, <3>7, LimiterAssumption DEF Advance, OutlivedByKey, TypeOK
    <3>8. QED
      BY <1>2, <3>1, <3>3, <3>4, <3>5, <3>6, <3>7 DEF Next
  <2>6. QED
    BY <2>4, <2>5
<1>3. QED
  BY <1>1, <1>2

\* A set of checks with distinct stamps is no larger than a finite set that
\* holds those stamps.
LEMMA StampsCount ==
  ASSUME TypeOK, DistinctStamps, NEW S \in SUBSET Checks, NEW E, IsFiniteSet(E),
         \A c \in S : check[c].stage # "new" /\ check[c].now \in E
  PROVE  Cardinality(S) <= Cardinality(E)
<1> DEFINE f == [c \in S |-> check[c].now]
<1>1. f \in Injection(S, E)
  BY DEF DistinctStamps, Injection, IsInjective
<1>2. QED
  BY <1>1, FS_Injection

\* The bound survives a step: only a transaction can let one more check through,
\* and it has counted every other check of any shortened window it falls into.
LEMMA BoundStep ==
  ASSUME LimiterInvariant, [Next]_vars, TypeOK'
  PROVE  AtMostLimit'
<1> DEFINE to(from) == from + Window - MaxDelay
<1>1. CASE UNCHANGED vars
  BY <1>1 DEF vars, LimiterInvariant, AtMostLimit, DistinctStamps, Passed, In
<1>2. ASSUME Next PROVE AtMostLimit'
  <2> SUFFICES ASSUME limit' > 0, losses' = 0, DistinctStamps', NEW from \in -1 .. clock'
               PROVE  Cardinality(Passed(from, to(from))') <= limit'
    BY DEF AtMostLimit
  <2>1. /\ TypeOK /\ limit' = limit /\ limit > 0 /\ losses = 0 /\ DistinctStamps
        /\ \A d \in Checks : check[d].stage # "new" =>
             check'[d].stage # "new" /\ check'[d].now = check[d].now
    BY <1>2, StampsStay DEF LimiterInvariant
  <2>2. limit \in Nat /\ from \in Int /\ to(from) \in Int /\ clock \in Nat
    BY <2>1, LimiterAssumption DEF TypeOK
  <2>3. Passed(from, to(from)) \subseteq Checks /\ IsFiniteSet(Passed(from, to(from)))
    BY FS_Subset, LimiterAssumption DEF Passed, In
  <2>4. CASE Passed(from, to(from))' \subseteq Passed(from, to(from))
    <3>1. Cardinality(Passed(from, to(from))') <= Cardinality(Passed(from, to(from)))
          /\ Cardinality(Passed(from, to(from))) \in Nat
          /\ Cardinality(Passed(from, to(from))') \in Nat
      BY <2>3, <2>4, FS_Subset, FS_CardinalityType
    <3>2. CASE from <= clock
      BY <2>1, <2>2, <3>1, <3>2 DEF LimiterInvariant, AtMostLimit
    <3>3. CASE from > clock
      <4>1. Passed(from, to(from)) = {}
        BY <2>2, <3>3, <2>1 DEF Passed, In, TypeOK, Call
      <4>2. QED
        BY <2>1, <2>2, <2>4, <4>1, FS_EmptySet
    <3>4. QED
      BY <2>1, <2>2, <3>2, <3>3 DEF TypeOK
  <2>5. CASE ~(Passed(from, to(from))' \subseteq Passed(from, to(from)))
    <3>1. PICK c \in Passed(from, to(from))' : c \notin Passed(from, to(from))
      BY <2>5
    <3>2. c \in Checks /\ Execute(c) /\ check'[c].stage = "under"
      <4>1. c \in Checks /\ check'[c].stage \in {"under", "admitted"}
            /\ from < check'[c].now /\ check'[c].now <= to(from)
        BY <3>1 DEF Passed, In
      <4>2. c \notin LetThrough
        BY <2>1, <3>1, <4>1 DEF LetThrough, Passed, In
      <4>3. QED
        BY <1>2, <2>1, <4>1, <4>2, LetThroughByExecute
    <3> DEFINE now == check[c].now
               others == Passed(from, to(from))' \ {c}
    <3>3. /\ now \in Nat /\ from < now /\ now <= to(from)
          /\ clock <= now + MaxDelay /\ clock' = clock
      BY <2>1, <3>1, <3>2 DEF Passed, Execute, TypeOK, Call, In
    <3>4. Cardinality(Trimmed(now)) < limit /\ IsFiniteSet(Trimmed(now))
      <4>1. IsFiniteSet(0 .. clock)
        BY <2>2, FS_Interval
      <4>2. Trimmed(now) \in SUBSET (0 .. clock)
        BY <2>1 DEF Trimmed, TypeOK
      <4>3. IsFiniteSet(Trimmed(now)) /\ Cardinality(Trimmed(now)) \in Nat
        BY <4>1, <4>2, FS_Subset, FS_CardinalityType
      <4>4. ~(Cardinality(Trimmed(now)) >= limit)
        BY <2>1, <3>2 DEF Execute, Goto, TypeOK, Call
      <4>5. QED
        BY <2>2, <4>3, <4>4
    <3>5. ASSUME NEW d \in others
          PROVE  d \in Checks /\ check[d].stage # "new" /\ check[d].now \in Trimmed(now)
      <4>1. d \in Checks /\ d # c /\ check'[d].stage \in {"under", "admitted"}
            /\ from < check'[d].now
        BY DEF Passed, In
      <4>2. check'[d] = check[d]
        BY <2>1, <3>2, <4>1 DEF Execute, Goto, TypeOK
      <4>3. d \in LetThrough /\ check[d].now \in Nat
        BY <2>1, <4>1, <4>2 DEF LetThrough, In, TypeOK, Call
      <4>4. check[d].now \in entries \/ check[d].now <= clock - Window
        BY <2>1, <4>3 DEF LimiterInvariant, EntriesKept
      <4>5. check[d].now > clock - Window
        <5>1. from < check[d].now /\ clock <= from + Window - MaxDelay + MaxDelay
          BY <2>2, <3>3, <4>1, <4>2, LimiterAssumption
        <5>2. /\ Window \in Int /\ MaxDelay \in Int /\ from \in Int /\ clock \in Int
              /\ check[d].now \in Int
          BY <2>2, <4>3, LimiterAssumption
        <5>3. QED
          BY <5>1, <5>2
      <4>6. check[d].now > now - Window
        <5>1. now \in Int /\ now <= clock /\ clock \in Int
          BY <2>1, <2>2, <3>2, <3>3 DEF TypeOK
        <5>2. check[d].now \in Int /\ Window \in Int
          BY <4>3, LimiterAssumption
        <5> HIDE DEF now
        <5>3. QED
          BY <4>5, <5>1, <5>2
      <4>7. QED
        BY <2>2, <4>1, <4>2, <4>3, <4>4, <4>5, <4>6, LimiterAssumption DEF Trimmed
    <3>6. Cardinality(others) <= Cardinality(Trimmed(now))
      <4>1. others \in SUBSET Checks
        BY <3>5
      <4>2. QED
        BY <2>1, <3>4, <3>5, <4>1, StampsCount
    <3>7. IsFiniteSet(others) /\ c \notin others
          /\ Passed(from, to(from))' = others \cup {c}
      <4>1. others \in SUBSET Checks
        BY <3>5
      <4>2. IsFiniteSet(others)
        BY <4>1, FS_Subset, LimiterAssumption
      <4>3. QED
        BY <3>1, <4>2
    <3> HIDE DEF others
    <3>8. Cardinality(Passed(from, to(from))') = Cardinality(others) + 1
      BY <3>7, FS_AddElement
    <3>9. Cardinality(others) \in Nat /\ Cardinality(Trimmed(now)) \in Nat
      BY <3>4, <3>7, FS_CardinalityType
    <3>10. QED
      BY <2>1, <2>2, <3>4, <3>6, <3>8, <3>9
  <2>6. QED
    BY <2>4, <2>5
<1>3. QED
  BY <1>1, <1>2

\* The invariant holds of every behaviour.
THEOREM LimiterInvariance == Spec => []LimiterInvariant
<1>1. Init => LimiterInvariant
  <2> SUFFICES ASSUME Init PROVE LimiterInvariant
    OBVIOUS
  <2>1. TypeOK
    BY LimiterAssumption DEF Init, TypeOK, NewCall, Call, Stages, In
  <2>2. OutlivedByKey /\ EntriesKept
    BY DEF Init, OutlivedByKey, EntriesKept, LetThrough, In, NewCall
  <2>3. In("under") \cup In("admitted") = {}
    BY DEF Init, In, NewCall
  <2>4. AtMostLimit
    <3>1. \A from \in -1 .. clock : Passed(from, from + Window - MaxDelay) = {}
      BY <2>3 DEF Passed
    <3>2. limit \in Nat
      BY <2>1, LimiterAssumption DEF TypeOK
    <3>3. QED
      BY <3>1, <3>2, FS_EmptySet DEF AtMostLimit
  <2>5. QED
    BY <2>1, <2>2, <2>4 DEF LimiterInvariant
<1>2. LimiterInvariant /\ [Next]_vars => LimiterInvariant'
  <2> SUFFICES ASSUME LimiterInvariant, [Next]_vars PROVE LimiterInvariant'
    OBVIOUS
  <2>1. TypeOK'
    BY TypeStep DEF LimiterInvariant
  <2>2. QED
    BY <2>1, OutlivedStep, KeptStep, BoundStep DEF LimiterInvariant
<1>3. QED
  BY <1>1, <1>2, PTL DEF Spec

\* Every variable of the limiter keeps its shape (rate_limit.py:49-90).
THEOREM LimiterTyped == Spec => []TypeOK
BY LimiterInvariance, PTL DEF LimiterInvariant

\* The rate holds for every limit, window, delay and number of checks
\* (rate_limit.py:60-90).
THEOREM RateHolds == Spec => []AtMostLimit
BY LimiterInvariance, PTL DEF LimiterInvariant

-----------------------------------------------------------------------------
(* Why a check is denied.                                                  *)

\* The transaction of d has run.
Executed(d) == check[d].stage \notin {"new", "stamped"}

\* The checks that count against c.
Causes(c) == {d \in Checks \ {c} : Executed(d) /\ check[d].now > check[c].now - Window}

\* An entry is the stamp of a check that has added it.
EntriesAreStamps == \A e \in entries : \E d \in Checks : Executed(d) /\ check[d].now = e

Refused == In("over") \cup In("removed") \cup In("denied")

\* A transaction runs once, and only a transaction refuses.
LEMMA ExecutedStays ==
  ASSUME TypeOK, Next
  PROVE  /\ \A c \in Checks : Executed(c) => Executed(c)' /\ check'[c].now = check[c].now
         /\ \A c \in Refused' : c \in Refused \/ Execute(c)
<1> USE DEF Executed, Refused, In
<1>1. ASSUME NEW d \in Checks, PassThrough(d) \/ Stamp(d)
      PROVE  /\ \A c \in Checks : Executed(c) => Executed(c)' /\ check'[c].now = check[c].now
             /\ \A c \in Refused' : c \in Refused
  BY <1>1 DEF PassThrough, Stamp, TypeOK, Call
<1>2. ASSUME NEW d \in Checks, Execute(d)
      PROVE  /\ \A c \in Checks : Executed(c) => Executed(c)' /\ check'[c].now = check[c].now
             /\ \A c \in Refused' : c \in Refused \/ Execute(c)
  <2>1. PICK s \in {"over", "under"} : check' = [check EXCEPT ![d].stage = s]
    BY <1>2 DEF Execute, Goto
  <2>2. \A c \in Checks : c # d => check'[c] = check[c]
    BY <2>1 DEF TypeOK
  <2>3. Executed(d)' /\ check'[d].now = check[d].now
    BY <2>1 DEF TypeOK, Call
  <2>4. QED
    BY <1>2, <2>2, <2>3
<1>3. ASSUME NEW d \in Checks, Admit(d) \/ Remove(d) \/ Fail(d)
      PROVE  /\ \A c \in Checks : Executed(c) => Executed(c)' /\ check'[c].now = check[c].now
             /\ \A c \in Refused' : c \in Refused
  BY <1>3 DEF Admit, Remove, Fail, Goto, TypeOK, Call
<1>4. ASSUME NEW d \in Checks, Deny(d)
      PROVE  /\ \A c \in Checks : Executed(c) => Executed(c)' /\ check'[c].now = check[c].now
             /\ \A c \in Refused' : c \in Refused
  BY <1>4 DEF Deny, TypeOK, Call
<1>5. CASE LoseKey \/ Advance
  BY <1>5 DEF LoseKey, Advance
<1>6. QED
  BY <1>1, <1>2, <1>3, <1>4, <1>5 DEF Next

LEMMA StampsStep ==
  ASSUME TypeOK, EntriesAreStamps, [Next]_vars
  PROVE  EntriesAreStamps'
<1>1. CASE UNCHANGED vars
  BY <1>1 DEF vars, EntriesAreStamps, Executed
<1>2. ASSUME Next, NEW e \in entries'
      PROVE  \E d \in Checks : Executed(d)' /\ check'[d].now = e
  <2>1. CASE e \in entries
    BY <1>2, <2>1, ExecutedStays DEF EntriesAreStamps
  <2>2. CASE e \notin entries
    <3>1. PICK c \in Checks : Execute(c)
      BY <1>2, <2>2
         DEF Next, PassThrough, Stamp, Admit, Remove, Deny, Fail, LoseKey, Advance
    <3>2. e = check[c].now
      BY <1>2, <2>2, <3>1 DEF Execute, Added, Trimmed
    <3>3. Executed(c)' /\ check'[c].now = check[c].now
      <4>1. PICK s \in {"over", "under"} : check' = [check EXCEPT ![c].stage = s]
        BY <3>1 DEF Execute, Goto
      <4>2. QED
        BY <4>1 DEF TypeOK, Call, Executed
    <3>4. QED
      BY <3>2, <3>3
  <2>3. QED
    BY <2>1, <2>2
<1>3. QED
  BY <1>1, <1>2 DEF EntriesAreStamps

\* The transaction that refuses has counted entries of others only, each with a
\* check of its own behind it.
LEMMA CountedChecks ==
  ASSUME TypeOK, EntriesAreStamps, NEW c \in Checks, check[c].stage = "stamped"
  PROVE  Cardinality(Trimmed(check[c].now)) <= Cardinality(Causes(c))
<1> DEFINE T == Trimmed(check[c].now)
           by(e) == CHOOSE d \in Checks : Executed(d) /\ check[d].now = e
           f == [e \in T |-> by(e)]
<1>1. \A e \in T : by(e) \in Checks /\ Executed(by(e)) /\ check[by(e)].now = e
  BY DEF Trimmed, EntriesAreStamps
<1>2. \A e \in T : by(e) \in Causes(c)
  BY <1>1 DEF Causes, Trimmed, Executed
<1>3. f \in Injection(T, Causes(c))
  <2>1. \A d, e \in T : by(d) = by(e) => d = e
    BY <1>1
  <2> HIDE DEF T, by
  <2>2. QED
    BY <1>2, <2>1 DEF Injection, IsInjective
<1>4. IsFiniteSet(Causes(c))
  BY FS_Subset, LimiterAssumption DEF Causes
<1>5. QED
  BY <1>3, <1>4, FS_Injection

LEMMA CauseStep ==
  ASSUME TypeOK, TypeOK', EntriesAreStamps, DenialHasCause, [Next]_vars
  PROVE  DenialHasCause'
<1>1. CASE UNCHANGED vars
  BY <1>1 DEF vars, DenialHasCause, In
<1>2. ASSUME Next, NEW c \in Refused' PROVE Cardinality(Causes(c)') >= limit'
  <2>1. /\ c \in Checks /\ limit' = limit /\ limit \in Nat
        /\ c \in Refused \/ Execute(c)
        /\ \A d \in Checks : Executed(d) => Executed(d)' /\ check'[d].now = check[d].now
    BY <1>2, StampsStay, ExecutedStays, LimiterAssumption DEF Refused, In, TypeOK
  <2>2. check'[c].now = check[c].now
    BY <1>2, <2>1, StampsStay DEF Refused, In, Execute
  <2>3. Causes(c) \subseteq Causes(c)'
    BY <2>1, <2>2 DEF Causes
  <2>4. IsFiniteSet(Causes(c)') /\ IsFiniteSet(Causes(c))
    BY FS_Subset, LimiterAssumption DEF Causes
  <2>5. /\ Cardinality(Causes(c)) <= Cardinality(Causes(c)')
        /\ Cardinality(Causes(c)) \in Nat /\ Cardinality(Causes(c)') \in Nat
    BY <2>3, <2>4, FS_Subset, FS_CardinalityType
  <2>6. Cardinality(Causes(c)) >= limit
    <3>1. CASE c \in Refused
      BY <3>1 DEF DenialHasCause, Refused, Causes, Executed
    <3>2. CASE c \notin Refused
      <4>1. Execute(c) /\ check[c].stage = "stamped"
        BY <2>1, <3>2 DEF Execute
      <4>2. Cardinality(Trimmed(check[c].now)) >= limit
        BY <1>2, <2>1, <4>1 DEF Refused, In, Execute, Goto, TypeOK, Call
      <4>3. Cardinality(Trimmed(check[c].now)) <= Cardinality(Causes(c))
        BY <2>1, <4>1, CountedChecks
      <4>4. Cardinality(Trimmed(check[c].now)) \in Nat
        <5>1. IsFiniteSet(0 .. clock)
          BY FS_Interval DEF TypeOK
        <5>2. Trimmed(check[c].now) \in SUBSET (0 .. clock)
          BY DEF Trimmed, TypeOK
        <5>3. QED
          BY <5>1, <5>2, FS_Subset, FS_CardinalityType
      <4>5. QED
        BY <2>1, <2>5, <4>2, <4>3, <4>4
    <3>3. QED
      BY <3>1, <3>2
  <2>7. QED
    BY <2>1, <2>5, <2>6
<1>3. ASSUME Next PROVE DenialHasCause'
  BY <1>2, <1>3 DEF DenialHasCause, Refused, Causes, Executed
<1>4. QED
  BY <1>1, <1>3

\* Nobody is refused for requests older than the window, whatever has been left
\* untrimmed, taken out, lost with the key or added twice under one member
\* (rate_limit.py:60-90).
THEOREM DenialsHaveCause == Spec => []DenialHasCause
<1>1. Init => EntriesAreStamps /\ DenialHasCause
  BY DEF Init, EntriesAreStamps, DenialHasCause, In, NewCall
<1>2. /\ TypeOK /\ TypeOK' /\ EntriesAreStamps /\ DenialHasCause /\ [Next]_vars
         => EntriesAreStamps' /\ DenialHasCause'
  BY StampsStep, CauseStep
<1>3. QED
  BY <1>1, <1>2, LimiterTyped, PTL DEF Spec
=============================================================================
