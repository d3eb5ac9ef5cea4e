--------------------------- MODULE StartupProofs ---------------------------
(***************************************************************************)
(* Proofs about Startup, for any environments, any processes and people    *)
(* and any keys an SDK refuses: what the validators of the settings        *)
(* guarantee to the code that no longer checks, what a due reminder says   *)
(* of its owner's zone, and what an adapter lets through.                  *)
(***************************************************************************)
EXTENDS Startup, WellFoundedInduction, SequenceTheorems, TLAPS

-----------------------------------------------------------------------------
(* Taking one element out of a sequence.                                   *)

LEMMA LeastOf ==
  ASSUME NEW S \in SUBSET Nat, S # {}
  PROVE  Min(S) \in S
<1> DEFINE R == OpToRel(<, Nat)
<1>1. IsWellFoundedOn(R, Nat)
  BY NatLessThanWellFounded
<1>2. PICK m \in S : \A n \in S : <<n, m>> \notin R
  <2> HIDE DEF R
  <2>1. QED
    BY <1>1, WFMin
<1>3. \A n \in S : ~(n < m)
  BY <1>2 DEF OpToRel
<1>4. \A n \in S : m <= n
  <2>1. \A n \in S : n \in Int /\ m \in Int
    OBVIOUS
  <2>2. QED
    BY <1>3, <2>1
<1>5. QED
  BY <1>4 DEF Min

LEMMA RemoveAtIs ==
  ASSUME NEW S, NEW s \in Seq(S), NEW i \in 1 .. Len(s)
  PROVE  /\ RemoveAt(s, i) \in Seq(S)
         /\ Len(RemoveAt(s, i)) = Len(s) - 1
         /\ \A j \in 1 .. Len(s) - 1 :
              RemoveAt(s, i)[j] = IF j < i THEN s[j] ELSE s[j + 1]
<1> DEFINE head == SubSeq(s, 1, i - 1)
           rest == SubSeq(s, i + 1, Len(s))
<1>1. /\ head \in Seq(S) /\ Len(head) = i - 1
      /\ \A j \in 1 .. i - 1 : head[j] = s[j]
  OBVIOUS
<1>2. /\ rest \in Seq(S) /\ Len(rest) = Len(s) - i
      /\ \A j \in 1 .. Len(s) - i : rest[j] = s[j + i]
  OBVIOUS
<1>3. RemoveAt(s, i) = head \o rest
  BY DEF RemoveAt
<1> HIDE DEF head, rest
<1>4. /\ head \o rest \in Seq(S) /\ Len(head \o rest) = Len(s) - 1
      /\ \A j \in 1 .. Len(s) - 1 :
           (head \o rest)[j] = IF j < i THEN head[j] ELSE rest[j - (i - 1)]
  <2>1. Len(s) \in Nat /\ i \in Int
    OBVIOUS
  <2>2. /\ head \o rest \in Seq(S) /\ Len(head \o rest) = Len(head) + Len(rest)
        /\ \A j \in 1 .. Len(head) + Len(rest) :
             (head \o rest)[j] = IF j <= Len(head) THEN head[j] ELSE rest[j - Len(head)]
    BY <1>1, <1>2, ConcatProperties
  <2>3. Len(head) + Len(rest) = Len(s) - 1
    BY <1>1, <1>2, <2>1
  <2>4. \A j \in 1 .. Len(s) - 1 : j <= i - 1 <=> j < i
    BY <2>1
  <2>5. QED
    BY <1>1, <2>2, <2>3, <2>4
<1>5. ASSUME NEW j \in 1 .. Len(s) - 1
      PROVE  (head \o rest)[j] = IF j < i THEN s[j] ELSE s[j + 1]
  <2>1. CASE j < i
    BY <1>1, <1>4, <2>1
  <2>2. CASE ~(j < i)
    <3>1. (head \o rest)[j] = rest[j - (i - 1)]
      BY <1>4, <2>2
    <3>2. j - (i - 1) \in 1 .. Len(s) - i /\ j - (i - 1) + i = j + 1
      BY <2>2
    <3>3. rest[j - (i - 1)] = s[j - (i - 1) + i]
      BY <1>2, <3>2
    <3>4. QED
      BY <2>2, <3>1, <3>2, <3>3
  <2>3. QED
    BY <2>1, <2>2
<1>6. QED
  BY <1>3, <1>4, <1>5

LEMMA FirstIndex ==
  ASSUME NEW S, NEW s \in Seq(S), NEW e \in Range(s)
  PROVE  \E i \in 1 .. Len(s) : s[i] = e /\ RemoveFirst(s, e) = RemoveAt(s, i)
<1> DEFINE at == {i \in 1 .. Len(s) : s[i] = e}
<1>1. at # {} /\ at \in SUBSET Nat
  BY DEF Range
<1>2. Min(at) \in at
  BY <1>1, LeastOf
<1>3. RemoveFirst(s, e) = RemoveAt(s, Min(at))
  BY <1>1 DEF RemoveFirst, SelectInSeq
<1>4. QED
  BY <1>2, <1>3

\* Of a sequence without repetitions nothing else is taken, and e is gone.
LEMMA RemovedOnce ==
  ASSUME NEW S, NEW s \in Seq(S), IsInjective(s), NEW e
  PROVE  /\ RemoveFirst(s, e) \in Seq(S) /\ IsInjective(RemoveFirst(s, e))
         /\ Range(RemoveFirst(s, e)) \subseteq Range(s) \ {e}
<1>1. CASE e \notin Range(s)
  <2>1. RemoveFirst(s, e) = s
    BY <1>1 DEF RemoveFirst, Range
  <2>2. QED
    BY <1>1, <2>1
<1>2. CASE e \in Range(s)
  <2>1. PICK i \in 1 .. Len(s) : s[i] = e /\ RemoveFirst(s, e) = RemoveAt(s, i)
    BY <1>2, FirstIndex
  <2>2. PICK r : r = RemoveAt(s, i)
    OBVIOUS
  <2>3. /\ r \in Seq(S) /\ Len(r) = Len(s) - 1
        /\ \A j \in 1 .. Len(s) - 1 : r[j] = IF j < i THEN s[j] ELSE s[j + 1]
    BY <2>2, RemoveAtIs
  <2>4. DOMAIN r = 1 .. Len(s) - 1 /\ DOMAIN s = 1 .. Len(s) /\ Len(s) \in Nat
    BY <2>3
  <2>5. \A j \in 1 .. Len(s) - 1 :
          \E k \in 1 .. Len(s) : k # i /\ r[j] = s[k] /\ k = IF j < i THEN j ELSE j + 1
    BY <2>3, <2>4
  <2>6. \A j, k \in 1 .. Len(s) : s[j] = s[k] => j = k
    BY <2>4 DEF IsInjective
  <2>7. Range(r) \subseteq Range(s) \ {e}
    BY <2>1, <2>4, <2>5, <2>6 DEF Range
  <2>8. ASSUME NEW j \in DOMAIN r, NEW k \in DOMAIN r, r[j] = r[k] PROVE j = k
    <3>1. (IF j < i THEN j ELSE j + 1) = (IF k < i THEN k ELSE k + 1)
      BY <2>4, <2>5, <2>6, <2>8
    <3>2. j \in Int /\ k \in Int /\ i \in Int
      BY <2>4
    <3>3. QED
      BY <3>1, <3>2
  <2>9. QED
    BY <2>1, <2>2, <2>3, <2>7, <2>8 DEF IsInjective
<1>3. QED
  BY <1>1, <1>2

-----------------------------------------------------------------------------
(* What the validators and the adapters guarantee.                         *)

\* A valid environment gives every front end a webhook it can register, or none.
LEMMA ValidHook ==
  ASSUME NEW e \in Env, Valid(e)
  PROVE  Hook(e) \in {"none", "sound"}
<1>1. CASE e.mode = "polling"
  BY <1>1 DEF Hook
<1>2. CASE e.mode = "webhook"
  <2>1. e.host = "given" /\ e.path = "absolute" /\ e.secret = "long"
    BY <1>2 DEF Valid, WebhookComplete
  <2>2. Hook(e) = "sound"
    BY <1>2, <2>1 DEF Hook
  <2>3. QED
    BY <2>2
<1>3. QED
  BY <1>1, <1>2 DEF Env

\* A valid environment gives the scheduler an adapter.
LEMMA ValidProvider ==
  ASSUME NEW e \in Env, Valid(e)
  PROVE  /\ BuildProvider(e) \in [kind : Kinds, key : Keys]
         /\ BuildProvider(e) # NoLLM
<1>1. e.kind \in Kinds /\ e.key \in Keys /\ ~(e.kind # "ollama" /\ e.key = "unset")
  BY DEF Env, Valid, KeyPresent
<1>2. BuildProvider(e) = [kind |-> e.kind, key |-> e.key]
  BY <1>1 DEF BuildProvider
<1>3. e.kind # "none"
  BY <1>1 DEF Kinds
<1>4. QED
  BY <1>1, <1>2, <1>3 DEF NoLLM

\* An adapter that does not raise has found text.
LEMMA AcceptedIsText ==
  ASSUME NEW kind \in Kinds, NEW reply \in Replies, Accepts(kind, reply)
  PROVE  TextOf(kind, reply) = "llm"
<1>1. CASE kind \in {"gemini", "anthropic"}
  <2>1. "text" \in Range(reply)
    BY <1>1 DEF Accepts, GeminiText, AnthropicText
  <2>2. QED
    BY <1>1, <2>1 DEF TextOf
<1>2. CASE kind \in {"openai", "ollama"}
  <2>1. reply # <<>> /\ reply[1] = "text"
    BY <1>2 DEF Accepts, OpenAIText, OllamaText
  <2>2. PICK n \in 0 .. 2 : reply \in [1 .. n -> Pieces]
    BY DEF Replies
  <2>3. reply \in Seq(Pieces) /\ Len(reply) = n
    BY <2>2
  <2>4. 1 \in DOMAIN reply
    BY <2>1, <2>2, <2>3, EmptySeq
  <2>5. QED
    BY <1>2, <2>1, <2>4 DEF TextOf
<1>3. QED
  BY <1>1, <1>2 DEF Kinds

-----------------------------------------------------------------------------
(* The invariant.                                                          *)

\* What every step preserves.  Each owner is due once, or a deletion would leave
\* a second row of an owner without a zone (events.py:77-122, forget.py:71-104).
DueOnce == IsInjective(due)
StartupInvariant == TypeOK /\ SettingsSuffice /\ DueOnce /\ DueZonesLoad /\ NeverBlank

LEMMA FrontKeeps ==
  ASSUME StartupInvariant, NEW p \in FrontEnds, StartFront(p) \/ KillFront(p)
  PROVE  StartupInvariant'
<1>1. env \in Env /\ TypeOK /\ env.zone \in Zones
  BY StartupAssumption DEF StartupInvariant, TypeOK, Env
<1>2. UNCHANGED <<env, sched, zone, due, todo, text, edits>> /\ kills' \in 0 .. MaxKills
  BY <1>1, StartupAssumption DEF StartFront, KillFront, TypeOK
<1>3. PICK f \in [state : {"down", "refused", "up"}, zone : Zones,
                  hook : {"none", "sound"}] : front' = [front EXCEPT ![p] = f]
  <2>1. CASE KillFront(p) \/ ~Valid(env)
    <3>1. \/ front' = [front EXCEPT ![p] =
                        [state |-> "down", zone |-> "known", hook |-> "none"]]
          \/ front' = [front EXCEPT ![p] =
                        [state |-> "refused", zone |-> "known", hook |-> "none"]]
      BY <2>1 DEF StartFront, KillFront, Down
    <3>2. QED
      BY <3>1 DEF Zones
  <2>2. CASE StartFront(p) /\ Valid(env) /\ p = Bot
    <3>1. front' = [front EXCEPT ![p] = [state |-> "up", zone |-> env.zone, hook |-> "none"]]
      BY <2>2 DEF StartFront
    <3>2. QED
      BY <1>1, <3>1
  <2>3. CASE StartFront(p) /\ Valid(env) /\ p # Bot
    <3>1. Hook(env) \in {"none", "sound"}
      BY <1>1, <2>3, ValidHook
    <3>2. front' = [front EXCEPT ![p] = [state |-> "up", zone |-> env.zone, hook |-> Hook(env)]]
      BY <2>3, <3>1 DEF StartFront
    <3>3. QED
      BY <1>1, <3>1, <3>2
  <2>4. QED
    BY <2>1, <2>2, <2>3
<1>4. TypeOK' /\ SettingsSuffice'
  BY <1>1, <1>2, <1>3 DEF TypeOK, StartupInvariant, SettingsSuffice
<1>5. DueOnce' /\ DueZonesLoad' /\ NeverBlank'
  BY <1>2 DEF StartupInvariant, DueOnce, DueZonesLoad, NeverBlank
<1>6. QED
  BY <1>4, <1>5 DEF StartupInvariant

LEMMA SchedulerKeeps ==
  ASSUME StartupInvariant, StartScheduler \/ KillScheduler
  PROVE  StartupInvariant'
<1>1. env \in Env /\ TypeOK
  BY StartupAssumption DEF StartupInvariant, TypeOK
<1>2. /\ UNCHANGED <<env, front, zone, due, text, edits>>
      /\ kills' \in 0 .. MaxKills /\ todo' \in Seq(Users)
  <2>1. CASE StartScheduler
    BY <1>1, <2>1 DEF StartScheduler, TypeOK
  <2>2. CASE KillScheduler
    <3>1. kills' \in 0 .. MaxKills
      BY <1>1, <2>2, StartupAssumption DEF KillScheduler, TypeOK
    <3>2. QED
      BY <2>2, <3>1 DEF KillScheduler
  <2>3. QED
    BY <2>1, <2>2
<1>3. /\ sched' \in [state : {"down", "refused", "up"}, client : BOOLEAN,
                     llm : {NoLLM} \cup [kind : Kinds, key : Keys]]
      /\ sched'.state = "up" => sched'.llm # NoLLM
  <2>1. CASE StartScheduler /\ Valid(env)
    <3>1. sched' = [state |-> "up", llm |-> BuildProvider(env), client |-> FALSE]
      BY <2>1 DEF StartScheduler
    <3>2. QED
      BY <1>1, <2>1, <3>1, ValidProvider
  <2>2. CASE KillScheduler \/ ~Valid(env)
    <3>1. \/ sched' = [state |-> "down", llm |-> NoLLM, client |-> FALSE]
          \/ sched' = [state |-> "refused", llm |-> NoLLM, client |-> FALSE]
      BY <2>2 DEF StartScheduler, KillScheduler, SchedDown
    <3>2. PICK state \in {"down", "refused"} :
            sched' = [state |-> state, llm |-> NoLLM, client |-> FALSE]
      BY <3>1
    <3>3. sched'.state # "up"
      BY <3>2
    <3>4. sched' \in [state : {"down", "refused", "up"}, client : BOOLEAN,
                      llm : {NoLLM} \cup [kind : Kinds, key : Keys]]
      BY <3>2
    <3>5. QED
      BY <3>3, <3>4
  <2>3. QED
    BY <2>1, <2>2
<1>4. TypeOK' /\ SettingsSuffice'
  BY <1>1, <1>2, <1>3 DEF TypeOK, StartupInvariant, SettingsSuffice
<1>5. DueOnce' /\ DueZonesLoad' /\ NeverBlank'
  BY <1>2 DEF StartupInvariant, DueOnce, DueZonesLoad, NeverBlank
<1>6. QED
  BY <1>4, <1>5 DEF StartupInvariant

LEMMA EditKeeps ==
  ASSUME StartupInvariant, EditEnv
  PROVE  StartupInvariant'
<1>1. UNCHANGED <<zone, due, todo, text, kills>> /\ TypeOK
  BY DEF EditEnv, StartupInvariant
<1>2. env' \in Envs /\ edits' \in 0 .. MaxEdits
  BY <1>1, StartupAssumption DEF EditEnv, TypeOK
<1>3. /\ front' = [p \in FrontEnds |-> IF front[p].state = "up" THEN front[p] ELSE Down]
      /\ sched' = IF sched.state = "up" THEN sched ELSE SchedDown
  BY DEF EditEnv
<1>4. TypeOK'
  BY <1>1, <1>2, <1>3 DEF TypeOK, Down, SchedDown, Zones
<1>5. SettingsSuffice'
  BY <1>3 DEF StartupInvariant, SettingsSuffice, Down, SchedDown
<1>6. DueOnce' /\ DueZonesLoad' /\ NeverBlank'
  BY <1>1 DEF StartupInvariant, DueOnce, DueZonesLoad, NeverBlank
<1>7. QED
  BY <1>4, <1>5, <1>6 DEF StartupInvariant

\* Only a deletion takes an owner's zone away, and it takes the reminder too.
LEMMA OwnerKeeps ==
  ASSUME StartupInvariant, NEW u \in Users,
         Register(u) \/ SetTimezone(u) \/ FallDue(u) \/ Forget(u)
  PROVE  StartupInvariant'
<1>1. UNCHANGED <<env, front, sched, todo, edits, kills>> /\ TypeOK
  BY DEF Register, SetTimezone, FallDue, Forget, StartupInvariant
<1>2. SettingsSuffice'
  BY <1>1 DEF StartupInvariant, SettingsSuffice
<1>3. /\ due \in Seq(Users) /\ IsInjective(due)
      /\ \A v \in Range(due) : zone[v] = "known"
      /\ zone \in [Users -> Zones \cup {"none"}]
      /\ \A v \in Range(due) : v \in Users
  BY <1>1 DEF StartupInvariant, TypeOK, DueOnce, DueZonesLoad, Range
<1>4. /\ due' \in Seq(Users) /\ IsInjective(due')
      /\ zone' \in [Users -> Zones \cup {"none"}]
      /\ \A v \in Range(due') : zone'[v] = "known"
      /\ text' \in [Users -> {"none", "template", "llm", "blank"}]
      /\ \A v \in Users : text'[v] # "blank"
  <2>1. CASE Register(u) \/ SetTimezone(u)
    <3>1. PICK z \in Zones : /\ zone' = [zone EXCEPT ![u] = z]
                             /\ zone[u] = "none" \/ z = "known"
      BY <1>1, <2>1 DEF Register, SetTimezone, TypeOK, Zones
    <3>2. \A v \in Range(due) : zone'[v] = "known"
      BY <1>3, <3>1
    <3>3. QED
      BY <1>1, <1>3, <2>1, <3>1, <3>2
         DEF Register, SetTimezone, TypeOK, StartupInvariant, NeverBlank
  <2>2. CASE FallDue(u)
    <3>1. due' = Append(due, u) /\ u \notin Range(due) /\ zone[u] = "known"
      BY <2>2 DEF FallDue, Parses
    <3>2. /\ due' \in Seq(Users) /\ Len(due') = Len(due) + 1 /\ due'[Len(due) + 1] = u
          /\ \A i \in 1 .. Len(due) : due'[i] = due[i] /\ due[i] \in Range(due)
      BY <1>3, <3>1 DEF Range
    <3>3. Len(due) \in Nat /\ DOMAIN due' = 1 .. Len(due) + 1
      BY <1>3, <3>2
    <3>4. Range(due') = Range(due) \cup {u}
      BY <1>3, <3>2, <3>3 DEF Range
    <3>5. IsInjective(due')
      <4>1. \A i, j \in 1 .. Len(due) : due[i] = due[j] => i = j
        BY <1>3 DEF IsInjective
      <4>2. \A i \in 1 .. Len(due) + 1 : i \in 1 .. Len(due) \/ i = Len(due) + 1
        BY <3>3
      <4>3. \A i, j \in 1 .. Len(due) + 1 : due'[i] = due'[j] => i = j
        BY <3>1, <3>2, <4>1, <4>2
      <4>4. QED
        BY <3>3, <4>3 DEF IsInjective
    <3>6. QED
      BY <1>1, <1>3, <2>2, <3>1, <3>2, <3>4, <3>5
         DEF FallDue, TypeOK, StartupInvariant, NeverBlank
  <2>3. CASE Forget(u)
    <3>1. /\ zone' = [zone EXCEPT ![u] = "none"] /\ due' = RemoveFirst(due, u)
          /\ text' = [text EXCEPT ![u] = "none"]
      BY <2>3 DEF Forget
    <3>2. /\ due' \in Seq(Users) /\ IsInjective(due')
          /\ Range(due') \subseteq Range(due) \ {u}
      BY <1>3, <3>1, RemovedOnce
    <3>3. \A v \in Range(due') : zone'[v] = "known"
      BY <1>3, <3>1, <3>2
    <3>4. QED
      BY <1>1, <1>3, <3>1, <3>2, <3>3 DEF TypeOK, StartupInvariant, NeverBlank
  <2>4. QED
    BY <2>1, <2>2, <2>3
<1>5. TypeOK'
  BY <1>1, <1>4 DEF TypeOK
<1>6. QED
  BY <1>2, <1>4, <1>5 DEF StartupInvariant, DueOnce, DueZonesLoad, NeverBlank

\* A nudge with a text that is not blank, and the end of a tick.
LEMMA NudgeKeeps ==
  ASSUME StartupInvariant, todo # <<>>, NEW kind \in {"template", "llm"},
         Nudge(Head(todo), kind),
         sched' \in [state : {"down", "refused", "up"}, client : BOOLEAN,
                     llm : {NoLLM} \cup [kind : Kinds, key : Keys]],
         sched'.state = sched.state, sched'.llm = sched.llm
  PROVE  StartupInvariant'
<1>1. PICK u : u = Head(todo)
  OBVIOUS
<1>2. /\ UNCHANGED <<env, front, zone, edits, kills>>
      /\ text' = [text EXCEPT ![u] = kind] /\ due' = RemoveFirst(due, u)
      /\ todo' = Tail(todo)
  BY <1>1 DEF Nudge
<1>3. TypeOK /\ due \in Seq(Users) /\ IsInjective(due) /\ todo \in Seq(Users)
  BY DEF StartupInvariant, TypeOK, DueOnce
<1>4. /\ due' \in Seq(Users) /\ IsInjective(due')
      /\ Range(due') \subseteq Range(due)
  BY <1>2, <1>3, RemovedOnce
<1>5. todo' \in Seq(Users)
  BY <1>2, <1>3
<1>6. TypeOK' /\ NeverBlank'
  BY <1>2, <1>3, <1>4, <1>5 DEF TypeOK, StartupInvariant, NeverBlank
<1>7. SettingsSuffice' /\ DueOnce' /\ DueZonesLoad'
  BY <1>2, <1>4 DEF StartupInvariant, SettingsSuffice, DueOnce, DueZonesLoad
<1>8. QED
  BY <1>6, <1>7 DEF StartupInvariant

LEMMA TickKeeps ==
  ASSUME StartupInvariant, TickStep
  PROVE  StartupInvariant'
<1>1. TypeOK /\ todo \in Seq(Users) /\ due \in Seq(Users)
  BY DEF StartupInvariant, TypeOK
<1>2. CASE LoadDue \/ TickFails \/ ClientRaises
  <2>1. /\ UNCHANGED <<env, front, sched, zone, due, text, edits>>
        /\ kills' \in 0 .. MaxKills /\ todo' \in Seq(Users)
    <3>1. CASE LoadDue \/ TickFails
      <4>1. kills \in 0 .. MaxKills /\ <<>> \in Seq(Users)
        BY <1>1 DEF TypeOK
      <4>2. QED
        BY <1>1, <3>1, <4>1 DEF LoadDue, TickFails
    <3>2. CASE ClientRaises
      <4>1. kills' = kills \/ (kills < MaxKills /\ kills' = kills + 1)
        BY <3>2 DEF ClientRaises
      <4>2. kills' \in 0 .. MaxKills
        BY <1>1, <4>1, StartupAssumption DEF TypeOK
      <4>3. QED
        BY <3>2, <4>2 DEF ClientRaises
    <3>3. QED
      BY <1>2, <3>1, <3>2
  <2>2. TypeOK'
    BY <1>1, <2>1 DEF TypeOK
  <2>3. QED
    BY <2>1, <2>2
       DEF StartupInvariant, SettingsSuffice, DueOnce, DueZonesLoad, NeverBlank
<1>3. CASE Answered
  <2>1. PICK reply \in Replies :
          Nudge(Head(todo), IF Accepts(sched.llm.kind, reply)
                            THEN TextOf(sched.llm.kind, reply) ELSE "template")
    BY <1>3 DEF Answered
  <2>2. sched.llm.kind \in Kinds /\ todo # <<>>
    BY <1>1, <1>3 DEF Answered, Current, TypeOK
  <2>3. \E kind \in {"template", "llm"} : Nudge(Head(todo), kind)
    BY <2>1, <2>2, AcceptedIsText
  <2>4. /\ sched' \in [state : {"down", "refused", "up"}, client : BOOLEAN,
                       llm : {NoLLM} \cup [kind : Kinds, key : Keys]]
        /\ sched'.state = sched.state /\ sched'.llm = sched.llm
    BY <1>1, <1>3 DEF Answered, TypeOK
  <2>5. QED
    BY <2>2, <2>3, <2>4, NudgeKeeps
<1>4. CASE FallBack
  <2>1. Nudge(Head(todo), "template") /\ todo # <<>>
    BY <1>4 DEF FallBack, Current
  <2>2. /\ sched' \in [state : {"down", "refused", "up"}, client : BOOLEAN,
                       llm : {NoLLM} \cup [kind : Kinds, key : Keys]]
        /\ sched'.state = sched.state /\ sched'.llm = sched.llm
    BY <1>1, <1>4 DEF FallBack, TypeOK
  <2>3. QED
    BY <2>1, <2>2, NudgeKeeps
<1>5. QED
  BY <1>2, <1>3, <1>4 DEF TickStep

\* The settings of a running process, the zones of the owners that are due and
\* the texts of the nudges stay sound, for any environments and any edits.
THEOREM StartupHolds == Spec => []StartupInvariant
<1>1. Init => StartupInvariant
  <2> SUFFICES ASSUME Init PROVE StartupInvariant
    OBVIOUS
  <2>1. TypeOK
    BY StartupAssumption DEF Init, TypeOK, Down, SchedDown, Zones
  <2>2. SettingsSuffice /\ NeverBlank
    BY DEF Init, SettingsSuffice, NeverBlank, Down, SchedDown
  <2>3. DueOnce /\ DueZonesLoad
    BY DEF Init, DueOnce, DueZonesLoad, IsInjective, Range
  <2>4. QED
    BY <2>1, <2>2, <2>3 DEF StartupInvariant
<1>2. StartupInvariant /\ [Next]_vars => StartupInvariant'
  <2> SUFFICES ASSUME StartupInvariant, [Next]_vars PROVE StartupInvariant'
    OBVIOUS
  <2>1. CASE UNCHANGED vars
    BY <2>1 DEF vars, StartupInvariant, TypeOK, SettingsSuffice, DueOnce, DueZonesLoad,
                NeverBlank
  <2>2. QED
    BY <2>1, FrontKeeps, SchedulerKeeps, EditKeeps, OwnerKeeps, TickKeeps DEF Next
<1>3. QED
  BY <1>1, <1>2, PTL DEF Spec

\* Every variable keeps its shape: no worker stops at an assert (app.py:79-82).
THEOREM StartupTyped == Spec => []TypeOK
BY StartupHolds, PTL DEF StartupInvariant

\* Whatever the environment and however often it is edited under running
\* processes, what they do not check again holds of what they have read
\* (config.py:226-248, app.py:79-82, scheduler/main.py:69-75).
THEOREM SettingsAreSound == Spec => []SettingsSuffice
BY StartupHolds, PTL DEF StartupInvariant

\* However many people and whatever their zones, no reminder is due of an owner
\* whose zone does not load (events.py:54-73, quiet_hours.py:42).
THEOREM DueZonesAreSound == Spec => []DueZonesLoad
BY StartupHolds, PTL DEF StartupInvariant

\* No adapter turns a reply without text into a nudge (llm/*.py,
\* nudge_engine.py:237-265).
THEOREM TextIsNeverBlank == Spec => []NeverBlank
BY StartupHolds, PTL DEF StartupInvariant
=============================================================================
