-------------------------- MODULE VoiceDiaryProofs --------------------------
(* Proofs about VoiceDiary, for any number of users, entries and keys.      *)
EXTENDS VoiceDiary, TLAPS

\* Ids not handed out yet have no row, and no answer was about them.
FreshIds ==
  /\ \A i \in Ids : nextId <= i => ~Exists(i)
  /\ answer.entry < nextId

\* Until the operator edits .env the processes run with its key, and then with
\* the one the script has replaced.
KeysInStep ==
  /\ rotation.phase # "edited" => env = running
  /\ rotation.phase = "edited" => env = rotation.key

\* The script's copy of an entry nobody has written to is still its row, unless
\* that was deleted.
CopyCurrent ==
  rotation.phase = "read" =>
    \A i \in Ids \ rotation.late :
      Exists(i) => rotation.copy[i] = diary[i]

\* What every step preserves.
DiaryInvariant ==
  /\ TypeOK /\ FreshIds /\ KeysInStep /\ CopyCurrent
  /\ EntriesHaveOwner /\ SettledReadable /\ ReadByOwner

LEMMA DiaryInit == Init => DiaryInvariant
BY DiaryAssumption
   DEF Init, DiaryInvariant, TypeOK, FreshIds, KeysInStep, CopyCurrent,
       EntriesHaveOwner, SettledReadable, ReadByOwner, Disturbed, Committed,
       StoredKey, Exists, NoRow, Row,
       NoRotation, NoAnswer, Ids, Keys, Stages, Phases

LEMMA SaveStep ==
  ASSUME DiaryInvariant, NEW u \in Users, Save(u)
  PROVE  DiaryInvariant'
<1> DEFINE new == [owner |-> u, audio |-> running, text |-> running, transcribed |-> FALSE]
<1>1. /\ TypeOK /\ nextId \in Ids /\ u \in accounts /\ u # NoUser
      /\ diary' = [diary EXCEPT ![nextId] = new] /\ new \in Row
      /\ nextId' = nextId + 1
      /\ task' = [task EXCEPT ![nextId] = "saved"]
      /\ UNCHANGED <<accounts, stt, running, env, stranded, answer>>
  BY DiaryAssumption DEF DiaryInvariant, Save, MayOwn, Enter, TypeOK, Row
<1>2. /\ rotation' \in [phase : Phases, key : Keys, copy : [Ids -> Row], late : SUBSET Ids]
      /\ rotation'.phase = rotation.phase /\ rotation'.key = rotation.key
      /\ rotation'.copy = rotation.copy
      /\ rotation'.late \subseteq rotation.late \cup {nextId}
      /\ rotation.late \subseteq rotation'.late
      /\ rotation.phase # "none" => nextId \in rotation'.late
  BY <1>1 DEF Save, Touched, TypeOK
<1>3. TypeOK'
  BY <1>1, <1>2 DEF TypeOK, Stages, Ids
<1>4. FreshIds' /\ KeysInStep' /\ CopyCurrent'
  BY <1>1, <1>2
     DEF DiaryInvariant, FreshIds, KeysInStep, CopyCurrent, Exists, TypeOK, Row, Ids
<1>5. EntriesHaveOwner' /\ ReadByOwner'
  BY <1>1 DEF DiaryInvariant, EntriesHaveOwner, ReadByOwner, FreshIds, Exists, TypeOK, Row, Ids
<1>6. SettledReadable'
  BY <1>1, <1>2
     DEF DiaryInvariant, SettledReadable, Disturbed, Committed, StoredKey, Exists, TypeOK, Row, Ids, Phases
<1>7. QED
  BY <1>3, <1>4, <1>5, <1>6 DEF DiaryInvariant

\* Steps of a handler that only change how far it is; none of them ends as
\* "written".
LEMMA StageStep ==
  ASSUME DiaryInvariant, NEW i \in Ids, NEW s \in Stages, s # "written", Enter(i, s),
         UNCHANGED <<accounts, diary, nextId, stt, running, env, rotation, stranded, answer>>
  PROVE  DiaryInvariant'
<1>1. task' \in [Ids -> Stages] /\ \A j \in Ids : task'[j] = "written" => task[j] = "written"
  BY DEF DiaryInvariant, TypeOK, Enter
<1>2. QED
  BY <1>1 DEF DiaryInvariant, TypeOK, FreshIds, KeysInStep, CopyCurrent,
              EntriesHaveOwner, SettledReadable, ReadByOwner, Disturbed, Committed, StoredKey, Exists

LEMMA WriteStep ==
  ASSUME DiaryInvariant, NEW i \in Ids, WriteTranscript(i)
  PROVE  DiaryInvariant'
<1>1. /\ TypeOK /\ rotation.phase \in Phases
      /\ UNCHANGED <<accounts, nextId, stt, running, env, stranded, answer>>
      /\ task' \in [Ids -> Stages]
      /\ \A j \in Ids \ {i} : task'[j] = task[j]
      /\ ~Exists(i) => task'[i] = "dropped"
  BY DEF DiaryInvariant, WriteTranscript, Enter, TypeOK, Stages
<1>2. /\ diary' \in [Ids -> Row]
      /\ \A j \in Ids \ {i} : diary'[j] = diary[j]
      /\ ~Exists(i) => diary' = diary
      /\ Exists(i) => /\ diary'[i].owner = diary[i].owner /\ diary'[i].audio = diary[i].audio
                      /\ diary'[i].text = running /\ diary'[i].transcribed
  BY <1>1 DEF WriteTranscript, Transcribed, TypeOK, Row
<1>3. /\ rotation' \in [phase : Phases, key : Keys, copy : [Ids -> Row], late : SUBSET Ids]
      /\ rotation'.phase = rotation.phase /\ rotation'.key = rotation.key
      /\ rotation'.copy = rotation.copy
      /\ rotation.late \subseteq rotation'.late
      /\ rotation.phase # "none" => i \in rotation'.late
  BY <1>1 DEF WriteTranscript, Touched, TypeOK
<1>4. \A j \in Ids : diary'[j].owner = diary[j].owner
  BY <1>2
<1>5. TypeOK'
  BY <1>1, <1>2, <1>3 DEF TypeOK
<1>6. FreshIds' /\ KeysInStep' /\ EntriesHaveOwner' /\ ReadByOwner'
  BY <1>1, <1>3, <1>4
     DEF DiaryInvariant, FreshIds, KeysInStep, EntriesHaveOwner, ReadByOwner, Exists
<1>7. CopyCurrent'
  BY <1>2, <1>3 DEF DiaryInvariant, CopyCurrent, Exists
<1>8. SettledReadable'
  <2> SUFFICES ASSUME NEW j \in Ids \ Disturbed', Exists(j)'
               PROVE  /\ diary'[j].audio = StoredKey' /\ diary'[j].text = StoredKey'
                      /\ task'[j] = "written" => diary'[j].transcribed
    BY DEF SettledReadable
  <2>1. StoredKey' = StoredKey /\ j \in Ids \ Disturbed /\ Exists(j)
    BY <1>1, <1>3, <1>4 DEF StoredKey, Disturbed, Committed, Exists
  <2>2. /\ diary[j].audio = StoredKey /\ diary[j].text = StoredKey
        /\ task[j] = "written" => diary[j].transcribed
    BY <2>1 DEF DiaryInvariant, SettledReadable
  <2>3. CASE j = i
    <3>1. StoredKey = running
      BY <1>1, <1>3, <2>3 DEF StoredKey, Disturbed, Committed, Phases
    <3>2. QED
      BY <1>2, <2>1, <2>2, <2>3, <3>1
  <2>4. QED
    BY <1>1, <1>2, <2>1, <2>2, <2>3
<1>9. QED
  BY <1>5, <1>6, <1>7, <1>8 DEF DiaryInvariant

\* A deletion: of one entry, or of an account with all its entries.
LEMMA DeleteStep ==
  ASSUME DiaryInvariant, NEW gone \in SUBSET Ids, Delete(gone),
         accounts' \subseteq accounts,
         \A i \in Ids \ gone : Exists(i) => diary[i].owner \in accounts'
  PROVE  DiaryInvariant'
<1>1. /\ diary' \in [Ids -> Row]
      /\ \A i \in Ids : Exists(i)' => Exists(i) /\ i \notin gone /\ diary'[i] = diary[i]
      /\ \A i \in Ids : diary'[i].owner \in {diary[i].owner, NoUser}
      /\ UNCHANGED <<nextId, task, stt, running, env, rotation, stranded, answer>>
  <2>1. NoRow \in Row
    BY DiaryAssumption DEF NoRow, Row, Keys
  <2>2. QED
    BY <2>1 DEF DiaryInvariant, TypeOK, Delete, Exists, NoRow
<1>2. QED
  BY <1>1 DEF DiaryInvariant, TypeOK, FreshIds, KeysInStep, CopyCurrent,
              EntriesHaveOwner, SettledReadable, ReadByOwner, Disturbed, Committed, StoredKey, Exists

LEMMA LostStages ==
  ASSUME TypeOK, task' = Lost
  PROVE  /\ task' \in [Ids -> Stages]
         /\ \A i \in Ids : task'[i] = "written" => task[i] = "written"
BY DEF TypeOK, Lost, Stages, InFlight

LEMMA RecreateStep ==
  ASSUME DiaryInvariant, Recreate
  PROVE  DiaryInvariant'
<1>1. /\ UNCHANGED <<accounts, diary, nextId, stt, env, answer>>
      /\ running' = env /\ TypeOK /\ KeysInStep /\ SettledReadable
  BY DEF DiaryInvariant, Recreate
<1>2. /\ task' \in [Ids -> Stages]
      /\ \A i \in Ids : task'[i] = "written" => task[i] = "written"
  BY <1>1, LostStages DEF Recreate
<1>3. NoRotation \in [phase : Phases, key : Keys, copy : [Ids -> Row], late : SUBSET Ids]
  BY DiaryAssumption DEF NoRotation, NoRow, Row, Keys, Phases
<1>4. CASE rotation.phase = "reencrypted"
  BY <1>1, <1>2, <1>4
     DEF DiaryInvariant, Recreate, TypeOK, FreshIds, KeysInStep, CopyCurrent,
         EntriesHaveOwner, SettledReadable, ReadByOwner, Disturbed, Committed, StoredKey, Exists
<1>5. CASE rotation.phase # "reencrypted"
  <2>1. /\ rotation' = NoRotation /\ rotation'.phase = "none"
        /\ StoredKey' = running' /\ running' = StoredKey
    BY <1>1, <1>5 DEF Recreate, NoRotation, StoredKey, Committed, KeysInStep, TypeOK, Phases
  <2>2. stranded' \subseteq Ids /\ Disturbed \subseteq Disturbed'
    BY <1>1, <1>5, <2>1 DEF Recreate, TypeOK, Disturbed, Committed, Phases
  <2>3. TypeOK' /\ KeysInStep' /\ CopyCurrent'
    BY <1>1, <1>2, <1>3, <2>1, <2>2 DEF TypeOK, KeysInStep, CopyCurrent
  <2>4. FreshIds' /\ EntriesHaveOwner' /\ ReadByOwner'
    BY <1>1 DEF DiaryInvariant, FreshIds, EntriesHaveOwner, ReadByOwner, Exists
  <2>5. SettledReadable'
    BY <1>1, <1>2, <2>1, <2>2 DEF SettledReadable, Exists
  <2>6. QED
    BY <2>3, <2>4, <2>5 DEF DiaryInvariant
<1>6. QED
  BY <1>4, <1>5

\* The commit of the script: every entry of its copy that still exists comes
\* under the new key; the others were written to while it ran.
LEMMA CommitStep ==
  ASSUME DiaryInvariant, ScriptCommit
  PROVE  DiaryInvariant'
<1>1. /\ TypeOK /\ rotation.phase = "read" /\ rotation.key \in Keys
      /\ rotation.copy \in [Ids -> Row] /\ rotation.late \subseteq Ids
      /\ UNCHANGED <<accounts, nextId, task, stt, running, env, stranded, answer>>
      /\ CopyCurrent /\ SettledReadable /\ KeysInStep
  BY DEF DiaryInvariant, ScriptCommit, TypeOK
<1>2. /\ rotation'.phase = "reencrypted" /\ rotation'.key = rotation.key
      /\ rotation'.late = rotation.late
      /\ rotation' \in [phase : Phases, key : Keys, copy : [Ids -> Row], late : SUBSET Ids]
  <2>1. NoRotation.copy \in [Ids -> Row]
    BY DiaryAssumption DEF NoRotation, NoRow, Row, Keys
  <2>2. rotation' = [rotation EXCEPT !.phase = "reencrypted", !.copy = NoRotation.copy]
    BY DEF ScriptCommit
  <2> HIDE DEF NoRotation
  <2>3. QED
    BY <1>1, <2>1, <2>2 DEF TypeOK, Phases
<1>3. \A i \in Ids : diary'[i] = IF i \in Copied /\ Exists(i) THEN Reencrypted(i) ELSE diary[i]
  BY DEF ScriptCommit
<1>4. \A i \in Ids : /\ Reencrypted(i) \in Row
                      /\ Reencrypted(i).owner = diary[i].owner
                      /\ Reencrypted(i).audio = rotation.key
                      /\ Reencrypted(i).text = rotation.key
                      /\ Reencrypted(i).transcribed = rotation.copy[i].transcribed
  BY <1>1 DEF Reencrypted, TypeOK, Row
<1>5. diary' \in [Ids -> Row]
  BY <1>1, <1>4 DEF ScriptCommit, TypeOK
<1>6. \A i \in Ids : diary'[i].owner = diary[i].owner
  BY <1>3, <1>4
<1>7. TypeOK' /\ FreshIds' /\ KeysInStep' /\ CopyCurrent' /\ EntriesHaveOwner' /\ ReadByOwner'
  BY <1>1, <1>2, <1>5, <1>6
     DEF DiaryInvariant, TypeOK, FreshIds, KeysInStep, CopyCurrent, EntriesHaveOwner,
         ReadByOwner, Exists
<1>8. SettledReadable'
  <2> SUFFICES ASSUME NEW i \in Ids \ (stranded \cup rotation.late), Exists(i)
               PROVE  /\ diary'[i].audio = rotation.key /\ diary'[i].text = rotation.key
                      /\ task[i] = "written" => diary'[i].transcribed
    BY <1>1, <1>2, <1>6 DEF SettledReadable, Disturbed, Committed, StoredKey, Exists
  <2>1. rotation.copy[i] = diary[i] /\ i \in Copied
    BY <1>1 DEF CopyCurrent, Copied, Exists
  <2>2. task[i] = "written" => diary[i].transcribed
    BY <1>1 DEF SettledReadable, Disturbed, Committed
  <2>3. QED
    BY <1>3, <1>4, <2>1, <2>2
<1>9. QED
  BY <1>7, <1>8 DEF DiaryInvariant

LEMMA OperatorStep ==
  ASSUME DiaryInvariant, ScriptRead \/ ScriptDies \/ EditEnv
  PROVE  DiaryInvariant'
<1>1. /\ TypeOK
      /\ UNCHANGED <<accounts, diary, nextId, task, stt, running, stranded, answer>>
  BY DEF DiaryInvariant, ScriptRead, ScriptDies, EditEnv
<1>2. FreshIds' /\ EntriesHaveOwner' /\ ReadByOwner'
  BY <1>1 DEF DiaryInvariant, FreshIds, EntriesHaveOwner, ReadByOwner, Exists
<1>3. CASE ScriptRead
  <2>1. running + 1 \in Keys /\ env' = env
    BY <1>1, <1>3, DiaryAssumption DEF ScriptRead, TypeOK, Keys
  <2>2. /\ rotation' \in [phase : Phases, key : Keys, copy : [Ids -> Row], late : SUBSET Ids]
        /\ rotation'.phase = "read" /\ rotation'.copy = diary /\ rotation.phase = "none"
    BY <1>1, <1>3, <2>1 DEF ScriptRead, TypeOK, Phases
  <2>3. TypeOK' /\ KeysInStep' /\ CopyCurrent' /\ SettledReadable'
    BY <1>1, <2>1, <2>2
       DEF DiaryInvariant, TypeOK, KeysInStep, CopyCurrent, SettledReadable, Disturbed,
           Committed, StoredKey, Exists
  <2>4. QED
    BY <1>2, <2>3 DEF DiaryInvariant
<1>4. CASE ScriptDies
  <2>1. /\ rotation' \in [phase : Phases, key : Keys, copy : [Ids -> Row], late : SUBSET Ids]
        /\ rotation'.phase = "none" /\ rotation.phase = "read" /\ env' = env
    BY <1>4, DiaryAssumption DEF ScriptDies, NoRotation, NoRow, Row, Keys, Phases
  <2>2. TypeOK' /\ KeysInStep' /\ CopyCurrent' /\ SettledReadable'
    BY <1>1, <2>1
       DEF DiaryInvariant, TypeOK, KeysInStep, CopyCurrent, SettledReadable, Disturbed,
           Committed, StoredKey, Exists
  <2>3. QED
    BY <1>2, <2>2 DEF DiaryInvariant
<1>5. CASE EditEnv
  <2>1. /\ rotation' \in [phase : Phases, key : Keys, copy : [Ids -> Row], late : SUBSET Ids]
        /\ rotation'.phase = "edited" /\ rotation.phase = "reencrypted"
        /\ rotation'.key = rotation.key /\ rotation'.late = rotation.late
        /\ env' = rotation.key /\ env' \in Keys
    BY <1>1, <1>5 DEF EditEnv, TypeOK, Phases
  <2>2. TypeOK' /\ KeysInStep' /\ CopyCurrent' /\ SettledReadable'
    BY <1>1, <2>1
       DEF DiaryInvariant, TypeOK, KeysInStep, CopyCurrent, SettledReadable, Disturbed,
           Committed, StoredKey, Exists
  <2>3. QED
    BY <1>2, <2>2 DEF DiaryInvariant
<1>6. QED
  BY <1>3, <1>4, <1>5

LEMMA AnswerStep ==
  ASSUME DiaryInvariant, NEW u \in Users, NEW i \in Ids, Play(u, i) \/ ShowTranscript(u, i)
  PROVE  DiaryInvariant'
<1>1. /\ Exists(i) /\ diary[i].owner = u /\ answer' = [reader |-> u, entry |-> i]
      /\ UNCHANGED <<accounts, diary, nextId, task, stt, running, env, rotation, stranded>>
  BY DEF Play, ShowTranscript, Visible
<1>2. i < nextId
  BY <1>1 DEF DiaryInvariant, FreshIds, TypeOK, Ids
<1>3. QED
  BY <1>1, <1>2
     DEF DiaryInvariant, TypeOK, FreshIds, KeysInStep, CopyCurrent, EntriesHaveOwner,
         SettledReadable, ReadByOwner, Disturbed, Committed, StoredKey, Exists

LEMMA DiaryNext ==
  ASSUME DiaryInvariant, [Next]_vars
  PROVE  DiaryInvariant'
<1>1. CASE UNCHANGED vars
  BY <1>1 DEF vars, DiaryInvariant, TypeOK, FreshIds, KeysInStep, CopyCurrent,
              EntriesHaveOwner, SettledReadable, ReadByOwner, Disturbed, Committed,
              StoredKey, Exists
<1>2. ASSUME NEW u \in Users, Save(u) PROVE DiaryInvariant'
  BY <1>2, SaveStep
<1>3. ASSUME NEW u \in Users, ForgetUser(u) PROVE DiaryInvariant'
  BY <1>3, DeleteStep DEF ForgetUser, DiaryInvariant, EntriesHaveOwner
<1>4. ASSUME NEW u \in Users, NEW i \in Ids, ForgetEntry(u, i) PROVE DiaryInvariant'
  BY <1>4, DeleteStep DEF ForgetEntry, DiaryInvariant, EntriesHaveOwner
<1>5. ASSUME NEW u \in Users, NEW i \in Ids, Play(u, i) \/ ShowTranscript(u, i)
      PROVE  DiaryInvariant'
  BY <1>5, AnswerStep
<1>6. ASSUME NEW i \in Ids, Refresh(i) \/ Reply(i) \/ Fail(i) \/ LookUp(i)
      PROVE  DiaryInvariant'
  <2>1. PICK s \in Stages : s # "written" /\ Enter(i, s)
    BY <1>6 DEF Refresh, Reply, Fail, LookUp, Stages
  <2>2. QED
    BY <1>6, <2>1, StageStep DEF Refresh, Reply, Fail, LookUp
<1>7. ASSUME NEW i \in Ids, WriteTranscript(i) PROVE DiaryInvariant'
  BY <1>7, WriteStep
<1>8. CASE Crash
  BY <1>8, LostStages
     DEF Crash, DiaryInvariant, TypeOK, FreshIds, KeysInStep, CopyCurrent,
         EntriesHaveOwner, SettledReadable, ReadByOwner, Disturbed, Committed,
         StoredKey, Exists
<1>9. CASE Recreate
  BY <1>9, RecreateStep
<1>10. CASE ScriptCommit
  BY <1>10, CommitStep
<1>11. CASE ScriptRead \/ ScriptDies \/ EditEnv
  BY <1>11, OperatorStep
<1>12. QED
  BY <1>1, <1>2, <1>3, <1>4, <1>5, <1>6, <1>7, <1>8, <1>9, <1>10, <1>11 DEF Next

\* The invariant holds of every behaviour, for any number of users, entries and
\* rotations.
THEOREM DiaryInvariance == Spec => []DiaryInvariant
BY DiaryInit, DiaryNext, PTL DEF Spec

\* Every variable of the diary keeps its shape.
THEOREM DiaryTyped == Spec => []TypeOK
BY DiaryInvariance, PTL DEF DiaryInvariant

\* No entry outlives its owner's account (diary.py:92-100).
THEOREM NothingOfTheErased == Spec => []EntriesHaveOwner
BY DiaryInvariance, PTL DEF DiaryInvariant

\* What was not written to during a rotation stays readable through any number of
\* rotations, failed and killed scripts included (key-rotation.md:51-108).
THEOREM RotationKeepsSettled == Spec => []SettledReadable
BY DiaryInvariance, PTL DEF DiaryInvariant

\* Nobody hears or reads an entry of somebody else (diary.py:254-262, 286-293).
THEOREM OwnerReads == Spec => []ReadByOwner
BY DiaryInvariance, PTL DEF DiaryInvariant

\* A deleted entry is not brought back by what was read before it was deleted
\* (diary.py:165-174, key-rotation.md:77-85).
THEOREM Erasure == Spec => DeletedStaysDeleted
<1>1. ASSUME DiaryInvariant, [Next]_vars, NEW i \in Ids, i < nextId, ~Exists(i)
      PROVE  ~Exists(i)'
  <2>1. CASE \E u \in Users : Save(u)
    BY <1>1, <2>1 DEF Save, DiaryInvariant, TypeOK, Exists, Ids
  <2>2. CASE \E j \in Ids : WriteTranscript(j)
    BY <1>1, <2>2 DEF WriteTranscript, Transcribed, DiaryInvariant, TypeOK, Row, Exists
  <2>3. CASE ScriptCommit
    BY <1>1, <2>3 DEF ScriptCommit, Exists
  <2>4. CASE \E gone \in SUBSET Ids : Delete(gone)
    BY <1>1, <2>4 DEF Delete, Exists, NoRow
  <2>5. CASE diary' = diary
    BY <1>1, <2>5 DEF Exists
  <2>6. \/ \E u \in Users : Save(u)
        \/ \E j \in Ids : WriteTranscript(j)
        \/ ScriptCommit
        \/ \E gone \in SUBSET Ids : Delete(gone)
        \/ diary' = diary
    <3>1. \A u \in Users : ForgetUser(u) => \E gone \in SUBSET Ids : Delete(gone)
      BY DEF ForgetUser
    <3>2. \A u \in Users, j \in Ids : ForgetEntry(u, j) => \E gone \in SUBSET Ids : Delete(gone)
      BY DEF ForgetEntry
    <3>3. QED
      BY <1>1, <3>1, <3>2
         DEF Next, Play, ShowTranscript, Refresh, Reply, Fail, LookUp, Crash, Recreate,
             ScriptRead, ScriptDies, EditEnv, vars
  <2>7. QED
    BY <2>1, <2>2, <2>3, <2>4, <2>5, <2>6
<1>2. DiaryInvariant /\ [Next]_vars =>
        [\A i \in Ids : i < nextId /\ ~Exists(i) => ~Exists(i)']_vars
  BY <1>1
<1>3. QED
  BY <1>2, DiaryInvariance, PTL DEF Spec, DeletedStaysDeleted
=============================================================================
