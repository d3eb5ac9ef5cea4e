----------------------------- MODULE VoiceDiary -----------------------------
(***************************************************************************)
(* The voice diary: bot/handlers/diary.py with its background              *)
(* transcription, the encryption of core/voice_crypto.py, and the          *)
(* operator's change of the key, which is the script of                    *)
(* docs/key-rotation.md, an edit of .env and a restart.                    *)
(*                                                                         *)
(* A ciphertext is the key it was made with; of what was said only whether *)
(* a transcript is there matters.  The processes hold the key they were    *)
(* started with.  The database gives every row a new id and never reuses   *)
(* one, for entries and for users.                                         *)
(***************************************************************************)
EXTENDS Integers, FiniteSets

CONSTANTS
  Users,       \* ids of users rows: an owner who registers again gets a new one
  NoUser,
  MaxEntries,  \* bound: voice_diary ids handed out
  MaxKey       \* bound: keys the operator generates

ASSUME DiaryAssumption ==
  NoUser \notin Users /\ MaxEntries \in Nat /\ MaxKey \in Nat \ {0}

VARIABLES
  accounts,  \* users rows that exist
  diary,     \* voice_diary rows
  nextId,    \* the id sequence
  task,      \* for each entry, how far its handler and transcription are
  stt,       \* an STT provider is configured
  running,   \* DIARY_ENCRYPTION_KEY of the running processes
  env,       \* DIARY_ENCRYPTION_KEY of .env
  rotation,  \* the operator's change of the key
  stranded,  \* entries written to while a finished rotation was under way
  answer     \* the last answer to /diary play or /diary transcript

vars == <<accounts, diary, nextId, task, stt, running, env, rotation, stranded, answer>>

Ids == 1 .. MaxEntries
Keys == 1 .. MaxKey

Row == [owner : Users \cup {NoUser}, audio : Keys, text : Keys, transcribed : BOOLEAN]
NoRow == [owner |-> NoUser, audio |-> 1, text |-> 1, transcribed |-> FALSE]
Exists(i) == diary[i].owner # NoUser

\* Before the row, after its commit, at the reply, with the STT provider, with
\* the row read; and the ends: written, too late, no provider, failed, lost in a
\* restart.
Stages == {"none", "saved", "replying", "transcribing", "writing",
           "written", "dropped", "off", "failed", "lost"}
InFlight == {"saved", "replying", "transcribing", "writing"}

Phases == {"none", "read", "reencrypted", "edited"}
NoRotation == [phase |-> "none", key |-> 1, copy |-> [i \in Ids |-> NoRow], late |-> {}]
NoAnswer == [reader |-> NoUser, entry |-> 0]

Enter(i, stage) == task' = [task EXCEPT ![i] = stage]

\* A write to the entry by a running process, noted while a rotation is under way.
Touched(i) ==
  rotation' = IF rotation.phase = "none" THEN rotation
              ELSE [rotation EXCEPT !.late = @ \cup {i}]

-----------------------------------------------------------------------------
Init ==
  /\ accounts = Users
  /\ diary = [i \in Ids |-> NoRow]
  /\ nextId = 1
  /\ task = [i \in Ids |-> "none"]
  /\ stt \in BOOLEAN
  /\ running = 1 /\ env = 1
  /\ rotation = NoRotation
  /\ stranded = {}
  /\ answer = NoAnswer

-----------------------------------------------------------------------------
(* handle_voice.  The user was looked up before the download.               *)

\* Slip: the foreign key is not checked.
MayOwnAny(u) == TRUE
\* The foreign key of voice_diary.owner_user_id.
MayOwn(u) == u \in accounts

\* INSERT and commit, both columns under the key of this process.  For a user
\* erased meanwhile the INSERT raises and the message is lost.
Save(u) ==
  /\ nextId \in Ids
  /\ MayOwn(u)
  /\ diary' = [diary EXCEPT ![nextId] = [owner |-> u, audio |-> running,
                                         text |-> running, transcribed |-> FALSE]]
  /\ Enter(nextId, "saved")
  /\ Touched(nextId)
  /\ nextId' = nextId + 1
  /\ UNCHANGED <<accounts, stt, running, env, stranded, answer>>

\* refresh() reads the row back, and raises when it has gone already.
Refresh(i) ==
  /\ task[i] = "saved"
  /\ Enter(i, IF Exists(i) THEN "replying" ELSE "failed")
  /\ UNCHANGED <<accounts, diary, nextId, stt, running, env, rotation, stranded, answer>>

\* The reply is sent, and only then the transcription is started.
Reply(i) ==
  /\ task[i] = "replying"
  /\ Enter(i, IF stt THEN "transcribing" ELSE "off")
  /\ UNCHANGED <<accounts, diary, nextId, stt, running, env, rotation, stranded, answer>>

\* The reply cannot be sent, the provider raises, or the database connection is
\* lost: nothing tries again.
Fail(i) ==
  /\ task[i] \in InFlight
  /\ Enter(i, "failed")
  /\ UNCHANGED <<accounts, diary, nextId, stt, running, env, rotation, stranded, answer>>

\* _transcribe_and_persist has the transcript and looks the row up.
LookUp(i) ==
  /\ task[i] = "transcribing"
  /\ Enter(i, IF Exists(i) THEN "writing" ELSE "dropped")
  /\ UNCHANGED <<accounts, diary, nextId, stt, running, env, rotation, stranded, answer>>

\* Slip: an upsert, which brings a deleted entry back.
Upserted(i) ==
  [diary EXCEPT ![i] = [owner |-> CHOOSE u \in Users : TRUE, audio |-> running,
                        text |-> running, transcribed |-> TRUE]]
\* The UPDATE of the transcript column.
Transcribed(i) ==
  IF Exists(i) THEN [diary EXCEPT ![i].text = running, ![i].transcribed = TRUE]
  ELSE diary

\* The commit.  When the row has gone since it was read, the UPDATE matches
\* nothing and the task ends with an exception nobody sees.
WriteTranscript(i) ==
  /\ task[i] = "writing"
  /\ diary' = Transcribed(i)
  /\ Touched(i)
  /\ Enter(i, IF Exists(i) THEN "written" ELSE "dropped")
  /\ UNCHANGED <<accounts, nextId, stt, running, env, stranded, answer>>

-----------------------------------------------------------------------------
(* The owner's commands.                                                    *)

\* WHERE id = .. AND owner_user_id = ..: anything else is "not found".
Visible(u, i) == Exists(i) /\ diary[i].owner = u

\* /diary play and /diary transcript: decrypted with the key of the process, or
\* refused; a transcript not there yet is said to be so.
Play(u, i) ==
  /\ Visible(u, i)
  /\ diary[i].audio = running
  /\ answer' = [reader |-> u, entry |-> i]
  /\ UNCHANGED <<accounts, diary, nextId, task, stt, running, env, rotation, stranded>>

ShowTranscript(u, i) ==
  /\ Visible(u, i)
  /\ diary[i].text = running /\ diary[i].transcribed
  /\ answer' = [reader |-> u, entry |-> i]
  /\ UNCHANGED <<accounts, diary, nextId, task, stt, running, env, rotation, stranded>>

Delete(gone) ==
  /\ diary' = [i \in Ids |-> IF i \in gone THEN NoRow ELSE diary[i]]
  /\ UNCHANGED <<nextId, task, stt, running, env, rotation, stranded, answer>>

\* /diary forget.
ForgetEntry(u, i) ==
  /\ Visible(u, i)
  /\ Delete({i})
  /\ UNCHANGED accounts

\* /forget: the users row goes, and the entries by ON DELETE CASCADE.
ForgetUser(u) ==
  /\ u \in accounts
  /\ accounts' = accounts \ {u}
  /\ Delete({i \in Ids : diary[i].owner = u})

-----------------------------------------------------------------------------
(* Restarts, and the change of the key.                                     *)

Lost == [i \in Ids |-> IF task[i] \in InFlight THEN "lost" ELSE task[i]]

\* A process ends and supervisord starts it again: in the same container, so
\* with the same key.
Crash ==
  /\ \E i \in Ids : task[i] \in InFlight
  /\ task' = Lost
  /\ UNCHANGED <<accounts, diary, nextId, stt, running, env, rotation, stranded, answer>>

\* The container is recreated: the processes read .env, a script inside is
\* killed, and a rotation that had come this far is over.
Recreate ==
  /\ task' = Lost
  /\ running' = env
  /\ rotation' = IF rotation.phase = "reencrypted" THEN rotation ELSE NoRotation
  /\ stranded' = IF rotation.phase = "edited" THEN stranded \cup rotation.late ELSE stranded
  /\ UNCHANGED <<accounts, diary, nextId, stt, env, answer>>

\* The script reads every row.  The old key is the running processes'.
ScriptRead ==
  /\ rotation.phase = "none"
  /\ running < MaxKey
  /\ rotation' = [phase |-> "read", key |-> running + 1, copy |-> diary, late |-> {}]
  /\ UNCHANGED <<accounts, diary, nextId, task, stt, running, env, stranded, answer>>

Copied == {i \in Ids : rotation.copy[i].owner # NoUser}

Decryptable(i) == /\ rotation.copy[i].audio = running
                  /\ rotation.copy[i].text = running

\* Slip: only the audio is encrypted again.
ReencryptedAudio(i) == [diary[i] EXCEPT !.audio = rotation.key]
\* Slip: a missing NEW_DIARY_KEY goes unnoticed.
ReencryptedUnderNone(i) == [diary[i] EXCEPT !.audio = 0, !.text = 0]
\* What the script writes of a row: both columns, from its copy.
Reencrypted(i) == [diary[i] EXCEPT !.audio = rotation.key, !.text = rotation.key,
                                   !.transcribed = rotation.copy[i].transcribed]

\* One commit for all rows.  It needs every row of the copy to open with the old
\* key.  A row deleted meanwhile is passed over, except that the driver notices
\* when it is the only one.
ScriptCommit ==
  /\ rotation.phase = "read"
  /\ \A i \in Copied : Decryptable(i)
  /\ Cardinality(Copied) = 1 => \A i \in Copied : Exists(i)
  /\ diary' = [i \in Ids |-> IF i \in Copied /\ Exists(i) THEN Reencrypted(i) ELSE diary[i]]
  /\ rotation' = [rotation EXCEPT !.phase = "reencrypted",
                                  !.copy = NoRotation.copy]
  /\ UNCHANGED <<accounts, nextId, task, stt, running, env, stranded, answer>>

\* The script dies before its commit: nothing has changed.
ScriptDies ==
  /\ rotation.phase = "read"
  /\ rotation' = NoRotation
  /\ UNCHANGED <<accounts, diary, nextId, task, stt, running, env, stranded, answer>>

EditEnv ==
  /\ rotation.phase = "reencrypted"
  /\ env' = rotation.key
  /\ rotation' = [rotation EXCEPT !.phase = "edited"]
  /\ UNCHANGED <<accounts, diary, nextId, task, stt, running, stranded, answer>>

Next ==
  \/ \E u \in Users : \/ Save(u) \/ ForgetUser(u)
                      \/ \E i \in Ids : Play(u, i) \/ ShowTranscript(u, i) \/ ForgetEntry(u, i)
  \/ \E i \in Ids : Refresh(i) \/ Reply(i) \/ Fail(i) \/ LookUp(i) \/ WriteTranscript(i)
  \/ Crash \/ Recreate
  \/ ScriptRead \/ ScriptCommit \/ ScriptDies \/ EditEnv

Spec == Init /\ [][Next]_vars

-----------------------------------------------------------------------------
(* Properties.                                                              *)

TypeOK ==
  /\ accounts \subseteq Users
  /\ diary \in [Ids -> Row]
  /\ nextId \in Nat \ {0}
  /\ task \in [Ids -> Stages]
  /\ stt \in BOOLEAN
  /\ running \in Keys /\ env \in Keys
  /\ rotation \in [phase : Phases, key : Keys, copy : [Ids -> Row], late : SUBSET Ids]
  /\ stranded \subseteq Ids
  /\ answer \in [reader : Users \cup {NoUser}, entry : Ids \cup {0}]

\* An erased user has no entries, also not from a message that was being
\* downloaded or transcribed while the account was erased (diary.py:92-100).
EntriesHaveOwner == \A i \in Ids : Exists(i) => diary[i].owner \in accounts

Committed == rotation.phase \in {"reencrypted", "edited"}

\* The key the database is under: the script's once it has committed.
StoredKey == IF Committed THEN rotation.key ELSE running

\* The entries written to between the script's read and the restart of a rotation
\* whose script has committed.
Disturbed == stranded \cup (IF Committed THEN rotation.late ELSE {})

\* Every other entry opens with the stored key, audio and transcript, and a
\* transcript that was announced is there (diary.py:154-184,
\* key-rotation.md:77-85): a script that dies and a killed one change nothing.
SettledReadable ==
  \A i \in Ids \ Disturbed :
    Exists(i) => /\ diary[i].audio = StoredKey /\ diary[i].text = StoredKey
                 /\ task[i] = "written" => diary[i].transcribed

\* A deleted entry stays deleted: neither the transcription nor the script brings
\* it back (diary.py:165-174), although both write from what they read before.
DeletedStaysDeleted ==
  [][\A i \in Ids : i < nextId /\ ~Exists(i) => ~Exists(i)']_vars

\* Only the owner's own entries are ever played or shown: to whoever got the
\* last answer, its entry belonged or has been deleted since (diary.py:254-262).
ReadByOwner ==
  answer.entry \in Ids => diary[answer.entry].owner \in {answer.reader, NoUser}

-----------------------------------------------------------------------------
(* What the texts promise and the code does not keep.                       *)

\* "The safe way: re-encrypt first, then change the key" (key-rotation.md:41):
\* with no rotation under way every entry opens with the running key.
SafePath ==
  rotation.phase = "none" =>
    \A i \in Ids : Exists(i) => diary[i].audio = running /\ diary[i].text = running

\* "The transcript is ready" (diary.py:179): the transcript of an entry that was
\* announced is there as long as the entry is.
AnnouncedStays == \A i \in Ids : Exists(i) /\ task[i] = "written" => diary[i].transcribed
=============================================================================
