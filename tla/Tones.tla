------------------------------- MODULE Tones -------------------------------
(***************************************************************************)
(* The escalation ladder of scheduler/tones.py: four tones, a step up      *)
(* that stays at the top, and the delay that follows a nudge.              *)
(***************************************************************************)
EXTENDS Naturals

\* _TONE_ORDER, from the mildest to the ceiling.
ToneOrder == <<"soft", "normal", "sharp", "hard">>
Tones == {"soft", "normal", "sharp", "hard"}

\* CAP_TONE and CAP_ITERATIONS_WITHOUT_REACTION, the two halves of the cap.
CapTone == "hard"
CapIterations == 3

\* The tone an unread reminder restarts from (_reset_tone, the column default).
FirstTone == "soft"

\* escalate: one step up the ladder, HARD stays HARD.
Escalate(tone) ==
  CASE tone = "soft"   -> "normal"
    [] tone = "normal" -> "sharp"
    [] OTHER           -> CapTone

(***************************************************************************)
(* What the ladder amounts to: the tone reached after n steps from SOFT.   *)
(***************************************************************************)
ToneAfter(n) == IF n + 1 < 4 THEN ToneOrder[n + 1] ELSE CapTone
=============================================================================
