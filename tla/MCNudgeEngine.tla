--------------------------- MODULE MCNudgeEngine ---------------------------
(* Values for the constants of NudgeEngine that a .cfg cannot write down.    *)
(* The day of these runs has five hours of two minutes.                      *)
EXTENDS NudgeLife, TLC

\* 1 h, 30 min, 15 min and 10 min in those minutes, rounded up.
MCInterval == [soft |-> 2, normal |-> 1, sharp |-> 1, hard |-> 1]

\* Quiet at 6..9, in a zone two minutes ahead: a window that wraps midnight.
Late == [from |-> 4, to |-> 1, offset |-> 2]
\* Quiet at 2..3, inside the day.
Short == [from |-> 1, to |-> 2, offset |-> 0]

\* Quiet at 0..3, further east again: the window ends on the next local day.
Now == [from |-> 4, to |-> 1, offset |-> 8]

\* Like Late, but quiet from 4 on: /quiet and /timezone lead from one to another.
Early == [from |-> 3, to |-> 1, offset |-> 2]

OnlyLate == {Late}
OnlyShort == {Short}
AnySetting == {Late, Early, Now}

\* Reactions under way at once differ in nothing but their name.
HandlerSymmetry == Permutations(Handlers)
=============================================================================
