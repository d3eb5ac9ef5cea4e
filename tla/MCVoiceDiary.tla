---------------------------- MODULE MCVoiceDiary ----------------------------
(* TLC instances of VoiceDiary.  Users differ in nothing but their name.    *)
EXTENDS VoiceDiary, TLC

UserSymmetry == Permutations(Users)
=============================================================================
