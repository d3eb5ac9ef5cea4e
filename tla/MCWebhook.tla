------------------------------ MODULE MCWebhook ------------------------------
(* The instance of Webhook TLC checks; see the .cfg files.                   *)
EXTENDS Webhook, TLC

WorkerSymmetry == Permutations(Workers)
=============================================================================
