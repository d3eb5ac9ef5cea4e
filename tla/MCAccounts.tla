----------------------------- MODULE MCAccounts -----------------------------
(* Values for the constants of Accounts that a .cfg cannot write down.       *)
EXTENDS Accounts, TLC

Nine == [from |-> 22, to |-> 9]
\* Each changes one hour of the default: together they make equal hours.
Clashing == {[from |-> 8, to |-> 9], [from |-> 22, to |-> 8]}
\* Together they make a pair nobody asked for.
Mixing == {[from |-> 23, to |-> 9], [from |-> 22, to |-> 8]}
NoQuiet == {}
HandlerSymmetry == Permutations(Handlers)
=============================================================================
