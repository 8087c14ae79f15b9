----------------------------- MODULE MCAccounts -----------------------------
(***************************************************************************)
(* An instance of Accounts: one mailbox spelled in two ways.               *)
(***************************************************************************)
EXTENDS Accounts, TLC

CONSTANTS ana, Ana, pw1, pw2

MCAddresses == {ana, Ana}
MCCanonical == [a \in MCAddresses |-> ana]
MCPasswords == {pw1, pw2}

MCSymmetry == Permutations(MCPasswords)

=============================================================================
