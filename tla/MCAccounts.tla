----------------------------- MODULE MCAccounts -----------------------------
(***************************************************************************)
(* Instances of Accounts for TLC.                                          *)
(***************************************************************************)
EXTENDS Accounts, TLC

CONSTANTS e1, google1, github1, github2

\* Two accounts of one person, and one whose address GitHub does not tell.
MCAddressOf == google1 :> e1 @@ github1 :> e1 @@ github2 :> Null

MCSymmetry == Permutations(User) \cup Permutations(Code) \cup Permutations(Request)
                \cup Permutations(Process) \cup Permutations(Password)
=============================================================================
