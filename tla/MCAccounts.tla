----------------------------- MODULE MCAccounts -----------------------------
(***************************************************************************)
(* Accounts for TLC.  Keys, tokens and requests are interchangeable, and   *)
(* all properties are invariants, so symmetry is sound.                    *)
(***************************************************************************)
EXTENDS Accounts, TLC

Symmetry == Permutations(Keys) \cup Permutations(Tokens) \cup Permutations(Requests)
=============================================================================
