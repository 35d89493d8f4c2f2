----------------------------- MODULE MCAccounts -----------------------------
(* Instances of Accounts for TLC. *)
EXTENDS Accounts

CONSTANTS a1, A1

\* Two spellings of one address.
MCNormal == [s \in Spellings |-> a1]
=============================================================================
