------------------------------ MODULE MCAccounts ------------------------------
(* Instances of Accounts for TLC. *)
EXTENDS Accounts, TLC

\* The ids are interchangeable.
Symmetric == Permutations(Session) \cup Permutations(Req)
===============================================================================
