----------------------------- MODULE MCAccounts -----------------------------
(* Accounts with a few requests in flight.                                 *)
EXTENDS Accounts, TLC

\* Workers are interchangeable: no action tells them apart.
Workers == Permutations(Worker)
=============================================================================
