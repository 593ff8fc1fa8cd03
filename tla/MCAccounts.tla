----------------------------- MODULE MCAccounts -----------------------------
(* Two threads, three accounts at most, one name two people want. *)
EXTENDS Accounts, TLC

MCNames == {"ann", "bob"}
MCPasswords == {"p", "q"}
MCTypes == {0, 1}
MCTopups == {1}
MCThreads == {1, 2}
=============================================================================
