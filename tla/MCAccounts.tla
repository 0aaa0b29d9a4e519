----------------------------- MODULE MCAccounts -----------------------------
(***************************************************************************)
(* Small instances of Accounts.                                            *)
(***************************************************************************)
EXTENDS AccountsInv

CONSTANTS f1, f2

\* Two user names, a second spelling of the first, and a refused name.
Users == {"ann", "ANN", "bob", ".x"}
Accepted == {"ann", "ANN", "bob"}
Files == {f1, f2}
FoldCase == [u \in Users |-> IF u = "bob" THEN f2 ELSE f1]

TwoUsers == {"ann", "bob"}
Apart == [u \in TwoUsers |-> IF u = "bob" THEN f2 ELSE f1]
=============================================================================
