------------------------------ MODULE Registry ------------------------------
(***************************************************************************)
(* What the accounts promise, with no disk, no steps and no failures: a    *)
(* place in the directory is given once and for good, to an account whose  *)
(* name leads there, and a session is one of the accounts given.           *)
(***************************************************************************)
CONSTANTS Proc, Place, Account, PlaceOf, Absent

VARIABLES
    accounts,   \* accounts[f]: the account that place f was given to
    sessions    \* sessions[p]: the account process p is logged in with

vars == <<accounts, sessions>>

Init == /\ accounts = [f \in Place |-> Absent]
        /\ sessions = [p \in Proc |-> Absent]

Give(acc) ==
    /\ accounts[PlaceOf[acc.name]] = Absent
    /\ accounts' = [accounts EXCEPT ![PlaceOf[acc.name]] = acc]
    /\ UNCHANGED sessions

Enter(p, f) ==
    /\ sessions[p] = Absent /\ accounts[f] # Absent
    /\ sessions' = [sessions EXCEPT ![p] = accounts[f]]
    /\ UNCHANGED accounts

Leave(p) ==
    /\ sessions' = [sessions EXCEPT ![p] = Absent]
    /\ UNCHANGED accounts

Next == \/ \E acc \in Account : Give(acc)
        \/ \E p \in Proc : Leave(p) \/ \E f \in Place : Enter(p, f)

Spec == Init /\ [][Next]_vars
=============================================================================
