----------------------------- MODULE AccountsInv -----------------------------
(***************************************************************************)
(* What every reachable state of Accounts knows about who may touch which  *)
(* record, in named parts, and how Accounts implements Registry.           *)
(***************************************************************************)
EXTENDS Accounts

Creating(p) == call[p].step \in {"write", "drop"}

\* What users_create has put at the path of the account it is creating.
Begun(p) == [name |-> call[p].name, pw |-> call[p].pw,
             role |-> call[p].role, form |-> "torn"]

\* The exclusive open made the record, and nobody else has touched it since.
CreatorsHoldTheirFile ==
    \A p \in Proc : Creating(p) => users[FileOf[call[p].name]] = Begun(p)

\* Never two at work on one record.
OneCreatorPerFile ==
    \A p, q \in Proc :
        Creating(p) /\ Creating(q) /\ FileOf[call[p].name] = FileOf[call[q].name]
            => p = q

\* A record is where its own name leads, however the name was spelled.
RecordsAtTheirFile ==
    \A f \in File : users[f] # None => FileOf[users[f].name] = f

\* The record a login has loaded is still the one on disk when the password
\* is checked against it.
VerifiesTheRecordOnDisk ==
    \A p \in Proc : call[p].step = "verify" =>
        LET r == call[p].record IN
        /\ r.form = "whole" /\ r.role = call[p].role
        /\ users[FileOf[r.name]] = r

\* Nobody is logged in while a menu call of auth runs.
SessionsInSession ==
    \A p \in Proc : session[p] # None => call[p].step = "session"

\* The inductive invariant: true in every reachable state whatever fails and
\* however many processes run.
Accounted ==
    /\ TypeOK
    /\ CreatorsHoldTheirFile
    /\ OneCreatorPerFile
    /\ RecordsAtTheirFile
    /\ VerifiesTheRecordOnDisk
    /\ SessionsInSession
    /\ SessionIsAccount

-----------------------------------------------------------------------------
\* A scan that has not ended has every admin record still before it, and a
\* creation of an admin goes on only while there is none.  (One process.)
AdminScanIsComplete ==
    \A p \in Proc :
        LET admins == {f \in File : Whole(f) /\ users[f].role = "admin"} IN
        /\ call[p].step = "rescan" => admins \subseteq call[p].todo
        /\ call[p].step \in {"exists", "open", "write", "drop"}
              /\ call[p].role = "admin" => admins = {}

-----------------------------------------------------------------------------
\* A place is given when the record in it is complete.
Given(f) ==
    IF Whole(f)
      THEN [name |-> users[f].name, pw |-> users[f].pw, role |-> users[f].role]
      ELSE None

Promise == INSTANCE Registry WITH
    Place <- File, PlaceOf <- FileOf, Absent <- None,
    accounts <- [f \in File |-> Given(f)],
    sessions <- session

\* The calls of auth.c and users.c, step by step, with several processes,
\* kills, and failures reported or not, amount to giving whole accounts, once
\* each, and logging in to accounts given.
KeepsTheRegister == Promise!Spec
=============================================================================
