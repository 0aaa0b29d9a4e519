------------------------------ MODULE Accounts ------------------------------
(***************************************************************************)
(* The accounts of secfile: users.c (one record per user in users/),       *)
(* auth.c (creating users, login) and the ways main.c and menu.c reach     *)
(* them: the --create-admin command, the admin made at first run, and the  *)
(* menu.  Several processes share the directory users/.                    *)
(*                                                                         *)
(* An action is the part of a call between two visits to the disk, where   *)
(* another process or a crash can get in.  The scan for an admin account   *)
(* visits one record at a time.                                            *)
(*                                                                         *)
(* A definition whose name ends in _Word, like Open_Overwrites, is the     *)
(* definition before the _ with one plausible mistake in it.  Nothing uses *)
(* them; README.md says which property notices each one.                   *)
(***************************************************************************)
EXTENDS Naturals, FiniteSets

CONSTANTS
    Proc,          \* secfile processes
    User,          \* user names, as typed
    SafeUser,      \* the names users_username_is_safe accepts
    File,          \* files of users/
    FileOf,        \* FileOf[u]: the file users/<u>.rec leads to; a directory
                   \* that ignores case gives two spellings one file
    Password,
    Blank,         \* the empty password
    AccountFaults, \* which failures of the environment occur
    None           \* no file, no session, or no value

(***************************************************************************)
(*   crash   a process is killed                                           *)
(*   read    opening or reading a record, or the directory, fails          *)
(*   write   opening, chmod or fwrite fails and the code sees it           *)
(*   flush   buffered data is lost at fclose, whose result nobody checks   *)
(*   remove  remove() fails                                                *)
(***************************************************************************)
ASSUME AccountsAssumption ==
    /\ SafeUser \subseteq User
    /\ FileOf \in [User -> File]
    /\ AccountFaults \subseteq {"crash", "read", "write", "flush", "remove"}

Role == {"standard", "admin"}

\* A record of users/: the password stands for its hash and both salts.
Record == [name: User, pw: Password, role: Role, form: {"whole", "torn"}]

\* An account that create_user_with_role said it has created, and a login.
Account == [name: User, pw: Password, role: Role]

ASSUME NoneAssumption == None \notin Record /\ None \notin Account

VARIABLES
    users,    \* users[f]: the record in file f
    call,     \* call[p]: where process p is, and the locals of its call
    session,  \* session[p]: the canonical user name, key and role logged in
    outcome,  \* outcome[p]: what its last call returned and logged
    claimed   \* history: the accounts reported as created

vars == <<users, call, session, outcome, claimed>>

-----------------------------------------------------------------------------
ScanSteps == {"scan", "rescan"}
CreateSteps == {"rescan", "exists", "open", "write", "drop"}
Steps == {"off", "scan", "prompt", "menu", "verify", "session"} \cup CreateSteps

\* --create-admin ends the program after its one call; bootstrap and the menu
\* go on to the menu.
Flow == {"command", "menu"}

Call == [step: Steps, flow: Flow, name: User \cup {None},
         pw: Password \cup {None}, role: Role, todo: SUBSET File,
         record: Record \cup {None}]

Resting(step) == [step |-> step, flow |-> "menu", name |-> None, pw |-> None,
                  role |-> "standard", todo |-> {}, record |-> None]

\* Where a process goes when a creation attempt is over.
Home(p) == Resting(IF call[p].flow = "command" THEN "off" ELSE "menu")

Goto(p, step) == call' = [call EXCEPT ![p].step = step]

Finish(p, c, result) ==
    /\ call' = [call EXCEPT ![p] = c]
    /\ outcome' = [outcome EXCEPT ![p] = result]

Whole(f) == users[f] # None /\ users[f].form = "whole"
Claim(p) == [name |-> call[p].name, pw |-> call[p].pw, role |-> call[p].role]

\* What readdir will return: all that is there at opendir and, of what other
\* processes create meanwhile, any part.
Scans == {T \in SUBSET File : \A f \in File : users[f] # None => f \in T}

-----------------------------------------------------------------------------
(***************************************************************************)
(* Starting the program: main, run_create_admin, bootstrap.                *)
(***************************************************************************)
Start(p, flow) ==
    /\ call[p].step = "off"
    /\ \/ \E T \in Scans :
             call' = [call EXCEPT ![p] = [Resting("scan") EXCEPT !.flow = flow,
                                                                 !.todo = T]]
       \/ \* opendir fails: users_admin_exists returns -1, which counts as found
          /\ "read" \in AccountFaults
          /\ call' = [call EXCEPT ![p] = Resting(IF flow = "command" THEN "off"
                                                                     ELSE "menu")]
    /\ UNCHANGED <<users, session, outcome, claimed>>

\* (with an admin's record passed over)
ScanPass_AnyRole(p) ==
    /\ call[p].step \in ScanSteps
    /\ \E f \in call[p].todo : call' = [call EXCEPT ![p].todo = @ \ {f}]
    /\ UNCHANGED <<users, session, outcome, claimed>>

\* users_admin_exists opens the next record and finds no admin in it.  A
\* record that cannot be opened or is not complete is passed over.
ScanPass(p) ==
    /\ call[p].step \in ScanSteps
    /\ \E f \in call[p].todo :
          /\ (Whole(f) /\ users[f].role = "admin") => "read" \in AccountFaults
          /\ call' = [call EXCEPT ![p].todo = @ \ {f}]
    /\ UNCHANGED <<users, session, outcome, claimed>>

\* It finds one.  Nothing is asked or created.
ScanFound(p) ==
    /\ call[p].step \in ScanSteps
    /\ \E f \in call[p].todo : Whole(f) /\ users[f].role = "admin"
    /\ Finish(p, Home(p),
              IF call[p].step = "rescan" THEN "failure" ELSE outcome[p])
    /\ UNCHANGED <<users, session, claimed>>

\* It returns 0.
ScanEnd(p) ==
    /\ call[p].step \in ScanSteps
    /\ call[p].todo = {}
    /\ Goto(p, IF call[p].step = "scan" THEN "prompt" ELSE "exists")
    /\ UNCHANGED <<users, session, outcome, claimed>>

\* (with the password buffer left unset)
Prompt_NoPassword(p, u, pw) ==
    /\ call[p].step = "prompt"
    /\ \E T \in Scans :
          call' = [call EXCEPT ![p] = [@ EXCEPT !.step = "rescan", !.name = u,
                                       !.role = "admin", !.todo = T]]
    /\ UNCHANGED <<users, session, outcome, claimed>>

\* prompt_create_admin_credentials, then auth_create_admin looks again.
Prompt(p, u, pw) ==
    /\ call[p].step = "prompt"
    /\ \E T \in Scans :
          call' = [call EXCEPT ![p] = [@ EXCEPT !.step = "rescan", !.name = u,
                                       !.pw = pw, !.role = "admin", !.todo = T]]
    /\ UNCHANGED <<users, session, outcome, claimed>>

\* End of input, no user name, two different passwords; or opendir fails.
PromptCancel(p) ==
    /\ call[p].step = "prompt"
    /\ Finish(p, Home(p), "failure")
    /\ UNCHANGED <<users, session, claimed>>

-----------------------------------------------------------------------------
(***************************************************************************)
(* create_user_with_role.                                                  *)
(***************************************************************************)
\* handle_create_user: auth_create_user with the name and password typed.
CreateUser(p, u, pw) ==
    /\ call[p].step = "menu"
    /\ call' = [call EXCEPT ![p] = [Resting("exists") EXCEPT !.name = u, !.pw = pw]]
    /\ UNCHANGED <<users, session, outcome, claimed>>

\* users_exists answers 0 for a name it does not accept.
Exists(p) ==
    LET taken == /\ call[p].name \in SafeUser
                 /\ users[FileOf[call[p].name]] # None
    IN
    /\ call[p].step = "exists"
    /\ \/ /\ call[p].pw # Blank
          /\ ~taken \/ "read" \in AccountFaults
          /\ Goto(p, "open")
          /\ UNCHANGED outcome
       \/ /\ call[p].pw = Blank \/ taken
          /\ Finish(p, Home(p), "failure")
    /\ UNCHANGED <<users, session, claimed>>

\* (with "wb" for "wxb")
Open_Overwrites(p) ==
    /\ call[p].step = "open"
    /\ users' = [users EXCEPT ![FileOf[call[p].name]] =
           [name |-> call[p].name, pw |-> call[p].pw,
            role |-> call[p].role, form |-> "torn"]]
    /\ Goto(p, "write")
    /\ UNCHANGED <<outcome, session, claimed>>
\* (with remove(path) also when the exclusive open fails)
Open_DropsTaken(p) ==
    LET f == FileOf[call[p].name] IN
    /\ call[p].step = "open"
    /\ IF users[f] = None
         THEN /\ users' = [users EXCEPT ![f] =
                     [name |-> call[p].name, pw |-> call[p].pw,
                      role |-> call[p].role, form |-> "torn"]]
              /\ Goto(p, "write")
         ELSE Goto(p, "drop") /\ UNCHANGED users
    /\ UNCHANGED <<outcome, session, claimed>>

\* Salts, the password hash, then users_create up to fopen(path, "wxb").
Open(p) ==
    LET f == FileOf[call[p].name] IN
    /\ call[p].step = "open"
    /\ \/ /\ call[p].name \in SafeUser /\ users[f] = None
          /\ users' = [users EXCEPT ![f] =
                 [name |-> call[p].name, pw |-> call[p].pw,
                  role |-> call[p].role, form |-> "torn"]]
          /\ Goto(p, "write")
          /\ UNCHANGED outcome
       \/ \* the name is refused or taken, or randomness or the open fails
          /\ \/ call[p].name \notin SafeUser
             \/ users[f] # None \/ "write" \in AccountFaults
          /\ Finish(p, Home(p), "failure")
          /\ UNCHANGED users
    /\ UNCHANGED <<session, claimed>>

\* (with the partial record left where it is)
Write_NoDrop(p) ==
    LET f == FileOf[call[p].name] IN
    /\ call[p].step = "write"
    /\ \/ /\ users' = [users EXCEPT ![f].form = "whole"]
          /\ Finish(p, Home(p), "success")
          /\ claimed' = claimed \cup {Claim(p)}
       \/ /\ "write" \in AccountFaults
          /\ Finish(p, Home(p), "failure")
          /\ UNCHANGED <<users, claimed>>
    /\ UNCHANGED session

\* chmod, write_record, fclose with its result ignored; success is logged.
Write(p) ==
    LET f == FileOf[call[p].name] IN
    /\ call[p].step = "write"
    /\ \/ /\ users' = [users EXCEPT ![f].form = "whole"]
          /\ Finish(p, Home(p), "success")
          /\ claimed' = claimed \cup {Claim(p)}
       \/ /\ "flush" \in AccountFaults
          /\ Finish(p, Home(p), "success")
          /\ claimed' = claimed \cup {Claim(p)}
          /\ UNCHANGED users
       \/ /\ "write" \in AccountFaults
          /\ Goto(p, "drop")
          /\ UNCHANGED <<users, outcome, claimed>>
    /\ UNCHANGED session

\* users_create's failure path: remove(path).
Drop(p) ==
    /\ call[p].step = "drop"
    /\ \/ users' = [users EXCEPT ![FileOf[call[p].name]] = None]
       \/ "remove" \in AccountFaults /\ UNCHANGED users
    /\ Finish(p, Home(p), "failure")
    /\ UNCHANGED <<session, claimed>>

-----------------------------------------------------------------------------
(***************************************************************************)
(* login_as_role and the sessions of the menu.                             *)
(***************************************************************************)
\* users_load and the role check.
Login(p, u, pw, role) ==
    LET r == users[FileOf[u]]
        loads == u \in SafeUser /\ Whole(FileOf[u]) /\ r.role = role
    IN
    /\ call[p].step = "menu"
    /\ \/ /\ loads
          /\ call' = [call EXCEPT ![p] = [Resting("verify") EXCEPT
                         !.name = u, !.pw = pw, !.role = role, !.record = r]]
          /\ UNCHANGED outcome
       \/ /\ ~loads \/ "read" \in AccountFaults
          /\ Finish(p, Resting("menu"), "failure")
    /\ UNCHANGED <<users, session, claimed>>

\* (with the typed name given to the session)
Verify_TypedName(p) ==
    LET c == call[p] IN
    /\ c.step = "verify"
    /\ c.record.pw = c.pw
    /\ session' = [session EXCEPT ![p] =
           [name |-> c.name, pw |-> c.pw, role |-> c.role]]
    /\ Finish(p, Resting("session"), "success")
    /\ UNCHANGED <<users, claimed>>

\* verify_password and the key, against the record loaded before.  The session
\* runs under the name in the record, not the name typed.
Verify(p) ==
    LET c == call[p] IN
    /\ c.step = "verify"
    /\ \/ /\ c.record.pw = c.pw
          /\ session' = [session EXCEPT ![p] =
                 [name |-> c.record.name, pw |-> c.pw, role |-> c.role]]
          /\ Finish(p, Resting("session"), "success")
       \/ /\ c.record.pw # c.pw
          /\ Finish(p, Resting("menu"), "failure")
          /\ UNCHANGED session
    /\ UNCHANGED <<users, claimed>>

\* Logout; the key is zeroed.
Logout(p) ==
    /\ call[p].step = "session"
    /\ session' = [session EXCEPT ![p] = None]
    /\ call' = [call EXCEPT ![p] = Resting("menu")]
    /\ UNCHANGED <<users, outcome, claimed>>

\* Exit from the main menu.
Exit(p) ==
    /\ call[p].step = "menu"
    /\ call' = [call EXCEPT ![p] = Resting("off")]
    /\ UNCHANGED <<users, session, outcome, claimed>>

\* The process is killed; what reached the disk stays there.
Crash(p) ==
    /\ "crash" \in AccountFaults
    /\ call[p].step # "off"
    /\ Finish(p, Resting("off"), "none")
    /\ session' = [session EXCEPT ![p] = None]
    /\ UNCHANGED <<users, claimed>>

-----------------------------------------------------------------------------
Init ==
    /\ users = [f \in File |-> None]
    /\ call = [p \in Proc |-> Resting("off")]
    /\ session = [p \in Proc |-> None]
    /\ outcome = [p \in Proc |-> "none"]
    /\ claimed = {}

FindAdmin(p) ==
    \/ \E flow \in Flow : Start(p, flow)
    \/ ScanPass(p) \/ ScanFound(p) \/ ScanEnd(p)
    \/ \E u \in User, pw \in Password : Prompt(p, u, pw)
    \/ PromptCancel(p)

Create(p) ==
    \/ \E u \in User, pw \in Password : CreateUser(p, u, pw)
    \/ Exists(p) \/ Open(p) \/ Write(p) \/ Drop(p)

Enter(p) ==
    \/ \E u \in User, pw \in Password, role \in Role : Login(p, u, pw, role)
    \/ Verify(p) \/ Logout(p) \/ Exit(p)

Next == \E p \in Proc : FindAdmin(p) \/ Create(p) \/ Enter(p) \/ Crash(p)

Spec == Init /\ [][Next]_vars
-----------------------------------------------------------------------------
(***************************************************************************)
(* Properties.                                                             *)
(***************************************************************************)
\* Every variable has its type, and a call has the locals its step reads.
TypeOK ==
    /\ users \in [File -> Record \cup {None}]
    /\ call \in [Proc -> Call]
    /\ session \in [Proc -> Account \cup {None}]
    /\ outcome \in [Proc -> {"none", "success", "failure"}]
    /\ claimed \subseteq Account
    /\ \A p \in Proc : call[p].step \in CreateSteps =>
                          call[p].name \in User /\ call[p].pw \in Password
    /\ \A p \in Proc : call[p].step = "verify" => call[p].record \in Record

\* There is never more than one complete admin record.
OneAdmin == \A f, g \in File :
    (Whole(f) /\ Whole(g) /\ users[f].role = "admin" /\ users[g].role = "admin")
        => f = g

\* An account that was reported as created is there, with the password and
\* role it was asked for: of two processes that find the same name free at
\* the same time only one hears "success".
SuccessMeansAccount ==
    \A c \in claimed :
        users[FileOf[c.name]] =
            [name |-> c.name, pw |-> c.pw, role |-> c.role, form |-> "whole"]

\* A session runs under the very name, password and role of a complete
\* record, however the name was spelled: file ownership and key go together.
SessionIsAccount ==
    \A p \in Proc : session[p] # None =>
        users[FileOf[session[p].name]] =
            [name |-> session[p].name, pw |-> session[p].pw,
             role |-> session[p].role, form |-> "whole"]

\* A name is never left half taken: an incomplete record belongs to a
\* creation that will still complete or remove it.
NoDebris ==
    \A f \in File : (users[f] # None /\ ~Whole(f)) =>
        \E p \in Proc : call[p].step \in {"write", "drop"} /\ FileOf[call[p].name] = f

\* A complete record never changes and never goes away, so a user's key is
\* the same at every login.
AccountNeverChanges == [][\A f \in File : Whole(f) => users'[f] = users[f]]_vars
=============================================================================
