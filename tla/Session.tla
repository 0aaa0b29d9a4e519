------------------------------ MODULE Session ------------------------------
(***************************************************************************)
(* One run of secfile after another, seen from its terminal: main.c and    *)
(* menu.c, which ask and dispatch, and of the calls they make what the     *)
(* rest of the program sees: the accounts and documents on disk, the       *)
(* secrets in memory and the lines appended to logs/audit.log.             *)
(*                                                                         *)
(* The accounts and documents change as Registry and VaultStore promise,   *)
(* one step per call; that the calls keep these promises step by step is   *)
(* what Accounts and Vault are about.                                      *)
(*                                                                         *)
(* A definition whose name ends in _Word, like Cancel_KeepsPassword, is    *)
(* the definition before the _ with one plausible mistake in it.           *)
(***************************************************************************)
EXTENDS Naturals, Sequences

CONSTANTS
    User, SafeUser, File, FileOf, Password, Blank,   \* as in Accounts
    Name,       \* names of documents
    Failures,   \* which failures of the environment occur
    MaxLog,     \* bound: no menu choice once this run has logged so much
    None,       \* no account, no document, no user
    Lost        \* a name that is taken by a record without a document

(***************************************************************************)
(*   start   a directory or the audit log cannot be prepared               *)
(*   read, write, remove   a visit to the disk fails                       *)
(*   short   fread returns less than the file holds                        *)
(*   crypto  an OpenSSL call fails      tamper  a storage file was altered *)
(*   crash   the process is killed                                         *)
(*   elide   the compiler drops the memset of a buffer not read again      *)
(***************************************************************************)
ASSUME SessionAssumption ==
    /\ SafeUser \subseteq User
    /\ FileOf \in [User -> File]
    /\ Failures \subseteq {"start", "read", "short", "write", "remove", "crypto",
                          "tamper", "crash", "elide"}
    /\ MaxLog \in Nat

Role == {"standard", "admin"}
Account == [name: User, pw: Password, role: Role]
Owned == User \X Name

VARIABLES
    pc,        \* where the program is
    choice,    \* the dialogue or call it is in, if any
    typed,     \* the answers read in this dialogue
    outcome,   \* what that call has returned, once it has
    input,     \* stdin: open, or ended for good
    session,   \* the account logged in
    mem,       \* the secrets in memory that are not zeroed
    accounts,  \* accounts[f]: the account in file f of users/
    docs,      \* docs[u, n]: the account whose key seals document n of u
    log,       \* the events this run has appended to the audit log
    changes    \* history: what this run has changed on disk, as it is to be logged

vars == <<pc, choice, typed, outcome, input, session, mem, accounts, docs, log, changes>>
disk == <<accounts, docs, changes>>

-----------------------------------------------------------------------------
(***************************************************************************)
(* The dialogues: what each choice asks for, in which order.               *)
(***************************************************************************)
Startup == {"create_admin", "first_admin"}   \* --create-admin, and the first run
Creation == Startup \cup {"create_user"}
Logins == {"login", "admin_login"}
FileCalls == {"encrypt", "decrypt", "delete", "list"}
Calls == Creation \cup Logins \cup FileCalls \cup {"list_users"}

ASSUME NoneAssumption ==
    /\ None \notin Account \cup User \cup Calls \cup {"success", "failure"}
    /\ Lost \notin Account \cup {None}

MainMenu == {"login", "create_user", "admin_login", "exit", "invalid"}
UserMenu == FileCalls \cup {"logout", "invalid"}
AdminMenu == UserMenu \cup {"list_users"}

Fields(c) ==
    CASE c \in Creation -> <<"name", "password", "confirm">>
      [] c \in Logins   -> <<"name", "password">>
      [] c = "encrypt"  -> <<"path">>
      [] c = "decrypt"  -> <<"stored", "output">>
      [] c = "delete"   -> <<"stored", "y/n">>
      [] OTHER          -> <<>>

SecretFields == {"password", "confirm"}
\* part: of a document, left by a short read; remnant: a password whose memset
\* the compiler has dropped, in a stack frame that is gone.
Secrets == SecretFields \cup {"key", "plain", "part", "remnant"}

\* What a user may type.  An empty line cancels, except for a password.
Answers(field) ==
    CASE field = "name" -> User \cup {""}
      [] field \in SecretFields -> Password
      [] field \in {"path", "stored"} -> Name \cup {""}
      [] field = "output" -> {"out", ""}
      [] OTHER -> {"y", "n"}

Event(c) ==
    CASE c = "create_user" -> "CREATE_USER"
      [] c \in Startup -> "CREATE_ADMIN"
      [] c = "login" -> "LOGIN"
      [] c = "admin_login" -> "ADMIN_LOGIN"
      [] c = "encrypt" -> "ENCRYPT_FILE"
      [] c = "decrypt" -> "DECRYPT_FILE"
      [] c = "delete" -> "DELETE_FILE"
      [] c = "list" -> "LIST_FILES"
      [] OTHER -> "LIST_USERS"

\* A line of the audit log.  auth.c logs the name as typed, the rest of the
\* program the name in the account.
Entry(c, result) == <<Event(c), IF c \in Creation \cup Logins THEN typed[1]
                                                             ELSE session.name, result>>
MenuChoice(c) == <<"MENU_CHOICE", IF session = None THEN None ELSE session.name, c>>
AppEvent(event) == <<event, None, "success">>

Menus == {"main", "menu"}

\* (with the menu of a session for all)
Home_Session(c) == IF c = "create_admin" THEN "off" ELSE "menu"

\* Where the handler of a choice returns to.
Home(c) == IF c = "create_admin" THEN "off"
           ELSE IF c \in FileCalls \cup {"list_users"} THEN "menu" ELSE "main"

-----------------------------------------------------------------------------
(***************************************************************************)
(* main.                                                                   *)
(***************************************************************************)
AnAdmin == \E f \in File : accounts[f] # None /\ accounts[f].role = "admin"

\* users_admin_exists: a directory that cannot be opened counts as found, a
\* record that cannot be read is passed over.
ScanFinds == AnAdmin \/ "read" \in Failures
ScanMisses == ~AnAdmin \/ "read" \in Failures

\* The program starts, with --create-admin or without arguments.
Launch(c) ==
    /\ pc = "off"
    /\ input' = "open" /\ changes' = <<>>
    /\ log' = IF c = "first_admin" THEN <<AppEvent("APP_START")>> ELSE <<>>
    /\ \/ /\ ScanMisses
          /\ pc' = "ask" /\ choice' = c
       \/ /\ ScanFinds
          /\ pc' = Home(c)
          /\ UNCHANGED choice
    /\ UNCHANGED <<typed, outcome, session, mem, accounts, docs>>

\* ensure_directory_layout or logging_init fails: nothing has been logged or asked.
LaunchFails == pc = "off" /\ "start" \in Failures /\ UNCHANGED vars

-----------------------------------------------------------------------------
(***************************************************************************)
(* The menus and their dialogues.                                          *)
(***************************************************************************)
Offered == IF pc = "main" THEN MainMenu
           ELSE IF session.role = "admin" THEN AdminMenu ELSE UserMenu

ReadsChoice(c) ==
    /\ pc \in Menus /\ input = "open" /\ Len(log) < MaxLog
    /\ c \in Offered

\* A choice that leads to a call; it is logged before anything is asked.
Choose(c) ==
    /\ ReadsChoice(c) /\ c \in Calls
    /\ log' = Append(log, MenuChoice(c))
    /\ choice' = c
    /\ pc' = IF Fields(c) = <<>> THEN "call" ELSE "ask"
    /\ UNCHANGED <<typed, outcome, input, session, mem, disk>>

ChooseInvalid ==
    /\ ReadsChoice("invalid")
    /\ log' = Append(log, MenuChoice("invalid"))
    /\ UNCHANGED <<pc, choice, typed, outcome, input, session, mem, disk>>

\* The session ends and the key is zeroed.
Logout ==
    /\ ReadsChoice("logout")
    /\ log' = Append(log, MenuChoice("logout"))
    /\ pc' = "main" /\ session' = None /\ mem' = mem \ {"key"}
    /\ UNCHANGED <<choice, typed, outcome, input, disk>>

Exit ==
    /\ ReadsChoice("exit")
    /\ log' = log \o <<MenuChoice("exit"), AppEvent("APP_EXIT")>>
    /\ pc' = "off" /\ mem' = {}
    /\ UNCHANGED <<choice, typed, outcome, input, session, disk>>

\* read_menu_choice refuses the line, or there is none: the menu is printed
\* again.  At the end of input this is all that ever happens.
Reprompt == pc \in Menus /\ UNCHANGED vars

Fails(kinds) == Failures \cap kinds # {}

\* memset(password, 0, ...), of what is in memory before it: a compiler that
\* optimizes may drop it, for nothing reads the buffer again.  (With
\* --create-admin the process ends here, and its memory with it.)
Memset(before) ==
    \/ /\ Fails({"elide"}) /\ before \cap SecretFields # {} /\ Home(choice) # "off"
       /\ mem' = (before \ SecretFields) \cup {"remnant"}
    \/ mem' = before \ SecretFields

\* (with the password left in its buffer)
Cancel_KeepsPassword ==
    /\ pc' = Home(choice) /\ choice' = None /\ typed' = <<>>
    /\ UNCHANGED <<outcome, input, session, mem, disk, log>>

\* The handler returns without a call, after a memset of each password read.
Cancel ==
    /\ pc' = Home(choice) /\ choice' = None /\ typed' = <<>>
    /\ Memset(mem)
    /\ UNCHANGED <<outcome, input, session, disk, log>>

Refused(field, v) ==
    \/ v = "" /\ field \notin SecretFields
    \/ field = "confirm" /\ v # typed[2]
    \/ field = "y/n" /\ v # "y"

Asked == Fields(choice)[Len(typed) + 1]

\* read_line, and what the handler does with the answer.
Answer(v) ==
    LET field == Asked IN
    /\ pc = "ask" /\ input = "open"
    /\ IF Refused(field, v)
         THEN Cancel
         ELSE /\ typed' = Append(typed, v)
              /\ mem' = mem \cup ({field} \cap SecretFields)
              /\ pc' = IF Len(typed') = Len(Fields(choice)) THEN "call" ELSE "ask"
              /\ UNCHANGED <<choice, outcome, input, session, disk, log>>

\* (with the question put again until it is answered)
AnswerEnds_AsksAgain == pc = "ask" /\ input = "ended" /\ UNCHANGED vars

\* read_line finds the input at its end.
AnswerEnds == pc = "ask" /\ input = "ended" /\ Cancel

\* The user closes the terminal or the pipe.
EndInput ==
    /\ pc # "off" /\ input = "open" /\ input' = "ended"
    /\ UNCHANGED <<pc, choice, typed, outcome, session, mem, disk, log>>

-----------------------------------------------------------------------------
(***************************************************************************)
(* The calls.  Each ends in pc = "report", with what it will log.          *)
(***************************************************************************)
Calling(c) == pc = "call" /\ choice = c
Done(result) == pc' = "report" /\ outcome' = result
Changed(result) == changes' = Append(changes, Entry(choice, result))

\* (with the session under the name typed)
Authenticate_TypedName ==
    LET acc == accounts[FileOf[typed[1]]] IN
    /\ pc = "call" /\ choice \in Logins
    /\ acc # None /\ acc.pw = typed[2]
    /\ acc.role = IF choice = "login" THEN "standard" ELSE "admin"
    /\ session' = [acc EXCEPT !.name = typed[1]]
    /\ mem' = mem \cup {"key"}
    /\ Done("success")
    /\ UNCHANGED <<choice, typed, input, log, disk>>

\* login_as_role: the session runs under the name in the record.  When the
\* derivation of the key fails, part of it may have been written.
Authenticate ==
    LET acc == accounts[FileOf[typed[1]]]
        right == /\ typed[1] \in SafeUser
                 /\ acc # None /\ acc.pw = typed[2]
                 /\ acc.role = IF choice = "login" THEN "standard" ELSE "admin"
    IN
    /\ pc = "call" /\ choice \in Logins
    /\ \/ /\ right
          /\ session' = acc /\ mem' = mem \cup {"key"}
          /\ Done("success")
       \/ /\ ~right \/ Fails({"read", "crypto"})
          /\ mem' \in {mem} \cup (IF right /\ Fails({"crypto"})
                                    THEN {mem \cup {"key"}} ELSE {})
          /\ Done("failure")
          /\ UNCHANGED session
    /\ UNCHANGED <<choice, typed, input, log, disk>>

NewAccount == [name |-> typed[1], pw |-> typed[2],
               role |-> IF choice = "create_user" THEN "standard" ELSE "admin"]

\* (with "wb" for "wxb")
Create_Overwrites ==
    /\ pc = "call" /\ choice \in Creation
    /\ typed[2] # Blank /\ typed[1] \in SafeUser
    /\ accounts' = [accounts EXCEPT ![FileOf[typed[1]]] = NewAccount]
    /\ Changed("success") /\ Done("success")
    /\ UNCHANGED <<choice, typed, input, session, mem, docs, log>>

\* auth_create_user and auth_create_admin.  A record that was begun and could
\* not be removed counts as no account; its name then stays refused (Accounts).
Create ==
    LET f == FileOf[typed[1]]
        free == typed[2] # Blank /\ typed[1] \in SafeUser /\ accounts[f] = None
    IN
    /\ pc = "call" /\ choice \in Creation
    /\ \/ /\ free
          /\ choice \in Startup => ScanMisses
          /\ accounts' = [accounts EXCEPT ![f] = NewAccount]
          /\ Changed("success") /\ Done("success")
       \/ /\ \/ ~free \/ Fails({"write", "crypto"})
             \/ choice \in Startup /\ ScanFinds
          /\ Done("failure")
          /\ UNCHANGED <<accounts, changes>>
    /\ UNCHANGED <<choice, typed, input, session, mem, docs, log>>

Document == <<session.name, typed[1]>>

\* fileops_encrypt up to the storage file.  It fails when there is no such
\* file, and then nothing has been read; a short read frees what it has read
\* as it is.
EncryptRead ==
    /\ Calling("encrypt")
    /\ \/ pc' = "save" /\ mem' = mem \cup {"plain"} /\ UNCHANGED outcome
       \/ Done("failure") /\ UNCHANGED mem
       \/ Fails({"short"}) /\ Done("failure") /\ mem' = mem \cup {"part"}
    /\ UNCHANGED <<choice, typed, input, session, log, disk>>

\* (with the record of that name removed when metadata_create refuses it)
EncryptSave_DropsTaken ==
    LET taken == docs[Document] # None IN
    /\ pc = "save"
    /\ docs' = [docs EXCEPT ![Document] = IF taken THEN None ELSE session]
    /\ IF taken THEN Done("failure") /\ UNCHANGED changes
                ELSE Done("success") /\ Changed("success")
    /\ UNCHANGED <<choice, typed, input, session, mem, log, accounts>>

\* (with a return before logging_event)
EncryptSave_ReturnsEarly ==
    /\ pc = "save"
    /\ docs' = [docs EXCEPT ![Document] = session]
    /\ Changed("success")
    /\ pc' = "menu" /\ choice' = None /\ typed' = <<>> /\ mem' = mem \ {"plain"}
    /\ UNCHANGED <<outcome, input, session, log, accounts>>

\* The rest of it: nothing is saved under a name that is taken.  A record that
\* was begun and could not be removed counts as none (Vault).
EncryptSave ==
    /\ pc = "save"
    /\ \/ /\ docs[Document] = None
          /\ docs' = [docs EXCEPT ![Document] = session]
          /\ Changed("success") /\ Done("success")
       \/ /\ docs[Document] # None \/ Fails({"write", "crypto"})
          /\ Done("failure")
          /\ UNCHANGED <<docs, changes>>
    /\ UNCHANGED <<choice, typed, input, session, mem, log, accounts>>

\* fileops_decrypt: metadata_load and the storage file.
DecryptLoad ==
    /\ Calling("decrypt")
    /\ \/ docs[Document] \in Account /\ pc' = "open" /\ UNCHANGED outcome
       \/ docs[Document] \notin Account /\ Done("failure")
       \/ Fails({"read"}) /\ Done("failure")
    /\ UNCHANGED <<choice, typed, input, session, mem, log, disk>>

\* crypto_aes_gcm_decrypt.  What it has deciphered is cleansed when the tag is
\* refused, and left to its caller when EVP_CIPHER_CTX_ctrl fails.
DecryptOpen ==
    LET sound == docs[Document] = session IN
    /\ pc = "open"
    /\ \/ sound /\ pc' = "output" /\ mem' = mem \cup {"plain"} /\ UNCHANGED outcome
       \/ (~sound \/ Fails({"tamper"})) /\ Done("failure") /\ UNCHANGED mem
       \/ Fails({"crypto"}) /\ Done("failure") /\ mem' \in {mem, mem \cup {"plain"}}
    /\ UNCHANGED <<choice, typed, input, session, log, disk>>

\* The output file, which must be new.
DecryptOutput ==
    /\ pc = "output"
    /\ \E result \in {"success", "failure"} : Done(result)
    /\ UNCHANGED <<choice, typed, input, session, mem, log, disk>>

\* fileops_delete.  The document is gone, or its name free again, even where
\* one of the two removals fails and the call with it; all stays as it was when
\* the overwrite fails, too.  (Whether the storage file of a Lost document is
\* wiped or missing is left open, and with it what a second deletion returns.)
DeleteFile ==
    /\ Calling("delete")
    /\ \/ /\ docs[Document] # None
          /\ docs' = [docs EXCEPT ![Document] = None]
          /\ Changed("success") /\ Done("success")
       \/ /\ docs[Document] # None /\ Fails({"remove"})
          /\ \E d \in {None, Lost} : docs' = [docs EXCEPT ![Document] = d]
          /\ Changed("failure") /\ Done("failure")
       \/ /\ \/ docs[Document] = None \/ Fails({"read"})
             \/ Fails({"remove"}) /\ Fails({"write"})
          /\ Done("failure")
          /\ UNCHANGED <<docs, changes>>
    /\ UNCHANGED <<choice, typed, input, session, mem, log, accounts>>

\* fileops_list and users_list: an answer that misses records it could not
\* open is a success; only a directory that cannot be opened is not.
Listing ==
    /\ pc = "call" /\ choice \in {"list", "list_users"}
    /\ \/ Done("success")
       \/ Fails({"read"}) /\ Done("failure")
    /\ UNCHANGED <<choice, typed, input, session, mem, log, disk>>

\* The call cleanses what it worked on (crypto_zero) and logs its result; the
\* handler sets the password to zero and, unless a session begins, cleanses
\* the key.
Report ==
    /\ pc = "report"
    /\ log' = Append(log, Entry(choice, outcome))
    /\ choice' = None /\ typed' = <<>> /\ outcome' = None
    /\ IF choice \in Logins /\ outcome = "success"
         THEN pc' = "menu" /\ Memset(mem)
         ELSE /\ pc' = Home(choice)
              /\ Memset(mem \ ({"plain"} \cup IF choice \in Logins THEN {"key"} ELSE {}))
    /\ UNCHANGED <<input, session, disk>>

\* The process is killed, before or after the effect of a call (what it leaves
\* behind in the middle of one is for Accounts and Vault to say).
Crash ==
    /\ pc # "off" /\ Fails({"crash"})
    /\ pc' = "off" /\ choice' = None /\ typed' = <<>> /\ outcome' = None
    /\ input' = "open" /\ session' = None /\ mem' = {}
    /\ UNCHANGED <<log, disk>>

-----------------------------------------------------------------------------
Init ==
    /\ pc = "off" /\ choice = None /\ typed = <<>> /\ outcome = None
    /\ input = "open" /\ session = None /\ mem = {}
    /\ accounts = [f \in File |-> None] /\ docs = [d \in Owned |-> None]
    /\ log = <<>> /\ changes = <<>>

\* What waits for nobody.
Program ==
    \/ Authenticate \/ Create
    \/ EncryptRead \/ EncryptSave
    \/ DecryptLoad \/ DecryptOpen \/ DecryptOutput
    \/ DeleteFile \/ Listing
    \/ Report \/ AnswerEnds

\* What waits for the user.
Terminal ==
    \/ \E c \in Startup : Launch(c)
    \/ LaunchFails
    \/ \E c \in Calls : Choose(c)
    \/ ChooseInvalid \/ Logout \/ Exit \/ Reprompt
    \/ pc = "ask" /\ \E v \in Answers(Asked) : Answer(v)
    \/ EndInput

Next == Program \/ Terminal \/ Crash

Spec == Init /\ [][Next]_vars /\ WF_vars(Program)
-----------------------------------------------------------------------------
(***************************************************************************)
(* Properties.                                                             *)
(***************************************************************************)
Step == {"off", "ask", "call", "save", "open", "output", "report"} \cup Menus
Result == {"success", "failure"}

\* Every variable has its type, and a dialogue has read no more than it asks.
TypeOK ==
    /\ pc \in Step
    /\ choice \in Calls \cup {None} /\ (choice = None <=> pc \in Menus \cup {"off"})
    /\ outcome \in Result \cup {None} /\ (outcome # None <=> pc = "report")
    /\ input \in {"open", "ended"}
    /\ Len(typed) <= Len(Fields(choice))
    /\ \A i \in DOMAIN typed : typed[i] \in Answers(Fields(choice)[i])
    /\ pc \in Menus \cup {"off"} => typed = <<>>
    /\ pc = "ask" => Len(typed) < Len(Fields(choice))
    /\ session \in Account \cup {None}
    /\ pc = "menu" => session # None
    /\ mem \subseteq Secrets
    /\ accounts \in [File -> Account \cup {None}]
    /\ docs \in [Owned -> Account \cup {None, Lost}]

\* Every way out of a dialogue or a call passes the statements that wipe what
\* it had in memory: the main menu is reached with no document, password or
\* key, the menu of a session with no document or password.  What is left all
\* the same is named: part of a document after a short read, a password whose
\* memset the compiler dropped, and between login and logout the key, which
\* docs/checkpoint1-design.md does not allow (CleansedAtMenu).
SecretsGone ==
    /\ pc = "off"  => mem = {}
    /\ pc = "main" => mem \subseteq {"part", "remnant"}
    /\ pc = "menu" => mem \subseteq {"part", "remnant", "key"}
    /\ "part" \in mem => Fails({"short"})
    /\ "remnant" \in mem => Fails({"elide"})

\* What docs/checkpoint1-design.md:83 asks for: the key lives only around the
\* call that needs it and a password is wiped so that no compiler drops it, so
\* a session that waits at its menu, between two calls, has neither in memory.
\* The code keeps the key until logout and wipes passwords with memset.
CleansedAtMenu ==
    pc = "menu" => mem \cap (SecretFields \cup {"key", "remnant"}) = {}

Changing == {"CREATE_USER", "CREATE_ADMIN", "ENCRYPT_FILE", "DELETE_FILE"}
Claims(line) == line[1] \in Changing /\ line[3] = "success"

\* The first n changes are in the log, in their order and each in a line of its
\* own, and no other line claims a change.
Told(n) ==
    \E at \in [1..n -> DOMAIN log] :
        /\ \A i \in 1..n : log[at[i]] = changes[i]
        /\ \A i, j \in 1..n : i < j => at[i] < at[j]
        /\ \A k \in DOMAIN log : Claims(log[k]) => \E i \in 1..n : at[i] = k

\* The audit log tells what happened to the disk: in the order of the changes
\* one line each, under the name it was done for, and no line that claims a
\* change which was not made.  A half-done deletion is a line of its own, a
\* failure.  What is missing is never more than the change of the call that is
\* about to report, or that was killed there.
LogMatchesDisk ==
    \E pending \in IF pc \in {"report", "off"} THEN {0, 1} ELSE {0} :
        pending <= Len(changes) /\ Told(Len(changes) - pending)

InSession == {"ENCRYPT_FILE", "DECRYPT_FILE", "DELETE_FILE", "LIST_FILES", "LIST_USERS"}

\* One of the first n lines tells that this account logged in, and none from
\* there on that it logged out.
LoggedIn(acc, n) ==
    \E j \in 1..n :
        /\ log[j][1] = (IF acc.role = "admin" THEN "ADMIN_LOGIN" ELSE "LOGIN")
        /\ log[j][3] = "success"
        /\ FileOf[log[j][2]] = FileOf[acc.name]
        /\ \A k \in j..n : log[k] # <<"MENU_CHOICE", acc.name, "logout">>

\* Every line about a document is attributed to the account that has logged in
\* and not out since, under the one spelling of its name on disk; users are
\* listed to an admin only.
AttributedToLogin ==
    \A i \in DOMAIN log : log[i][1] \in InSession =>
        LET acc == accounts[FileOf[log[i][2]]] IN
        /\ acc # None /\ acc.name = log[i][2]
        /\ log[i][1] = "LIST_USERS" => acc.role = "admin"
        /\ LoggedIn(acc, i)

\* A document belongs to the account on disk whose key sealed it: its owner
\* logs in again, however the name is spelled, and can open it.
OwnersKey ==
    \A d \in Owned : docs[d] \in Account =>
        docs[d].name = d[1] /\ accounts[FileOf[d[1]]] = docs[d]

AbstractRegister == INSTANCE Registry WITH
    Proc <- {"secfile"}, Place <- File, PlaceOf <- FileOf, Absent <- None,
    sessions <- [p \in {"secfile"} |-> session]

\* Dialogues, menus, kills and all, the program gives each place in users/
\* once and enters only accounts that were given (Registry).
UsesTheRegister == AbstractRegister!Spec

AbstractStore == INSTANCE VaultStore WITH
    Content <- Account, Absent <- None,
    docs <- [d \in Owned |-> IF docs[d] = Lost THEN None ELSE docs[d]],
    asked <- IF Calling("delete") /\ typed[2] = "y" THEN {Document} ELSE {}

\* And to its users it is the store VaultStore describes: nothing is saved
\* over a document, and none goes away that its owner did not have deleted.
UsesTheStore == AbstractStore!Spec

\* Whatever fails, a call that has begun ends in a line of the audit log about
\* it, unless the process is killed.  (The line before it is the menu choice.)
CallsAreLogged ==
    (pc = "call") ~> (pc = "off" \/ \E c \in Calls : log # <<>> /\ log[Len(log)][1] = Event(c))

\* When the input ends the program gets out of every dialogue and call, back
\* to a menu: the passwords typed so far are wiped and the call is finished.
\* (It does not end: the menus then ask for ever.)
EndOfInputLeavesDialogue ==
    (input = "ended") ~> (pc \in Menus \cup {"off"})
=============================================================================
