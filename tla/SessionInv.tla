----------------------------- MODULE SessionInv -----------------------------
(***************************************************************************)
(* What every reachable state of Session knows about the dialogue it is    *)
(* in, the secrets in memory and the accounts behind them.                 *)
(***************************************************************************)
EXTENDS Session

SessionCalls == FileCalls \cup {"list_users"}
Busy == pc \notin Menus \cup {"off"}

Questions == {"name", "password", "confirm", "path", "stored", "output", "y/n"}
Typable == UNION {Answers(q) : q \in Questions}

\* An answer that is taken: an empty line only for a password, and a yes.
Answered(field, v) ==
    /\ v \in Answers(field)
    /\ v = "" => field \in SecretFields
    /\ field = "y/n" => v = "y"

\* What has been typed answers the questions of the dialogue, in their order,
\* and a call begins when all are answered.
Dialogues ==
    /\ pc \in Step
    /\ Busy => choice \in Calls
    /\ pc = "save" => choice = "encrypt"
    /\ pc \in {"open", "output"} => choice = "decrypt"
    /\ typed \in Seq(Typable)
    /\ Len(typed) <= Len(Fields(choice))
    /\ \A i \in 1..Len(typed) : Answered(Fields(choice)[i], typed[i])
    /\ pc = "ask" => Len(typed) < Len(Fields(choice))
    /\ pc \in {"call", "save", "open", "output", "report"} => Len(typed) = Len(Fields(choice))
    /\ ~Busy => typed = <<>>

\* Which secrets are in memory where.
Memory ==
    /\ pc = "off" => mem = {}
    /\ pc = "main" => mem \subseteq {"part", "remnant"}
    /\ pc = "menu" => "key" \in mem /\ mem \subseteq {"key", "part", "remnant"}
    /\ (Busy /\ choice \in SessionCalls) =>
          /\ "key" \in mem
          /\ mem \subseteq {"key", "part", "plain", "remnant"}
          /\ pc = "ask" => "plain" \notin mem
    /\ (Busy /\ choice \notin SessionCalls) =>
          /\ mem \subseteq SecretFields \cup {"key", "part", "remnant"}
          /\ choice = "create_admin" => "part" \notin mem /\ "remnant" \notin mem
          /\ "key" \in mem => choice \in Logins /\ pc = "report"
          /\ (choice \in Logins /\ pc = "report" /\ outcome = "success") => "key" \in mem
    /\ "part" \in mem => Fails({"short"})
    /\ "remnant" \in mem => Fails({"elide"})

\* A session is one of the accounts on disk, each at its own place; it lasts
\* from the login to the logout.
Owners ==
    /\ accounts \in [File -> Account \cup {None}]
    /\ \A f \in File : accounts[f] # None => FileOf[accounts[f].name] = f
    /\ session \in Account \cup {None}
    /\ session # None => accounts[FileOf[session.name]] = session
    /\ pc = "menu" => session # None
    /\ (Busy /\ choice \in SessionCalls) => session # None
    /\ (Busy /\ choice \notin SessionCalls /\ pc # "report") => session = None
    /\ (pc = "report" /\ choice \in Logins /\ outcome = "success") => session # None
    /\ (pc = "report" /\ choice \notin SessionCalls) =>
          (session # None => choice \in Logins /\ outcome = "success")
    /\ pc \in {"main", "off"} => session = None
    /\ docs \in [Owned -> Account \cup {None, Lost}]
    /\ OwnersKey

\* What the proofs about secrets, accounts and documents rest on.
Attended == Dialogues /\ Memory /\ Owners

\* A choice is held from its prompt to its report, a result at the report only.
Choices ==
    /\ choice \in Calls \cup {None} /\ (Busy <=> choice # None)
    /\ outcome \in Result \cup {None} /\ (outcome # None <=> pc = "report")
    /\ input \in {"open", "ended"}

\* What a line of the log is made of.
Line == ({"APP_START", "APP_EXIT", "MENU_CHOICE"} \cup {Event(c) : c \in Calls})
            \X (User \cup {None})
            \X (Result \cup Calls \cup {"exit", "invalid", "logout"})

\* A change is told by the next report, and by no other line.
Reports ==
    /\ log \in Seq(Line) /\ changes \in Seq(Line)
    /\ \E n \in 0..Len(changes) :
          /\ Told(n)
          /\ \/ /\ Len(changes) = n
                /\ pc = "report" => ~Claims(Entry(choice, outcome))
             \/ /\ Len(changes) = n + 1 /\ pc \in {"report", "off"}
                /\ pc = "report" => changes[n + 1] = Entry(choice, outcome)

\* The menu of a session, or one of its dialogues and calls.
Within == pc = "menu" \/ (Busy /\ choice \in SessionCalls)

\* The login of the session is in the log; a session that lists the users, or
\* is about to be reported, is one of the role the menu asks for.
Sessions ==
    /\ AttributedToLogin
    /\ \A i \in DOMAIN log : log[i][1] \in InSession => log[i][2] \in User
    /\ Within => LoggedIn(session, Len(log))
    /\ (Busy /\ choice = "list_users") => session.role = "admin"
    /\ (pc = "report" /\ choice \in Logins /\ outcome = "success") =>
          /\ session.role = IF choice = "login" THEN "standard" ELSE "admin"
          /\ FileOf[session.name] = FileOf[typed[1]]

\* The inductive invariant of the program at its terminal and its log.
Logged == Attended /\ Choices /\ Reports /\ Sessions
=============================================================================
