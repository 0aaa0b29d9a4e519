-------------------------- MODULE SessionLogProofs --------------------------
(***************************************************************************)
(* Proofs about the audit log of Session: what it says was done, and under *)
(* whose name.                                                             *)
(***************************************************************************)
EXTENDS SessionProofs

-----------------------------------------------------------------------------
(***************************************************************************)
(* Which choice and which result are held where.                           *)
(***************************************************************************)
LEMMA NoneOfThem ==
  None \notin Calls /\ None \notin Result /\ None \notin Account /\ None \notin User
  BY NoneAssumption DEF Result

LEMMA InitChoices == Init => Choices
  BY NoneOfThem DEF Init, Choices, Busy, Menus

\* The result of a call is there when its report is due.
LEMMA ChoicesStep == Dialogues /\ Choices /\ [Next]_vars => Choices'
  <1> SUFFICES ASSUME Dialogues, Choices, [Next]_vars PROVE Choices'
    OBVIOUS
  <1> USE NoneOfThem DEF Choices
  <1>1. CASE UNCHANGED vars
    BY <1>1 DEF vars, Busy
  <1>2. ASSUME Cancel, pc = "ask" PROVE Choices'
    <2>1. choice \in Calls
      BY <1>2 DEF Busy, Menus
    <2>2. pc' \in Menus \cup {"off"} /\ choice' = None /\ outcome' = outcome /\ input' = input
      BY <1>2, <2>1, HomeFacts DEF Cancel
    <2> QED BY <1>2, <2>2 DEF Busy, Menus
  <1>3. ASSUME pc \in {"call", "save", "open", "output"}, UNCHANGED <<choice, input>>,
               \/ pc' = "report" /\ outcome' \in Result
               \/ pc' \in {"save", "open", "output"} /\ outcome' = outcome
        PROVE  Choices'
    BY <1>3 DEF Busy, Menus
  <1>4. CASE Program
    <2>1. CASE Authenticate \/ Create \/ DeleteFile \/ Listing
      BY <2>1, <1>3 DEF Authenticate, Create, DeleteFile, Listing, Done, Calling, Result
    <2>2. CASE EncryptRead \/ EncryptSave
      BY <2>2, <1>3 DEF EncryptRead, EncryptSave, Done, Calling, Result
    <2>3. CASE DecryptLoad \/ DecryptOpen \/ DecryptOutput
      BY <2>3, <1>3 DEF DecryptLoad, DecryptOpen, DecryptOutput, Done, Calling, Result
    <2>4. CASE Report
      <3>1. choice \in Calls
        BY <2>4 DEF Report, Busy, Menus
      <3>2. pc' \in Menus \cup {"off"} /\ choice' = None /\ outcome' = None /\ input' = input
        BY <2>4, <3>1, HomeFacts DEF Report, Menus
      <3> QED BY <3>2 DEF Busy, Menus
    <2>5. CASE AnswerEnds
      BY <2>5, <1>2 DEF AnswerEnds
    <2> QED BY <1>4, <2>1, <2>2, <2>3, <2>4, <2>5 DEF Program
  <1>5. CASE Terminal
    <2>1. ASSUME NEW c \in Startup, Launch(c) PROVE Choices'
      <3>1. c \in Calls
        BY DEF Calls, Creation
      <3>2. pc = "off" /\ input' = "open" /\ outcome' = outcome
        BY <2>1 DEF Launch
      <3>3. CASE pc' = "ask" /\ choice' = c
        BY <3>1, <3>2, <3>3 DEF Busy, Menus
      <3>4. CASE pc' = Home(c) /\ choice' = choice
        <4>1. pc' \in Menus \cup {"off"}
          BY <3>1, <3>4, HomeFacts
        <4> QED BY <3>2, <3>4, <4>1 DEF Busy, Menus
      <3> QED BY <2>1, <3>3, <3>4 DEF Launch
    <2>2. CASE LaunchFails \/ Reprompt
      BY <2>2, <1>1 DEF LaunchFails, Reprompt
    <2>3. ASSUME NEW c \in Calls, Choose(c) PROVE Choices'
      BY <2>3 DEF Choose, ReadsChoice, Busy, Menus
    <2>4. CASE ChooseInvalid \/ Logout \/ Exit
      BY <2>4 DEF ChooseInvalid, Logout, Exit, ReadsChoice, Busy, Menus
    <2>5. ASSUME pc = "ask", NEW v \in Answers(Asked), Answer(v) PROVE Choices'
      <3>1. CASE Refused(Asked, v)
        BY <2>5, <3>1, <1>2 DEF Answer
      <3>2. CASE ~Refused(Asked, v)
        BY <2>5, <3>2 DEF Answer, Busy, Menus
      <3> QED BY <3>1, <3>2
    <2>6. CASE EndInput
      BY <2>6 DEF EndInput, Busy
    <2> QED BY <1>5, <2>1, <2>2, <2>3, <2>4, <2>5, <2>6 DEF Terminal
  <1>6. CASE Crash
    BY <1>6 DEF Crash, Busy, Menus
  <1> QED BY <1>1, <1>4, <1>5, <1>6 DEF Next

-----------------------------------------------------------------------------
(***************************************************************************)
(* The lines.                                                              *)
(***************************************************************************)
\* What each call logs itself as.
LEMMA EventOf ==
  /\ \A c \in Startup : Event(c) = "CREATE_ADMIN"
  /\ Event("create_user") = "CREATE_USER"
  /\ Event("login") = "LOGIN" /\ Event("admin_login") = "ADMIN_LOGIN"
  /\ Event("encrypt") = "ENCRYPT_FILE" /\ Event("decrypt") = "DECRYPT_FILE"
  /\ Event("delete") = "DELETE_FILE"
  /\ Event("list") = "LIST_FILES" /\ Event("list_users") = "LIST_USERS"
  BY DEF Event, Startup

\* The calls that change the disk, and those of a session, by their events.
LEMMA EventKinds ==
  ASSUME NEW c \in Calls
  PROVE  /\ Event(c) \in Changing => c \in Creation \cup {"encrypt", "delete"}
         /\ Event(c) \in InSession <=> c \in SessionCalls
         /\ Event(c) = "LIST_USERS" <=> c = "list_users"
         /\ Event(c) # "MENU_CHOICE"
  BY EventOf DEF Calls, Creation, Startup, Logins, SessionCalls, FileCalls, Changing, InSession

\* A call about an account has the name of one.
LEMMA NameTyped ==
  ASSUME Dialogues, pc \in {"call", "report"}, choice \in Creation \cup Logins
  PROVE  typed[1] \in User
  <1>1. Fields(choice)[1] = "name" /\ Len(Fields(choice)) \in {2, 3}
    BY FieldsOf
  <1>2. Answered("name", typed[1])
    BY <1>1 DEF Dialogues
  <1> QED BY <1>2 DEF Answered, Answers, SecretFields

\* The line of a call is one, and claims a change when one was due.
LEMMA EntryIsLine ==
  ASSUME Dialogues, Owners, pc \in {"call", "save", "open", "output", "report"},
         NEW r \in Result
  PROVE  /\ Entry(choice, r) \in Line
         /\ Entry(choice, r)[1] = Event(choice) /\ Entry(choice, r)[3] = r
         /\ choice \in SessionCalls =>
               session \in Account /\ session.name \in User
               /\ Entry(choice, r)[2] = session.name
         /\ choice \notin SessionCalls => Entry(choice, r)[2] = typed[1] /\ typed[1] \in User
  <1>1. Busy /\ choice \in Calls
    BY DEF Busy, Menus, Dialogues
  <1>2. choice \in SessionCalls <=> choice \notin Creation \cup Logins
    BY <1>1 DEF Calls, SessionCalls, FileCalls, Creation, Startup, Logins
  <1>3. choice \in SessionCalls => session \in Account /\ session.name \in User
    BY <1>1 DEF Owners, Account
  <1>4. choice \notin SessionCalls => pc \in {"call", "report"}
    BY DEF Dialogues, SessionCalls, FileCalls
  <1>5. choice \notin SessionCalls => typed[1] \in User
    BY <1>2, <1>4, NameTyped
  <1> DEFINE who == IF choice \in Creation \cup Logins THEN typed[1] ELSE session.name
  <1>6. who \in User /\ Entry(choice, r) = <<Event(choice), who, r>>
    BY <1>2, <1>3, <1>5 DEF Entry
  <1> HIDE DEF who
  <1>7. Entry(choice, r) \in Line
    BY <1>1, <1>6 DEF Line
  <1> QED BY <1>2, <1>3, <1>5, <1>6, <1>7 DEF who

\* Nor does the line of a menu choice, or of the start or end of the program.
LEMMA OtherLines ==
  ASSUME Owners, NEW c \in Calls \cup {"exit", "invalid", "logout"}, NEW e \in {"APP_START", "APP_EXIT"}
  PROVE  /\ MenuChoice(c) \in Line /\ ~Claims(MenuChoice(c))
         /\ MenuChoice(c)[1] \notin InSession
         /\ AppEvent(e) \in Line /\ ~Claims(AppEvent(e)) /\ AppEvent(e)[1] \notin InSession
  <1> DEFINE who == IF session = None THEN None ELSE session.name
  <1>1. who \in User \cup {None}
    BY DEF Owners, Account
  <1>2. MenuChoice(c) = <<"MENU_CHOICE", who, c>>
    BY DEF MenuChoice
  <1> HIDE DEF who
  <1> QED BY <1>1, <1>2 DEF AppEvent, Line, Claims, Changing, InSession, Result

-----------------------------------------------------------------------------
(***************************************************************************)
(* The log and the changes.                                                *)
(***************************************************************************)
\* Lines that claim nothing leave what has been told.
LEMMA ToldKept ==
  ASSUME log \in Seq(Line), log' \in Seq(Line), NEW n \in Nat, Told(n),
         Len(log) <= Len(log'),
         \A i \in 1..Len(log) : log'[i] = log[i],
         \A i \in 1..Len(log') : i > Len(log) => ~Claims(log'[i]),
         \A i \in 1..n : changes'[i] = changes[i]
  PROVE  Told(n)'
  <1>1. PICK at \in [1..n -> DOMAIN log] :
               /\ \A i \in 1..n : log[at[i]] = changes[i]
               /\ \A i, j \in 1..n : i < j => at[i] < at[j]
               /\ \A k \in DOMAIN log : Claims(log[k]) => \E i \in 1..n : at[i] = k
    BY DEF Told
  <1>2. DOMAIN log = 1..Len(log) /\ DOMAIN log' = 1..Len(log') /\ Len(log) \in Nat /\ Len(log') \in Nat
    OBVIOUS
  <1>3. at \in [1..n -> DOMAIN log']
    BY <1>1, <1>2
  <1>4. \A i \in 1..n : log'[at[i]] = changes'[i]
    BY <1>1, <1>2
  <1>5. \A k \in DOMAIN log' : Claims(log'[k]) => \E i \in 1..n : at[i] = k
    <2> SUFFICES ASSUME NEW k \in DOMAIN log', Claims(log'[k]) PROVE \E i \in 1..n : at[i] = k
      OBVIOUS
    <2>1. k \in DOMAIN log /\ log'[k] = log[k]
      BY <1>2
    <2> QED BY <1>1, <2>1
  <1>6. \E m \in [1..n -> DOMAIN log'] :
            /\ \A i \in 1..n : log'[m[i]] = changes'[i]
            /\ \A i, j \in 1..n : i < j => m[i] < m[j]
            /\ \A k \in DOMAIN log' : Claims(log'[k]) => \E i \in 1..n : m[i] = k
    BY <1>1, <1>3, <1>4, <1>5
  <1> QED BY <1>6 DEF Told, Claims

\* The line of the next change tells it.
LEMMA ToldNext ==
  ASSUME log \in Seq(Line), NEW n \in Nat, Told(n), NEW e \in Line,
         log' = Append(log, e), changes' = changes, changes[n + 1] = e
  PROVE  Told(n + 1)'
  <1> DEFINE l == Len(log)
  <1>1. PICK at \in [1..n -> DOMAIN log] :
               /\ \A i \in 1..n : log[at[i]] = changes[i]
               /\ \A i, j \in 1..n : i < j => at[i] < at[j]
               /\ \A k \in DOMAIN log : Claims(log[k]) => \E i \in 1..n : at[i] = k
    BY DEF Told
  <1>2. /\ DOMAIN log = 1..l /\ DOMAIN log' = 1..(l + 1) /\ l \in Nat
        /\ \A i \in 1..l : log'[i] = log[i]
        /\ log'[l + 1] = e
    OBVIOUS
  <1> HIDE DEF l
  <1> DEFINE to == [i \in 1..(n + 1) |-> IF i = n + 1 THEN l + 1 ELSE at[i]]
  <1>3. /\ \A i \in 1..n : to[i] = at[i] /\ at[i] \in 1..l
        /\ to[n + 1] = l + 1 /\ n + 1 \in 1..(n + 1)
        /\ to \in [1..(n + 1) -> 1..(l + 1)]
    BY <1>1, <1>2
  <1> HIDE DEF to
  <1>4. \A i \in 1..(n + 1) : i \in 1..n \/ i = n + 1
    OBVIOUS
  <1>5. \A i \in 1..(n + 1) : log'[to[i]] = changes'[i]
    BY <1>1, <1>2, <1>3, <1>4
  <1>6. \A i, j \in 1..(n + 1) : i < j => to[i] < to[j]
    <2> SUFFICES ASSUME NEW i \in 1..(n + 1), NEW j \in 1..(n + 1), i < j
                 PROVE  to[i] < to[j]
      OBVIOUS
    <2>1. i \in 1..n
      OBVIOUS
    <2>2. CASE j \in 1..n
      BY <2>1, <2>2, <1>1, <1>3
    <2>3. CASE j = n + 1
      BY <2>1, <2>3, <1>2, <1>3
    <2> QED BY <2>2, <2>3, <1>4
  <1>7. \A k \in DOMAIN log' : Claims(log'[k]) => \E i \in 1..(n + 1) : to[i] = k
    <2> SUFFICES ASSUME NEW k \in DOMAIN log', Claims(log'[k])
                 PROVE  \E i \in 1..(n + 1) : to[i] = k
      OBVIOUS
    <2>1. CASE k = l + 1
      BY <2>1, <1>3
    <2>2. CASE k \in 1..l
      <3>1. PICK i \in 1..n : at[i] = k
        BY <2>2, <1>1, <1>2
      <3> QED BY <3>1, <1>3
    <2> QED BY <2>1, <2>2, <1>2
  <1>8. \E m \in [1..(n + 1) -> DOMAIN log'] :
            /\ \A i \in 1..(n + 1) : log'[m[i]] = changes'[i]
            /\ \A i, j \in 1..(n + 1) : i < j => m[i] < m[j]
            /\ \A k \in DOMAIN log' : Claims(log'[k]) => \E i \in 1..(n + 1) : m[i] = k
    <2>1. to \in [1..(n + 1) -> DOMAIN log']
      BY <1>2, <1>3
    <2> QED BY <2>1, <1>5, <1>6, <1>7, Zenon
  <1> QED BY <1>8 DEF Told, Claims

\* With no change waiting to be told, a step that changes nothing on disk and
\* logs no claim leaves none waiting.
LEMMA ReportsQuiet ==
  ASSUME Reports, pc \notin {"report", "off"}, changes' = changes,
         pc' = "report" => ~Claims(Entry(choice, outcome))',
         log' \in Seq(Line), Len(log) <= Len(log'),
         \A i \in 1..Len(log) : log'[i] = log[i],
         \A i \in 1..Len(log') : i > Len(log) => ~Claims(log'[i])
  PROVE  Reports'
  <1>1. log \in Seq(Line) /\ changes \in Seq(Line) /\ Len(changes) \in Nat
    BY DEF Reports
  <1>2. PICK n \in 0..Len(changes) : Told(n) /\ Len(changes) = n
    BY DEF Reports
  <1>3. Told(n)'
    BY <1>1, <1>2, ToldKept
  <1>4. n \in 0..Len(changes') /\ Len(changes') = n
    BY <1>1, <1>2
  <1>5. (\E m \in 0..Len(changes) :
          /\ Told(m)
          /\ \/ /\ Len(changes) = m
                /\ pc = "report" => ~Claims(Entry(choice, outcome))
             \/ /\ Len(changes) = m + 1 /\ pc \in {"report", "off"}
                /\ pc = "report" => changes[m + 1] = Entry(choice, outcome))'
    BY <1>3, <1>4
  <1> QED BY <1>1, <1>5 DEF Reports

\* A change waits for the report of its call.
LEMMA ReportsChange ==
  ASSUME Reports, pc \notin {"report", "off"}, pc' = "report", log' = log,
         NEW e \in Line, changes' = Append(changes, e), Entry(choice, outcome)' = e
  PROVE  Reports'
  <1>1. log \in Seq(Line) /\ changes \in Seq(Line) /\ Len(changes) \in Nat
    BY DEF Reports
  <1>2. PICK n \in 0..Len(changes) : Told(n) /\ Len(changes) = n
    BY DEF Reports
  <1>3. /\ changes' \in Seq(Line) /\ Len(changes') = n + 1 /\ changes'[n + 1] = e
        /\ \A i \in 1..n : changes'[i] = changes[i]
    BY <1>1, <1>2
  <1>4. Told(n)'
    BY <1>1, <1>2, <1>3, ToldKept
  <1>5. n \in 0..Len(changes')
    BY <1>1, <1>2, <1>3
  <1>6. (\E m \in 0..Len(changes) :
          /\ Told(m)
          /\ \/ /\ Len(changes) = m
                /\ pc = "report" => ~Claims(Entry(choice, outcome))
             \/ /\ Len(changes) = m + 1 /\ pc \in {"report", "off"}
                /\ pc = "report" => changes[m + 1] = Entry(choice, outcome))'
    BY <1>3, <1>4, <1>5
  <1> QED BY <1>1, <1>3, <1>6 DEF Reports

\* Steps that touch neither the log nor the place in it.
LEMMA ReportsSame ==
  ASSUME Reports, log' = log, changes' = changes,
         \/ UNCHANGED <<pc, choice, outcome, typed, session>>
         \/ pc' = "off"
  PROVE  Reports'
  <1>1. log \in Seq(Line) /\ changes \in Seq(Line) /\ Len(changes) \in Nat
    BY DEF Reports
  <1>2. PICK n \in 0..Len(changes) :
          /\ Told(n)
          /\ \/ /\ Len(changes) = n
                /\ pc = "report" => ~Claims(Entry(choice, outcome))
             \/ /\ Len(changes) = n + 1 /\ pc \in {"report", "off"}
                /\ pc = "report" => changes[n + 1] = Entry(choice, outcome)
    BY DEF Reports
  <1>3. Told(n)'
    BY <1>1, <1>2, ToldKept
  <1>4. pc' = "report" => Entry(choice, outcome)' = Entry(choice, outcome) /\ pc = "report"
    BY DEF Entry, Event
  <1>5. (\E m \in 0..Len(changes) :
          /\ Told(m)
          /\ \/ /\ Len(changes) = m
                /\ pc = "report" => ~Claims(Entry(choice, outcome))
             \/ /\ Len(changes) = m + 1 /\ pc \in {"report", "off"}
                /\ pc = "report" => changes[m + 1] = Entry(choice, outcome))'
    BY <1>1, <1>2, <1>3, <1>4 DEF Claims
  <1> QED BY <1>1, <1>5 DEF Reports

\* The report of a call tells its change, if it has made one.
LEMMA ReportsTell ==
  ASSUME Reports, Report, pc' # "report", Entry(choice, outcome) \in Line
  PROVE  Reports'
  <1> DEFINE e == Entry(choice, outcome)
  <1>1. /\ log \in Seq(Line) /\ changes \in Seq(Line) /\ Len(changes) \in Nat
        /\ pc = "report" /\ log' = Append(log, e) /\ changes' = changes
    BY DEF Reports, Report, disk
  <1>2. e \in Line
    OBVIOUS
  <1>3. PICK n \in 0..Len(changes) :
          /\ Told(n)
          /\ \/ Len(changes) = n /\ ~Claims(e)
             \/ Len(changes) = n + 1 /\ changes[n + 1] = e
    BY <1>1 DEF Reports
  <1> HIDE DEF e
  <1>4. log' \in Seq(Line)
    BY <1>1, <1>2
  <1>5. CASE Len(changes) = n /\ ~Claims(e)
    <2>1. Told(n)'
      BY <1>1, <1>2, <1>3, <1>4, <1>5, ToldKept
    <2>2. n \in 0..Len(changes') /\ Len(changes') = n
      BY <1>1, <1>5
    <2> QED BY <1>1, <1>4, <2>1, <2>2 DEF Reports
  <1>6. CASE Len(changes) = n + 1 /\ changes[n + 1] = e
    <2>1. n \in Nat /\ Told(n)
      BY <1>3
    <2>2. Told(n + 1)'
      BY <1>1, <1>2, <1>6, <2>1, ToldNext
    <2>3. n + 1 \in 0..Len(changes') /\ Len(changes') = n + 1
      BY <1>1, <1>6, <2>1
    <2> QED BY <1>1, <1>4, <2>2, <2>3 DEF Reports
  <1> QED BY <1>3, <1>5, <1>6

\* A run begins with nothing to tell.
LEMMA ReportsBegin ==
  ASSUME changes' = <<>>, pc' # "report", log' \in Seq(Line),
         \A i \in 1..Len(log') : ~Claims(log'[i])
  PROVE  Reports'
  <1> DEFINE at == [i \in 1..0 |-> 1]
  <1>1. at \in [1..0 -> DOMAIN log'] /\ (\A i \in 1..0 : FALSE) /\ DOMAIN log' = 1..Len(log')
    OBVIOUS
  <1> HIDE DEF at
  <1>2. Told(0)'
    <2>1. /\ \A i \in 1..0 : log'[at[i]] = changes'[i]
          /\ \A i, j \in 1..0 : i < j => at[i] < at[j]
          /\ \A k \in DOMAIN log' : Claims(log'[k]) => \E i \in 1..0 : at[i] = k
      BY <1>1
    <2>2. \E m \in [1..0 -> DOMAIN log'] :
            /\ \A i \in 1..0 : log'[m[i]] = changes'[i]
            /\ \A i, j \in 1..0 : i < j => m[i] < m[j]
            /\ \A k \in DOMAIN log' : Claims(log'[k]) => \E i \in 1..0 : m[i] = k
      BY <1>1, <2>1, Zenon
    <2> QED BY <2>2 DEF Told, Claims
  <1>3. changes' \in Seq(Line) /\ Len(changes') = 0 /\ 0 \in 0..Len(changes')
    OBVIOUS
  <1> QED BY <1>2, <1>3 DEF Reports

\* One more line, which claims nothing.
LEMMA OneMore ==
  ASSUME log \in Seq(Line), NEW e \in Line, ~Claims(e), log' = Append(log, e)
  PROVE  /\ log' \in Seq(Line) /\ Len(log) <= Len(log')
         /\ \A i \in 1..Len(log) : log'[i] = log[i]
         /\ \A i \in 1..Len(log') : i > Len(log) => ~Claims(log'[i])
  OBVIOUS

\* Whatever the step, the log and the changes on disk go on telling the same.
LEMMA ReportsStep ==
  ASSUME Attended, Choices, Reports, [Next]_vars
  PROVE  Reports'
  <1> USE DEF Attended
  <1>0. /\ log \in Seq(Line) /\ changes \in Seq(Line) /\ Len(log) \in Nat
        /\ \A i \in 1..Len(log) : i > Len(log) => ~Claims(log[i])
    BY DEF Reports
  <1>1. CASE UNCHANGED vars
    BY <1>1, ReportsSame DEF vars
  <1>2. ASSUME pc \notin {"report", "off"}, pc' # "report", UNCHANGED <<log, changes>>
        PROVE  Reports'
    BY <1>0, <1>2, ReportsQuiet
  <1>3. ASSUME pc \in {"call", "save", "open", "output"},
               UNCHANGED <<choice, typed, log, changes>>, pc' = "report",
               outcome' \in Result,
               outcome' = "failure" \/ choice \notin Creation \cup {"encrypt", "delete"}
        PROVE  Reports'
    <2>1. choice \in Calls
      BY <1>3 DEF Choices, Busy, Menus
    <2>2. Entry(choice, outcome)'[1] = Event(choice) /\ Entry(choice, outcome)'[3] = outcome'
      BY <1>3 DEF Entry, Event
    <2>3. ~Claims(Entry(choice, outcome)')
      BY <1>3, <2>1, <2>2, EventKinds DEF Claims
    <2>4. ~Claims(Entry(choice, outcome))'
      BY <2>3 DEF Claims
    <2> QED BY <1>0, <1>3, <2>4, ReportsQuiet
  <1>4. ASSUME pc \in {"call", "save"}, UNCHANGED <<choice, typed, session, log>>, pc' = "report",
               outcome' \in Result, changes' = Append(changes, Entry(choice, outcome'))
        PROVE  Reports'
    <2>1. PICK r \in Result : r = outcome'
      BY <1>4
    <2>2. PICK e \in Line : e = Entry(choice, r)
      BY <1>4, EntryIsLine
    <2>3. Entry(choice, outcome)' = Entry(choice, r)
      BY <1>4, <2>1 DEF Entry, Event
    <2> QED BY <1>4, <2>1, <2>2, <2>3, ReportsChange
  <1>5. CASE Program
    <2>1. CASE Authenticate
      BY <2>1, <1>3 DEF Authenticate, Done, Result, disk, Logins, Creation, Startup
    <2>2. CASE Create
      BY <2>2, <1>3, <1>4 DEF Create, Done, Changed, Result
    <2>3. CASE EncryptRead
      BY <2>3, <1>2, <1>3 DEF EncryptRead, Calling, Done, Result, disk
    <2>4. CASE EncryptSave
      BY <2>4, <1>3, <1>4 DEF EncryptSave, Done, Changed, Result
    <2>5. CASE DecryptLoad
      BY <2>5, <1>2, <1>3 DEF DecryptLoad, Calling, Done, Result, disk
    <2>6. CASE DecryptOpen
      BY <2>6, <1>2, <1>3 DEF DecryptOpen, Done, Result, disk
    <2>7. CASE DecryptOutput
      <3>1. choice = "decrypt"
        BY <2>7 DEF DecryptOutput, Dialogues
      <3> QED BY <2>7, <3>1, <1>3 DEF DecryptOutput, Done, Result, disk, Creation, Startup
    <2>8. CASE DeleteFile
      BY <2>8, <1>3, <1>4 DEF DeleteFile, Calling, Done, Changed, Result
    <2>9. CASE Listing
      BY <2>9, <1>3 DEF Listing, Done, Result, disk, Creation, Startup
    <2>10. CASE Report
      <3>1. choice \in Calls /\ outcome \in Result /\ pc = "report"
        BY <2>10 DEF Report, Choices, Busy, Menus
      <3>2. pc' # "report"
        BY <2>10, <3>1, HomeFacts DEF Report, Menus
      <3>3. Entry(choice, outcome) \in Line
        BY <3>1, EntryIsLine
      <3> QED BY <2>10, <3>2, <3>3, ReportsTell
    <2>11. CASE AnswerEnds
      <3>1. choice \in Calls /\ pc = "ask"
        BY <2>11 DEF AnswerEnds, Choices, Busy, Menus
      <3> QED BY <2>11, <3>1, <1>2, HomeFacts DEF AnswerEnds, Cancel, Menus, disk
    <2> QED BY <1>5, <2>1, <2>2, <2>3, <2>4, <2>5, <2>6, <2>7, <2>8, <2>9, <2>10, <2>11 DEF Program
  <1>6. CASE Terminal
    <2>1. ASSUME NEW c \in Startup, Launch(c) PROVE Reports'
      <3>1. PICK e \in Line : e = AppEvent("APP_START") /\ ~Claims(e)
        BY OtherLines
      <3>2. c \in Calls
        BY DEF Calls, Creation
      <3>3. pc' # "report" /\ changes' = <<>> /\ (log' = <<e>> \/ log' = <<>>)
        BY <2>1, <3>1, <3>2, HomeFacts DEF Launch, Menus
      <3>4. log' \in Seq(Line) /\ \A i \in 1..Len(log') : ~Claims(log'[i])
        <4>1. CASE log' = <<e>>
          <5>1. Len(log') = 1 /\ log'[1] = e /\ log' \in Seq(Line)
            BY <4>1
          <5> QED BY <5>1, <3>1
        <4>2. CASE log' = <<>>
          BY <4>2
        <4> QED BY <3>3, <4>1, <4>2
      <3> QED BY <3>3, <3>4, ReportsBegin
    <2>2. CASE LaunchFails \/ Reprompt
      BY <2>2, <1>1 DEF LaunchFails, Reprompt
    <2>3. ASSUME NEW c \in Calls \cup {"exit", "invalid", "logout"}, pc \in Menus,
                 log' = Append(log, MenuChoice(c)), changes' = changes, pc' # "report"
          PROVE  Reports'
      <3>1. MenuChoice(c) \in Line /\ ~Claims(MenuChoice(c))
        BY OtherLines
      <3>2. PICK e \in Line : e = MenuChoice(c)
        BY <3>1
      <3>3. /\ log' \in Seq(Line) /\ Len(log) <= Len(log')
            /\ \A i \in 1..Len(log) : log'[i] = log[i]
            /\ \A i \in 1..Len(log') : i > Len(log) => ~Claims(log'[i])
        BY <1>0, <2>3, <3>1, <3>2, OneMore
      <3> QED BY <2>3, <3>3, ReportsQuiet DEF Menus
    <2>4. ASSUME NEW c \in Calls, Choose(c) PROVE Reports'
      BY <2>4, <2>3 DEF Choose, ReadsChoice, disk
    <2>5. CASE ChooseInvalid \/ Logout
      BY <2>5, <2>3 DEF ChooseInvalid, Logout, ReadsChoice, Menus, disk
    <2>6. CASE Exit
      <3>1. PICK a \in Line, b \in Line :
              a = MenuChoice("exit") /\ b = AppEvent("APP_EXIT") /\ ~Claims(a) /\ ~Claims(b)
        BY OtherLines
      <3>2. log' = log \o <<a, b>> /\ pc \in Menus /\ pc' = "off" /\ changes' = changes
        BY <2>6, <3>1 DEF Exit, ReadsChoice, disk
      <3>3. /\ log' \in Seq(Line) /\ Len(log') = Len(log) + 2
            /\ \A i \in 1..Len(log) : log'[i] = log[i]
            /\ log'[Len(log) + 1] = a /\ log'[Len(log) + 2] = b
        BY <1>0, <3>2
      <3>4. \A i \in 1..Len(log') : i > Len(log) => ~Claims(log'[i])
        BY <1>0, <3>1, <3>3
      <3> QED BY <1>0, <3>2, <3>3, <3>4, ReportsQuiet DEF Menus
    <2>7. ASSUME pc = "ask", NEW v \in Answers(Asked), Answer(v) PROVE Reports'
      <3>1. choice \in Calls
        BY <2>7 DEF Choices, Busy, Menus
      <3> QED BY <2>7, <3>1, <1>2, HomeFacts DEF Answer, Cancel, Menus, disk
    <2>8. CASE EndInput
      BY <2>8, ReportsSame DEF EndInput, disk
    <2> QED BY <1>6, <2>1, <2>2, <2>4, <2>5, <2>6, <2>7, <2>8 DEF Terminal
  <1>7. CASE Crash
    BY <1>7, ReportsSame DEF Crash, disk
  <1> QED BY <1>1, <1>5, <1>6, <1>7 DEF Next

-----------------------------------------------------------------------------
(***************************************************************************)
(* Whose lines they are.                                                   *)
(***************************************************************************)
\* Whatever is appended but a logout leaves a login in force.
LEMMA LoggedInStays ==
  ASSUME NEW acc, NEW n \in Nat, NEW m \in Nat, LoggedIn(acc, n), n <= m,
         \A i \in 1..n : log'[i] = log[i],
         \A i \in 1..m : i > n => log'[i] # <<"MENU_CHOICE", acc.name, "logout">>
  PROVE  LoggedIn(acc, m)'
  <1>1. PICK j \in 1..n :
        /\ log[j][1] = (IF acc.role = "admin" THEN "ADMIN_LOGIN" ELSE "LOGIN")
        /\ log[j][3] = "success"
        /\ FileOf[log[j][2]] = FileOf[acc.name]
        /\ \A k \in j..n : log[k] # <<"MENU_CHOICE", acc.name, "logout">>
    BY DEF LoggedIn
  <1>2. j \in 1..m /\ log'[j] = log[j]
    OBVIOUS
  <1>3. \A k \in j..m : log'[k] # <<"MENU_CHOICE", acc.name, "logout">>
    <2> SUFFICES ASSUME NEW k \in j..m PROVE log'[k] # <<"MENU_CHOICE", acc.name, "logout">>
      OBVIOUS
    <2>1. CASE k <= n
      BY <2>1, <1>1
    <2>2. CASE k > n
      BY <2>2
    <2> QED BY <2>1, <2>2
  <1> QED BY <1>1, <1>2, <1>3 DEF LoggedIn

\* What AttributedToLogin says of line i.
LineOwned(i) ==
    LET acc == accounts[FileOf[log[i][2]]] IN
    /\ acc # None /\ acc.name = log[i][2]
    /\ log[i][1] = "LIST_USERS" => acc.role = "admin"
    /\ LoggedIn(acc, i)

\* The accounts that lines are attributed to stay, and so do the lines.
LEMMA AttributedKept ==
  ASSUME log \in Seq(Line), log' \in Seq(Line), AttributedToLogin,
         \A i \in DOMAIN log : log[i][1] \in InSession => log[i][2] \in User,
         \A u \in User : accounts[FileOf[u]] # None
                             => accounts'[FileOf[u]] = accounts[FileOf[u]],
         Len(log) <= Len(log'),
         \A i \in 1..Len(log) : log'[i] = log[i],
         \A i \in 1..Len(log') : i > Len(log) /\ log'[i][1] \in InSession
                             => LineOwned(i)' /\ log'[i][2] \in User
  PROVE  /\ AttributedToLogin'
         /\ \A i \in DOMAIN log' : log'[i][1] \in InSession => log'[i][2] \in User
  <1>1. ASSUME NEW i \in DOMAIN log', log'[i][1] \in InSession
        PROVE  LineOwned(i)' /\ log'[i][2] \in User
    <2>1. i \in 1..Len(log') /\ DOMAIN log = 1..Len(log) /\ Len(log) \in Nat
      OBVIOUS
    <2>2. CASE i > Len(log)
      BY <2>1, <2>2, <1>1
    <2>3. CASE i \in 1..Len(log)
      <3>1. log'[i] = log[i] /\ log[i][1] \in InSession /\ log[i][2] \in User
        BY <1>1, <2>1, <2>3
      <3>2. PICK acc : acc = accounts[FileOf[log[i][2]]]
        OBVIOUS
      <3>3. /\ acc # None /\ acc.name = log[i][2]
            /\ log[i][1] = "LIST_USERS" => acc.role = "admin"
            /\ LoggedIn(acc, i)
        BY <2>1, <2>3, <3>1, <3>2 DEF AttributedToLogin
      <3>4. accounts'[FileOf[log'[i][2]]] = acc
        BY <3>1, <3>2, <3>3
      <3>5. LoggedIn(acc, i)'
        <4>1. \A k \in 1..i : log'[k] = log[k]
          BY <2>1, <2>3
        <4> QED BY <2>3, <3>3, <4>1, LoggedInStays
      <3>6. LoggedIn(accounts[FileOf[log[i][2]]], i)'
        BY <3>4, <3>5 DEF LoggedIn
      <3> QED BY <3>1, <3>3, <3>4, <3>6 DEF LineOwned
    <2> QED BY <2>1, <2>2, <2>3
  <1>2. \A i \in DOMAIN log' : log'[i][1] \in InSession => LineOwned(i)'
    BY <1>1
  <1>3. AttributedToLogin'
    BY <1>2 DEF AttributedToLogin, LineOwned, LoggedIn, InSession
  <1> QED BY <1>1, <1>3

\* An account, once there, stays.
LEMMA AccountsKept ==
  ASSUME Attended, [Next]_vars, NEW u \in User, accounts[FileOf[u]] # None
  PROVE  accounts'[FileOf[u]] = accounts[FileOf[u]]
  <1> USE DEF Attended
  <1>1. CASE Create /\ accounts' # accounts
    BY <1>1, CreateFacts, SessionAssumption DEF Owners
  <1>2. accounts' = accounts \/ Create
    BY QuietSteps DEF Authenticate, EncryptSave, DeleteFile, disk
  <1> QED BY <1>1, <1>2

\* A session is entered by the report of its login only, and while it lasts
\* the log grows by its calls and choices.
LEMMA WithinStep ==
  ASSUME Attended, Choices, [Next]_vars, Within',
         ~(Report /\ choice \in Logins /\ outcome = "success")
  PROVE  /\ Within /\ session' = session
         /\ \/ log' = log
            \/ \E c \in Calls \cup {"invalid"} : log' = Append(log, MenuChoice(c))
            \/ Report
  <1> USE DEF Attended
  <1>1. Within' <=> (pc' = "menu" \/ (Busy' /\ choice' \in SessionCalls))
    BY DEF Within
  <1>2. CASE UNCHANGED vars
    BY <1>1, <1>2 DEF vars, Within, Busy
  <1>3. ASSUME Cancel, pc = "ask" PROVE Within /\ session' = session /\ log' = log
    <2>1. choice \in Calls /\ Busy
      BY <1>3 DEF Choices, Busy, Menus
    <2>2. pc' = "menu" => choice \in SessionCalls
      BY <1>3, <2>1, HomeFacts DEF Cancel
    <2>3. None \notin SessionCalls
      BY NoneOfThem DEF Calls, SessionCalls
    <2> QED BY <1>1, <1>3, <2>1, <2>2, <2>3 DEF Within, Cancel
  <1>4. ASSUME pc \in {"call", "save", "open", "output"}, choice' = choice, session' = session,
               log' = log, pc' # "menu"
        PROVE  Within
    BY <1>1, <1>4 DEF Within, Busy, Menus
  <1>5. CASE Program
    <2>1. CASE Authenticate
      <3>1. choice' = choice /\ choice \notin SessionCalls /\ pc' # "menu"
        BY <2>1 DEF Authenticate, Done, Logins, SessionCalls, FileCalls
      <3> QED BY <1>1, <3>1
    <2>2. CASE Create \/ DeleteFile \/ Listing \/ EncryptRead \/ EncryptSave
               \/ DecryptLoad \/ DecryptOpen \/ DecryptOutput
      BY <2>2, <1>4 DEF Create, DeleteFile, Listing, EncryptRead, EncryptSave, DecryptLoad,
                        DecryptOpen, DecryptOutput, Calling, Done
    <2>3. CASE Report
      <3>1. choice \in Calls /\ Busy /\ session' = session
        BY <2>3 DEF Report, Choices, Busy, Menus
      <3>2. pc' = Home(choice)
        BY <2>3 DEF Report
      <3>3. ~Busy'
        BY <3>1, <3>2, HomeFacts DEF Busy
      <3>4. choice \in SessionCalls
        BY <1>1, <3>1, <3>2, <3>3, HomeFacts
      <3> QED BY <2>3, <3>1, <3>4 DEF Within
    <2>4. CASE AnswerEnds
      BY <2>4, <1>3 DEF AnswerEnds
    <2> QED BY <1>5, <2>1, <2>2, <2>3, <2>4 DEF Program, Create, DeleteFile, Listing, EncryptRead,
               EncryptSave, DecryptLoad, DecryptOpen, DecryptOutput
  <1>6. CASE Terminal
    <2>1. ASSUME NEW c \in Startup, Launch(c) PROVE FALSE
      <3>1. c \in Calls /\ c \notin SessionCalls
        BY DEF Calls, Creation, Startup, SessionCalls, FileCalls
      <3>2. CASE pc' = "ask" /\ choice' = c
        BY <1>1, <3>1, <3>2
      <3>3. CASE pc' = Home(c)
        BY <1>1, <3>1, <3>3, HomeFacts DEF Busy
      <3> QED BY <2>1, <3>2, <3>3 DEF Launch
    <2>2. CASE LaunchFails \/ Reprompt
      BY <2>2, <1>2 DEF LaunchFails, Reprompt
    <2>3. ASSUME NEW c \in Calls, Choose(c)
          PROVE  Within /\ session' = session /\ log' = Append(log, MenuChoice(c))
      <3>1. pc = "main" => c \in Logins \cup {"create_user"}
        BY <2>3, ChooseFacts
      <3>2. pc \in Menus /\ pc' \in {"ask", "call"} /\ choice' = c
            /\ session' = session /\ log' = Append(log, MenuChoice(c))
        BY <2>3 DEF Choose, ReadsChoice
      <3>3. c \in SessionCalls
        BY <1>1, <3>2
      <3>4. pc # "main"
        BY <3>1, <3>3 DEF Logins, SessionCalls, FileCalls
      <3> QED BY <3>2, <3>4 DEF Within, Menus
    <2>4. CASE ChooseInvalid
      BY <2>4, <1>1 DEF ChooseInvalid, ReadsChoice, Within, Busy
    <2>5. CASE Logout \/ Exit
      BY <2>5, <1>1 DEF Logout, Exit, Busy, Menus
    <2>6. ASSUME pc = "ask", NEW v \in Answers(Asked), Answer(v)
          PROVE  Within /\ session' = session /\ log' = log
      <3>1. CASE Refused(Asked, v)
        BY <2>6, <3>1, <1>3 DEF Answer
      <3>2. CASE ~Refused(Asked, v)
        BY <2>6, <3>2, <1>1 DEF Answer, Within, Busy, Menus
      <3> QED BY <3>1, <3>2
    <2>7. CASE EndInput
      BY <2>7, <1>1 DEF EndInput, Within, Busy
    <2> QED BY <1>6, <2>1, <2>2, <2>3, <2>4, <2>5, <2>6, <2>7 DEF Terminal
  <1>7. CASE Crash
    BY <1>1, <1>7 DEF Crash, Busy, Menus
  <1> QED BY <1>2, <1>5, <1>6, <1>7 DEF Next

\* The users are listed to an admin only.
LEMMA ListerStep ==
  ASSUME Attended, Choices, [Next]_vars, Busy /\ choice = "list_users" => session.role = "admin",
         Busy', choice' = "list_users"
  PROVE  session'.role = "admin"
  <1> USE DEF Attended
  <1>0. "list_users" \notin Logins \cup Creation /\ "list_users" # None
    BY NoneOfThem DEF Calls, Logins, Creation, Startup
  <1>1. CASE Busy /\ choice = "list_users" /\ session' = session
    BY <1>1
  <1>2. ASSUME NEW c \in Calls, Choose(c) PROVE session'.role = "admin"
    BY <1>2 DEF Choose, ReadsChoice, Offered, MainMenu, UserMenu, FileCalls
  <1>3. CASE Program
    BY <1>0, <1>1, <1>3 DEF Program, Authenticate, Create, DeleteFile, Listing, EncryptRead,
       EncryptSave, DecryptLoad, DecryptOpen, DecryptOutput, Report, AnswerEnds, Cancel, Calling,
       Busy, Menus
  <1>4. ASSUME NEW c \in Startup, Launch(c) PROVE FALSE
    <2>1. c \in Calls /\ c # "list_users"
      BY DEF Calls, Creation, Startup
    <2> QED BY <1>4, <2>1, HomeFacts DEF Launch, Busy
  <1>5. ASSUME pc = "ask", NEW v \in Answers(Asked), Answer(v) PROVE session'.role = "admin"
    <2>1. choice' = choice /\ session' = session /\ Busy
      BY <1>0, <1>5 DEF Answer, Cancel, Busy, Menus
    <2> QED BY <1>1, <2>1
  <1>6. CASE LaunchFails \/ Reprompt \/ EndInput \/ UNCHANGED vars
    BY <1>1, <1>6 DEF LaunchFails, Reprompt, EndInput, vars, Busy
  <1>7. ~(ChooseInvalid \/ Logout \/ Exit \/ Crash)
    BY DEF ChooseInvalid, Logout, Exit, ReadsChoice, Crash, Busy, Menus
  <1> QED BY <1>2, <1>3, <1>4, <1>5, <1>6, <1>7 DEF Next, Terminal

\* A login that is about to be reported has found the account at its name, and
\* of the role asked for.
LoginFound ==
    (pc = "report" /\ choice \in Logins /\ outcome = "success") =>
        /\ session.role = IF choice = "login" THEN "standard" ELSE "admin"
        /\ FileOf[session.name] = FileOf[typed[1]]

LEMMA LoginFoundStep ==
  ASSUME Attended, Choices, LoginFound, [Next]_vars
  PROVE  LoginFound'
  <1> USE DEF Attended
  <1>1. CASE UNCHANGED <<pc, choice, outcome, session, typed>>
    BY <1>1 DEF LoginFound
  <1>2. CASE pc' # "report"
    BY <1>2 DEF LoginFound
  <1>3. CASE choice' \notin Logins
    BY <1>3 DEF LoginFound
  <1>4. CASE Authenticate
    <2>1. choice' = choice /\ typed' = typed
      BY <1>4 DEF Authenticate
    <2>2. CASE outcome' = "failure"
      BY <2>2 DEF LoginFound
    <2>3. CASE outcome' # "failure"
      <3>1. /\ typed[1] \in User /\ session' = accounts[FileOf[typed[1]]] /\ session' # None
            /\ session'.role = IF choice = "login" THEN "standard" ELSE "admin"
        BY <1>4, <2>3, SessionAssumption DEF Authenticate, Done
      <3>2. FileOf[typed[1]] \in File
        BY <3>1, SessionAssumption
      <3>3. FileOf[session'.name] = FileOf[typed[1]]
        BY <3>1, <3>2 DEF Owners
      <3> QED BY <2>1, <3>1, <3>3 DEF LoginFound
    <2> QED BY <2>2, <2>3
  <1>5. CASE Program
    <2>1. CASE Create \/ DeleteFile \/ Listing \/ EncryptRead \/ EncryptSave
               \/ DecryptLoad \/ DecryptOpen \/ DecryptOutput
      BY <2>1, <1>3 DEF Create, DeleteFile, Listing, EncryptRead, EncryptSave, DecryptLoad, DecryptOpen,
                        DecryptOutput, Calling, Creation, Startup, Logins, Dialogues
    <2>2. CASE Report \/ AnswerEnds
      <3>1. choice \in Calls
        BY <2>2 DEF Report, AnswerEnds, Choices, Busy, Menus
      <3> QED BY <2>2, <3>1, <1>2, HomeFacts DEF Report, AnswerEnds, Cancel, Menus
    <2> QED BY <1>4, <1>5, <2>1, <2>2 DEF Program
  <1>6. CASE Terminal
    <2>1. ASSUME NEW c \in Startup, Launch(c) PROVE pc' # "report"
      <3>1. c \in Calls
        BY DEF Calls, Creation
      <3> QED BY <2>1, <3>1, HomeFacts DEF Launch, Menus
    <2>2. ASSUME pc = "ask", NEW v \in Answers(Asked), Answer(v) PROVE pc' # "report"
      <3>1. choice \in Calls
        BY <2>2 DEF Choices, Busy, Menus
      <3> QED BY <2>2, <3>1, HomeFacts DEF Answer, Cancel, Menus
    <2> QED BY <1>1, <1>2, <1>6, <2>1, <2>2 DEF Terminal, LaunchFails, Reprompt, Choose, ChooseInvalid,
               Logout, Exit, EndInput, ReadsChoice, Menus, vars
  <1>7. CASE Crash
    BY <1>2, <1>7 DEF Crash
  <1> QED BY <1>1, <1>5, <1>6, <1>7 DEF Next, vars

\* How the log grows in a step.
LEMMA LogGrows ==
  ASSUME [Next]_vars
  PROVE  \/ log' = log
         \/ log' = <<>> \/ log' = <<AppEvent("APP_START")>>
         \/ \E c \in Calls \cup {"exit", "invalid", "logout"} : log' = Append(log, MenuChoice(c))
         \/ log' = log \o <<MenuChoice("exit"), AppEvent("APP_EXIT")>>
         \/ Report
  <1>1. CASE UNCHANGED vars
    BY <1>1 DEF vars
  <1>2. CASE Program
    BY <1>2 DEF Program, Authenticate, Create, DeleteFile, Listing, EncryptRead, EncryptSave,
                DecryptLoad, DecryptOpen, DecryptOutput, AnswerEnds, Cancel
  <1>3. CASE Terminal
    <2>1. ASSUME NEW c \in Startup, Launch(c)
          PROVE  log' = <<>> \/ log' = <<AppEvent("APP_START")>>
      BY <2>1 DEF Launch
    <2>2. ASSUME NEW v, Answer(v) PROVE log' = log
      BY <2>2 DEF Answer, Cancel
    <2> QED BY <1>3, <2>1, <2>2 DEF Terminal, LaunchFails, Choose, ChooseInvalid, Logout, Exit,
                                    Reprompt, EndInput, vars
  <1>4. CASE Crash
    BY <1>4 DEF Crash
  <1> QED BY <1>1, <1>2, <1>3, <1>4 DEF Next

\* The line of a call is its session's, whose login is in the log.
LEMMA ReportedLine ==
  ASSUME Attended, Choices, Reports, Sessions, Report, Entry(choice, outcome)[1] \in InSession,
         NEW n \in Nat, n = Len(log), NEW m \in Nat, m = n + 1
  PROVE  LineOwned(m)' /\ log'[m][2] \in User
  <1> USE DEF Attended
  <1>1. log \in Seq(Line)
    BY DEF Reports
  <1>2. pc = "report" /\ choice \in Calls /\ outcome \in Result /\ accounts' = accounts
        /\ log' = Append(log, Entry(choice, outcome))
    BY DEF Report, Choices, Busy, Menus, disk
  <1>3. Entry(choice, outcome) \in Line /\ Entry(choice, outcome)[1] = Event(choice)
    BY <1>2, EntryIsLine
  <1>4. choice \in SessionCalls /\ Busy
    BY <1>2, <1>3, EventKinds DEF Busy, Menus
  <1>5. session \in Account /\ session.name \in User /\ Entry(choice, outcome)[2] = session.name
    BY <1>2, <1>4, EntryIsLine
  <1>6. PICK acc \in Account, e \in Line : acc = session /\ e = Entry(choice, outcome)
    BY <1>3, <1>5
  <1>7. accounts'[FileOf[acc.name]] = acc
    BY <1>2, <1>5, <1>6, NoneOfThem DEF Owners
  <1>8. acc # None
    BY NoneOfThem
  <1>9. e[1] = "LIST_USERS" => acc.role = "admin"
    BY <1>2, <1>3, <1>4, <1>6, EventKinds DEF Sessions
  <1>10. log'[m] = e /\ \A i \in 1..n : log'[i] = log[i]
    <2>1. log' = Append(log, e) /\ e \in Line
      BY <1>2, <1>6
    <2> QED BY ONLY <1>1, <2>1, n \in Nat, n = Len(log), m = n + 1
  <1>11. LoggedIn(acc, n)
    BY <1>4, <1>6 DEF Sessions, Within, LoggedIn
  <1>12. LoggedIn(acc, m)'
    <2>1. e # <<"MENU_CHOICE", acc.name, "logout">>
      BY <1>2, <1>3, <1>6, EventKinds
    <2>2. \A i \in 1..m : i > n => i = m
      OBVIOUS
    <2>3. \A i \in 1..m : i > n => log'[i] # <<"MENU_CHOICE", acc.name, "logout">>
      BY <1>10, <2>1, <2>2
    <2>4. n <= m /\ \A i \in 1..n : log'[i] = log[i]
      BY <1>10
    <2> QED BY <1>11, <2>3, <2>4, LoggedInStays
  <1>13. e[2] = acc.name
    BY <1>5, <1>6
  <1>14. LineOwned(m)'
    <2>1. log'[m][1] = e[1] /\ log'[m][2] = acc.name
      BY <1>10, <1>13
    <2>2. accounts'[FileOf[log'[m][2]]] = acc
      BY <1>7, <2>1
    <2>3. LoggedIn(accounts[FileOf[log[m][2]]], m)'
      BY <1>12, <2>2, Zenon DEF LoggedIn
    <2> QED BY <1>8, <1>9, <2>1, <2>2, <2>3 DEF LineOwned
  <1> QED BY <1>5, <1>6, <1>10, <1>13, <1>14

\* No step adds a line that is not its session's.
LEMMA AttributedStep ==
  ASSUME Attended, Choices, Reports, Reports', Sessions, [Next]_vars
  PROVE  /\ AttributedToLogin'
         /\ \A i \in DOMAIN log' : log'[i][1] \in InSession => log'[i][2] \in User
  <1> USE DEF Attended
  <1>1. log \in Seq(Line) /\ log' \in Seq(Line) /\ Len(log) \in Nat
    BY DEF Reports
  <1>2. /\ AttributedToLogin
        /\ \A i \in DOMAIN log : log[i][1] \in InSession => log[i][2] \in User
        /\ \A u \in User : accounts[FileOf[u]] # None
                             => accounts'[FileOf[u]] = accounts[FileOf[u]]
    BY AccountsKept DEF Sessions
  <1>3. ASSUME Len(log) <= Len(log'),
               \A i \in 1..Len(log) : log'[i] = log[i],
               \A i \in 1..Len(log') : i > Len(log) => log'[i][1] \notin InSession
        PROVE  /\ AttributedToLogin'
               /\ \A i \in DOMAIN log' : log'[i][1] \in InSession => log'[i][2] \in User
    BY <1>1, <1>2, <1>3, AttributedKept
  <1>4. ASSUME \A i \in DOMAIN log' : log'[i][1] \notin InSession
        PROVE  AttributedToLogin'
    BY <1>4 DEF AttributedToLogin, InSession
  <1>5. CASE log' = log
    BY <1>1, <1>3, <1>5
  <1>6. CASE log' = <<>> \/ log' = <<AppEvent("APP_START")>>
    <2>1. PICK e \in Line : e = AppEvent("APP_START") /\ e[1] \notin InSession
      BY OtherLines
    <2>2. \A i \in DOMAIN log' : log'[i][1] \notin InSession
      <3>1. CASE log' = <<e>>
        <4>1. DOMAIN log' = {1} /\ log'[1] = e
          BY <3>1
        <4> QED BY <2>1, <4>1
      <3>2. CASE log' = <<>>
        BY <3>2
      <3> QED BY <1>6, <2>1, <3>1, <3>2
    <2> QED BY <1>4, <2>2
  <1>7. ASSUME NEW c \in Calls \cup {"exit", "invalid", "logout"}, log' = Append(log, MenuChoice(c))
        PROVE  /\ AttributedToLogin'
               /\ \A i \in DOMAIN log' : log'[i][1] \in InSession => log'[i][2] \in User
    <2>1. PICK e \in Line : e = MenuChoice(c) /\ e[1] \notin InSession
      BY OtherLines
    <2>2. /\ Len(log') = Len(log) + 1 /\ log'[Len(log) + 1] = e
          /\ \A i \in 1..Len(log) : log'[i] = log[i]
      BY <1>1, <1>7, <2>1
    <2> QED BY <1>1, <1>3, <2>1, <2>2
  <1>8. CASE log' = log \o <<MenuChoice("exit"), AppEvent("APP_EXIT")>>
    <2>1. PICK a \in Line, b \in Line :
              /\ a = MenuChoice("exit") /\ b = AppEvent("APP_EXIT")
              /\ a[1] \notin InSession /\ b[1] \notin InSession
      BY OtherLines
    <2>2. log' = log \o <<a, b>>
      BY <1>8, <2>1
    <2>3. /\ Len(log') = Len(log) + 2
          /\ \A i \in 1..Len(log) : log'[i] = log[i]
          /\ log'[Len(log) + 1] = a /\ log'[Len(log) + 2] = b
      BY <1>1, <2>2
    <2>4. \A i \in 1..Len(log') : i > Len(log) => log'[i][1] \notin InSession
      BY <1>1, <2>1, <2>3
    <2> QED BY <1>1, <1>3, <2>3, <2>4
  <1>9. CASE Report
    <2>1. outcome \in Result /\ pc = "report"
      BY <1>9 DEF Report, Choices
    <2>2. PICK e \in Line : e = Entry(choice, outcome)
      BY <2>1, EntryIsLine
    <2>3. log' = Append(log, e)
      BY <1>9, <2>2 DEF Report
    <2>4. /\ Len(log') = Len(log) + 1 /\ log'[Len(log) + 1] = e
          /\ \A i \in 1..Len(log) : log'[i] = log[i]
      BY <1>1, <2>3
    <2>5. CASE e[1] \notin InSession
      BY <1>1, <1>3, <2>4, <2>5
    <2>6. CASE e[1] \in InSession
      <3>1. PICK n \in Nat, m \in Nat : n = Len(log) /\ m = n + 1
        BY <1>1
      <3>2. LineOwned(m)' /\ log'[m][2] \in User
        BY <1>9, <2>2, <2>6, <3>1, ReportedLine
      <3>3. \A i \in 1..Len(log') : i > Len(log) => i = m
        BY <1>1, <2>4, <3>1
      <3>4. \A i \in 1..Len(log') : i > Len(log) /\ log'[i][1] \in InSession
                             => LineOwned(i)' /\ log'[i][2] \in User
        BY <3>2, <3>3
      <3>5. Len(log) <= Len(log')
        BY <1>1, <2>4
      <3> QED BY <1>1, <1>2, <2>4, <3>4, <3>5, AttributedKept
    <2> QED BY <2>5, <2>6
  <1> QED BY <1>5, <1>6, <1>7, <1>8, <1>9, LogGrows
\* The login of the session stays in the log, with no logout after it.
LEMMA WithinLogged ==
  ASSUME Attended, Choices, Reports, Reports', Sessions, [Next]_vars, Within'
  PROVE  LoggedIn(session, Len(log))'
  <1> USE DEF Attended
  <1>1. log \in Seq(Line) /\ log' \in Seq(Line)
    BY DEF Reports
  <1>2. PICK n \in Nat, m \in Nat : n = Len(log) /\ m = Len(log')
    BY <1>1
  <1>3. PICK acc : acc = session'
    OBVIOUS
  <1>4. SUFFICES LoggedIn(acc, m)'
    BY <1>2, <1>3 DEF LoggedIn
  <1>5. ASSUME Report PROVE /\ pc = "report" /\ choice \in Calls /\ outcome \in Result
                            /\ session' = session /\ Entry(choice, outcome) \in Line
                            /\ Entry(choice, outcome)[1] = Event(choice)
                            /\ Entry(choice, outcome)[3] = outcome
    <2>1. pc = "report" /\ choice \in Calls /\ outcome \in Result /\ session' = session
      BY <1>5 DEF Report, Choices, Busy, Menus
    <2> QED BY <2>1, EntryIsLine
  <1>6. ASSUME NEW e \in Line, log' = Append(log, e)
        PROVE  m = n + 1 /\ log'[m] = e /\ \A i \in 1..n : log'[i] = log[i]
    BY ONLY <1>1, <1>2, <1>6
  <1>7. CASE Report /\ choice \in Logins /\ outcome = "success"
    <2>1. PICK e \in Line : e = Entry(choice, outcome)
      BY <1>5, <1>7
    <2>2. log' = Append(log, e)
      BY <1>7, <2>1 DEF Report
    <2>3. m = n + 1 /\ log'[m] = e
      BY <1>6, <2>2
    <2>4. /\ acc.role = (IF choice = "login" THEN "standard" ELSE "admin")
          /\ FileOf[acc.name] = FileOf[typed[1]]
      BY <1>3, <1>5, <1>7 DEF Sessions
    <2>5. e[1] = (IF choice = "login" THEN "LOGIN" ELSE "ADMIN_LOGIN") /\ e[3] = "success"
      BY <1>5, <1>7, <2>1, EventOf DEF Logins
    <2>6. e[2] = typed[1]
      BY <1>7, <2>1 DEF Entry
    <2>7. m \in 1..m /\ \A k \in m..m : k = m
      BY <2>3
    <2>8. /\ log'[m][1] = (IF acc.role = "admin" THEN "ADMIN_LOGIN" ELSE "LOGIN")
          /\ log'[m][3] = "success" /\ FileOf[log'[m][2]] = FileOf[acc.name]
          /\ log'[m] # <<"MENU_CHOICE", acc.name, "logout">>
      BY <2>3, <2>4, <2>5, <2>6
    <2> QED BY <2>7, <2>8 DEF LoggedIn
  <1>8. CASE ~(Report /\ choice \in Logins /\ outcome = "success")
    <2>1. /\ Within /\ acc = session
          /\ \/ log' = log
             \/ \E c \in Calls \cup {"invalid"} : log' = Append(log, MenuChoice(c))
             \/ Report
      BY <1>3, <1>8, WithinStep
    <2>2. LoggedIn(acc, n)
      BY <1>2, <2>1 DEF Sessions, LoggedIn
    <2>3. CASE log' = log
      BY <1>2, <2>2, <2>3 DEF LoggedIn
    <2>4. ASSUME NEW e \in Line, log' = Append(log, e), e # <<"MENU_CHOICE", acc.name, "logout">>
          PROVE  LoggedIn(acc, m)'
      <3>1. m = n + 1 /\ log'[m] = e /\ \A i \in 1..n : log'[i] = log[i]
        BY <1>6, <2>4
      <3>2. n <= m /\ \A i \in 1..m : i > n => i = m
        BY <3>1
      <3>3. \A i \in 1..m : i > n => log'[i] # <<"MENU_CHOICE", acc.name, "logout">>
        BY <2>4, <3>1, <3>2
      <3> QED BY <2>2, <3>1, <3>2, <3>3, LoggedInStays
    <2>5. CASE Report
      <3>1. PICK e \in Line : e = Entry(choice, outcome) /\ e[1] = Event(choice)
        BY <1>5, <2>5
      <3>2. log' = Append(log, e)
        BY <2>5, <3>1 DEF Report
      <3>3. e # <<"MENU_CHOICE", acc.name, "logout">>
        BY <1>5, <2>5, <3>1, EventKinds
      <3> QED BY <2>4, <3>2, <3>3
    <2>6. ASSUME NEW c \in Calls \cup {"invalid"}, log' = Append(log, MenuChoice(c))
          PROVE  LoggedIn(acc, m)'
      <3>1. PICK e \in Line : e = MenuChoice(c)
        BY OtherLines
      <3>2. c # "logout"
        BY DEF Calls, Creation, Startup, Logins, FileCalls
      <3>3. e # <<"MENU_CHOICE", acc.name, "logout">>
        BY <3>1, <3>2 DEF MenuChoice
      <3> QED BY <2>4, <2>6, <3>1, <3>3
    <2> QED BY <2>1, <2>3, <2>5, <2>6
  <1> QED BY <1>7, <1>8

LEMMA SessionsStep ==
  ASSUME Attended, Choices, Reports, Reports', Sessions, [Next]_vars
  PROVE  Sessions'
  <1>1. /\ AttributedToLogin'
        /\ \A i \in DOMAIN log' : log'[i][1] \in InSession => log'[i][2] \in User
    BY AttributedStep
  <1>2. (Within => LoggedIn(session, Len(log)))'
    BY WithinLogged
  <1>3. (Busy /\ choice = "list_users")' => session'.role = "admin"
    BY ListerStep DEF Sessions
  <1>4. LoginFound'
    BY LoginFoundStep DEF Sessions, LoginFound
  <1> QED BY <1>1, <1>2, <1>3, <1>4 DEF Sessions, LoginFound, InSession

-----------------------------------------------------------------------------
(***************************************************************************)
(* The theorems.                                                           *)
(***************************************************************************)
LEMMA InitLogged == Init => Logged
  <1> SUFFICES ASSUME Init PROVE Reports /\ Sessions
    BY InitAttended, InitChoices DEF Logged
  <1> DEFINE at == [i \in 1..0 |-> 1]
  <1>1. log = <<>> /\ changes = <<>> /\ pc = "off"
    BY DEF Init
  <1>2. Told(0)
    <2>1. /\ at \in [1..0 -> DOMAIN log] /\ DOMAIN log = {}
          /\ \A i \in 1..0 : FALSE
      BY <1>1
    <2> HIDE DEF at
    <2>2. /\ \A i \in 1..0 : log[at[i]] = changes[i]
          /\ \A i, j \in 1..0 : i < j => at[i] < at[j]
          /\ \A k \in DOMAIN log : Claims(log[k]) => \E i \in 1..0 : at[i] = k
      BY <2>1
    <2> QED BY <2>1, <2>2, Zenon DEF Told
  <1>3. Reports
    <2>1. Len(changes) = 0 /\ 0 \in 0..Len(changes) /\ log \in Seq(Line) /\ changes \in Seq(Line)
      BY <1>1
    <2> QED BY <1>1, <1>2, <2>1 DEF Reports
  <1>4. DOMAIN log = {}
    BY <1>1
  <1> QED BY <1>1, <1>3, <1>4 DEF Sessions, AttributedToLogin, Within, Busy, Menus

\* The inductive invariant of Session: wherever the program is, in menu,
\* dialogue, call or report, its secrets, accounts and documents (Attended),
\* and the log it has written (Reports, Sessions), are as SessionInv says.
THEOREM AlwaysLogged == Spec => []Logged
  <1>1. Logged /\ [Next]_vars => Logged'
    BY AttendedStep, ChoicesStep, ReportsStep, SessionsStep DEF Logged, Attended
  <1> QED BY <1>1, InitLogged, PTL DEF Spec

\* Every variable has its type, and a dialogue of menu.c has read no more
\* than it asks for, each answer of the kind that was asked.
THEOREM SessionTyped == Spec => []TypeOK
  <1>1. Logged => TypeOK
    <2> SUFFICES ASSUME Dialogues, Memory, Owners, Choices PROVE TypeOK
      BY DEF Logged, Attended
    <2>1. DOMAIN typed = 1..Len(typed)
      BY DEF Dialogues
    <2>2. mem \subseteq Secrets
      BY DEF Dialogues, Memory, Secrets, SecretFields, Busy, Menus
    <2>3. \A i \in DOMAIN typed : typed[i] \in Answers(Fields(choice)[i])
      BY <2>1 DEF Dialogues, Answered
    <2> QED BY <2>2, <2>3 DEF TypeOK, Dialogues, Choices, Owners, Busy, Menus
  <1> QED BY <1>1, AlwaysLogged, PTL

\* The audit log (logging.c) has a line for each change on disk, in the order
\* they were made, and claims no other; missing is at most the line of the
\* call that is about to report, or was killed there.
THEOREM LogTellsTheDisk == Spec => []LogMatchesDisk
  <1>1. Logged => LogMatchesDisk
    <2> SUFFICES ASSUME Reports PROVE LogMatchesDisk
      BY DEF Logged
    <2>1. Len(changes) \in Nat
      BY DEF Reports
    <2>2. PICK n \in 0..Len(changes) :
            /\ Told(n)
            /\ Len(changes) = n \/ (Len(changes) = n + 1 /\ pc \in {"report", "off"})
      BY DEF Reports
    <2>3. CASE Len(changes) = n
      <3>1. 0 <= Len(changes) /\ Len(changes) - 0 = n
        BY <2>1, <2>3
      <3> QED BY <2>2, <3>1 DEF LogMatchesDisk
    <2>4. CASE Len(changes) = n + 1 /\ pc \in {"report", "off"}
      <3>1. 1 <= Len(changes) /\ Len(changes) - 1 = n
        BY <2>1, <2>4
      <3> QED BY <2>2, <2>4, <3>1 DEF LogMatchesDisk
    <2> QED BY <2>2, <2>3, <2>4
  <1> QED BY <1>1, AlwaysLogged, PTL

\* Every line about a document is under the name of an account that has
\* logged in before and not out since, and users are listed to an admin only.
THEOREM LinesAreOwned == Spec => []AttributedToLogin
  <1>1. Logged => AttributedToLogin
    BY DEF Logged, Sessions
  <1> QED BY <1>1, AlwaysLogged, PTL
=============================================================================
