--------------------------- MODULE SessionProofs ---------------------------
(***************************************************************************)
(* Proofs about Session, for every set of users, names, passwords and      *)
(* files, and every set of failures.                                       *)
(***************************************************************************)
EXTENDS SessionInv, TLAPS

-----------------------------------------------------------------------------
(***************************************************************************)
(* The dialogues.                                                          *)
(***************************************************************************)
\* What each call asks for.
LEMMA FieldsOf ==
  /\ \A c \in Creation : Fields(c) = <<"name", "password", "confirm">>
  /\ \A c \in Logins : Fields(c) = <<"name", "password">>
  /\ Fields("encrypt") = <<"path">>
  /\ Fields("decrypt") = <<"stored", "output">>
  /\ Fields("delete") = <<"stored", "y/n">>
  /\ \A c \in {"list", "list_users"} : Fields(c) = <<>>
  BY DEF Fields, Creation, Startup, Logins

\* A dialogue has at most three questions, and those of a session ask for no
\* password.
LEMMA FieldsTyped ==
  ASSUME NEW c \in Calls
  PROVE  /\ Fields(c) \in Seq(Questions)
         /\ Len(Fields(c)) \in 0..3
         /\ c \in SessionCalls =>
               \A i \in 1..Len(Fields(c)) : Fields(c)[i] \notin SecretFields
  <1> USE DEF Questions, SecretFields
  <1>1. ASSUME NEW x \in Questions, NEW y \in Questions, NEW z \in Questions,
               Fields(c) = <<x, y, z>>
        PROVE  Fields(c) \in Seq(Questions) /\ Len(Fields(c)) = 3
    BY <1>1
  <1>2. ASSUME NEW x \in Questions, NEW y \in Questions, Fields(c) = <<x, y>>
        PROVE  /\ Fields(c) \in Seq(Questions) /\ Len(Fields(c)) = 2
               /\ Fields(c)[1] = x /\ Fields(c)[2] = y
    BY <1>2
  <1>3. ASSUME NEW x \in Questions, Fields(c) = <<x>>
        PROVE  Fields(c) \in Seq(Questions) /\ Len(Fields(c)) = 1 /\ Fields(c)[1] = x
    BY <1>3
  <1>4. ASSUME Fields(c) = <<>>
        PROVE  Fields(c) \in Seq(Questions) /\ Len(Fields(c)) = 0
    BY <1>4
  <1>5. CASE c \in Creation
    BY <1>1, <1>5, FieldsOf DEF SessionCalls, FileCalls, Creation, Startup
  <1>6. CASE c \in Logins
    BY <1>2, <1>6, FieldsOf DEF SessionCalls, FileCalls, Logins
  <1>7. CASE c = "encrypt"
    BY <1>3, <1>7, FieldsOf
  <1>8. CASE c = "decrypt"
    BY <1>2, <1>8, FieldsOf
  <1>9. CASE c = "delete"
    BY <1>2, <1>9, FieldsOf
  <1>10. CASE c \in {"list", "list_users"}
    BY <1>4, <1>10, FieldsOf
  <1> QED BY <1>5, <1>6, <1>7, <1>8, <1>9, <1>10 DEF Calls, FileCalls

\* Nothing is typed at a menu, and the menus offer calls of their own.
LEMMA ChooseFacts ==
  ASSUME NEW c \in Calls, Choose(c)
  PROVE  /\ pc = "main" => c \in Logins \cup {"create_user"}
         /\ pc = "menu" => c \in SessionCalls
  BY DEF Choose, ReadsChoice, Offered, MainMenu, UserMenu, AdminMenu, Calls, Creation,
         Startup, Logins, SessionCalls, FileCalls, Menus

\* Where a handler returns to.
LEMMA HomeFacts ==
  ASSUME NEW c \in Calls
  PROVE  /\ Home(c) = "menu" <=> c \in SessionCalls
         /\ Home(c) = "off" <=> c = "create_admin"
         /\ Home(c) \in Menus \cup {"off"}
  BY DEF Home, Calls, Creation, Startup, Logins, SessionCalls, FileCalls, Menus

-----------------------------------------------------------------------------
LEMMA InitAttended == Init => Attended
  <1> SUFFICES ASSUME Init PROVE Attended
    OBVIOUS
  <1>1. Dialogues
    <2>1. Len(typed) = 0 /\ typed \in Seq(Typable)
      BY DEF Init
    <2>2. Fields(choice) = <<>>
      BY NoneAssumption DEF Init, Fields, Calls, FileCalls
    <2> QED BY <2>1, <2>2 DEF Init, Dialogues, Busy, Step, Menus
  <1>2. Memory
    BY DEF Init, Memory, Busy, Menus
  <1>3. Owners
    BY NoneAssumption DEF Init, Owners, OwnersKey, Busy, Menus
  <1> QED BY <1>1, <1>2, <1>3 DEF Attended

-----------------------------------------------------------------------------
\* A step from a call to its next part keeps the dialogue.
LEMMA GoesOn ==
  ASSUME Dialogues, Busy, Len(typed) = Len(Fields(choice)),
         UNCHANGED <<choice, typed>>,
         \/ pc' \in {"call", "report"}
         \/ pc' = "save" /\ choice = "encrypt"
         \/ pc' \in {"open", "output"} /\ choice = "decrypt"
  PROVE  Dialogues'
  <1>1. Busy' /\ pc' \in Step /\ pc' # "ask"
    BY DEF Busy, Step, Menus
  <1> QED BY <1>1 DEF Dialogues

\* With nothing typed a menu, or the program's end, is reached.
LEMMA Returns ==
  ASSUME typed' = <<>>, pc' \in Menus \cup {"off"},
         choice' = None \/ choice' \in Calls
  PROVE  Dialogues'
  <1>1. Len(typed') = 0 /\ typed' \in Seq(Typable)
    OBVIOUS
  <1>2. Len(Fields(choice')) \in 0..3
    <2>1. CASE choice' = None
      BY <2>1, NoneAssumption DEF Fields, Calls, FileCalls
    <2> QED BY <2>1, FieldsTyped
  <1>3. Fields(choice)' = Fields(choice')
    BY DEF Fields
  <1> QED BY <1>1, <1>2, <1>3 DEF Dialogues, Busy, Step, Menus

\* A dialogue that begins has nothing typed yet.
LEMMA Begins ==
  ASSUME typed' = <<>>, choice' \in Calls,
         pc' = IF Fields(choice') = <<>> THEN "call" ELSE "ask"
  PROVE  Dialogues'
  <1>1. Len(typed') = 0 /\ typed' \in Seq(Typable)
    OBVIOUS
  <1>2. Fields(choice') \in Seq(Questions) /\ Len(Fields(choice')) \in 0..3
    BY FieldsTyped
  <1>3. Fields(choice') = <<>> <=> Len(Fields(choice')) = 0
    BY <1>2
  <1>4. Fields(choice)' = Fields(choice')
    BY DEF Fields
  <1> QED BY <1>1, <1>2, <1>3, <1>4 DEF Dialogues, Busy, Step, Menus

\* An answer that is taken belongs to the question asked.
LEMMA AnswerTaken ==
  ASSUME Dialogues, pc = "ask", NEW v \in Answers(Asked), ~Refused(Asked, v),
         typed' = Append(typed, v), choice' = choice,
         pc' = IF Len(typed') = Len(Fields(choice)) THEN "call" ELSE "ask"
  PROVE  Dialogues'
  <1> DEFINE n == Len(typed)
  <1>1. choice \in Calls /\ typed \in Seq(Typable) /\ n < Len(Fields(choice)) /\ n \in Nat
    BY DEF Dialogues, Busy, Menus
  <1>2. Fields(choice) \in Seq(Questions) /\ Len(Fields(choice)) \in 0..3
    BY <1>1, FieldsTyped
  <1>3. Asked \in Questions /\ Asked = Fields(choice)[n + 1]
    BY <1>1, <1>2 DEF Asked
  <1>4. v \in Typable /\ Answered(Asked, v)
    BY <1>3 DEF Typable, Answered, Refused
  <1>5. /\ typed' \in Seq(Typable) /\ Len(typed') = n + 1
        /\ typed'[n + 1] = v
        /\ \A i \in 1..n : typed'[i] = typed[i]
    BY <1>1, <1>4
  <1>6. \A i \in 1..Len(typed') : Answered(Fields(choice)[i], typed'[i])
    <2> SUFFICES ASSUME NEW i \in 1..(n + 1)
                 PROVE  Answered(Fields(choice)[i], typed'[i])
      BY <1>5
    <2>1. CASE i = n + 1
      BY <2>1, <1>3, <1>4, <1>5
    <2>2. CASE i \in 1..n
      BY <2>2, <1>5 DEF Dialogues
    <2> QED BY <2>1, <2>2, <1>1
  <1>7. Fields(choice)' = Fields(choice)
    BY DEF Fields
  <1>8. \A q, w : Answered(q, w)' = Answered(q, w)
    BY DEF Answered, Answers
  <1>9. Busy' /\ pc' \in {"call", "ask"} /\ pc' \in Step
    BY DEF Busy, Step, Menus
  <1>10. (\A i \in 1..Len(typed) : Answered(Fields(choice)[i], typed[i]))'
    BY <1>6, <1>7, <1>8
  <1>11. n + 1 <= Len(Fields(choice))
    BY <1>1, <1>2
  <1> QED BY <1>1, <1>2, <1>5, <1>7, <1>9, <1>10, <1>11 DEF Dialogues

\* No step leaves the dialogue and the program's place in it out of tune.
LEMMA DialoguesStep == Dialogues /\ [Next]_vars => Dialogues'
  <1> SUFFICES ASSUME Dialogues, [Next]_vars PROVE Dialogues'
    OBVIOUS
  <1>1. Busy => choice \in Calls
    BY DEF Dialogues
  <1>a. Busy <=> pc \notin Menus \cup {"off"}
    BY DEF Busy
  <1>b. ~Busy => typed = <<>>
    BY DEF Dialogues
  <1>2. CASE UNCHANGED vars
    BY <1>2 DEF vars, Dialogues, Busy, Typable, Answers, Fields, Step, Menus
  <1>3. ASSUME Cancel, pc = "ask" PROVE Dialogues'
    BY <1>1, <1>a, <1>3, HomeFacts, Returns DEF Cancel, Menus
  <1>4. ASSUME pc \in {"call", "save", "open", "output", "report"},
               UNCHANGED <<choice, typed>>,
               \/ pc' = "report"
               \/ pc' = "save" /\ choice = "encrypt"
               \/ pc' \in {"open", "output"} /\ choice = "decrypt"
        PROVE  Dialogues'
    BY <1>4, <1>a, GoesOn DEF Dialogues, Menus
  <1>5. CASE Program
    <2>1. CASE Authenticate \/ Create \/ EncryptSave \/ DecryptOutput \/ DeleteFile \/ Listing
      BY <2>1, <1>4 DEF Authenticate, Create, EncryptSave, DecryptOutput, DeleteFile, Listing,
                        Done, Calling
    <2>2. CASE EncryptRead
      BY <2>2, <1>4 DEF EncryptRead, Done, Calling
    <2>3. CASE DecryptLoad
      BY <2>3, <1>4 DEF DecryptLoad, Done, Calling
    <2>4. CASE DecryptOpen
      <3>1. choice = "decrypt" /\ pc = "open"
        BY <2>4 DEF DecryptOpen, Dialogues
      <3> QED BY <2>4, <3>1, <1>4 DEF DecryptOpen, Done
    <2>5. CASE Report
      <3>1. choice \in Calls
        BY <2>5, <1>1, <1>a DEF Report, Menus
      <3>2. pc' \in Menus \cup {"off"}
        BY <2>5, <3>1, HomeFacts DEF Report, Menus
      <3> QED BY <2>5, <3>2, Returns DEF Report
    <2>6. CASE AnswerEnds
      BY <2>6, <1>3 DEF AnswerEnds
    <2> QED BY <1>5, <2>1, <2>2, <2>3, <2>4, <2>5, <2>6 DEF Program
  <1>6. CASE Terminal
    <2>1. ASSUME NEW c \in Startup, Launch(c) PROVE Dialogues'
      <3>1. typed' = <<>>
        BY <2>1, <1>a, <1>b DEF Launch
      <3>2. c \in Calls /\ Fields(c) # <<>>
        BY FieldsOf DEF Calls, Creation
      <3>3. CASE pc' = "ask" /\ choice' = c
        BY <3>1, <3>2, <3>3, Begins
      <3>4. CASE pc' = Home(c) /\ choice' = choice
        <4>1. pc' \in Menus \cup {"off"}
          BY <3>2, <3>4, HomeFacts
        <4> QED BY <3>1, <3>4, <4>1, <2>1 DEF Dialogues, Busy, Launch, Menus, Step, Fields
      <3> QED BY <2>1, <3>3, <3>4 DEF Launch
    <2>2. CASE LaunchFails \/ Reprompt
      BY <2>2, <1>2 DEF LaunchFails, Reprompt
    <2>3. ASSUME NEW c \in Calls, Choose(c) PROVE Dialogues'
      BY <2>3, <1>a, <1>b, Begins DEF Choose, ReadsChoice
    <2>4. CASE ChooseInvalid \/ Logout \/ Exit
      <3>1. UNCHANGED <<choice, typed>> /\ pc \in Menus /\ pc' \in Menus \cup {"off"}
        BY <2>4 DEF ChooseInvalid, Logout, Exit, ReadsChoice, Menus
      <3> QED BY <3>1 DEF Dialogues, Busy, Step, Menus, Fields
    <2>5. ASSUME pc = "ask", NEW v \in Answers(Asked), Answer(v) PROVE Dialogues'
      <3>1. CASE Refused(Asked, v)
        BY <2>5, <3>1, <1>3 DEF Answer
      <3>2. CASE ~Refused(Asked, v)
        BY <2>5, <3>2, AnswerTaken DEF Answer
      <3> QED BY <3>1, <3>2
    <2>6. CASE EndInput
      BY <2>6 DEF EndInput, Dialogues, Busy, Menus, Fields, Answers, Typable, Step
    <2> QED BY <1>6, <2>1, <2>2, <2>3, <2>4, <2>5, <2>6 DEF Terminal
  <1>7. CASE Crash
    BY <1>7, Returns DEF Crash
  <1> QED BY <1>2, <1>5, <1>6, <1>7 DEF Next

-----------------------------------------------------------------------------
(***************************************************************************)
(* The secrets in memory.                                                  *)
(***************************************************************************)
\* A part of a call between its first and its last step.
LEMMA MemoryWorks ==
  ASSUME Dialogues, Memory, Busy, pc # "ask", pc # "report",
         choice' = choice, pc' \in {"save", "open", "output", "report"},
         \/ mem' = mem
         \/ choice \in SessionCalls /\ mem' = mem \cup {"plain"}
         \/ choice = "encrypt" /\ mem' = mem \cup {"part"} /\ Fails({"short"})
         \/ choice \in Logins /\ pc' = "report" /\ mem' = mem \cup {"key"},
         (pc' = "report" /\ choice \in Logins /\ outcome' = "success") => "key" \in mem'
  PROVE  Memory'
  <1>1. Busy' /\ pc' # "ask"
    BY DEF Busy, Menus
  <1>2. choice \in Calls /\ "encrypt" \in SessionCalls
    BY DEF Dialogues, SessionCalls, FileCalls
  <1>3. \A c \in Logins : c \notin SessionCalls /\ c # "create_admin"
    BY DEF Logins, SessionCalls, FileCalls
  <1>4. CASE choice \in SessionCalls
    BY <1>1, <1>2, <1>3, <1>4 DEF Memory, Busy, Menus, Fails
  <1>5. CASE choice \notin SessionCalls
    <2>1. mem' = mem \/ (choice \in Logins /\ pc' = "report" /\ mem' = mem \cup {"key"})
      BY <1>2, <1>5
    <2>2. /\ mem \subseteq SecretFields \cup {"key", "part", "remnant"}
          /\ choice = "create_admin" => "part" \notin mem /\ "remnant" \notin mem
          /\ "key" \notin mem
          /\ "part" \in mem => Fails({"short"})
          /\ "remnant" \in mem => Fails({"elide"})
      BY <1>5 DEF Memory
    <2> QED BY <1>1, <1>3, <1>5, <2>1, <2>2 DEF Memory, Busy, Menus, Fails
  <1> QED BY <1>4, <1>5

\* What a memset of the passwords leaves: all but the passwords, and perhaps
\* a remnant of them.
LEMMA MemsetLeaves ==
  ASSUME NEW before, Memset(before)
  PROVE  /\ before \ SecretFields \subseteq mem'
         /\ mem' \subseteq (before \ SecretFields) \cup {"remnant"}
         /\ "remnant" \in mem' => \/ "remnant" \in before
                                  \/ Fails({"elide"}) /\ Home(choice) # "off"
  BY DEF Memset, SecretFields

\* The way back from a dialogue or a call.
LEMMA MemoryHome ==
  ASSUME Dialogues, Memory, Busy, pc' = Home(choice),
         \/ pc = "ask" /\ Memset(mem)
         \/ /\ pc = "report"
            /\ Memset(mem \ ({"plain"} \cup IF choice \in Logins THEN {"key"} ELSE {}))
  PROVE  Memory'
  <1>1. choice \in Calls
    BY DEF Dialogues
  <1>2. /\ pc' = "menu" <=> choice \in SessionCalls
        /\ pc' = "off" <=> choice = "create_admin"
        /\ pc' \in Menus \cup {"off"}
    BY <1>1, HomeFacts
  <1>3. PICK before \in SUBSET mem :
           /\ Memset(before)
           /\ pc = "ask" => before = mem
           /\ pc = "report" => before = mem \ ({"plain"} \cup
                                  IF choice \in Logins THEN {"key"} ELSE {})
    OBVIOUS
  <1>4. /\ before \ SecretFields \subseteq mem'
        /\ mem' \subseteq (before \ SecretFields) \cup {"remnant"}
        /\ "remnant" \in mem' => \/ "remnant" \in mem
                                 \/ Fails({"elide"}) /\ choice # "create_admin"
    BY <1>2, <1>3, MemsetLeaves
  <1>5. /\ ~Busy'
        /\ "part" \in mem' => Fails({"short"})
        /\ "remnant" \in mem' => Fails({"elide"})
    BY <1>2, <1>4 DEF Busy, Memory
  <1>6. CASE choice \in SessionCalls
    <2>1. choice \notin Logins
      BY <1>6 DEF SessionCalls, FileCalls, Logins
    <2>2. pc' = "menu" /\ pc' # "off" /\ pc' # "main"
      BY <1>2, <1>6
    <2>3. /\ "key" \in before
          /\ before \subseteq {"key", "part", "remnant"}
      BY <1>3, <1>6, <2>1 DEF Memory
    <2>4. "key" \in mem' /\ mem' \subseteq {"key", "part", "remnant"}
      BY <1>4, <2>3 DEF SecretFields
    <2> QED BY <1>5, <2>2, <2>4 DEF Memory, Fails
  <1>7. CASE choice \notin SessionCalls
    <2>1. /\ before \subseteq SecretFields \cup {"part", "remnant"}
          /\ choice = "create_admin" => "part" \notin before /\ "remnant" \notin mem
      BY <1>3, <1>7 DEF Memory
    <2>2. mem' \subseteq {"part", "remnant"} /\ (choice = "create_admin" => mem' = {})
      BY <1>4, <2>1
    <2>3. pc' # "menu"
      BY <1>2, <1>7
    <2> QED BY <1>2, <1>5, <2>2, <2>3 DEF Memory, Fails
  <1> QED BY <1>6, <1>7

LEMMA MemoryStep == Dialogues /\ Memory /\ [Next]_vars => Memory'
  <1> SUFFICES ASSUME Dialogues, Memory, [Next]_vars PROVE Memory'
    OBVIOUS
  <1>1. Busy => choice \in Calls
    BY DEF Dialogues
  <1>a. Busy <=> pc \notin Menus \cup {"off"}
    BY DEF Busy
  <1>b. "encrypt" \in SessionCalls /\ "decrypt" \in SessionCalls
    BY DEF SessionCalls, FileCalls
  <1>2. CASE UNCHANGED vars
    BY <1>2 DEF vars, Memory, Busy, Fails
  <1>3. ASSUME Cancel, pc = "ask" PROVE Memory'
    BY <1>a, <1>3, MemoryHome DEF Cancel, Menus
  <1>4. CASE Program
    <2>1. CASE Authenticate
      BY <2>1, <1>a, MemoryWorks DEF Authenticate, Done, Menus
    <2>2. CASE Create \/ DeleteFile \/ Listing
      <3>1. choice \notin Logins
        BY <2>2 DEF Create, DeleteFile, Listing, Calling, Creation, Startup, Logins
      <3> QED BY <2>2, <3>1, <1>a, MemoryWorks DEF Create, DeleteFile, Listing, Calling, Done, Menus
    <2>3. CASE EncryptRead
      <3>1. choice \notin Logins
        BY <2>3 DEF EncryptRead, Calling, Logins
      <3> QED BY <2>3, <3>1, <1>a, <1>b, MemoryWorks DEF EncryptRead, Calling, Done, Menus
    <2>4. CASE EncryptSave
      <3>1. choice \notin Logins
        BY <2>4 DEF EncryptSave, Dialogues, Logins
      <3> QED BY <2>4, <3>1, <1>a, MemoryWorks DEF EncryptSave, Done, Menus
    <2>5. CASE DecryptLoad \/ DecryptOpen \/ DecryptOutput
      <3>1. choice = "decrypt" /\ choice \notin Logins
        BY <2>5 DEF DecryptLoad, DecryptOpen, DecryptOutput, Calling, Dialogues, Logins
      <3>2. /\ pc \in {"call", "open", "output"} /\ choice' = choice
            /\ pc' \in {"open", "output", "report"}
            /\ mem' \in {mem, mem \cup {"plain"}}
        BY <2>5 DEF DecryptLoad, DecryptOpen, DecryptOutput, Calling, Done
      <3> QED BY <3>1, <3>2, <1>a, <1>b, MemoryWorks DEF Menus
    <2>6. CASE Report
      <3>1. CASE choice \in Logins /\ outcome = "success"
        <4>1. pc = "report" /\ pc' = "menu" /\ Memset(mem)
          BY <2>6, <3>1 DEF Report
        <4>2. choice \notin SessionCalls
          BY <3>1 DEF SessionCalls, FileCalls, Logins
        <4>3. /\ "key" \in mem /\ mem \subseteq SecretFields \cup {"key", "part", "remnant"}
              /\ "part" \in mem => Fails({"short"})
              /\ "remnant" \in mem => Fails({"elide"})
          BY <4>1, <4>2, <3>1, <1>a DEF Memory, Menus
        <4>4. /\ mem \ SecretFields \subseteq mem'
              /\ mem' \subseteq (mem \ SecretFields) \cup {"remnant"}
              /\ "remnant" \in mem' => "remnant" \in mem \/ Fails({"elide"})
          BY <4>1, MemsetLeaves
        <4>5. /\ "key" \in mem' /\ mem' \subseteq {"key", "part", "remnant"}
              /\ "part" \in mem' => "part" \in mem
          BY <4>3, <4>4 DEF SecretFields
        <4>6. pc' = "menu" /\ pc' # "off" /\ pc' # "main" /\ ~Busy'
          BY <4>1 DEF Busy, Menus
        <4> QED BY <4>3, <4>4, <4>5, <4>6 DEF Memory, Fails
      <3>2. CASE ~(choice \in Logins /\ outcome = "success")
        BY <2>6, <3>2, <1>a, MemoryHome DEF Report, Menus
      <3> QED BY <3>1, <3>2
    <2>7. CASE AnswerEnds
      BY <2>7, <1>3 DEF AnswerEnds
    <2> QED BY <1>4, <2>1, <2>2, <2>3, <2>4, <2>5, <2>6, <2>7 DEF Program
  <1>5. CASE Terminal
    <2>1. ASSUME NEW c \in Startup, Launch(c) PROVE Memory'
      <3>1. mem' = {}
        BY <2>1 DEF Launch, Memory
      <3>2. CASE pc' = "ask" /\ choice' = c
        BY <3>1, <3>2 DEF Memory, Busy, Startup, SessionCalls, FileCalls
      <3>3. CASE pc' = Home(c)
        BY <3>1, <3>3 DEF Memory, Busy, Startup, Home, SessionCalls, FileCalls, Menus
      <3> QED BY <2>1, <3>2, <3>3 DEF Launch
    <2>2. CASE LaunchFails \/ Reprompt
      BY <2>2, <1>2 DEF LaunchFails, Reprompt
    <2>3. ASSUME NEW c \in Calls, Choose(c) PROVE Memory'
      <3>1. /\ pc = "main" => c \in Logins \cup {"create_user"}
            /\ pc = "menu" => c \in SessionCalls
            /\ pc \in Menus /\ mem' = mem /\ choice' = c /\ pc' \in {"call", "ask"}
        BY <2>3, ChooseFacts DEF Choose, ReadsChoice
      <3>2. Busy'
        BY <3>1 DEF Busy, Menus
      <3>3. \A d \in Logins \cup {"create_user"} : d \notin SessionCalls /\ d # "create_admin"
        BY DEF Logins, SessionCalls, FileCalls
      <3>4. pc = "main" \/ pc = "menu"
        BY <3>1 DEF Menus
      <3>5. CASE pc = "main"
        BY <3>1, <3>2, <3>3, <3>5 DEF Memory, Fails
      <3>6. CASE pc = "menu"
        BY <3>1, <3>2, <3>6 DEF Memory, Fails
      <3> QED BY <3>4, <3>5, <3>6
    <2>4. CASE ChooseInvalid
      BY <2>4 DEF ChooseInvalid, ReadsChoice, Memory, Busy, Fails
    <2>5. CASE Logout
      <3>1. pc = "menu"
        BY <2>5 DEF Logout, ReadsChoice, Offered, MainMenu, Menus
      <3> QED BY <2>5, <3>1 DEF Logout, Memory, Busy, Menus, Fails
    <2>6. CASE Exit
      BY <2>6 DEF Exit, Memory, Busy, Fails
    <2>7. ASSUME pc = "ask", NEW v \in Answers(Asked), Answer(v) PROVE Memory'
      <3>1. CASE Refused(Asked, v)
        BY <2>7, <3>1, <1>3 DEF Answer
      <3>2. CASE ~Refused(Asked, v)
        <4>1. /\ mem' = mem \cup ({Asked} \cap SecretFields)
              /\ choice' = choice /\ pc' \in {"call", "ask"}
          BY <2>7, <3>2 DEF Answer
        <4>2. choice \in Calls /\ Busy /\ Busy'
          BY <2>7, <4>1, <1>1, <1>a DEF Busy, Menus
        <4>3. choice \in SessionCalls => mem' = mem
          <5>1. Len(typed) \in Nat /\ Len(typed) < Len(Fields(choice))
            BY <2>7 DEF Dialogues
          <5>2. choice \in SessionCalls => Asked \notin SecretFields
            BY <4>2, <5>1, FieldsTyped DEF Asked
          <5> QED BY <4>1, <5>2
        <4>4. "key" \in mem' <=> "key" \in mem
          BY <4>1 DEF SecretFields
        <4>5. /\ "part" \in mem' <=> "part" \in mem
              /\ "remnant" \in mem' <=> "remnant" \in mem
          BY <4>1 DEF SecretFields
        <4>6. CASE choice \in SessionCalls
          BY <2>7, <4>1, <4>2, <4>3, <4>6 DEF Memory, Fails, Menus
        <4>7. CASE choice \notin SessionCalls
          BY <2>7, <4>1, <4>2, <4>4, <4>5, <4>7 DEF Memory, Fails, Menus
        <4> QED BY <4>6, <4>7
      <3> QED BY <3>1, <3>2
    <2>8. CASE EndInput
      BY <2>8 DEF EndInput, Memory, Busy, Fails
    <2> QED BY <1>5, <2>1, <2>2, <2>3, <2>4, <2>5, <2>6, <2>7, <2>8 DEF Terminal
  <1>6. CASE Crash
    BY <1>6 DEF Crash, Memory, Busy, Fails
  <1> QED BY <1>2, <1>4, <1>5, <1>6 DEF Next

-----------------------------------------------------------------------------
(***************************************************************************)
(* The accounts, the session and the documents.                            *)
(***************************************************************************)
\* What is typed for a creation or a login.
LEMMA TypedCredentials ==
  ASSUME Dialogues, pc = "call"
  PROVE  /\ choice \in Creation \cup Logins => typed[2] \in Password
         /\ choice \in Creation \cup Logins => typed[1] \in User \cup {""}
  <1> SUFFICES ASSUME choice \in Creation \cup Logins
               PROVE  typed[1] \in User \cup {""} /\ typed[2] \in Password
    OBVIOUS
  <1>1. /\ Fields(choice)[1] = "name" /\ Fields(choice)[2] = "password"
        /\ Len(Fields(choice)) \in {2, 3}
    BY FieldsOf
  <1>2. Len(typed) = Len(Fields(choice))
        /\ \A i \in 1..Len(typed) : typed[i] \in Answers(Fields(choice)[i])
    BY DEF Dialogues, Answered
  <1>3. typed[1] \in Answers("name") /\ typed[2] \in Answers("password")
    BY <1>1, <1>2
  <1> QED BY <1>3 DEF Answers, SecretFields

\* The parts of Owners that speak of where the program is.
SessionPlaced ==
    /\ pc = "menu" => session # None
    /\ (Busy /\ choice \in SessionCalls) => session # None
    /\ (Busy /\ choice \notin SessionCalls /\ pc # "report") => session = None
    /\ (pc = "report" /\ choice \in Logins /\ outcome = "success") => session # None
    /\ (pc = "report" /\ choice \notin SessionCalls) =>
          (session # None => choice \in Logins /\ outcome = "success")
    /\ pc \in {"main", "off"} => session = None

\* And those that do not.
Registered ==
    /\ accounts \in [File -> Account \cup {None}]
    /\ \A f \in File : accounts[f] # None => FileOf[accounts[f].name] = f
    /\ session \in Account \cup {None}
    /\ session # None => accounts[FileOf[session.name]] = session
    /\ docs \in [Owned -> Account \cup {None, Lost}]
    /\ OwnersKey

LEMMA OwnersParts == Owners <=> SessionPlaced /\ Registered
  BY DEF Owners, SessionPlaced, Registered

\* A session is there from the success of its login to its logout.
LEMMA SessionPlacedStep == Dialogues /\ Owners /\ [Next]_vars => SessionPlaced'
  <1> SUFFICES ASSUME Dialogues, Owners, [Next]_vars PROVE SessionPlaced'
    OBVIOUS
  <1>0. SessionPlaced
    BY OwnersParts
  <1>1. Busy => choice \in Calls
    BY DEF Dialogues
  <1>a. Busy <=> pc \notin Menus \cup {"off"}
    BY DEF Busy
  <1>2. CASE UNCHANGED vars
    BY <1>0, <1>2 DEF vars, SessionPlaced, Busy
  <1>3. ASSUME choice \in Calls, pc' = Home(choice), session' = session,
               pc = "ask" \/ (pc = "report" /\ ~(choice \in Logins /\ outcome = "success"))
        PROVE  SessionPlaced'
    <2>1. /\ pc' = "menu" <=> choice \in SessionCalls
          /\ pc' \in Menus \cup {"off"}
      BY <1>3, HomeFacts
    <2>2. ~Busy' /\ pc' # "report" /\ Busy
      BY <2>1, <1>3 DEF Busy, Menus
    <2>3. choice \in SessionCalls => session # None
      BY <1>0, <2>2 DEF SessionPlaced
    <2>4. choice \notin SessionCalls => session = None
      BY <1>0, <1>3, <2>2 DEF SessionPlaced
    <2> QED BY <2>1, <2>2, <2>3, <2>4, <1>3 DEF SessionPlaced, Menus
  <1>4. ASSUME Busy, pc \notin {"ask", "report"}, choice' = choice,
               pc' \in {"save", "open", "output", "report"},
               \/ session' = session
               \/ choice \in Logins /\ session' # None /\ pc' = "report" /\ outcome' = "success",
               pc' = "report" /\ choice \in Logins /\ outcome' = "success" => session' # None
        PROVE  SessionPlaced'
    <2>1. Busy'
      BY <1>4 DEF Busy, Menus
    <2>2. \A c \in Logins : c \notin SessionCalls
      BY DEF Logins, SessionCalls, FileCalls
    <2> QED BY <1>0, <1>4, <2>1, <2>2 DEF SessionPlaced
  <1>5. CASE Program
    <2>1. CASE Authenticate
      <3>1. \A f \in File : accounts[f] \in Account \cup {None}
        BY DEF Owners
      <3> QED BY <2>1, <1>a, <1>4, NoneAssumption DEF Authenticate, Done, Menus
    <2>2. CASE Create \/ DeleteFile \/ Listing \/ EncryptRead \/ EncryptSave
               \/ DecryptLoad \/ DecryptOpen \/ DecryptOutput
      <3>1. choice \notin Logins
        BY <2>2 DEF Create, DeleteFile, Listing, EncryptRead, EncryptSave, DecryptLoad, DecryptOpen,
                    DecryptOutput, Calling, Creation, Startup, Logins, Dialogues
      <3>2. /\ choice' = choice /\ session' = session
            /\ pc \in {"call", "save", "open", "output"}
            /\ pc' \in {"save", "open", "output", "report"}
        BY <2>2 DEF Create, DeleteFile, Listing, EncryptRead, EncryptSave, DecryptLoad, DecryptOpen,
                    DecryptOutput, Calling, Done
      <3> QED BY <3>1, <3>2, <1>a, <1>4 DEF Menus
    <2>3. CASE Report
      <3>0. choice \in Calls /\ session' = session /\ pc = "report"
        BY <2>3, <1>1, <1>a DEF Report, Menus
      <3>1. CASE choice \in Logins /\ outcome = "success"
        <4>1. pc' = "menu" /\ session # None
          BY <2>3, <3>0, <3>1, <1>0 DEF Report, SessionPlaced
        <4> QED BY <3>0, <4>1 DEF SessionPlaced, Busy, Menus
      <3>2. CASE ~(choice \in Logins /\ outcome = "success")
        BY <2>3, <3>0, <3>2, <1>3 DEF Report
      <3> QED BY <3>1, <3>2
    <2>4. CASE AnswerEnds
      BY <2>4, <1>1, <1>a, <1>3 DEF AnswerEnds, Cancel, Menus
    <2> QED BY <1>5, <2>1, <2>2, <2>3, <2>4 DEF Program
  <1>6. CASE Terminal
    <2>1. ASSUME NEW c \in Startup, Launch(c) PROVE SessionPlaced'
      <3>1. session' = None
        BY <2>1, <1>0 DEF Launch, SessionPlaced
      <3>2. CASE pc' = "ask" /\ choice' = c
        BY <3>1, <3>2 DEF SessionPlaced, Busy, Startup, SessionCalls, FileCalls
      <3>3. CASE pc' = Home(c)
        BY <3>1, <3>3 DEF SessionPlaced, Busy, Startup, Home, SessionCalls, FileCalls, Menus
      <3> QED BY <2>1, <3>2, <3>3 DEF Launch
    <2>2. CASE LaunchFails \/ Reprompt
      BY <2>2, <1>2 DEF LaunchFails, Reprompt
    <2>3. ASSUME NEW c \in Calls, Choose(c) PROVE SessionPlaced'
      <3>1. /\ pc = "main" => c \in Logins \cup {"create_user"}
            /\ pc = "menu" => c \in SessionCalls
            /\ pc \in Menus /\ session' = session /\ choice' = c /\ pc' \in {"call", "ask"}
        BY <2>3, ChooseFacts DEF Choose, ReadsChoice
      <3>2. \A d \in Logins \cup {"create_user"} : d \notin SessionCalls
        BY DEF Logins, SessionCalls, FileCalls
      <3> QED BY <3>1, <3>2, <1>0 DEF SessionPlaced, Menus
    <2>4. CASE ChooseInvalid
      BY <2>4, <1>0 DEF ChooseInvalid, ReadsChoice, SessionPlaced, Busy
    <2>5. CASE Logout
      BY <2>5 DEF Logout, SessionPlaced, Busy, Menus
    <2>6. CASE Exit
      <3>1. pc = "main"
        BY <2>6 DEF Exit, ReadsChoice, Offered, UserMenu, AdminMenu, FileCalls, Menus
      <3> QED BY <2>6, <3>1, <1>0 DEF Exit, SessionPlaced, Busy, Menus
    <2>7. ASSUME pc = "ask", NEW v \in Answers(Asked), Answer(v) PROVE SessionPlaced'
      <3>1. CASE Refused(Asked, v)
        BY <2>7, <3>1, <1>1, <1>a, <1>3 DEF Answer, Cancel, Menus
      <3>2. CASE ~Refused(Asked, v)
        BY <2>7, <3>2, <1>0, <1>a DEF Answer, SessionPlaced, Busy, Menus
      <3> QED BY <3>1, <3>2
    <2>8. CASE EndInput
      BY <2>8, <1>0 DEF EndInput, SessionPlaced, Busy
    <2> QED BY <1>6, <2>1, <2>2, <2>3, <2>4, <2>5, <2>6, <2>7, <2>8 DEF Terminal
  <1>7. CASE Crash
    BY <1>7 DEF Crash, SessionPlaced, Busy, Menus
  <1> QED BY <1>2, <1>5, <1>6, <1>7 DEF Next

\* What is created is an account for the place its name leads to.
LEMMA CreateFacts ==
  ASSUME Dialogues, Create, accounts' # accounts
  PROVE  /\ NewAccount \in Account /\ NewAccount.name = typed[1]
         /\ typed[1] \in User
         /\ accounts[FileOf[typed[1]]] = None
         /\ accounts' = [accounts EXCEPT ![FileOf[typed[1]]] = NewAccount]
  <1>1. pc = "call" /\ choice \in Creation
    BY DEF Create
  <1>2. typed[2] \in Password
    BY <1>1, TypedCredentials
  <1>3. typed[1] \in SafeUser /\ accounts[FileOf[typed[1]]] = None
        /\ accounts' = [accounts EXCEPT ![FileOf[typed[1]]] = NewAccount]
    BY DEF Create
  <1>4. typed[1] \in User
    BY <1>3, SessionAssumption
  <1> QED BY <1>2, <1>3, <1>4 DEF NewAccount, Account, Role

\* Only four steps change the accounts, the session or the documents.
LEMMA QuietSteps ==
  ASSUME [Next]_vars
  PROVE  \/ UNCHANGED <<accounts, session, docs>>
         \/ session' = None /\ UNCHANGED <<accounts, docs>> /\ (Logout \/ Crash)
         \/ Authenticate \/ Create \/ EncryptSave \/ DeleteFile
  <1>1. CASE UNCHANGED vars
    BY <1>1 DEF vars
  <1>2. CASE Program
    BY <1>2 DEF Program, EncryptRead, DecryptLoad, DecryptOpen, DecryptOutput, Listing, Report,
                AnswerEnds, Cancel, disk
  <1>3. CASE Terminal
    <2>1. ASSUME NEW c \in Startup, Launch(c) PROVE UNCHANGED <<accounts, session, docs>>
      BY <2>1 DEF Launch
    <2>2. ASSUME NEW v, Answer(v) PROVE UNCHANGED <<accounts, session, docs>>
      BY <2>2 DEF Answer, Cancel, disk
    <2> QED BY <1>3, <2>1, <2>2 DEF Terminal, LaunchFails, Choose, ChooseInvalid, Logout, Exit,
                                    Reprompt, EndInput, disk, vars
  <1>4. CASE Crash
    BY <1>4 DEF Crash, disk
  <1> QED BY <1>1, <1>2, <1>3, <1>4 DEF Next

\* The register and the documents stay in order.
LEMMA RegisteredStep == Dialogues /\ Owners /\ [Next]_vars => Registered'
  <1> SUFFICES ASSUME Dialogues, Owners, [Next]_vars PROVE Registered'
    OBVIOUS
  <1>0. Registered
    BY OwnersParts
  <1>1. CASE UNCHANGED <<accounts, session, docs>>
    BY <1>0, <1>1 DEF Registered, OwnersKey
  <1>2. CASE session' = None /\ UNCHANGED <<accounts, docs>>
    BY <1>0, <1>2 DEF Registered, OwnersKey
  <1>3. CASE Authenticate
    <2>1. accounts' = accounts /\ docs' = docs
      BY <1>3 DEF Authenticate, disk
    <2>2. CASE session' = session
      BY <1>0, <2>1, <2>2 DEF Registered, OwnersKey
    <2>3. CASE session' # session
      <3>1. /\ session' = accounts[FileOf[typed[1]]] /\ session' # None
            /\ typed[1] \in SafeUser
        BY <1>3, <2>3 DEF Authenticate
      <3>2. FileOf[typed[1]] \in File
        BY <3>1, SessionAssumption
      <3>3. session' \in Account /\ FileOf[session'.name] = FileOf[typed[1]]
        BY <3>1, <3>2, <1>0 DEF Registered
      <3> QED BY <1>0, <2>1, <3>1, <3>3 DEF Registered, OwnersKey
    <2> QED BY <2>2, <2>3
  <1>4. CASE Create
    <2>1. session' = session /\ docs' = docs
      BY <1>4 DEF Create
    <2>2. CASE accounts' = accounts
      BY <1>0, <2>1, <2>2 DEF Registered, OwnersKey
    <2>3. CASE accounts' # accounts
      <3> DEFINE f == FileOf[typed[1]]
      <3>1. /\ NewAccount \in Account /\ NewAccount.name = typed[1] /\ typed[1] \in User
            /\ accounts[f] = None
            /\ accounts' = [accounts EXCEPT ![f] = NewAccount]
        BY <1>4, <2>3, CreateFacts
      <3>2. f \in File /\ \A u \in User : FileOf[u] \in File
        BY <3>1, SessionAssumption
      <3>3. \A g \in File : accounts[g] # None => accounts'[g] = accounts[g]
        BY <3>1, <1>0 DEF Registered
      <3>4. accounts' \in [File -> Account \cup {None}]
            /\ \A g \in File : accounts'[g] # None => FileOf[accounts'[g].name] = g
        BY <3>1, <3>2, <1>0 DEF Registered
      <3>5. session # None => accounts'[FileOf[session.name]] = session
        <4> SUFFICES ASSUME session # None
                     PROVE  accounts'[FileOf[session.name]] = session
          OBVIOUS
        <4>1. session.name \in User /\ accounts[FileOf[session.name]] = session
          BY <1>0 DEF Registered, Account
        <4> QED BY <4>1, <3>2, <3>3
      <3>6. OwnersKey'
        <4> SUFFICES ASSUME NEW d \in Owned, docs[d] \in Account
                     PROVE  docs[d].name = d[1] /\ accounts'[FileOf[d[1]]] = docs[d]
          BY <2>1 DEF OwnersKey
        <4>1. docs[d].name = d[1] /\ accounts[FileOf[d[1]]] = docs[d]
          BY <1>0 DEF Registered, OwnersKey
        <4>2. d[1] \in User /\ docs[d] # None
          BY NoneAssumption DEF Owned
        <4> QED BY <4>1, <4>2, <3>2, <3>3
      <3> QED BY <1>0, <2>1, <3>4, <3>5, <3>6 DEF Registered
    <2> QED BY <2>2, <2>3
  <1>5. CASE EncryptSave
    <2>1. session' = session /\ accounts' = accounts
      BY <1>5 DEF EncryptSave
    <2>2. session \in Account /\ accounts[FileOf[session.name]] = session
      <3>1. choice \in SessionCalls /\ Busy
        BY <1>5 DEF EncryptSave, Dialogues, SessionCalls, FileCalls, Busy, Menus
      <3> QED BY <3>1 DEF Owners
    <2>3. \/ docs' = docs
          \/ docs' = [docs EXCEPT ![Document] = session]
      BY <1>5 DEF EncryptSave
    <2>4. docs' \in [Owned -> Account \cup {None, Lost}]
      BY <1>0, <2>2, <2>3 DEF Registered
    <2>5. OwnersKey'
      <3> SUFFICES ASSUME NEW d \in Owned, docs'[d] \in Account
                   PROVE  docs'[d].name = d[1] /\ accounts[FileOf[d[1]]] = docs'[d]
        BY <2>1 DEF OwnersKey
      <3>1. CASE docs'[d] = docs[d]
        BY <3>1, <1>0 DEF Registered, OwnersKey
      <3>2. CASE docs'[d] # docs[d]
        <4>1. d = Document /\ docs'[d] = session
          BY <3>2, <2>3, <1>0 DEF Registered
        <4>2. d[1] = session.name
          BY <4>1 DEF Document
        <4> QED BY <4>1, <4>2, <2>2
      <3> QED BY <3>1, <3>2
    <2> QED BY <1>0, <2>1, <2>4, <2>5 DEF Registered
  <1>6. CASE DeleteFile
    <2>1. session' = session /\ accounts' = accounts
      BY <1>6 DEF DeleteFile
    <2>2. \/ docs' = docs
          \/ \E d \in {None, Lost} : docs' = [docs EXCEPT ![Document] = d]
      BY <1>6 DEF DeleteFile
    <2>3. docs' \in [Owned -> Account \cup {None, Lost}]
      BY <1>0, <2>2 DEF Registered
    <2>4. \A d \in Owned : docs'[d] \in Account => docs'[d] = docs[d]
      BY <1>0, <2>2, NoneAssumption DEF Registered
    <2> QED BY <1>0, <2>1, <2>3, <2>4 DEF Registered, OwnersKey
  <1> QED BY <1>1, <1>2, <1>3, <1>4, <1>5, <1>6, QuietSteps

-----------------------------------------------------------------------------
(***************************************************************************)
(* What the program keeps for ever.                                        *)
(***************************************************************************)
LEMMA AttendedStep == Attended /\ [Next]_vars => Attended'
  <1> SUFFICES ASSUME Attended, [Next]_vars PROVE Attended'
    OBVIOUS
  <1>1. Dialogues' /\ Memory' /\ SessionPlaced' /\ Registered'
    BY DialoguesStep, MemoryStep, SessionPlacedStep, RegisteredStep DEF Attended
  <1>2. Owners'
    BY <1>1 DEF Owners, SessionPlaced, Registered
  <1> QED BY <1>1, <1>2 DEF Attended

\* Every reachable state of the program is Attended: the dialogue, the secrets
\* and the accounts fit the place the program is at.
THEOREM AlwaysAttended == Spec => []Attended
  BY InitAttended, AttendedStep, PTL DEF Spec

\* Whatever is typed, cancelled or fails, every way back to a menu passes the
\* statements that wipe documents, passwords and, at the main menu, the key
\* (menu.c:288, 325, 350; main.c:122).  What may be left is a part of a document
\* after a short read and a password whose memset the compiler has dropped.
THEOREM WipesAreReached == Spec => []SecretsGone
  <1>1. Attended => SecretsGone
    BY DEF Attended, Memory, SecretsGone
  <1> QED BY <1>1, AlwaysAttended, PTL

\* A document is sealed with the key of its owner's account on disk, through
\* every creation, login, deletion, failure and kill.
THEOREM DocumentsStayOpenable == Spec => []OwnersKey
  <1>1. Attended => OwnersKey
    BY DEF Attended, Owners
  <1> QED BY <1>1, AlwaysAttended, PTL

-----------------------------------------------------------------------------
(***************************************************************************)
(* The program implements the register and the store.                      *)
(***************************************************************************)
LEMMA StepUsesRegister ==
  ASSUME Attended, [Next]_vars
  PROVE  [AbstractRegister!Next]_(AbstractRegister!vars)
  <1> DEFINE S == [p \in {"secfile"} |-> session]
  <1> USE DEF Attended
  <1>1. CASE UNCHANGED <<accounts, session>>
    BY <1>1 DEF AbstractRegister!vars
  <1>2. CASE session' = None /\ accounts' = accounts
    <2>1. AbstractRegister!Leave("secfile")
      BY <1>2 DEF AbstractRegister!Leave
    <2> QED BY <2>1 DEF AbstractRegister!Next
  <1>3. CASE Authenticate /\ session' # session
    <2>1. /\ accounts' = accounts /\ pc = "call" /\ choice \in Logins
          /\ session' = accounts[FileOf[typed[1]]] /\ session' # None /\ typed[1] \in SafeUser
      BY <1>3 DEF Authenticate, disk
    <2>2. session = None
      <3>1. Busy /\ choice \notin SessionCalls
        BY <2>1 DEF Busy, Menus, Logins, SessionCalls, FileCalls
      <3> QED BY <2>1, <3>1 DEF Owners
    <2>3. FileOf[typed[1]] \in File
      BY <2>1, SessionAssumption
    <2>4. AbstractRegister!Enter("secfile", FileOf[typed[1]])
      BY <2>1, <2>2 DEF AbstractRegister!Enter
    <2> QED BY <2>3, <2>4 DEF AbstractRegister!Next
  <1>4. CASE Create /\ accounts' # accounts
    <2>1. /\ NewAccount \in Account /\ NewAccount.name = typed[1]
          /\ accounts[FileOf[typed[1]]] = None
          /\ accounts' = [accounts EXCEPT ![FileOf[typed[1]]] = NewAccount]
      BY <1>4, CreateFacts
    <2>2. session' = session
      BY <1>4 DEF Create
    <2>3. PICK acc \in Account : acc = NewAccount
      BY <2>1
    <2>4. AbstractRegister!Give(acc)
      BY <2>1, <2>2, <2>3 DEF AbstractRegister!Give
    <2> QED BY <2>4 DEF AbstractRegister!Next
  <1>5. EncryptSave \/ DeleteFile => UNCHANGED <<accounts, session>>
    BY DEF EncryptSave, DeleteFile
  <1>6. Authenticate => accounts' = accounts
    BY DEF Authenticate, disk
  <1>7. Create => session' = session
    BY DEF Create
  <1> QED BY <1>1, <1>2, <1>3, <1>4, <1>5, <1>6, <1>7, QuietSteps

\* The program gives each place in users/ once and enters only accounts that
\* were given: it implements Registry, for every directory and every failure.
THEOREM RegisterUsed == Spec => UsesTheRegister
  <1>1. Init => AbstractRegister!Init
    BY DEF Init, AbstractRegister!Init
  <1>2. Attended /\ [Next]_vars => [AbstractRegister!Next]_(AbstractRegister!vars)
    BY StepUsesRegister
  <1> QED BY <1>1, <1>2, AlwaysAttended, PTL DEF Spec, AbstractRegister!Spec, UsesTheRegister

-----------------------------------------------------------------------------
\* The documents and the deletion under way, as VaultStore sees them.
Shown == [d \in Owned |-> IF docs[d] = Lost THEN None ELSE docs[d]]
Wanted == IF Calling("delete") /\ typed[2] = "y" THEN {Document} ELSE {}

\* A session that saves or deletes does so under a name, and deletes after a yes.
OwnDocument ==
    choice \in {"encrypt", "delete"} /\ pc \in {"call", "save"} =>
        /\ session \in Account /\ Document \in Owned
        /\ choice = "delete" => typed[2] = "y"

LEMMA AttendedOwn == Attended => OwnDocument
  <1> SUFFICES ASSUME Attended, choice \in {"encrypt", "delete"}, pc \in {"call", "save"}
               PROVE  /\ session \in Account /\ Document \in Owned
                      /\ choice = "delete" => typed[2] = "y"
    BY DEF OwnDocument
  <1> USE DEF Attended
  <1>1. choice \in SessionCalls /\ Busy
    BY DEF SessionCalls, FileCalls, Busy, Menus
  <1>2. session \in Account
    BY <1>1 DEF Owners
  <1>3. /\ Fields(choice)[1] \in {"path", "stored"} /\ Len(Fields(choice)) \in {1, 2}
        /\ choice = "delete" => Fields(choice)[2] = "y/n" /\ Len(Fields(choice)) = 2
    BY FieldsOf
  <1>4. Len(typed) = Len(Fields(choice))
        /\ \A i \in 1..Len(typed) : Answered(Fields(choice)[i], typed[i])
    BY DEF Dialogues
  <1>5. Answered(Fields(choice)[1], typed[1])
    BY <1>3, <1>4
  <1>6. typed[1] \in Name
    BY <1>3, <1>5 DEF Answered, Answers, SecretFields
  <1>7. choice = "delete" => typed[2] = "y"
    <2> SUFFICES ASSUME choice = "delete" PROVE typed[2] = "y"
      OBVIOUS
    <2>1. Fields(choice)[2] = "y/n" /\ 2 \in 1..Len(typed)
      BY <1>3, <1>4
    <2>2. Answered("y/n", typed[2])
      BY <1>4, <2>1
    <2> QED BY <2>2 DEF Answered
  <1>8. session.name \in User
    BY <1>2 DEF Account
  <1> QED BY <1>2, <1>6, <1>7, <1>8 DEF Document, Owned

\* A call that has begun leaves its place at its end only.
LEMMA CallStays ==
  ASSUME [Next]_vars, pc = "call", pc' = "call"
  PROVE  UNCHANGED <<choice, typed, session>>
  <1>1. CASE Program
    BY <1>1 DEF Program, Authenticate, Create, EncryptRead, EncryptSave, DecryptLoad, DecryptOpen,
                DecryptOutput, DeleteFile, Listing, Report, AnswerEnds, Done
  <1>2. CASE Terminal
    BY <1>2 DEF Terminal, Launch, LaunchFails, Choose, ChooseInvalid, Logout, Exit, Reprompt,
                EndInput, ReadsChoice, Menus, vars
  <1> QED BY <1>1, <1>2 DEF Next, Crash, vars

LEMMA StepUsesStore ==
  ASSUME Attended, OwnDocument, OwnDocument', [Next]_vars
  PROVE  [AbstractStore!Next]_(AbstractStore!vars)
  <1> USE DEF Attended
  <1>0. docs \in [Owned -> Account \cup {None, Lost}] /\ Owned = User \X Name
    BY DEF Owners, Owned
  <1>a. Wanted # {} <=> Calling("delete")
    BY DEF Wanted, OwnDocument, Calling
  <1>1. CASE docs' = docs
    <2>1. Shown' = Shown
      BY <1>1 DEF Shown
    <2>2. CASE Wanted' = Wanted
      BY <2>1, <2>2 DEF Shown, Wanted, AbstractStore!vars
    <2>3. CASE Wanted' # Wanted /\ Wanted' = {}
      <3>1. Wanted = {Document} /\ Document \in Owned
        BY <2>3 DEF Wanted, Calling, OwnDocument
      <3>2. AbstractStore!Leave(Document)
        BY <2>1, <2>3, <3>1 DEF Shown, Wanted, AbstractStore!Leave
      <3> QED BY <1>0, <3>1, <3>2 DEF AbstractStore!Next
    <2>4. CASE Wanted' # Wanted /\ Wanted' # {}
      <3>1. pc' = "call" /\ choice' = "delete" /\ Wanted' = {Document'}
        BY <2>4 DEF Wanted, Calling
      <3>2. PICK d \in Owned : d = Document'
        BY <3>1 DEF OwnDocument
      <3>3. Wanted = {}
        <4> SUFFICES ASSUME Wanted # {} PROVE FALSE
          OBVIOUS
        <4>1. pc = "call"
          BY <1>a DEF Calling
        <4>2. UNCHANGED <<choice, typed, session>>
          BY <3>1, <4>1, CallStays
        <4> QED BY <2>4, <3>1, <4>1, <4>2 DEF Wanted, Calling, Document
      <3>4. AbstractStore!Ask(d)
        BY <2>1, <3>1, <3>2, <3>3 DEF Shown, Wanted, AbstractStore!Ask
      <3> QED BY <1>0, <3>4 DEF AbstractStore!Next
    <2> QED BY <2>2, <2>3, <2>4
  <1>2. CASE EncryptSave /\ docs' # docs
    <2>1. /\ pc = "save" /\ pc' = "report" /\ choice = "encrypt"
          /\ docs[Document] = None /\ docs' = [docs EXCEPT ![Document] = session]
      BY <1>2 DEF EncryptSave, Done, Dialogues
    <2>2. Document \in Owned /\ session \in Account
      BY <2>1 DEF OwnDocument
    <2>3. PICK d \in Owned, acc \in Account : d = Document /\ acc = session
      BY <2>2
    <2>4. Wanted = {} /\ Wanted' = {}
      BY <2>1 DEF Wanted, Calling
    <2>5. Shown[d] = None /\ Shown' = [Shown EXCEPT ![d] = acc]
      BY <1>0, <2>1, <2>3, NoneAssumption DEF Shown
    <2>6. AbstractStore!Save(d, acc)
      BY <2>4, <2>5 DEF Shown, Wanted, AbstractStore!Save
    <2> QED BY <1>0, <2>6 DEF AbstractStore!Next
  <1>3. CASE DeleteFile /\ docs' # docs
    <2>1. Calling("delete") /\ pc' = "report"
      BY <1>3 DEF DeleteFile, Done
    <2>2. PICK e \in {None, Lost} : docs' = [docs EXCEPT ![Document] = e]
      BY <1>3 DEF DeleteFile
    <2>3. PICK d \in Owned : d = Document
      BY <2>1 DEF OwnDocument, Calling
    <2>4. Wanted = {d} /\ Wanted' = {}
      BY <2>1, <2>3 DEF Wanted, OwnDocument, Calling
    <2>5. Shown' = [Shown EXCEPT ![d] = None]
      BY <1>0, <2>2, <2>3 DEF Shown
    <2>6. AbstractStore!Discard(d)
      BY <2>4, <2>5 DEF Shown, Wanted, AbstractStore!Discard
    <2> QED BY <1>0, <2>6 DEF AbstractStore!Next
  <1>4. Authenticate \/ Create => docs' = docs
    BY DEF Authenticate, Create, disk
  <1> QED BY <1>1, <1>2, <1>3, <1>4, QuietSteps

\* To its users the program is the store VaultStore describes: whatever is
\* typed and whatever fails, nothing is saved over a document and none goes
\* away that its owner did not ask to have deleted.
THEOREM StoreUsed == Spec => UsesTheStore
  <1>1. Init => AbstractStore!Init
    BY NoneAssumption DEF Init, AbstractStore!Init, Owned, Calling
  <1>2. Attended /\ OwnDocument /\ OwnDocument' /\ [Next]_vars
           => [AbstractStore!Next]_(AbstractStore!vars)
    BY StepUsesStore
  <1> QED BY <1>1, <1>2, AttendedOwn, AlwaysAttended,
             PTL DEF Spec, AbstractStore!Spec, UsesTheStore
=============================================================================
