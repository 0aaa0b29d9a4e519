--------------------------- MODULE AccountsProofs ---------------------------
(***************************************************************************)
(* Proofs about Accounts, for every number of processes, users, files and  *)
(* passwords, and every set of faults.                                     *)
(***************************************************************************)
EXTENDS AccountsInv, TLAPS

\* The initial states satisfy the inductive invariant.
LEMMA InitAccounted == Init => Accounted
  <1> SUFFICES ASSUME Init PROVE Accounted
    OBVIOUS
  <1>1. \A p \in Proc : call[p] = Resting("off") /\ session[p] = None
    BY DEF Init
  <1>2. TypeOK
    BY <1>1 DEF Init, TypeOK, Resting, Call, Steps, CreateSteps, Flow, Role
  <1> QED BY <1>1, <1>2
    DEF Init, Accounted, CreatorsHoldTheirFile, OneCreatorPerFile, RecordsAtTheirFile,
        VerifiesTheRecordOnDisk, SessionsInSession, SessionIsAccount, Creating, Resting

-----------------------------------------------------------------------------
(***************************************************************************)
(* Most steps move one process on and leave users/ alone.                  *)
(***************************************************************************)
CallFine(c) ==
    /\ c \in Call
    /\ c.step \in CreateSteps => c.name \in User /\ c.pw \in Password
    /\ c.step = "verify" => c.record \in Record

\* Replacing one call by a fine one keeps the calls typed.
LEMMA CallReplaced ==
  ASSUME TypeOK, NEW p \in Proc, NEW c, CallFine(c), call' = [call EXCEPT ![p] = c]
  PROVE  /\ call' \in [Proc -> Call]
         /\ \A q \in Proc : call'[q].step \in CreateSteps =>
                call'[q].name \in User /\ call'[q].pw \in Password
         /\ \A q \in Proc : call'[q].step = "verify" => call'[q].record \in Record
  BY DEF TypeOK, CallFine

\* A process waiting at a prompt or a menu has no locals.
LEMMA RestingFine ==
  ASSUME NEW step \in {"off", "scan", "prompt", "menu", "session"}
  PROVE  CallFine(Resting(step))
  BY DEF CallFine, Resting, Call, Steps, CreateSteps, Flow, Role

\* Where a creation goes when it is over.
LEMMA HomeFine ==
  ASSUME NEW p \in Proc
  PROVE  CallFine(Home(p)) /\ Home(p).step \in {"off", "menu"}
  BY RestingFine DEF Home, Resting

\* A step that leaves users/ as it is, and does not reach a step whose locals
\* speak of a record, keeps the invariant.
LEMMA QuietStep ==
  ASSUME Accounted, NEW p \in Proc, NEW c, CallFine(c),
         c.step \notin {"write", "drop", "verify"},
         call' = [call EXCEPT ![p] = c], users' = users,
         \/ session' = [session EXCEPT ![p] = None]
         \/ session' = session /\ call[p].step # "session",
         outcome' \in [Proc -> {"none", "success", "failure"}],
         claimed' \subseteq Account
  PROVE  Accounted'
  <1>1. TypeOK'
    BY CallReplaced DEF Accounted, TypeOK
  <1>2. \A q \in Proc : session'[q] # None => q # p /\ session'[q] = session[q]
    BY DEF Accounted, TypeOK, SessionsInSession
  <1>3. \A q \in Proc : call'[q] = IF q = p THEN c ELSE call[q]
    BY DEF Accounted, TypeOK
  <1>4. CreatorsHoldTheirFile' /\ OneCreatorPerFile'
    BY <1>3 DEF Accounted, CreatorsHoldTheirFile, OneCreatorPerFile, Creating, Begun
  <1>5. RecordsAtTheirFile' /\ VerifiesTheRecordOnDisk'
    BY <1>3 DEF Accounted, RecordsAtTheirFile, VerifiesTheRecordOnDisk
  <1>6. SessionsInSession' /\ SessionIsAccount'
    BY <1>2, <1>3 DEF Accounted, SessionsInSession, SessionIsAccount
  <1> QED BY <1>1, <1>4, <1>5, <1>6 DEF Accounted

\* Ending a call with a result keeps the results typed.
LEMMA FinishTyped ==
  ASSUME TypeOK, NEW p \in Proc, NEW c, NEW result \in {"none", "success", "failure"},
         Finish(p, c, result)
  PROVE  outcome' \in [Proc -> {"none", "success", "failure"}]
  BY DEF Finish, TypeOK

-----------------------------------------------------------------------------
\* Looking for an admin and asking for its name and password.
LEMMA FindAdminStep ==
  ASSUME Accounted, NEW p \in Proc, FindAdmin(p)
  PROVE  Accounted'
  <1> TypeOK /\ call[p] \in Call
    BY DEF Accounted, TypeOK
  <1>1. ASSUME NEW flow \in Flow, Start(p, flow) PROVE Accounted'
    <2>1. PICK c : /\ call' = [call EXCEPT ![p] = c]
                   /\ CallFine(c) /\ c.step \in {"off", "scan", "menu"}
      <3>1. ASSUME NEW T \in Scans
            PROVE  /\ CallFine([Resting("scan") EXCEPT !.flow = flow, !.todo = T])
                   /\ [Resting("scan") EXCEPT !.flow = flow, !.todo = T].step = "scan"
        BY DEF CallFine, Resting, Call, Steps, CreateSteps, Role, Scans
      <3>2. \A step \in {"off", "menu"} :
                CallFine(Resting(step)) /\ Resting(step).step = step
        BY RestingFine DEF Resting
      <3> QED BY <1>1, <3>1, <3>2 DEF Start
    <2> QED BY <1>1, <2>1, QuietStep DEF Start, TypeOK
  <1>2. ASSUME ScanPass(p) \/ ScanEnd(p) PROVE Accounted'
    <2>1. PICK c : /\ call' = [call EXCEPT ![p] = c]
                   /\ CallFine(c) /\ c.step \in {"scan", "rescan", "prompt", "exists"}
      <3>1. ASSUME NEW f \in File, call[p].step \in ScanSteps
            PROVE  /\ CallFine([call[p] EXCEPT !.todo = @ \ {f}])
                   /\ [call[p] EXCEPT !.todo = @ \ {f}].step = call[p].step
        BY <3>1 DEF CallFine, Call, ScanSteps, CreateSteps, TypeOK
      <3>2. ASSUME ScanPass(p)
            PROVE  \E f \in File : call' = [call EXCEPT ![p].todo = @ \ {f}]
        BY <3>2 DEF ScanPass, Call
      <3>3. ASSUME ScanEnd(p)
            PROVE  \E step \in {"prompt", "exists"} :
                      /\ call' = [call EXCEPT ![p].step = step]
                      /\ CallFine([call[p] EXCEPT !.step = step])
                      /\ [call[p] EXCEPT !.step = step].step = step
        BY <3>3 DEF ScanEnd, Goto, CallFine, Call, Steps, ScanSteps, CreateSteps, TypeOK
      <3>4. CASE ScanPass(p)
        <4>1. call[p].step \in {"scan", "rescan"}
          BY <3>4 DEF ScanPass, ScanSteps
        <4> QED BY <3>1, <3>2, <3>4, <4>1 DEF ScanSteps
      <3>5. CASE ScanEnd(p)
        BY <3>3, <3>5
      <3> QED BY <1>2, <3>4, <3>5
    <2> QED BY <1>2, <2>1, QuietStep DEF ScanPass, ScanEnd, TypeOK, ScanSteps
  <1>3. ASSUME ScanFound(p) PROVE Accounted'
    <2>1. outcome[p] \in {"none", "success", "failure"}
      BY DEF TypeOK
    <2>2. outcome' \in [Proc -> {"none", "success", "failure"}]
      BY <1>3, <2>1, FinishTyped DEF ScanFound
    <2> QED BY <1>3, <2>2, HomeFine, QuietStep DEF ScanFound, Finish, TypeOK, ScanSteps
  <1>4. ASSUME NEW u \in User, NEW pw \in Password, Prompt(p, u, pw) PROVE Accounted'
    <2>1. PICK T \in Scans :
             call' = [call EXCEPT ![p] = [call[p] EXCEPT !.step = "rescan", !.name = u,
                                          !.pw = pw, !.role = "admin", !.todo = T]]
      BY <1>4 DEF Prompt
    <2> DEFINE c == [call[p] EXCEPT !.step = "rescan", !.name = u,
                                    !.pw = pw, !.role = "admin", !.todo = T]
    <2>2. CallFine(c) /\ c.step = "rescan"
      BY DEF CallFine, Call, Steps, CreateSteps, Role, Scans
    <2> QED BY <1>4, <2>1, <2>2, QuietStep DEF Prompt, TypeOK
  <1>5. ASSUME PromptCancel(p) PROVE Accounted'
    BY <1>5, HomeFine, FinishTyped, QuietStep DEF PromptCancel, Finish, TypeOK
  <1> QED BY <1>1, <1>2, <1>3, <1>4, <1>5 DEF FindAdmin
-----------------------------------------------------------------------------
\* What a creator has put on disk is a record, and no other value.
LEMMA BegunTyped ==
  ASSUME TypeOK, NEW p \in Proc, Creating(p)
  PROVE  /\ Begun(p) \in Record /\ Begun(p) # None /\ Begun(p).form = "torn"
         /\ FileOf[call[p].name] \in File
  <1>1. call[p] \in Call /\ call[p].name \in User /\ call[p].pw \in Password
    BY DEF TypeOK, Creating, CreateSteps
  <1> QED BY <1>1, AccountsAssumption, NoneAssumption DEF Begun, Record, Call

\* Creating an account: only the process that made a record touches it.
LEMMA CreateStep ==
  ASSUME Accounted, NEW p \in Proc, Create(p)
  PROVE  Accounted'
  <1> TypeOK /\ call[p] \in Call
    BY DEF Accounted, TypeOK
  <1> USE AccountsAssumption, NoneAssumption
  <1> DEFINE f == FileOf[call[p].name]
  <1>1. ASSUME NEW u \in User, NEW pw \in Password, CreateUser(p, u, pw) PROVE Accounted'
    <2> DEFINE c == [Resting("exists") EXCEPT !.name = u, !.pw = pw]
    <2>1. CallFine(c) /\ c.step = "exists"
      BY DEF CallFine, Resting, Call, Steps, CreateSteps, Flow, Role
    <2> QED BY <1>1, <2>1, QuietStep DEF CreateUser, TypeOK
  <1>2. ASSUME Exists(p) PROVE Accounted'
    <2>1. CASE Finish(p, Home(p), "failure")
      BY <1>2, <2>1, HomeFine, FinishTyped, QuietStep DEF Exists, Finish, TypeOK
    <2>2. CASE Goto(p, "open") /\ UNCHANGED outcome
      <3> DEFINE c == [call[p] EXCEPT !.step = "open"]
      <3>1. CallFine(c) /\ c.step = "open"
        BY <1>2 DEF Exists, CallFine, Call, Steps, CreateSteps, TypeOK
      <3>2. call' = [call EXCEPT ![p] = c]
        BY <2>2 DEF Goto
      <3> QED BY <1>2, <2>2, <3>1, <3>2, QuietStep DEF Exists, TypeOK
    <2> QED BY <1>2, <2>1, <2>2 DEF Exists
  <1>3. ASSUME Open(p) PROVE Accounted'
    <2>1. CASE Finish(p, Home(p), "failure") /\ UNCHANGED users
      BY <1>3, <2>1, HomeFine, FinishTyped, QuietStep DEF Open, Finish, TypeOK
    <2>2. CASE /\ call[p].name \in SafeUser /\ users[f] = None
               /\ users' = [users EXCEPT ![f] = Begun(p)]
               /\ Goto(p, "write") /\ UNCHANGED outcome
      <3> DEFINE c == [call[p] EXCEPT !.step = "write"]
      <3>1. /\ CallFine(c) /\ call[p].step = "open" /\ f \in File
            /\ call[p].name \in User /\ call[p].pw \in Password
        BY <1>3 DEF Open, CallFine, Call, Steps, CreateSteps, TypeOK
      <3>2. call' = [call EXCEPT ![p] = c]
        BY <2>2 DEF Goto
      <3>3. /\ Begun(p) \in Record /\ Begun(p) # None
            /\ Begun(p).name = call[p].name /\ Begun(p).form = "torn"
        BY <3>1 DEF Begun, Record, Call
      <3>4. TypeOK'
        BY <1>3, <2>2, <3>1, <3>2, <3>3, CallReplaced DEF Open, TypeOK
      <3>5. \A q \in Proc : call'[q] = IF q = p THEN c ELSE call[q]
        BY <3>2 DEF TypeOK
      <3>6. /\ c.step = "write" /\ c.name = call[p].name /\ c.pw = call[p].pw
            /\ c.role = call[p].role
        BY DEF Call
      <3>7. \A g \in File : users'[g] = IF g = f THEN Begun(p) ELSE users[g]
        BY <2>2 DEF TypeOK
      <3>8. \A q \in Proc : Creating(q) => FileOf[call[q].name] # f
        BY <2>2, BegunTyped DEF Accounted, CreatorsHoldTheirFile
      <3> HIDE DEF c
      <3>9. CreatorsHoldTheirFile'
        <4> SUFFICES ASSUME NEW q \in Proc, Creating(q)'
                     PROVE  users'[FileOf[call'[q].name]] = Begun(q)'
          BY DEF CreatorsHoldTheirFile
        <4>1. CASE q = p
          <5>1. Begun(p)' = Begun(p) /\ call'[p].name = call[p].name
            BY <3>5, <3>6 DEF Begun
          <5> QED BY <4>1, <5>1, <3>1, <3>7
        <4>2. CASE q # p
          <5>1. Creating(q) /\ call'[q] = call[q] /\ FileOf[call[q].name] \in File
            BY <4>2, <3>5 DEF Creating, TypeOK, CreateSteps
          <5> QED BY <5>1, <3>7, <3>8 DEF Accounted, CreatorsHoldTheirFile, Begun
        <4> QED BY <4>1, <4>2
      <3>10. OneCreatorPerFile'
        <4>1. \A q \in Proc : Creating(q)' /\ q # p =>
                  Creating(q) /\ call'[q] = call[q] /\ FileOf[call[q].name] # f
          BY <3>5, <3>8 DEF Creating
        <4> QED BY <3>5, <3>6, <4>1 DEF Accounted, OneCreatorPerFile
      <3>11. RecordsAtTheirFile'
        BY <3>3, <3>7 DEF Accounted, RecordsAtTheirFile
      <3>12. VerifiesTheRecordOnDisk'
        <4>1. ASSUME NEW q \in Proc, call'[q].step = "verify"
              PROVE  /\ call'[q] = call[q] /\ call[q].record \in Record
                     /\ call[q].record # None
          BY <4>1, <3>5, <3>6 DEF TypeOK
        <4>2. \A g \in File : users[g] # None => users'[g] = users[g]
          BY <2>2, <3>7
        <4>3. \A r \in Record : FileOf[r.name] \in File
          BY DEF Record
        <4> QED BY <4>1, <4>2, <4>3 DEF Accounted, VerifiesTheRecordOnDisk
      <3>13. SessionsInSession' /\ SessionIsAccount'
        <4>1. \A q \in Proc : session[q] # None =>
                  call'[q] = call[q] /\ FileOf[session[q].name] \in File
          BY <3>1, <3>5 DEF Accounted, SessionsInSession, TypeOK, Account
        <4>2. \A g \in File : users[g] # None => users'[g] = users[g]
          BY <2>2, <3>7
        <4>3. session' = session
          BY <1>3 DEF Open
        <4>4. \A q \in Proc : session[q] # None => users[FileOf[session[q].name]] # None
          <5>1. \A acc \in Account : [name |-> acc.name, pw |-> acc.pw, role |-> acc.role,
                                      form |-> "whole"] \in Record
            BY DEF Account, Record
          <5>2. \A q \in Proc : session[q] # None => session[q] \in Account
            BY DEF TypeOK
          <5> QED BY <5>1, <5>2 DEF Accounted, SessionIsAccount
        <4> QED BY <4>1, <4>2, <4>3, <4>4 DEF Accounted, SessionsInSession, SessionIsAccount
      <3> QED BY <3>4, <3>9, <3>10, <3>11, <3>12, <3>13 DEF Accounted
    <2> QED BY <1>3, <2>1, <2>2 DEF Open, Begun
  <1>4. ASSUME Write(p) \/ Drop(p) PROVE Accounted'
    <2>1. /\ Creating(p) /\ f \in File /\ users[f] = Begun(p) /\ Begun(p) \in Record
          /\ call[p].name \in User /\ call[p].pw \in Password /\ Claim(p) \in Account
          /\ Begun(p).form = "torn" /\ call[p].step # "session"
      BY <1>4 DEF Write, Drop, Creating, Accounted, CreatorsHoldTheirFile, TypeOK,
                  CreateSteps, Begun, Record, Call, Claim, Account
    <2>2. \A q \in Proc : q # p /\ Creating(q) => FileOf[call[q].name] # f
      BY <2>1 DEF Accounted, OneCreatorPerFile
    <2>3. CASE Goto(p, "drop") /\ UNCHANGED <<users, outcome, claimed, session>>
      <3> DEFINE c == [call[p] EXCEPT !.step = "drop"]
      <3>1. call' = [call EXCEPT ![p] = c] /\ CallFine(c)
        BY <2>1, <2>3 DEF Goto, CallFine, Call, Steps, CreateSteps
      <3>2. TypeOK'
        BY <2>3, <3>1, CallReplaced DEF TypeOK
      <3>3. \A q \in Proc : /\ call'[q] = IF q = p THEN c ELSE call[q]
                            /\ call'[q].name = call[q].name
                            /\ Creating(q)' <=> Creating(q)
                            /\ Begun(q)' = Begun(q)
        BY <2>1, <3>1 DEF TypeOK, Call, Creating, Begun
      <3>4. CreatorsHoldTheirFile' /\ OneCreatorPerFile'
        BY <2>3, <3>3 DEF Accounted, CreatorsHoldTheirFile, OneCreatorPerFile
      <3>5. c.step = "drop"
        BY DEF Call
      <3> HIDE DEF c
      <3>6. /\ RecordsAtTheirFile' /\ VerifiesTheRecordOnDisk'
            /\ SessionsInSession' /\ SessionIsAccount'
        <4>1. \A q \in Proc : call'[q].step \in {"verify", "session"}
                                \/ call[q].step \in {"verify", "session"} =>
                            call'[q] = call[q]
          BY <2>1, <3>3, <3>5 DEF Creating
        <4> QED BY <2>3, <4>1
           DEF Accounted, RecordsAtTheirFile, VerifiesTheRecordOnDisk,
               SessionsInSession, SessionIsAccount
      <3> QED BY <3>2, <3>4, <3>6 DEF Accounted
    <2>4. ASSUME NEW result \in {"success", "failure"}, Finish(p, Home(p), result),
                 \/ users' = users
                 \/ users' = [users EXCEPT ![f] = None]
                 \/ users' = [users EXCEPT ![f].form = "whole"],
                 session' = session, claimed' \subseteq Account
          PROVE  Accounted'
      <3>1. \A g \in File : g # f => users'[g] = users[g]
        BY <2>4 DEF TypeOK
      <3>2. \/ users'[f] = None
            \/ users'[f] \in Record /\ users'[f].name = call[p].name
        <4>1. Begun(p).name = call[p].name
          BY DEF Begun
        <4>2. CASE users' = users
          BY <2>1, <4>1, <4>2
        <4>3. CASE users' = [users EXCEPT ![f] = None]
          <5>1. users'[f] = None
            BY <2>1, <4>3 DEF TypeOK
          <5> QED BY <5>1
        <4>4. CASE users' = [users EXCEPT ![f].form = "whole"]
          <5>1. users'[f] = [users[f] EXCEPT !.form = "whole"]
            BY <2>1, <4>4 DEF TypeOK
          <5> QED BY <2>1, <4>1, <5>1 DEF Record
        <4> QED BY <2>4, <4>2, <4>3, <4>4
      <3>3. users' \in [File -> Record \cup {None}]
        BY <2>1, <2>4 DEF TypeOK, Record
      <3>4. \A q \in Proc : call'[q] = IF q = p THEN Home(p) ELSE call[q]
        BY <2>4 DEF Finish, TypeOK
      <3>5. TypeOK'
        BY <2>4, <3>3, HomeFine, CallReplaced, FinishTyped DEF Finish, TypeOK
      <3>6. CreatorsHoldTheirFile' /\ OneCreatorPerFile'
        <4>1. \A q \in Proc : Creating(q)' => /\ q # p /\ Creating(q)
                                            /\ call'[q] = call[q]
                                            /\ FileOf[call[q].name] \in File
          BY <3>4, HomeFine DEF Creating, TypeOK, CreateSteps
        <4> QED BY <2>2, <3>1, <4>1 DEF Accounted, CreatorsHoldTheirFile, OneCreatorPerFile, Begun
      <3>7. RecordsAtTheirFile'
        BY <3>1, <3>2 DEF Accounted, RecordsAtTheirFile
      <3>8. VerifiesTheRecordOnDisk'
        <4> SUFFICES ASSUME NEW q \in Proc, call'[q].step = "verify"
                     PROVE  LET r == call'[q].record IN
                            /\ r.form = "whole" /\ r.role = call'[q].role
                            /\ users'[FileOf[r.name]] = r
          BY DEF VerifiesTheRecordOnDisk
        <4>1. call'[q] = call[q] /\ call[q].record \in Record
          BY <3>4, HomeFine DEF TypeOK
        <4>2. FileOf[call[q].record.name] \in File
          BY <4>1 DEF Record
        <4>3. FileOf[call[q].record.name] # f
          BY <2>1, <4>1 DEF Accounted, VerifiesTheRecordOnDisk
        <4> QED BY <3>1, <4>1, <4>2, <4>3 DEF Accounted, VerifiesTheRecordOnDisk
      <3>9. SessionsInSession' /\ SessionIsAccount'
        <4> SUFFICES ASSUME NEW q \in Proc, session[q] # None
                     PROVE  /\ call'[q].step = "session"
                            /\ users'[FileOf[session[q].name]] = users[FileOf[session[q].name]]
          BY <2>4 DEF Accounted, SessionsInSession, SessionIsAccount
        <4>1. q # p /\ call'[q] = call[q]
          BY <2>1, <3>4 DEF Accounted, SessionsInSession
        <4>2. FileOf[session[q].name] \in File /\ FileOf[session[q].name] # f
          <5>1. /\ session[q] \in Account
                /\ users[FileOf[session[q].name]].form = "whole"
            <6>1. users[FileOf[session[q].name]] =
                    [name |-> session[q].name, pw |-> session[q].pw,
                     role |-> session[q].role, form |-> "whole"]
              BY DEF Accounted, SessionIsAccount
            <6> QED BY <6>1 DEF TypeOK
          <5> QED BY <2>1, <5>1 DEF Account
        <4> QED BY <3>1, <4>1, <4>2 DEF Accounted, SessionsInSession
      <3> QED BY <3>5, <3>6, <3>7, <3>8, <3>9 DEF Accounted
    <2>5. claimed \subseteq Account /\ claimed \cup {Claim(p)} \subseteq Account
      BY <2>1 DEF TypeOK
    <2>6. CASE Write(p)
      BY <2>3, <2>4, <2>5, <2>6 DEF Write
    <2>7. CASE Drop(p)
      BY <2>4, <2>5, <2>7 DEF Drop
    <2> QED BY <1>4, <2>6, <2>7
  <1> QED BY <1>1, <1>2, <1>3, <1>4 DEF Create

-----------------------------------------------------------------------------
\* Logging in and out.  Between the load and the check of the password nobody
\* can change the record, and the session takes its name from it.
LEMMA EnterStep ==
  ASSUME Accounted, NEW p \in Proc, Enter(p)
  PROVE  Accounted'
  <1> TypeOK /\ call[p] \in Call
    BY DEF Accounted, TypeOK
  <1> USE AccountsAssumption, NoneAssumption
  <1>1. ASSUME NEW u \in User, NEW pw \in Password, NEW role \in Role, Login(p, u, pw, role)
        PROVE  Accounted'
    <2> DEFINE r == users[FileOf[u]]
    <2>1. CASE Finish(p, Resting("menu"), "failure")
      <3>1. CallFine(Resting("menu")) /\ Resting("menu").step = "menu"
        BY RestingFine DEF Resting
      <3> QED BY <1>1, <2>1, <3>1, FinishTyped, QuietStep DEF Login, Finish, TypeOK
    <2>2. CASE /\ u \in SafeUser /\ Whole(FileOf[u]) /\ r.role = role
               /\ call' = [call EXCEPT ![p] = [Resting("verify") EXCEPT
                         !.name = u, !.pw = pw, !.role = role, !.record = r]]
               /\ UNCHANGED outcome
      <3> DEFINE c == [Resting("verify") EXCEPT
                         !.name = u, !.pw = pw, !.role = role, !.record = r]
      <3>1. FileOf[u] \in File /\ r \in Record /\ r # None /\ r.form = "whole"
        BY <2>2 DEF Whole, TypeOK
      <3>2. CallFine(c) /\ c.step = "verify" /\ c.record = r /\ c.role = role
        BY <3>1 DEF CallFine, Resting, Call, Steps, CreateSteps, Flow
      <3>3. FileOf[r.name] = FileOf[u]
        BY <3>1 DEF Accounted, RecordsAtTheirFile
      <3>4. \A q \in Proc : call'[q] = IF q = p THEN c ELSE call[q]
        BY <2>2 DEF TypeOK
      <3>5. TypeOK'
        BY <1>1, <2>2, <3>2, CallReplaced DEF Login, TypeOK
      <3>6. users' = users /\ session' = session /\ call[p].step = "menu"
        BY <1>1 DEF Login
      <3>7. CreatorsHoldTheirFile' /\ OneCreatorPerFile'
        BY <3>2, <3>4, <3>6 DEF Accounted, CreatorsHoldTheirFile, OneCreatorPerFile, Creating, Begun
      <3>8. RecordsAtTheirFile' /\ VerifiesTheRecordOnDisk'
        <4> HIDE DEF c, r
        <4>1. r = users[FileOf[u]]
          BY DEF r
        <4>2. RecordsAtTheirFile'
          BY <3>6 DEF Accounted, RecordsAtTheirFile
        <4>3. ASSUME NEW q \in Proc, call'[q].step = "verify", q # p
              PROVE  call'[q] = call[q]
          BY <4>3, <3>4
        <4>4. call'[p].record = r /\ call'[p].role = role
          BY <3>2, <3>4
        <4>5. r.role = role
          BY <2>2, <4>1
        <4> QED BY <3>1, <3>3, <3>6, <4>1, <4>2, <4>3, <4>4, <4>5
            DEF Accounted, VerifiesTheRecordOnDisk
      <3>9. SessionsInSession' /\ SessionIsAccount'
        BY <3>4, <3>6 DEF Accounted, SessionsInSession, SessionIsAccount
      <3> QED BY <3>5, <3>7, <3>8, <3>9 DEF Accounted
    <2> QED BY <1>1, <2>1, <2>2 DEF Login
  <1>2. ASSUME Verify(p) PROVE Accounted'
    <2> DEFINE r == call[p].record
    <2>1. /\ call[p].step = "verify" /\ users' = users /\ claimed' = claimed
          /\ r \in Record /\ r.form = "whole" /\ r.role = call[p].role
          /\ users[FileOf[r.name]] = r
      BY <1>2 DEF Verify, Accounted, VerifiesTheRecordOnDisk, TypeOK
    <2>2. CASE Finish(p, Resting("menu"), "failure") /\ UNCHANGED session
      <3>1. CallFine(Resting("menu")) /\ Resting("menu").step = "menu"
        BY RestingFine DEF Resting
      <3> QED BY <2>1, <2>2, <3>1, FinishTyped, QuietStep DEF Finish, TypeOK
    <2>3. CASE /\ r.pw = call[p].pw
               /\ session' = [session EXCEPT ![p] =
                     [name |-> r.name, pw |-> call[p].pw, role |-> call[p].role]]
               /\ Finish(p, Resting("session"), "success")
      <3> DEFINE acc == [name |-> r.name, pw |-> r.pw, role |-> r.role]
      <3>1. CallFine(Resting("session")) /\ Resting("session").step = "session"
        BY RestingFine DEF Resting
      <3>2. acc \in Account /\ session' = [session EXCEPT ![p] = acc]
        BY <2>1, <2>3 DEF Account, Record
      <3>3. users[FileOf[acc.name]] = [name |-> acc.name, pw |-> acc.pw,
                                       role |-> acc.role, form |-> "whole"]
        BY <2>1 DEF Record
      <3>4. \A q \in Proc : /\ call'[q] = IF q = p THEN Resting("session") ELSE call[q]
                            /\ session'[q] = IF q = p THEN acc ELSE session[q]
        BY <2>3, <3>2 DEF Finish, TypeOK
      <3>5. TypeOK'
        <4>1. outcome' \in [Proc -> {"none", "success", "failure"}]
          BY <2>3, FinishTyped
        <4>2. session' \in [Proc -> Account \cup {None}]
          BY <3>2 DEF TypeOK
        <4>3. call' = [call EXCEPT ![p] = Resting("session")]
          BY <2>3 DEF Finish
        <4> QED BY <2>1, <3>1, <4>1, <4>2, <4>3, CallReplaced DEF TypeOK
      <3>6. CreatorsHoldTheirFile' /\ OneCreatorPerFile'
        BY <2>1, <3>1, <3>4 DEF Accounted, CreatorsHoldTheirFile, OneCreatorPerFile, Creating, Begun
      <3>7. RecordsAtTheirFile' /\ VerifiesTheRecordOnDisk'
        BY <2>1, <3>1, <3>4 DEF Accounted, RecordsAtTheirFile, VerifiesTheRecordOnDisk
      <3>8. SessionsInSession' /\ SessionIsAccount'
        BY <2>1, <3>1, <3>3, <3>4 DEF Accounted, SessionsInSession, SessionIsAccount
      <3> QED BY <3>5, <3>6, <3>7, <3>8 DEF Accounted
    <2> QED BY <1>2, <2>2, <2>3 DEF Verify
  <1>3. ASSUME Logout(p) \/ Exit(p) PROVE Accounted'
    <2>1. \A step \in {"menu", "off"} : CallFine(Resting(step)) /\ Resting(step).step = step
      BY RestingFine DEF Resting
    <2> QED BY <1>3, <2>1, QuietStep DEF Logout, Exit, TypeOK
  <1> QED BY <1>1, <1>2, <1>3 DEF Enter

\* A kill forgets the process and leaves the disk as it is.
LEMMA CrashStep ==
  ASSUME Accounted, NEW p \in Proc, Crash(p)
  PROVE  Accounted'
  <1>1. CallFine(Resting("off")) /\ Resting("off").step = "off"
    BY RestingFine DEF Resting
  <1> QED BY <1>1, FinishTyped, QuietStep DEF Crash, Finish, Accounted, TypeOK

\* The inductive invariant holds: whatever fails and however many processes
\* share the directory, a record is touched only by the process that made it,
\* until it is complete, and by nobody after (users.c:113).
THEOREM AccountsInductive == Spec => []Accounted
  <1>1. Accounted /\ [Next]_vars => Accounted'
    <2> SUFFICES ASSUME Accounted, [Next]_vars PROVE Accounted'
      OBVIOUS
    <2>1. CASE UNCHANGED vars
      BY <2>1 DEF vars, Accounted, TypeOK, CreatorsHoldTheirFile, OneCreatorPerFile, Creating,
         Begun, RecordsAtTheirFile, VerifiesTheRecordOnDisk, SessionsInSession, SessionIsAccount
    <2>2. CASE Next
      BY <2>2, FindAdminStep, CreateStep, EnterStep, CrashStep DEF Next
    <2> QED BY <2>1, <2>2
  <1> QED BY <1>1, InitAccounted, PTL DEF Spec

\* Every variable has its type in every reachable state.
THEOREM AccountsTyped == Spec => []TypeOK
  <1>1. Accounted => TypeOK
    BY DEF Accounted
  <1> QED BY <1>1, AccountsInductive, PTL

\* A session runs under the name, password and role of a complete record.
THEOREM SessionsAreAccounts == Spec => []SessionIsAccount
  <1>1. Accounted => SessionIsAccount
    BY DEF Accounted
  <1> QED BY <1>1, AccountsInductive, PTL
-----------------------------------------------------------------------------
(***************************************************************************)
(* What a step can do to the records and the sessions.                     *)
(***************************************************************************)
StepOf(p) == FindAdmin(p) \/ Create(p) \/ Enter(p) \/ Crash(p)

\* The exclusive open of users_create (users.c:122).
Opens(p) ==
    LET f == FileOf[call[p].name] IN
    /\ Open(p) /\ f \in File /\ users[f] = None
    /\ users' = [users EXCEPT ![f] = Begun(p)]
    /\ call' = [call EXCEPT ![p].step = "write"]
    /\ Begun(p) \in Record /\ Begun(p).form = "torn"

\* The record is complete and the creation reported (users.c:132).
Completes(p) ==
    /\ Write(p) /\ users' = [users EXCEPT ![FileOf[call[p].name]].form = "whole"]
    /\ claimed' = claimed \cup {Claim(p)}

\* Beside an open and a completion only the failure path of a creation
\* touches users/, and removes what the creation had made.
LEMMA UsersChange ==
  ASSUME Accounted, NEW p \in Proc, StepOf(p)
  PROVE  \/ users' = users
         \/ Opens(p)
         \/ Completes(p)
         \/ Drop(p) /\ users' = [users EXCEPT ![FileOf[call[p].name]] = None]
  <1>1. CASE Open(p)
    <2>1. TypeOK /\ call[p] \in Call /\ call[p].step = "open"
      BY <1>1 DEF Open, Accounted, TypeOK
    <2>2. /\ call[p].name \in User /\ call[p].pw \in Password
          /\ FileOf[call[p].name] \in File
      BY <2>1, AccountsAssumption DEF TypeOK, CreateSteps
    <2>3. Begun(p) \in Record /\ Begun(p).form = "torn"
      BY <2>1, <2>2 DEF Begun, Record, Call
    <2> QED BY <1>1, <2>2, <2>3 DEF Open, Opens, Begun, Goto
  <1>2. CASE Write(p)
    BY <1>2 DEF Write, Completes
  <1>3. CASE Drop(p)
    BY <1>3 DEF Drop
  <1>4. CASE FindAdmin(p)
    BY <1>4 DEF FindAdmin, Start, ScanPass, ScanFound, ScanEnd, Prompt, PromptCancel
  <1>5. CASE Enter(p) \/ Crash(p)
    BY <1>5 DEF Enter, Login, Verify, Logout, Exit, Crash
  <1>6. CASE (\E u \in User, pw \in Password : CreateUser(p, u, pw)) \/ Exists(p)
    BY <1>6 DEF CreateUser, Exists
  <1> QED BY <1>1, <1>2, <1>3, <1>4, <1>5, <1>6 DEF StepOf, Create

\* What the creator knows of its record when it completes or removes it.
LEMMA OwnRecord ==
  ASSUME Accounted, NEW p \in Proc, Write(p) \/ Drop(p)
  PROVE  /\ FileOf[call[p].name] \in File /\ users[FileOf[call[p].name]] = Begun(p)
         /\ Begun(p) \in Record /\ Begun(p).form = "torn" /\ Begun(p) # None
         /\ Claim(p) \in Account /\ Begun(p).role = call[p].role
         /\ [Begun(p) EXCEPT !.form = "whole"] =
                [name |-> call[p].name, pw |-> call[p].pw,
                 role |-> call[p].role, form |-> "whole"]
  <1>1. Creating(p) /\ TypeOK /\ call[p] \in Call
    BY DEF Write, Drop, Creating, Accounted, TypeOK
  <1>2. call[p].name \in User /\ call[p].pw \in Password
    BY <1>1 DEF TypeOK, Creating, CreateSteps
  <1> QED BY <1>1, <1>2, BegunTyped
          DEF Accounted, CreatorsHoldTheirFile, Begun, Claim, Account, Call

\* A complete record never changes and never goes away (users.c:122, the
\* exclusive open): a user's key is the same at every login.
THEOREM AccountsStay == Spec => AccountNeverChanges
  <1> DEFINE A == \A f \in File : Whole(f) => users'[f] = users[f]
  <1>1. Accounted /\ [Next]_vars => [A]_vars
    <2> SUFFICES ASSUME Accounted, NEW p \in Proc, StepOf(p), NEW f \in File, Whole(f)
                 PROVE  users'[f] = users[f]
      BY DEF Next, StepOf
    <2> TypeOK
      BY DEF Accounted
    <2>1. CASE Opens(p)
      BY <2>1 DEF Opens, Whole, TypeOK
    <2>2. CASE Write(p) \/ Drop(p)
      <3>1. f # FileOf[call[p].name]
        BY <2>2, OwnRecord DEF Whole
      <3> QED BY <2>2, <3>1, UsersChange DEF Opens, Completes, TypeOK, Open, Write, Drop
    <2> QED BY <2>1, <2>2, UsersChange DEF Completes
  <1> QED BY <1>1, AccountsInductive, PTL DEF Spec, AccountNeverChanges

-----------------------------------------------------------------------------
\* Only Verify, Logout and Crash change a session; the first opens one where
\* there was none, on an account that is on disk.
LEMMA SessionChange ==
  ASSUME Accounted, NEW p \in Proc, StepOf(p)
  PROVE  \/ session' = session
         \/ session' = [session EXCEPT ![p] = None] /\ users' = users
         \/ /\ session[p] = None /\ users' = users
            /\ \E f \in File : /\ Given(f) # None
                              /\ session' = [session EXCEPT ![p] = Given(f)]
  <1>1. CASE Verify(p)
    <2> DEFINE r == call[p].record
    <2>1. /\ r \in Record /\ r.form = "whole" /\ r.role = call[p].role
          /\ users[FileOf[r.name]] = r /\ users' = users /\ session[p] = None
      BY <1>1 DEF Verify, Accounted, VerifiesTheRecordOnDisk, SessionsInSession, TypeOK
    <2>2. FileOf[r.name] \in File /\ r # None
      BY <2>1, AccountsAssumption, NoneAssumption DEF Record
    <2>3. Given(FileOf[r.name]) = [name |-> r.name, pw |-> r.pw, role |-> r.role]
      BY <2>1, <2>2 DEF Given, Whole
    <2>4. Given(FileOf[r.name]) \in Account
      BY <2>1, <2>3 DEF Account, Record
    <2>5. CASE session' = session
      BY <2>5
    <2>6. CASE /\ r.pw = call[p].pw
               /\ session' = [session EXCEPT ![p] =
                      [name |-> r.name, pw |-> call[p].pw, role |-> call[p].role]]
      <3>1. session' = [session EXCEPT ![p] = Given(FileOf[r.name])]
        BY <2>1, <2>3, <2>6
      <3> QED BY <2>1, <2>2, <2>4, <3>1, NoneAssumption
    <2> QED BY <1>1, <2>5, <2>6 DEF Verify
  <1>2. CASE Create(p)
    BY <1>2 DEF Create, CreateUser, Exists, Open, Write, Drop
  <1>3. CASE FindAdmin(p)
    BY <1>3 DEF FindAdmin, Start, ScanPass, ScanFound, ScanEnd, Prompt, PromptCancel
  <1>4. CASE Logout(p) \/ Exit(p) \/ Crash(p)
    BY <1>4 DEF Logout, Exit, Crash
  <1>5. CASE \E u \in User, pw \in Password, role \in Role : Login(p, u, pw, role)
    BY <1>5 DEF Login
  <1> QED BY <1>1, <1>2, <1>3, <1>4, <1>5 DEF StepOf, Enter

\* Every step of Accounts gives an account, opens or closes a session, or
\* changes neither accounts nor sessions, as Registry sees them.
LEMMA StepKeepsRegister ==
  ASSUME Accounted, NEW p \in Proc, StepOf(p)
  PROVE  [Promise!Next]_(Promise!vars)
  <1> TypeOK
    BY DEF Accounted
  <1> DEFINE acc == [g \in File |-> Given(g)]
  <1>1. \A g \in File : users'[g] = users[g] => Given(g)' = Given(g)
    BY DEF Given, Whole
  <1>2. CASE users' = users
    <2>1. acc' = acc
      BY <1>1, <1>2
    <2>2. CASE session' = session
      BY <2>1, <2>2 DEF Promise!vars
    <2>3. CASE session' = [session EXCEPT ![p] = None]
      <3>1. Promise!Leave(p)
        BY <2>1, <2>3 DEF Promise!Leave
      <3> QED BY <3>1 DEF Promise!Next
    <2>4. ASSUME session[p] = None,
                 NEW g \in File, Given(g) # None, session' = [session EXCEPT ![p] = Given(g)]
          PROVE  [Promise!Next]_(Promise!vars)
      <3>1. Promise!Enter(p, g)
        BY <2>1, <2>4 DEF Promise!Enter
      <3> QED BY <3>1 DEF Promise!Next
    <2> QED BY <2>2, <2>3, <2>4, SessionChange
  <1>3. CASE users' # users
    <2>0. PICK f \in File : f = FileOf[call[p].name]
      BY <1>3, UsersChange, OwnRecord DEF Opens, Completes
    <2>1. session' = session
      BY <1>3, UsersChange DEF Opens, Completes, Open, Write, Drop
    <2>2. CASE Opens(p)
      <3>1. /\ \A g \in File : g # f => users'[g] = users[g]
            /\ users'[f] = Begun(p) /\ users[f] = None /\ Begun(p).form = "torn"
        BY <2>0, <2>2 DEF Opens, TypeOK
      <3>2. Given(f)' = Given(f)
        BY <3>1 DEF Given, Whole
      <3>3. acc' = acc
        BY <1>1, <3>1, <3>2
      <3> QED BY <2>1, <3>3 DEF Promise!vars
    <2>3. CASE Drop(p) /\ users' = [users EXCEPT ![f] = None]
      <3>1. /\ \A g \in File : g # f => users'[g] = users[g]
            /\ users'[f] = None /\ users[f] = Begun(p) /\ Begun(p).form = "torn"
        BY <2>0, <2>3, OwnRecord DEF TypeOK
      <3>2. Given(f)' = Given(f)
        BY <3>1 DEF Given, Whole
      <3>3. acc' = acc
        BY <1>1, <3>1, <3>2
      <3> QED BY <2>1, <3>3 DEF Promise!vars
    <2>4. CASE Completes(p)
      <3>1. /\ f \in File /\ users[f] = Begun(p) /\ Begun(p).form = "torn"
            /\ Claim(p) \in Account /\ Begun(p) \in Record
        BY <2>0, <2>4, OwnRecord DEF Completes
      <3>2. users'[f] = [name |-> call[p].name, pw |-> call[p].pw,
                         role |-> call[p].role, form |-> "whole"]
        BY <2>0, <2>4, <3>1, OwnRecord DEF Completes, TypeOK
      <3>3. users'[f] \in Record
        BY <3>1, <3>2 DEF Begun, Record
      <3>4. Given(f)' = Claim(p) /\ Given(f) = None
        BY <3>1, <3>2, <3>3, NoneAssumption DEF Given, Whole, Claim
      <3>5. \A g \in File : g # f => Given(g)' = Given(g)
        BY <1>1, <2>0, <2>4 DEF Completes, TypeOK
      <3>6. acc' = [acc EXCEPT ![f] = Claim(p)]
        BY <3>4, <3>5
      <3>7. Claim(p).name = call[p].name
        BY DEF Claim
      <3>8. Promise!Give(Claim(p))
        BY <2>0, <2>1, <3>1, <3>4, <3>6, <3>7 DEF Promise!Give
      <3> QED BY <3>1, <3>8 DEF Promise!Next
    <2> QED BY <1>3, <2>0, <2>2, <2>3, <2>4, UsersChange
  <1> QED BY <1>2, <1>3

\* Accounts implements Registry: the steps of auth.c and users.c, in any
\* interleaving and with any failures, amount to giving whole accounts once
\* each and logging in to accounts that were given.
THEOREM RegisterKept == Spec => KeepsTheRegister
  <1>1. Init => Promise!Init
    BY DEF Init, Promise!Init, Given, Whole
  <1>2. Accounted /\ [Next]_vars => [Promise!Next]_(Promise!vars)
    <2>1. ASSUME Accounted, Next PROVE [Promise!Next]_(Promise!vars)
      BY <2>1, StepKeepsRegister DEF Next, StepOf
    <2>2. ASSUME UNCHANGED vars PROVE UNCHANGED Promise!vars
      BY <2>2 DEF vars, Promise!vars, Given, Whole
    <2> QED BY <2>1, <2>2
  <1> QED BY <1>1, <1>2, AccountsInductive, PTL DEF Spec, Promise!Spec, KeepsTheRegister
-----------------------------------------------------------------------------
(***************************************************************************)
(* What holds when some failures do not occur.                             *)
(***************************************************************************)
\* If no data is lost at fclose (users.c:134), an account reported as created
\* is there for good: of several creators of one name one is told success.
THEOREM SuccessIsTrue ==
  ASSUME "flush" \notin AccountFaults
  PROVE  Spec => []SuccessMeansAccount
  <1>1. Init => SuccessMeansAccount
    BY DEF Init, SuccessMeansAccount
  <1>2. Accounted /\ SuccessMeansAccount /\ [Next]_vars => SuccessMeansAccount'
    <2> SUFFICES ASSUME Accounted, SuccessMeansAccount, Next PROVE SuccessMeansAccount'
      BY DEF vars, SuccessMeansAccount
    <2> TypeOK
      BY DEF Accounted
    <2> PICK p \in Proc : StepOf(p)
      BY DEF Next, StepOf
    <2>1. ASSUME NEW c \in claimed
          PROVE  users'[FileOf[c.name]] = users[FileOf[c.name]]
      <3>1. /\ c \in Account /\ FileOf[c.name] \in File
            /\ users[FileOf[c.name]] =
                  [name |-> c.name, pw |-> c.pw, role |-> c.role, form |-> "whole"]
        BY <2>1, AccountsAssumption DEF SuccessMeansAccount, TypeOK, Account
      <3>2. users[FileOf[c.name]] # None /\ users[FileOf[c.name]].form = "whole"
        BY <3>1, NoneAssumption DEF Account, Record
      <3>3. CASE Opens(p)
        BY <3>1, <3>2, <3>3 DEF Opens, TypeOK
      <3>4. CASE Write(p) \/ Drop(p)
        <4>1. FileOf[c.name] # FileOf[call[p].name]
          BY <3>2, <3>4, OwnRecord
        <4> QED BY <3>1, <3>3, <4>1, UsersChange DEF Completes, TypeOK
      <3> QED BY <3>3, <3>4, UsersChange DEF Completes
    <2>2. ASSUME Write(p), claimed' # claimed
          PROVE  /\ claimed' = claimed \cup {Claim(p)}
                 /\ users'[FileOf[Claim(p).name]] =
                      [name |-> Claim(p).name, pw |-> Claim(p).pw,
                       role |-> Claim(p).role, form |-> "whole"]
      <3>1. /\ claimed' = claimed \cup {Claim(p)}
            /\ users' = [users EXCEPT ![FileOf[call[p].name]].form = "whole"]
        BY <2>2 DEF Write
      <3> QED BY <2>2, <3>1, OwnRecord DEF Claim, TypeOK
    <2>3. ~Write(p) => claimed' = claimed
      BY DEF StepOf, FindAdmin, Start, ScanPass, ScanFound, ScanEnd, Prompt, PromptCancel,
             Create, CreateUser, Exists, Open, Drop, Enter, Login, Verify, Logout, Exit, Crash
    <2> QED BY <2>1, <2>2, <2>3 DEF SuccessMeansAccount
  <1> QED BY <1>1, <1>2, AccountsInductive, PTL DEF Spec

\* If no process is killed, nothing is lost at fclose and removes succeed, a
\* name is never left half taken (users.c:127): an incomplete record has a
\* creator that will complete or remove it.
THEOREM NoNameHalfTaken ==
  ASSUME {"crash", "flush", "remove"} \cap AccountFaults = {}
  PROVE  Spec => []NoDebris
  <1> DEFINE Owned(f) == \E p \in Proc : Creating(p) /\ FileOf[call[p].name] = f
             Torn(f) == users[f] # None /\ ~Whole(f)
  <1>1. Init => NoDebris
    BY DEF Init, NoDebris
  <1>2. Accounted /\ NoDebris /\ [Next]_vars => NoDebris'
    <2> SUFFICES ASSUME Accounted, NoDebris, [Next]_vars PROVE NoDebris'
      OBVIOUS
    <2>1. CASE UNCHANGED vars
      BY <2>1 DEF vars, NoDebris, Whole
    <2>2. CASE Next
      <3> PICK p \in Proc : StepOf(p)
        BY <2>2 DEF Next, StepOf
      <3> SUFFICES ASSUME NEW f \in File, users'[f] # None, ~Whole(f)'
                   PROVE  \E q \in Proc : /\ call'[q].step \in {"write", "drop"}
                                         /\ FileOf[call'[q].name] = f
        BY DEF NoDebris
      <3> TypeOK
        BY DEF Accounted
      <3>1. \A q \in Proc : q # p => call'[q] = call[q]
        BY DEF TypeOK, StepOf, FindAdmin, Start, ScanPass, ScanFound, ScanEnd, Prompt,
               PromptCancel, Create, CreateUser, Exists, Open, Write, Drop, Enter, Login,
               Verify, Logout, Exit, Crash, Finish, Goto
      <3>2. CASE Opens(p) /\ f = FileOf[call[p].name]
        <4>1. call[p] \in Call
          BY DEF TypeOK
        <4>2. call'[p] = [call[p] EXCEPT !.step = "write"]
          BY <3>2 DEF Opens, TypeOK
        <4> QED BY <3>2, <4>1, <4>2 DEF Call
      <3>3. CASE (Write(p) \/ Drop(p)) /\ f = FileOf[call[p].name]
        <4>1. /\ users[f] = Begun(p) /\ Begun(p) \in Record /\ call[p] \in Call
          BY <3>3, OwnRecord DEF TypeOK
        <4>2. users' # [users EXCEPT ![f].form = "whole"]
          BY <4>1 DEF Whole, TypeOK, Record
        <4>3. users' # [users EXCEPT ![f] = None]
          BY DEF TypeOK
        <4>4. Goto(p, "drop")
          BY <3>3, <4>2, <4>3 DEF Write, Drop
        <4>5. call'[p] = [call[p] EXCEPT !.step = "drop"]
          BY <4>4 DEF Goto, TypeOK
        <4> QED BY <3>3, <4>1, <4>5 DEF Call
      <3>4. CASE users'[f] = users[f] /\ ~((Write(p) \/ Drop(p)) /\ f = FileOf[call[p].name])
        <4>1. PICK q \in Proc : Creating(q) /\ FileOf[call[q].name] = f
          BY <3>4 DEF NoDebris, Whole, Creating
        <4>2. CASE q # p
          BY <3>1, <4>1, <4>2 DEF Creating
        <4>3. CASE q = p
          BY <3>4, <4>1, <4>3 DEF Creating, StepOf, FindAdmin, Start, ScanPass, ScanFound,
             ScanEnd, Prompt, PromptCancel, ScanSteps, Create, CreateUser, Exists, Open,
             Enter, Login, Verify, Logout, Exit, Crash
        <4> QED BY <4>2, <4>3
      <3>5. CASE users'[f] # users[f]
        BY <3>2, <3>3, <3>5, UsersChange DEF Opens, Completes, TypeOK
      <3> QED BY <3>3, <3>4, <3>5
    <2> QED BY <2>1, <2>2
  <1> QED BY <1>1, <1>2, AccountsInductive, PTL DEF Spec
Admins == {f \in File : Whole(f) /\ users[f].role = "admin"}

\* Steps that leave users/ alone keep a scan complete, if every record can be
\* read.
LEMMA QuietScan ==
  ASSUME Accounted, AdminScanIsComplete, "read" \notin AccountFaults,
         NEW p \in Proc, Proc = {p}, StepOf(p), users' = users
  PROVE  AdminScanIsComplete'
  <1> TypeOK /\ call[p] \in Call
    BY DEF Accounted, TypeOK
  <1> DEFINE fresh == {"exists", "open", "write", "drop"}
  <1>1. /\ call[p].step = "rescan" => Admins \subseteq call[p].todo
        /\ call[p].step \in fresh /\ call[p].role = "admin" => Admins = {}
    BY DEF AdminScanIsComplete, Admins
  <1>2. Admins' = Admins
    BY DEF Admins, Whole
  <1> SUFFICES /\ call'[p].step = "rescan" => Admins \subseteq call'[p].todo
               /\ call'[p].step \in fresh /\ call'[p].role = "admin" => Admins = {}
    BY <1>2 DEF AdminScanIsComplete, Admins
  <1>3. ASSUME NEW c, call' = [call EXCEPT ![p] = c] PROVE call'[p] = c
    BY <1>3 DEF TypeOK
  <1>4. \A step \in Steps : Resting(step).step = step /\ Home(p).step \in {"off", "menu"}
    BY DEF Resting, Home
  <1>5. CASE \E flow \in Flow : Start(p, flow)
    BY <1>3, <1>5 DEF Start, Resting
  <1>6. CASE ScanPass(p)
    <2>1. PICK f \in call[p].todo :
             /\ ~(Whole(f) /\ users[f].role = "admin")
             /\ call' = [call EXCEPT ![p].todo = @ \ {f}]
      BY <1>6 DEF ScanPass
    <2>2. f \notin Admins
      BY <2>1 DEF Admins
    <2>3. /\ call'[p].todo = call[p].todo \ {f} /\ call'[p].step = call[p].step
          /\ call[p].step \notin fresh
      BY <1>6, <2>1 DEF TypeOK, Call, ScanPass, ScanSteps
    <2> QED BY <1>1, <2>2, <2>3
  <1>7. CASE ScanFound(p) \/ PromptCancel(p)
    BY <1>3, <1>7 DEF ScanFound, PromptCancel, Finish, Home, Resting
  <1>8. CASE ScanEnd(p)
    <2>1. /\ call[p].todo = {} /\ call[p].step \in {"scan", "rescan"}
          /\ call'[p].step = IF call[p].step = "scan" THEN "prompt" ELSE "exists"
      BY <1>8 DEF ScanEnd, Goto, ScanSteps, TypeOK, Call
    <2> QED BY <1>1, <2>1
  <1>9. CASE \E u \in User, pw \in Password : Prompt(p, u, pw)
    <2>1. PICK u \in User, pw \in Password, T \in Scans :
             call' = [call EXCEPT ![p] = [call[p] EXCEPT !.step = "rescan", !.name = u,
                                          !.pw = pw, !.role = "admin", !.todo = T]]
      BY <1>9 DEF Prompt
    <2>2. call'[p].todo = T /\ call'[p].step = "rescan"
      BY <2>1 DEF TypeOK, Call
    <2>3. Admins \subseteq T
      BY DEF Scans, Admins, Whole
    <2> QED BY <2>2, <2>3
  <1>10. CASE \E u \in User, pw \in Password : CreateUser(p, u, pw)
    BY <1>3, <1>10 DEF CreateUser, Resting
  <1>11. CASE Finish(p, Home(p), "failure")
    BY <1>3, <1>11, ZenonT(40) DEF Finish, Home, Resting
  <1>12. CASE (Exists(p) /\ Goto(p, "open")) \/ (Write(p) /\ Goto(p, "drop"))
    <2>1. call'[p].role = call[p].role /\ call[p].step \in fresh /\ call'[p].step \in fresh
      BY <1>12 DEF Exists, Write, Goto, TypeOK, Call
    <2> QED BY <1>1, <2>1 DEF Goto
  <1>13. CASE Opens(p) \/ Finish(p, Home(p), "success")
    <2>1. ~Opens(p)
      BY NoneAssumption DEF Opens, TypeOK
    <2> QED BY <1>3, <1>13, <2>1 DEF Finish, Home, Resting
  <1>14. CASE Enter(p) \/ Crash(p)
    <2>1. CASE \E u \in User, pw \in Password, role \in Role : Login(p, u, pw, role)
      <3>1. PICK u \in User, pw \in Password, role \in Role : Login(p, u, pw, role)
        BY <2>1
      <3>2. CASE Finish(p, Resting("menu"), "failure")
        BY <1>3, <3>2 DEF Finish, Resting
      <3>3. CASE call' = [call EXCEPT ![p] = [Resting("verify") EXCEPT
                   !.name = u, !.pw = pw, !.role = role, !.record = users[FileOf[u]]]]
        BY <1>3, <3>3, ZenonT(40) DEF Resting
      <3> QED BY <3>1, <3>2, <3>3 DEF Login
    <2>2. CASE Verify(p)
      BY <1>3, <2>2 DEF Verify, Finish, Resting
    <2>3. CASE Logout(p) \/ Exit(p) \/ Crash(p)
      BY <1>3, <2>3 DEF Logout, Exit, Crash, Finish, Resting
    <2> QED BY <1>14, <2>1, <2>2, <2>3 DEF Enter
  <1>15. Open(p) => Finish(p, Home(p), "failure")
    <2>1. ~(users' = [users EXCEPT ![FileOf[call[p].name]] = Begun(p)]
            /\ users[FileOf[call[p].name]] = None /\ call[p].step = "open")
      <3>1. call[p].step = "open" => Begun(p) \in Record /\ FileOf[call[p].name] \in File
        BY AccountsAssumption DEF Begun, Record, Call, TypeOK, CreateSteps
      <3> QED BY <3>1, NoneAssumption DEF TypeOK
    <2> QED BY <2>1 DEF Open, Begun
  <1> QED BY <1>5, <1>6, <1>7, <1>8, <1>9, <1>10, <1>11, <1>12, <1>13, <1>14, <1>15
          DEF StepOf, FindAdmin, Create, Exists, Write, Drop

\* With one process in the directory and every record readable, there is at
\* most one admin (auth.c:122, main.c:134): a scan that finds none has seen
\* them all, and nobody else can create one before this process does.
THEOREM OnlyOneAdmin ==
  ASSUME NEW p \in Proc, Proc = {p}, "read" \notin AccountFaults
  PROVE  Spec => []OneAdmin
  <1> DEFINE I == AdminScanIsComplete /\ OneAdmin
  <1>1. Init => I
    BY NoneAssumption DEF Init, AdminScanIsComplete, OneAdmin, Whole, Resting
  <1>2. Accounted /\ Accounted' /\ I /\ [Next]_vars => I'
    <2> SUFFICES ASSUME Accounted, Accounted', I, [Next]_vars PROVE I'
      OBVIOUS
    <2> TypeOK
      BY DEF Accounted
    <2>1. CASE UNCHANGED vars
      BY <2>1 DEF vars, AdminScanIsComplete, OneAdmin, Whole
    <2>2. CASE Next
      <3>1. StepOf(p)
        BY <2>2 DEF Next, StepOf
      <3>2. CASE users' = users
        BY <3>1, <3>2, QuietScan DEF OneAdmin, Whole
      <3>3. CASE users' # users
        <4>0. PICK f \in File : f = FileOf[call[p].name]
          BY <3>1, <3>3, UsersChange, OwnRecord DEF Opens, Completes
        <4>1. CASE Opens(p) \/ (Drop(p) /\ users' = [users EXCEPT ![f] = None])
          <5>1. /\ \A g \in File : g # f => users'[g] = users[g]
                /\ ~Whole(f)' /\ ~Whole(f)
            BY <4>0, <4>1, OwnRecord DEF Opens, Whole, TypeOK
          <5>2. Admins' = Admins /\ OneAdmin'
            BY <5>1 DEF Admins, Whole, OneAdmin
          <5>3. CASE Opens(p)
            <6>1. call[p] \in Call /\ call'[p] = [call[p] EXCEPT !.step = "write"]
                  /\ call[p].step = "open"
              BY <5>3 DEF Opens, Open, TypeOK
            <6> QED BY <5>2, <6>1 DEF AdminScanIsComplete, Admins, Call
          <5>4. CASE Drop(p)
            BY <5>2, <5>4 DEF Drop, Finish, Home, Resting, AdminScanIsComplete, TypeOK
          <5> QED BY <4>1, <5>2, <5>3, <5>4
        <4>2. CASE Completes(p)
          <5>1. /\ \A g \in File : g # f => users'[g] = users[g]
                /\ users'[f].role = call[p].role /\ ~Whole(f)
            BY <4>0, <4>2, OwnRecord DEF Completes, Whole, TypeOK, Record
          <5>2. call[p].role = "admin" => Admins = {}
            BY <4>2 DEF Completes, Write, AdminScanIsComplete, Admins
          <5>3. OneAdmin'
            BY <5>1, <5>2 DEF OneAdmin, Admins, Whole
          <5>4. call'[p].step \in {"off", "menu"}
            <6>1. Finish(p, Home(p), "success")
              <7>1. Begun(p) \in Record /\ users[f] = Begun(p) /\ Begun(p).form = "torn"
                BY <4>0, <4>2, OwnRecord DEF Completes
              <7>2. users' # users
                BY <3>3
              <7> QED BY <4>2, <7>2 DEF Completes, Write
            <6> QED BY <6>1, HomeFine DEF Finish, TypeOK
          <5> QED BY <5>3, <5>4 DEF AdminScanIsComplete
        <4> QED BY <3>1, <3>3, <4>0, <4>1, <4>2, UsersChange
      <3> QED BY <3>2, <3>3
    <2> QED BY <2>1, <2>2
  <1>3. I => OneAdmin
    OBVIOUS
  <1> QED BY <1>1, <1>2, <1>3, AccountsInductive, PTL DEF Spec
=============================================================================
