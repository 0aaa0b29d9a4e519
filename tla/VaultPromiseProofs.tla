------------------------- MODULE VaultPromiseProofs -------------------------
(***************************************************************************)
(* Proof that Vault implements VaultStore, for processes that share no     *)
(* record path and under every kind of failure.                            *)
(***************************************************************************)
EXTENDS VaultRefinement, VaultApartProofs

\* The document a user would get for a name, and the file id that holds it.
LEMMA DocumentKnown ==
  ASSUME Inductive, NEW u \in User, NEW n \in Name, Document(u, n) # Absent
  PROVE  LET r == meta[MetaPath(u, n)] IN
         /\ MetaPath(u, n) \in MetaPaths
         /\ r # Absent /\ Loads(r, u, n) /\ r.id \in FileId
         /\ DrawnFor(r.id, u, n) /\ issued[r.id].fate \in {"kept", "doomed"}
         /\ store[r.id] # Absent
  <1>1. MetaPath(u, n) \in MetaPaths
    BY DEF MetaPaths
  <1>2. /\ Loads(meta[MetaPath(u, n)], u, n)
        /\ store[meta[MetaPath(u, n)].id] # Absent
    BY DEF Document, Opens
  <1> QED BY <1>1, <1>2
          DEF Loads, Inductive, Bookkeeping, RecordsIssued, TypeOK, MetaRecord

\* A step changes a document only as the call that takes it is meant to: the
\* last step of an encryption saves it, the steps of a deletion discard it.
LEMMA DocumentStep ==
  ASSUME Inductive, OwnRecords, TypeOK', NEW p \in Proc, StepOf(p),
         NEW u \in User, NEW n \in Name
  PROVE  \/ Document(u, n)' = Document(u, n)
         \/ /\ u = op[p].user /\ n = op[p].name
            /\ op[p].step = "enc_record"
            /\ Document(u, n) = Absent /\ Document(u, n)' \in Content
         \/ /\ u = op[p].user /\ n = op[p].name
            /\ op[p].step \in {"del_wipe", "del_unlink", "del_record"}
            /\ Document(u, n)' = Absent
  <1> /\ TypeOK /\ SealersOwnTheirIds /\ DeletersDoomTheirIds /\ RecordsIssued
      /\ HoldsItsRecord
    BY DEF Inductive, Bookkeeping, OwnRecords
  <1> DEFINE m == MetaPath(u, n)
  <1>m. m \in MetaPaths
    BY DEF MetaPaths
  <1> HIDE DEF m
  <1>1. CASE meta'[m] # meta[m]
    <2>1. /\ m = MetaPath(op[p].user, op[p].name)
          /\ op[p].step \in {"enc_meta", "enc_record", "enc_drop", "del_record"}
          /\ op[p].step = "enc_meta" => meta[m] = Absent
      BY <1>1, <1>m, MetaWhere
    <2>2. CASE op[p].step = "enc_meta"
      <3>1. \/ meta'[m] = Absent
            \/ meta'[m] = [owner |-> op[p].user, name |-> op[p].name,
                           id |-> op[p].id, form |-> "torn"]
        BY <1>1, <1>m, <2>2, MetaChange, ZenonT(40)
      <3> QED BY <2>1, <2>2, <3>1, SMTT(40) DEF Document, Loads, m
    <2>3. CASE op[p].step \in {"enc_record", "enc_drop", "del_record"}
      <3>1. meta[m] # Absent /\ meta[m].id = op[p].id
        BY <2>1, <2>3 DEF HoldsItsRecord
      <3>2. meta[m].owner = op[p].user /\ meta[m].name = op[p].name
        BY <1>m, <2>3, <3>1
           DEF RecordsIssued, SealersOwnTheirIds, DeletersDoomTheirIds, Sealing,
               DeleteSteps, DrawnFor
      <3>3. \/ meta'[m] = Absent
            \/ /\ op[p].step = "enc_record"
               /\ meta'[m].owner = meta[m].owner /\ meta'[m].name = meta[m].name
        BY <1>1, <1>m, <3>1, MetaChange
      <3>4. op[p].step # "del_record" => Document(u, n) = Absent
        <4>1. op[p].step # "del_record" => issued[op[p].id].fate = "writing"
          BY <2>3 DEF SealersOwnTheirIds, Sealing
        <4>2. op[p].step # "del_record" => meta[m].form # "whole"
          BY <1>m, <3>1, <4>1 DEF RecordsIssued
        <4> QED BY <4>2 DEF Document, Loads, m
      <3>5. ~(u = op[p].user /\ n = op[p].name) => Document(u, n) = Absent
        BY <3>2 DEF Document, Loads, m
      <3>6. \/ Document(u, n)' = Absent
            \/ /\ u = op[p].user /\ n = op[p].name /\ op[p].step = "enc_record"
               /\ Document(u, n)' \in Content
        <4>1. CASE Document(u, n)' # Absent
          <5>1. /\ Loads(meta'[m], u, n) /\ store'[meta'[m].id] # Absent
                /\ Document(u, n)' = store'[meta'[m].id].plain
            BY <4>1 DEF Document, Loads, Opens, m
          <5>2. u = op[p].user /\ n = op[p].name /\ op[p].step = "enc_record"
            BY <3>2, <3>3, <5>1 DEF Loads
          <5>3. meta'[m].id \in FileId
            BY <1>m, <5>1 DEF TypeOK, MetaRecord, Loads
          <5>4. store'[meta'[m].id].plain \in Content
            BY <5>1, <5>3 DEF TypeOK, StoreFile
          <5> QED BY <5>1, <5>2, <5>4
        <4> QED BY <4>1
      <3> QED BY <2>3, <3>4, <3>5, <3>6
    <2> QED BY <2>1, <2>2, <2>3
  <1>2. CASE meta'[m] = meta[m]
    <2>1. CASE ~Loads(meta[m], u, n)
      BY <1>2, <2>1 DEF Document, Loads, m
    <2>2. CASE Loads(meta[m], u, n)
      <3> DEFINE id == meta[m].id
      <3>1. /\ id \in FileId /\ DrawnFor(id, u, n)
            /\ issued[id].fate \in {"kept", "doomed"}
        BY <1>m, <2>2 DEF Loads, RecordsIssued, TypeOK, MetaRecord
      <3>2. meta'[m].id = id
        BY <1>2
      <3> HIDE DEF id
      <3>3. CASE store'[id] = store[id]
        BY <1>2, <3>3 DEF Document, Loads, Opens, m, id
      <3>4. CASE store'[id] # store[id]
        <4>1. op[p].step \in Sealing => op[p].id # id
          BY <3>1 DEF SealersOwnTheirIds
        <4>2. /\ op[p].step \in {"del_wipe", "del_unlink"} /\ op[p].id = id
              /\ op[p].step = "del_unlink" => store'[id] = Absent
          BY <3>1, <3>4, <4>1, StoreChange, ZenonT(40) DEF DrawnFor, Sealing
        <4>3. u = op[p].user /\ n = op[p].name
          BY <3>1, <4>2 DEF DeletersDoomTheirIds, DeleteSteps, DrawnFor
        <4>4. store'[id] = Absent \/ store'[id].form # "whole"
          <5>1. CASE op[p].step = "del_wipe"
            <6>1. DeleteWipe(p)
              BY <3>4, <5>1, AtStep DEF Crash, disk
            <6>2. PICK form \in {"zeros", "torn"} :
                     store[id] # Absent /\ store' = [store EXCEPT ![id].form = form]
              BY <3>4, <4>2, <6>1 DEF DeleteWipe
            <6> QED BY <3>1, <6>2 DEF TypeOK, StoreFile
          <5> QED BY <4>2, <5>1
        <4>5. Document(u, n)' = Absent
          BY <3>2, <4>4 DEF Document, Opens, m
        <4> QED BY <4>2, <4>3, <4>5
      <3> QED BY <3>3, <3>4
    <2> QED BY <2>1, <2>2
  <1> QED BY <1>1, <1>2

\* A step asks for one deletion, or leaves its own, or neither.
LEMMA AskedStep ==
  ASSUME TypeOK, NEW p \in Proc, StepOf(p)
  PROVE  \/ Deleting' = Deleting
         \/ /\ op[p].step = "idle"
            /\ \E d \in User \X Name : Deleting' = Deleting \cup {d}
         \/ /\ op[p].step \in DeleteSteps
            /\ Deleting' = Deleting \ {<<op[p].user, op[p].name>>}
  <1> DEFINE Own == <<op[p].user, op[p].name>>
  <1>1. ASSUME NEW q \in Proc, q # p
        PROVE  op'[q].step = op[q].step /\ <<op'[q].user, op'[q].name>> = <<op[q].user, op[q].name>>
    BY <1>1, OthersWait
  <1>2. CASE op'[p].step \in DeleteSteps
    <2>1. Delete(p) /\ op'[p].step # "idle"
      <3>1. ~Encrypt(p)
        BY <1>2, EncryptCalls DEF DeleteSteps
      <3>2. ~Decrypt(p)
        BY <1>2, DecryptCalls DEF DeleteSteps, DecryptSteps
      <3>3. ~(\E u \in User : List(p, u)) /\ ~Crash(p)
        BY <1>2, IdleAtReturn DEF List, Crash, DeleteSteps
      <3> QED BY <1>2, <3>1, <3>2, <3>3 DEF StepOf, DeleteSteps
    <2>2. CASE op[p].step = "idle"
      <3>1. PICK u \in User, n \in Name : DeleteStart(p, u, n)
        BY <2>1, <2>2 DEF Delete, DeleteLoad, DeleteWipe, DeleteUnlink, DeleteRecord
      <3>2. op'[p] = [Rest EXCEPT !.step = "del_load", !.user = u, !.name = n]
        BY <3>1 DEF DeleteStart, Begin, TypeOK
      <3>3. op'[p].user = u /\ op'[p].name = n
        BY <3>2 DEF Rest
      <3>4. Deleting' = Deleting \cup {<<u, n>>}
        BY <1>1, <1>2, <2>2, <3>3 DEF Deleting, DeleteSteps
      <3> QED BY <2>2, <3>4
    <2>3. CASE op[p].step # "idle"
      <3>1. /\ op[p].step \in DeleteSteps
            /\ op'[p].user = op[p].user /\ op'[p].name = op[p].name
        BY <2>1, <2>3, DeleteCalls DEF DeleteSteps
      <3>2. Deleting' = Deleting
        BY <1>1, <1>2, <3>1 DEF Deleting
      <3> QED BY <3>2
    <2> QED BY <2>2, <2>3
  <1>3. CASE op'[p].step \notin DeleteSteps /\ op[p].step \notin DeleteSteps
    <2>1. Deleting' = Deleting
      BY <1>1, <1>3 DEF Deleting
    <2> QED BY <2>1
  <1>4. CASE op'[p].step \notin DeleteSteps /\ op[p].step \in DeleteSteps
    <2>1. CASE \E q \in Proc : q # p /\ op[q].step \in DeleteSteps
                                 /\ <<op[q].user, op[q].name>> = Own
      <3>1. Deleting' = Deleting
        BY <1>1, <1>4, <2>1 DEF Deleting
      <3> QED BY <3>1
    <2>2. CASE \A q \in Proc : (q # p /\ op[q].step \in DeleteSteps)
                                 => <<op[q].user, op[q].name>> # Own
      <3>1. Deleting' = Deleting \ {Own}
        BY <1>1, <1>4, <2>2 DEF Deleting
      <3> QED BY <1>4, <3>1
    <2> QED BY <2>1, <2>2
  <1> QED BY <1>2, <1>3, <1>4

\* A step of a process is a step of VaultStore, or changes nothing there.
LEMMA StepKeepsPromise ==
  ASSUME Inductive, OwnRecords, TypeOK', NEW p \in Proc, StepOf(p)
  PROVE  [Promise!Next]_(Promise!vars)
  <1> TypeOK
    BY DEF Inductive
  <1> DEFINE own == <<op[p].user, op[p].name>>
             docs == [d \in User \X Name |-> Document(d[1], d[2])]
  <1>1. CASE \A u \in User, n \in Name : Document(u, n)' = Document(u, n)
    <2>1. docs' = docs
      BY <1>1
    <2>2. CASE Deleting' = Deleting
      BY <2>1, <2>2 DEF Promise!vars
    <2>3. ASSUME NEW d \in User \X Name, Deleting' = Deleting \cup {d}
          PROVE  Promise!Next
      <3>1. Promise!Ask(d)
        BY <2>1, <2>3 DEF Promise!Ask
      <3> QED BY <3>1 DEF Promise!Next
    <2>4. CASE op[p].step \in DeleteSteps /\ Deleting' = Deleting \ {own}
      <3>1. PICK d \in User \X Name : d = own
        BY <2>4, CallKnown DEF DeleteSteps
      <3>2. Promise!Leave(d)
        BY <2>1, <2>4, <3>1 DEF Promise!Leave
      <3> QED BY <3>2 DEF Promise!Next
    <2> QED BY <2>2, <2>3, <2>4, AskedStep
  <1>2. ASSUME NEW u \in User, NEW n \in Name, Document(u, n)' # Document(u, n)
        PROVE  Promise!Next
    <2>1. u = op[p].user /\ n = op[p].name /\ op[p].step # "idle"
      BY <1>2, DocumentStep
    <2>2. PICK d \in User \X Name : d = <<u, n>>
      OBVIOUS
    <2>3. docs' = [docs EXCEPT ![d] = Document(u, n)']
      <3>1. ASSUME NEW v \in User, NEW k \in Name, <<v, k>> # d
            PROVE  Document(v, k)' = Document(v, k)
        BY <2>1, <2>2, <3>1, DocumentStep
      <3>2. ASSUME NEW e \in User \X Name
            PROVE  Document(e[1], e[2])' =
                     IF e = d THEN Document(u, n)' ELSE Document(e[1], e[2])
        <4>1. e[1] \in User /\ e[2] \in Name /\ e = <<e[1], e[2]>>
          OBVIOUS
        <4>2. CASE e = d
          BY <2>2, <4>2
        <4>3. CASE e # d
          BY <3>1, <4>1, <4>3
        <4> QED BY <4>2, <4>3
      <3> QED BY <3>2
    <2>4. CASE op[p].step = "enc_record" /\ Document(u, n) = Absent
               /\ Document(u, n)' \in Content
      <3>1. Deleting' = Deleting
        BY <2>4, AskedStep DEF DeleteSteps
      <3>2. PICK x \in Content : x = Document(u, n)'
        BY <2>4
      <3>3. docs[d] = Absent
        BY <2>2, <2>4
      <3>4. Promise!Save(d, x)
        BY <2>3, <3>1, <3>2, <3>3 DEF Promise!Save
      <3> QED BY <3>4 DEF Promise!Next
    <2>5. CASE op[p].step \in {"del_wipe", "del_unlink", "del_record"}
               /\ Document(u, n)' = Absent
      <3>1. d \in Deleting
        BY <2>1, <2>2, <2>5 DEF Deleting, DeleteSteps
      <3>2. Deleting' \in {Deleting, Deleting \ {d}}
        BY <2>1, <2>2, <2>5, AskedStep
      <3>3. docs' = [docs EXCEPT ![d] = Absent]
        BY <2>3, <2>5
      <3>4. Promise!Discard(d)
        BY <3>1, <3>2, <3>3 DEF Promise!Discard
      <3> QED BY <3>4 DEF Promise!Next
    <2> QED BY <1>2, <2>4, <2>5, DocumentStep
  <1> QED BY <1>1, <1>2

\* If no two processes share a record path, fileops.c and metadata.c keep the
\* promise of VaultStore, whatever fails and wherever a process is killed: what
\* decrypt would return is a document saved once under its name, never another
\* one, and it goes away only while its owner has it deleted.
THEOREM PromiseKept ==
  ASSUME NamesApart
  PROVE  Spec => KeepsItsPromise
  <1>1. Init => Promise!Init
    <2> SUFFICES ASSUME Init PROVE Promise!Init
      OBVIOUS
    <2>1. \A u \in User, n \in Name : Document(u, n) = Absent
      BY DEF Init, Document, Loads, MetaPaths
    <2>2. Deleting = {}
      BY DEF Init, Deleting, Rest, DeleteSteps
    <2> QED BY <2>1, <2>2 DEF Promise!Init
  <1>2. Inductive /\ OwnRecords /\ [Next]_vars => [Promise!Next]_(Promise!vars)
    <2> SUFFICES ASSUME Inductive, OwnRecords, [Next]_vars
                 PROVE  [Promise!Next]_(Promise!vars)
      OBVIOUS
    <2>1. ASSUME NEW p \in Proc, StepOf(p) PROVE [Promise!Next]_(Promise!vars)
      BY <2>1, StepKeepsPromise, StepTyped
    <2>2. CASE UNCHANGED <<store, meta, op, result, issued>>
      BY <2>2 DEF Promise!vars, Document, Loads, Opens, Deleting
    <2> QED BY <2>1, <2>2 DEF Next, Edit, vars, StepOf
  <1> QED BY <1>1, <1>2, OwnRecordsHold, PTL DEF Spec, Promise!Spec, KeepsItsPromise
=============================================================================
