-------------------------- MODULE VaultApartProofs --------------------------
(***************************************************************************)
(* Proofs about Vault under conditions: what holds of one process, or of   *)
(* processes that keep apart, and what holds when some failures do not     *)
(* occur.  The sets of processes, users, names, files and ids stay         *)
(* arbitrary.                                                              *)
(***************************************************************************)
EXTENDS VaultProofs

(***************************************************************************)
(* How a step of a process goes on with its call.                          *)
(***************************************************************************)
\* A step of an encryption that is not its last.
LEMMA EncryptCalls ==
  ASSUME TypeOK, NEW p \in Proc, Encrypt(p), op'[p].step # "idle"
  PROVE  \/ /\ op[p].step = "idle" /\ op'[p].step = "enc_read"
            /\ op'[p].user \in Login[p] /\ op'[p].path \in Reach[p]
            /\ UNCHANGED <<files, store, meta, issued>>
         \/ /\ op[p].step # "idle"
            /\ op'[p].user = op[p].user /\ op'[p].name = op[p].name
            /\ \/ /\ EncryptRead(p) /\ op[p].step = "enc_read" /\ op'[p].step = "enc_create"
                  /\ op'[p].path \in Openings(op[p].path)
                  /\ op'[p].plain = files[op'[p].path] /\ op'[p].opened = op'[p].path
                  /\ UNCHANGED <<files, store, meta, issued>>
               \/ /\ EncryptCreate(p) /\ op[p].step = "enc_create" /\ op'[p].step = "enc_write"
                  /\ op'[p].path = op[p].path /\ op'[p].plain = op[p].plain
                  /\ op'[p].opened = op[p].opened
                  /\ UNCHANGED <<files, meta>>
               \/ /\ op'[p].path = op[p].path /\ op'[p].plain = op[p].plain
                  /\ op'[p].id = op[p].id /\ op'[p].opened = op[p].opened
                  /\ \/ /\ EncryptWrite(p) /\ op[p].step = "enc_write"
                        /\ op'[p].step \in {"enc_meta", "enc_undo"}
                     \/ /\ EncryptMeta(p) /\ op[p].step = "enc_meta"
                        /\ op'[p].step \in {"enc_record", "enc_undo"}
                     \/ /\ EncryptRecord(p) /\ op[p].step = "enc_record"
                        /\ op'[p].step \in {"enc_wipe", "enc_drop"}
                     \/ /\ EncryptDrop(p) /\ op[p].step = "enc_drop"
                        /\ op'[p].step = "enc_undo"
                     \/ /\ EncryptWipe(p) /\ op[p].step = "enc_wipe"
                        /\ op'[p].step = "enc_unlink"
  <1> op[p] \in Call
    BY DEF TypeOK
  <1>1. ASSUME NEW o, op' = [op EXCEPT ![p] = o] PROVE op'[p] = o
    BY <1>1 DEF TypeOK
  <1>2. ASSUME NEW s, Continue(p, [op[p] EXCEPT !.step = s])
        PROVE  /\ op'[p].step = s /\ op'[p].id = op[p].id
               /\ op'[p].user = op[p].user /\ op'[p].name = op[p].name
               /\ op'[p].path = op[p].path /\ op'[p].plain = op[p].plain
               /\ op'[p].opened = op[p].opened
    <2>1. op'[p] = [op[p] EXCEPT !.step = s]
      BY <1>1, <1>2 DEF Continue
    <2> QED BY <2>1 DEF Call
  <1>3. ASSUME NEW u \in User, NEW path \in Path, EncryptStart(p, u, path)
        PROVE  /\ op[p].step = "idle" /\ op'[p].step = "enc_read"
               /\ op'[p].user \in Login[p] /\ op'[p].path \in Reach[p]
               /\ UNCHANGED <<files, store, meta, issued>>
    <2>1. op'[p] = [Rest EXCEPT !.step = "enc_read", !.user = u,
                                !.name = BaseName[path], !.path = path]
      BY <1>1, <1>3 DEF EncryptStart, Begin
    <2> QED BY <1>3, <2>1 DEF EncryptStart, Begin, Rest
  <1>4. CASE EncryptRead(p)
    <2>1. ~Return(p, "failure")
      BY IdleAtReturn DEF Return
    <2>2. PICK found \in Openings(op[p].path) :
             Continue(p, [op[p] EXCEPT !.step = "enc_create", !.path = found,
                                       !.plain = files[found], !.opened = found])
      BY <1>4, <2>1 DEF EncryptRead
    <2>3. op'[p] = [op[p] EXCEPT !.step = "enc_create", !.path = found,
                                 !.plain = files[found], !.opened = found]
      BY <1>1, <2>2 DEF Continue
    <2>4. /\ op'[p].step = "enc_create" /\ op'[p].path = found /\ op'[p].opened = found
          /\ op'[p].plain = files[found]
          /\ op'[p].user = op[p].user /\ op'[p].name = op[p].name
      BY <2>3 DEF Call
    <2> QED BY <1>4, <2>2, <2>4 DEF EncryptRead, disk
  <1>5. CASE EncryptCreate(p)
    <2>1. ~Return(p, "failure")
      BY IdleAtReturn DEF Return
    <2>2. PICK id \in FileId : Continue(p, [op[p] EXCEPT !.step = "enc_write", !.id = id])
      BY <1>5, <2>1 DEF EncryptCreate
    <2>3. op'[p] = [op[p] EXCEPT !.step = "enc_write", !.id = id]
      BY <1>1, <2>2 DEF Continue
    <2>4. /\ op'[p].step = "enc_write" /\ op'[p].path = op[p].path
          /\ op'[p].plain = op[p].plain /\ op'[p].opened = op[p].opened
          /\ op'[p].user = op[p].user /\ op'[p].name = op[p].name
      BY <2>3 DEF Call
    <2> QED BY <1>5, <2>4 DEF EncryptCreate
  <1>6. CASE EncryptWrite(p)
    BY <1>2, <1>6 DEF EncryptWrite
  <1>7. CASE EncryptMeta(p)
    BY <1>2, <1>7 DEF EncryptMeta
  <1>8. CASE EncryptRecord(p)
    BY <1>2, <1>8 DEF EncryptRecord
  <1>9. CASE EncryptDrop(p) \/ EncryptWipe(p)
    BY <1>2, <1>9 DEF EncryptDrop, EncryptWipe
  <1>10. ~EncryptUndo(p) /\ ~EncryptUnlink(p)
    BY IdleAtReturn DEF EncryptUndo, Return, EncryptUnlink, TypeOK, Rest
  <1> QED BY <1>3, <1>4, <1>5, <1>6, <1>7, <1>8, <1>9, <1>10 DEF Encrypt

\* A step of a decryption that is not its last.
LEMMA DecryptCalls ==
  ASSUME TypeOK, NEW p \in Proc, Decrypt(p), op'[p].step # "idle"
  PROVE  \/ /\ op[p].step = "idle" /\ op'[p].step = "dec_load"
            /\ op'[p].user \in Login[p] /\ op'[p].path \in Reach[p]
         \/ /\ op[p].step \in DecryptSteps /\ op'[p].step \in DecryptSteps
            /\ op'[p].user = op[p].user /\ op'[p].name = op[p].name
            /\ op'[p].path = op[p].path
  <1> op[p] \in Call
    BY DEF TypeOK
  <1>1. ASSUME NEW o, op' = [op EXCEPT ![p] = o] PROVE op'[p] = o
    BY <1>1 DEF TypeOK
  <1>2. ASSUME NEW u \in User, NEW n \in Name, NEW out \in Path, DecryptStart(p, u, n, out)
        PROVE  /\ op[p].step = "idle" /\ op'[p].step = "dec_load"
               /\ op'[p].user \in Login[p] /\ op'[p].path \in Reach[p]
    <2>1. op'[p] = [Rest EXCEPT !.step = "dec_load", !.user = u, !.name = n, !.path = out]
      BY <1>1, <1>2 DEF DecryptStart, Begin
    <2> QED BY <1>2, <2>1 DEF DecryptStart, Begin, Rest
  <1>3. ASSUME NEW o \in {[op[p] EXCEPT !.step = "dec_read", !.id = meta[MetaPath(op[p].user, op[p].name)].id],
                          [op[p] EXCEPT !.step = "dec_open", !.plain = store[op[p].id].plain],
                          [op[p] EXCEPT !.step = "dec_write", !.linked = TRUE]},
               Continue(p, o)
        PROVE  /\ op'[p].step \in DecryptSteps
               /\ op'[p].user = op[p].user /\ op'[p].name = op[p].name
               /\ op'[p].path = op[p].path
    <2>1. op'[p] = o
      BY <1>1, <1>3 DEF Continue
    <2> QED BY <1>3, <2>1 DEF Call, DecryptSteps
  <1>4. ~Return(p, "failure") /\ ~Return(p, "success")
    BY IdleAtReturn DEF Return
  <1>5. CASE DecryptLoad(p) \/ DecryptRead(p) \/ DecryptOpen(p)
    BY <1>3, <1>4, <1>5 DEF DecryptLoad, DecryptRead, DecryptOpen, DecryptSteps
  <1>6. ~DecryptWrite(p)
    BY <1>4 DEF DecryptWrite
  <1> QED BY <1>2, <1>5, <1>6 DEF Decrypt

\* A step of a deletion that is not its last.
LEMMA DeleteCalls ==
  ASSUME TypeOK, NEW p \in Proc, Delete(p), op'[p].step # "idle"
  PROVE  \/ /\ op[p].step = "idle" /\ op'[p].step = "del_load"
            /\ op'[p].user \in Login[p]
         \/ /\ op'[p].user = op[p].user /\ op'[p].name = op[p].name
            /\ meta' = meta
            /\ \/ /\ DeleteLoad(p) /\ op[p].step = "del_load" /\ op'[p].step = "del_wipe"
                  /\ Loadable(op[p].user, op[p].name)
                  /\ op'[p].id = meta[MetaPath(op[p].user, op[p].name)].id
               \/ /\ DeleteWipe(p) /\ op[p].step = "del_wipe" /\ op'[p].step = "del_unlink"
                  /\ op'[p].id = op[p].id
               \/ /\ DeleteUnlink(p) /\ op[p].step = "del_unlink"
                  /\ op'[p].step = "del_record" /\ op'[p].id = op[p].id
  <1> op[p] \in Call
    BY DEF TypeOK
  <1>1. ASSUME NEW o, op' = [op EXCEPT ![p] = o] PROVE op'[p] = o
    BY <1>1 DEF TypeOK
  <1>2. ASSUME NEW u \in User, NEW n \in Name, DeleteStart(p, u, n)
        PROVE  op[p].step = "idle" /\ op'[p].step = "del_load" /\ op'[p].user \in Login[p]
    <2>1. op'[p] = [Rest EXCEPT !.step = "del_load", !.user = u, !.name = n]
      BY <1>1, <1>2 DEF DeleteStart, Begin
    <2> QED BY <1>2, <2>1 DEF DeleteStart, Begin, Rest
  <1>3. ~Return(p, "failure") /\ ~Return(p, "success")
    BY IdleAtReturn DEF Return
  <1>4. CASE DeleteLoad(p)
    <2> DEFINE i == meta[MetaPath(op[p].user, op[p].name)].id
    <2>1. Loadable(op[p].user, op[p].name) /\ op[p].step = "del_load" /\ meta' = meta
          /\ Continue(p, [op[p] EXCEPT !.step = "del_wipe", !.id = i])
      BY <1>3, <1>4 DEF DeleteLoad, disk
    <2>2. op'[p] = [op[p] EXCEPT !.step = "del_wipe", !.id = i]
      BY <1>1, <2>1 DEF Continue
    <2> QED BY <1>4, <2>1, <2>2 DEF Call
  <1>5. ASSUME NEW o \in {[op[p] EXCEPT !.step = "del_unlink"],
                          [op[p] EXCEPT !.step = "del_record", !.gone = TRUE],
                          [op[p] EXCEPT !.step = "del_record"]}, Continue(p, o)
        PROVE  /\ op'[p].step = o.step /\ op'[p].id = op[p].id
               /\ op'[p].user = op[p].user /\ op'[p].name = op[p].name
    <2>1. op'[p] = o
      BY <1>1, <1>5 DEF Continue
    <2> QED BY <1>5, <2>1 DEF Call
  <1>6. CASE DeleteWipe(p)
    BY <1>5, <1>6 DEF DeleteWipe, Call
  <1>7. CASE DeleteUnlink(p)
    BY <1>5, <1>7 DEF DeleteUnlink, Call
  <1>8. ~DeleteRecord(p)
    BY IdleAtReturn DEF DeleteRecord, Return
  <1> QED BY <1>2, <1>4, <1>6, <1>7, <1>8 DEF Delete
-----------------------------------------------------------------------------
(***************************************************************************)
(* Records: each process keeps to the record paths of its users.           *)
(***************************************************************************)
\* Metadata changes only at the path of the call that takes the step.
LEMMA MetaWhere ==
  ASSUME TypeOK, NEW p \in Proc, StepOf(p), NEW m \in MetaPaths, meta'[m] # meta[m]
  PROVE  /\ m = MetaPath(op[p].user, op[p].name)
         /\ op[p].step \in {"enc_meta", "enc_record", "enc_drop", "del_record"}
         /\ op[p].step = "enc_meta" => meta[m] = Absent
         /\ op'[p] # op[p]
         /\ op[p].step # "idle"
  <1>1. ASSUME NEW s, op[p].step # s, Continue(p, [op[p] EXCEPT !.step = s])
        PROVE  op'[p] # op[p]
    <2>1. op'[p] = [op[p] EXCEPT !.step = s] /\ op[p] \in Call
      BY <1>1 DEF Continue, TypeOK
    <2> QED BY <1>1, <2>1 DEF Call
  <1>2. CASE EncryptMeta(p)
    BY <1>1, <1>2 DEF EncryptMeta, TypeOK
  <1>3. CASE EncryptRecord(p)
    BY <1>1, <1>3 DEF EncryptRecord, TypeOK
  <1>4. CASE EncryptDrop(p)
    BY <1>1, <1>4 DEF EncryptDrop, TypeOK
  <1>5. CASE DeleteRecord(p)
    <2>1. op'[p].step = "idle"
      BY <1>5, IdleAtReturn DEF DeleteRecord, Return
    <2> QED BY <1>5, <2>1 DEF DeleteRecord, TypeOK
  <1>6. CASE UNCHANGED meta
    BY <1>6
  <1> QED
    BY <1>2, <1>3, <1>4, <1>5, <1>6
       DEF StepOf, Encrypt, EncryptStart, EncryptRead, EncryptCreate, EncryptWrite,
           EncryptUndo, EncryptWipe, EncryptUnlink, Decrypt, DecryptStart,
           DecryptLoad, DecryptRead, DecryptOpen, DecryptWrite, Delete, DeleteStart,
           DeleteLoad, DeleteWipe, DeleteUnlink, List, Crash, Begin, disk

\* A call begins for a user of its process and goes on for the same.
LEMMA WorksStep ==
  ASSUME TypeOK, WorksForItsUser, NEW p \in Proc, StepOf(p)
  PROVE  WorksForItsUser'
  <1> USE DEF WorksForItsUser
  <1>1. ASSUME NEW q \in Proc, q # p
        PROVE  /\ op'[q].step # "idle" => op'[q].user \in Login[q]
               /\ op'[q].step \in EncryptSteps \cup DecryptSteps => op'[q].path \in Touches(q)
               /\ op'[q].step = "enc_read" => op'[q].path \in Reach[q]
    BY <1>1, OthersWait
  <1>2. Reach[p] \subseteq Touches(p) /\ Reach[p] \subseteq Path
    BY VaultAssumption DEF Touches
  <1>3. ASSUME op[p].path \in Reach[p] PROVE Openings(op[p].path) \subseteq Touches(p)
    BY <1>3 DEF Openings, Resolve, Touches
  <1>4. CASE op'[p].step = "idle"
    BY <1>1, <1>4 DEF EncryptSteps, DecryptSteps
  <1>5. CASE op'[p].step # "idle" /\ Delete(p)
    <2>1. op'[p].user \in Login[p] /\ op'[p].step \in DeleteSteps
      BY <1>5, DeleteCalls DEF DeleteSteps
    <2> QED BY <1>1, <2>1 DEF EncryptSteps, DecryptSteps, DeleteSteps
  <1>6. CASE op'[p].step # "idle" /\ Decrypt(p)
    BY <1>1, <1>2, <1>6, DecryptCalls DEF DecryptSteps, EncryptSteps
  <1>7. CASE op'[p].step # "idle" /\ Encrypt(p)
    BY <1>1, <1>2, <1>3, <1>7, EncryptCalls DEF EncryptSteps
  <1>8. CASE op'[p].step # "idle" /\ ((\E u \in User : List(p, u)) \/ Crash(p))
    BY <1>8, IdleAtReturn DEF List, Crash
  <1> QED BY <1>4, <1>5, <1>6, <1>7, <1>8 DEF StepOf

\* A record that a call has created or loaded is out of reach of the others.
LEMMA HoldsStep ==
  ASSUME NamesApart, Inductive, WorksForItsUser, HoldsItsRecord, NEW p \in Proc, StepOf(p)
  PROVE  HoldsItsRecord'
  <1> TypeOK
    BY DEF Inductive
  <1> DEFINE Holding == {"enc_record", "enc_drop", "del_wipe", "del_unlink", "del_record"}
  <1> DEFINE Mine(q) == MetaPath(op[q].user, op[q].name)
  <1>1. ASSUME NEW q \in Proc, op[q].step \in Holding
        PROVE  Mine(q) \in MetaPaths /\ meta[Mine(q)] # Absent /\ meta[Mine(q)].id = op[q].id
    BY <1>1, CallKnown DEF HoldsItsRecord
  <1>2. ASSUME NEW q \in Proc, q # p, op'[q].step \in Holding
        PROVE  LET r == meta'[MetaPath(op'[q].user, op'[q].name)]
               IN  r # Absent /\ r.id = op'[q].id
    <2>1. /\ op[q].step \in Holding /\ op'[q].user = op[q].user
          /\ op'[q].name = op[q].name /\ op'[q].id = op[q].id
      BY <1>2, OthersWait
    <2>2. op[q].user \in Login[q] /\ op[q].name \in Name
      BY <2>1, CallKnown DEF WorksForItsUser
    <2>3. meta'[Mine(q)] = meta[Mine(q)]
      <3>1. SUFFICES ASSUME meta'[Mine(q)] # meta[Mine(q)] PROVE FALSE
        OBVIOUS
      <3>2. Mine(q) = Mine(p) /\ op[p].step # "idle"
        BY <1>1, <2>1, <3>1, MetaWhere
      <3>3. op[p].user \in Login[p] /\ op[p].name \in Name
        BY <3>2, CallKnown DEF WorksForItsUser
      <3> QED BY <1>2, <2>2, <3>2, <3>3 DEF NamesApart
    <2> QED BY <1>1, <2>1, <2>3
  <1>3. ASSUME op'[p].step \in Holding
        PROVE  LET r == meta'[MetaPath(op'[p].user, op'[p].name)]
               IN  r # Absent /\ r.id = op'[p].id
    <2>1. CASE op'[p].step \in {"del_wipe", "del_unlink", "del_record"}
      <3>1. Delete(p)
        <4>1. op'[p].step # "idle" /\ op'[p].step \notin EncryptSteps \cup DecryptSteps
          BY <2>1 DEF EncryptSteps, DecryptSteps
        <4>2. ~Encrypt(p)
          BY <2>1, EncryptCalls
        <4>3. ~Decrypt(p)
          BY <2>1, <4>1, DecryptCalls DEF DecryptSteps
        <4>4. ~(\E u \in User : List(p, u)) /\ ~Crash(p)
          BY <2>1, IdleAtReturn DEF List, Crash
        <4> QED BY <4>2, <4>3, <4>4 DEF StepOf
      <3>2. CASE op[p].step = "del_load" /\ Loadable(op[p].user, op[p].name)
                 /\ op'[p].id = meta[Mine(p)].id /\ meta' = meta
                 /\ op'[p].user = op[p].user /\ op'[p].name = op[p].name
        BY <3>2 DEF Loadable, Loads
      <3> QED BY <1>1, <2>1, <3>1, <3>2, DeleteCalls
    <2>2. CASE op'[p].step \in {"enc_record", "enc_drop"}
      <3>1. /\ op'[p].user = op[p].user /\ op'[p].name = op[p].name
            /\ op'[p].id = op[p].id
            /\ \/ EncryptMeta(p) /\ op'[p].step = "enc_record"
               \/ EncryptRecord(p)
        <4>1. Encrypt(p)
          <5>1. ~Delete(p) /\ ~Decrypt(p)
            BY <2>2, DeleteCalls, DecryptCalls DEF DecryptSteps
          <5>2. ~(\E u \in User : List(p, u)) /\ ~Crash(p)
            BY <2>2, IdleAtReturn DEF List, Crash
          <5> QED BY <5>1, <5>2 DEF StepOf
        <4> QED BY <2>2, <4>1, EncryptCalls
      <3>2. CASE EncryptMeta(p) /\ op'[p].step = "enc_record"
        <4>1. Mine(p) \in MetaPaths /\ op[p] \in Call
          BY <3>2, CallKnown DEF EncryptMeta
        <4>2. ~Continue(p, [op[p] EXCEPT !.step = "enc_undo"])
          <5> SUFFICES ASSUME Continue(p, [op[p] EXCEPT !.step = "enc_undo"]) PROVE FALSE
            OBVIOUS
          <5>1. op'[p] = [op[p] EXCEPT !.step = "enc_undo"]
            BY DEF Continue, TypeOK
          <5> QED BY <3>2, <4>1, <5>1 DEF Call
        <4>3. meta' = [meta EXCEPT ![Mine(p)] =
                 [owner |-> op[p].user, name |-> op[p].name, id |-> op[p].id, form |-> "torn"]]
          BY <3>2, <4>2 DEF EncryptMeta
        <4>4. meta'[Mine(p)] =
                 [owner |-> op[p].user, name |-> op[p].name, id |-> op[p].id, form |-> "torn"]
          BY <4>1, <4>3 DEF TypeOK
        <4>5. op[p].id \in FileId /\ op[p].user \in User /\ op[p].name \in Name
          BY <3>2, CallKnown DEF EncryptMeta, HoldsId, EncryptSteps
        <4>6. meta'[Mine(p)] \in MetaRecord /\ meta'[Mine(p)].id = op[p].id
          BY <4>4, <4>5 DEF MetaRecord
        <4> QED BY <3>1, <4>6, AbsentAssumption
      <3>3. CASE EncryptRecord(p)
        <4>1. Mine(p) \in MetaPaths /\ meta[Mine(p)] \in MetaRecord /\ meta[Mine(p)].id = op[p].id
          BY <1>1, <3>3 DEF EncryptRecord, TypeOK
        <4>2. \/ meta' = meta
              \/ meta'[Mine(p)] = [meta[Mine(p)] EXCEPT !.form = "whole"]
          BY <3>3, <4>1 DEF EncryptRecord, TypeOK
        <4>3. meta'[Mine(p)] \in MetaRecord /\ meta'[Mine(p)].id = op[p].id
          BY <4>1, <4>2 DEF MetaRecord
        <4> QED BY <3>1, <4>3, AbsentAssumption
      <3> QED BY <3>1, <3>2, <3>3
    <2> QED BY <1>3, <2>1, <2>2
  <1> QED BY <1>2, <1>3 DEF HoldsItsRecord

\* What a process does at a step, if it is not killed.
LEMMA AtStep ==
  ASSUME NEW p \in Proc, StepOf(p)
  PROVE  /\ op[p].step = "enc_record" => EncryptRecord(p) \/ Crash(p)
         /\ op[p].step = "enc_wipe" => EncryptWipe(p) \/ Crash(p)
         /\ op[p].step = "enc_unlink" => EncryptUnlink(p) \/ Crash(p)
         /\ op[p].step = "del_wipe" => DeleteWipe(p) \/ Crash(p)
         /\ op[p].step = "dec_write" => DecryptWrite(p) \/ Crash(p)
         /\ op[p].step = "dec_open" => DecryptOpen(p) \/ Crash(p)
  BY DEF StepOf, Encrypt, EncryptStart, EncryptRead, EncryptCreate, EncryptWrite,
         EncryptMeta, EncryptRecord, EncryptDrop, EncryptUndo, EncryptWipe,
         EncryptUnlink, Decrypt, DecryptStart, DecryptLoad, DecryptRead, DecryptOpen,
         DecryptWrite, Delete, DeleteStart, DeleteLoad, DeleteWipe, DeleteUnlink,
         DeleteRecord, List, Begin

\* An encryption is kept only once its record is complete, and nothing but a
\* deletion that has given it up removes that record.
LEMMA KeptStep ==
  ASSUME "flush" \notin Faults, Inductive, HoldsItsRecord, KeptRecorded,
         NEW p \in Proc, StepOf(p)
  PROVE  KeptRecorded'
  <1> /\ TypeOK /\ SealersOwnTheirIds /\ DeletersDoomTheirIds /\ RecordsIssued
    BY DEF Inductive, Bookkeeping
  <1> SUFFICES ASSUME NEW id \in FileId, issued'[id] # Absent, issued'[id].fate = "kept"
               PROVE  LET m == MetaPath(issued'[id].owner, issued'[id].name) IN
                      /\ Loads(meta'[m], issued'[id].owner, issued'[id].name)
                      /\ meta'[m].id = id
    BY DEF KeptRecorded, Loadable
  <1>1. CASE issued'[id] = issued[id]
    <2> DEFINE m == MetaPath(issued[id].owner, issued[id].name)
    <2>1. Loads(meta[m], issued[id].owner, issued[id].name) /\ meta[m].id = id
      BY <1>1 DEF KeptRecorded, Loadable
    <2>2. m \in MetaPaths
      BY <1>1 DEF TypeOK, Issue, MetaPaths
    <2>3. meta'[m] = meta[m]
      <3>1. SUFFICES ASSUME meta'[m] # meta[m] PROVE FALSE
        OBVIOUS
      <3>2. /\ m = MetaPath(op[p].user, op[p].name)
            /\ op[p].step \in {"enc_meta", "enc_record", "enc_drop", "del_record"}
            /\ op[p].step # "enc_meta"
        BY <2>1, <2>2, <3>1, MetaWhere DEF Loads
      <3>3. op[p].id = id
        BY <2>1, <3>2 DEF HoldsItsRecord
      <3> QED BY <1>1, <3>2, <3>3
          DEF SealersOwnTheirIds, Sealing, DeletersDoomTheirIds, DeleteSteps
    <2> QED BY <1>1, <2>1, <2>3
  <1>2. CASE issued'[id] # issued[id]
    <2> DEFINE m == MetaPath(op[p].user, op[p].name)
    <2>1. /\ op[p].step = "enc_record" /\ op[p].id = id /\ issued[id] # Absent
          /\ issued'[id].owner = issued[id].owner /\ issued'[id].name = issued[id].name
      BY <1>2, IssuedChange
    <2>2. issued[id].owner = op[p].user /\ issued[id].name = op[p].name
      BY <2>1 DEF SealersOwnTheirIds, Sealing, DrawnFor
    <2>3. /\ m \in MetaPaths /\ meta[m] \in MetaRecord /\ meta[m] # Absent
          /\ meta[m].id = id
      BY <2>1, CallKnown DEF HoldsItsRecord, TypeOK
    <2>4. meta[m].owner = op[p].user /\ meta[m].name = op[p].name
      BY <2>2, <2>3 DEF RecordsIssued, DrawnFor
    <2>5. ~Crash(p)
      <3>1. issued[id] \in Issue
        BY <2>1 DEF TypeOK
      <3>2. Crash(p) => issued' = [issued EXCEPT ![id].fate = "left"]
        BY <2>1 DEF Crash, SetFate, Sealing
      <3> QED BY <3>1, <3>2 DEF TypeOK, Issue
    <2>6. meta' = [meta EXCEPT ![m].form = "whole"]
      <3>1. EncryptRecord(p) /\ RecordLinked(p)
        BY <2>1, <2>3, <2>5, AtStep DEF RecordLinked
      <3> QED BY <1>2, <3>1 DEF EncryptRecord
    <2>7. meta'[m] = [meta[m] EXCEPT !.form = "whole"]
      BY <2>3, <2>6 DEF TypeOK
    <2>8. /\ meta'[m] \in MetaRecord /\ meta'[m].form = "whole" /\ meta'[m].id = id
          /\ meta'[m].owner = op[p].user /\ meta'[m].name = op[p].name
      BY <2>3, <2>4, <2>7 DEF MetaRecord
    <2> QED BY <2>1, <2>2, <2>8, AbsentAssumption DEF Loads
  <1> QED BY <1>1, <1>2

-----------------------------------------------------------------------------
(***************************************************************************)
(* Processes that share no record path.                                    *)
(***************************************************************************)
\* If no two processes share a record path, every call works for its own user
\* and the record it has created or loaded stays where it is (fileops.c,
\* metadata.c: nothing is locked).
THEOREM OwnRecordsHold ==
  ASSUME NamesApart
  PROVE  Spec => [](Inductive /\ OwnRecords)
  <1>1. Init => Inductive /\ OwnRecords
    <2> SUFFICES ASSUME Init PROVE Inductive /\ OwnRecords
      OBVIOUS
    <2>1. \A p \in Proc : op[p].step = "idle"
      BY DEF Init, Rest
    <2> QED BY <2>1, InitInductive
            DEF OwnRecords, WorksForItsUser, HoldsItsRecord, EncryptSteps, DecryptSteps
  <1>2. Inductive /\ OwnRecords /\ [Next]_vars => (Inductive /\ OwnRecords)'
    <2> SUFFICES ASSUME Inductive, OwnRecords, [Next]_vars
                 PROVE  Inductive' /\ OwnRecords'
      OBVIOUS
    <2>1. Inductive'
      BY StepTyped, StepBookkeeping DEF Inductive
    <2>2. ASSUME NEW p \in Proc, StepOf(p) PROVE OwnRecords'
      BY <2>2, WorksStep, HoldsStep DEF OwnRecords, Inductive
    <2>3. CASE UNCHANGED <<store, meta, op, result, issued>>
      <3>1. op' = op /\ meta' = meta
        BY <2>3
      <3>2. WorksForItsUser'
        BY <3>1 DEF OwnRecords, WorksForItsUser
      <3>3. HoldsItsRecord'
        BY <3>1 DEF OwnRecords, HoldsItsRecord
      <3> QED BY <2>1, <3>2, <3>3 DEF OwnRecords
    <2> QED BY <2>1, <2>2, <2>3 DEF Next, Edit, vars, StepOf
  <1> QED BY <1>1, <1>2, PTL DEF Spec

\* If no two processes share a record path, metadata_delete and the failure
\* path of metadata_create remove only the record that their call loaded or
\* created (metadata.c:242, :190).
THEOREM OwnRecordRemoved ==
  ASSUME NamesApart
  PROVE  Spec => RemovesItsOwnRecord
  <1> DEFINE A == \A m \in MetaPaths :
        (meta[m] # Absent /\ meta'[m] = Absent) =>
            \E p \in Proc : op'[p] # op[p] /\ op[p].user = meta[m].owner
                                           /\ op[p].id = meta[m].id
  <1>1. Inductive /\ OwnRecords /\ [Next]_vars => [A]_vars
    <2> SUFFICES ASSUME Inductive, OwnRecords, Next, NEW m \in MetaPaths,
                        meta[m] # Absent, meta'[m] = Absent
                 PROVE  \E p \in Proc : op'[p] # op[p] /\ op[p].user = meta[m].owner
                                                       /\ op[p].id = meta[m].id
      OBVIOUS
    <2> /\ TypeOK /\ RecordsIssued /\ SealersOwnTheirIds /\ DeletersDoomTheirIds
        /\ HoldsItsRecord
      BY DEF Inductive, Bookkeeping, OwnRecords
    <2>1. PICK p \in Proc : StepOf(p)
      BY DEF Next, Edit, StepOf
    <2>2. /\ m = MetaPath(op[p].user, op[p].name)
          /\ op[p].step \in {"enc_record", "enc_drop", "del_record"}
          /\ op'[p] # op[p]
      BY <2>1, MetaWhere
    <2>3. op[p].id = meta[m].id
      BY <2>2 DEF HoldsItsRecord
    <2>4. DrawnFor(op[p].id, op[p].user, op[p].name)
      BY <2>2 DEF SealersOwnTheirIds, DeletersDoomTheirIds, Sealing, DeleteSteps
    <2>5. op[p].user = meta[m].owner
      BY <2>3, <2>4 DEF RecordsIssued, DrawnFor
    <2> QED BY <2>2, <2>3, <2>5
  <1> QED BY <1>1, OwnRecordsHold, PTL DEF Spec, RemovesItsOwnRecord

\* With room for the header, processes that share no record path and no data
\* lost at fclose, every encryption that returned success can be decrypted by
\* its owner until a delete of it begins (fileops.c, metadata.c).
THEOREM KeptStaysRetrievable ==
  ASSUME NamesApart, RoomForHeader, "flush" \notin Faults
  PROVE  Spec => []KeptIsRetrievable
  <1>1. Init => StoreComplete /\ KeptRecorded
    BY DEF Init, StoreComplete, KeptRecorded, Rest
  <1>2. Inductive /\ OwnRecords /\ StoreComplete /\ KeptRecorded /\ [Next]_vars
          => (StoreComplete /\ KeptRecorded)'
    <2> SUFFICES ASSUME Inductive, OwnRecords, StoreComplete, KeptRecorded, [Next]_vars
                 PROVE  StoreComplete' /\ KeptRecorded'
      OBVIOUS
    <2>1. ASSUME NEW p \in Proc, StepOf(p) PROVE StoreComplete' /\ KeptRecorded'
      BY <2>1, StoreCompleteStep, KeptStep DEF OwnRecords
    <2>2. CASE UNCHANGED <<store, meta, op, result, issued>>
      BY <2>2 DEF StoreComplete, KeptRecorded, Loadable, Loads
    <2> QED BY <2>1, <2>2 DEF Next, Edit, vars, StepOf
  <1>3. Inductive /\ StoreComplete /\ KeptRecorded => KeptIsRetrievable
    <2> SUFFICES ASSUME Inductive, StoreComplete, KeptRecorded, NEW id \in FileId, issued[id] # Absent,
                        issued[id].fate = "kept"
                 PROVE  Retrievable(id)
      BY DEF KeptIsRetrievable
    <2>1. /\ Loadable(issued[id].owner, issued[id].name)
          /\ meta[MetaPath(issued[id].owner, issued[id].name)].id = id
      BY DEF KeptRecorded
    <2>2. /\ store[id] # Absent /\ store[id].form = "whole"
          /\ store[id].key = issued[id].owner /\ store[id] \in StoreFile
      BY DEF StoreComplete, Inductive, Bookkeeping, StoreIssued, TypeOK
    <2>3. SizeOf(store[id].plain) + HeaderLen <= MaxFileSize
      <3>1. store[id].plain \in Content
        BY <2>2 DEF StoreFile
      <3> QED BY <3>1, VaultAssumption DEF Content, SizeOf, RoomForHeader
    <2> QED BY <2>1, <2>2, <2>3 DEF Retrievable, Opens
  <1> QED BY <1>1, <1>2, <1>3, OwnRecordsHold, PTL DEF Spec

-----------------------------------------------------------------------------
(***************************************************************************)
(* Deletion without trouble in overwriting.                                *)
(***************************************************************************)
\* A deletion comes to its unlink over its overwrite, and nobody writes to the
\* file after that.
LEMMA WipedStep ==
  ASSUME "zero" \notin Faults, Inductive, WipedFirst, NEW p \in Proc, StepOf(p)
  PROVE  WipedFirst'
  <1> /\ TypeOK /\ SealersOwnTheirIds /\ DeletersDoomTheirIds
    BY DEF Inductive, Bookkeeping
  <1>1. ASSUME NEW id \in FileId, op[p].step = "del_wipe", op[p].id = id,
               store'[id] # Absent
        PROVE  store'[id].form = "zeros" \/ op'[p].step = "idle"
    <2>1. CASE Crash(p)
      BY <2>1, IdleAtReturn DEF Crash
    <2>2. CASE DeleteWipe(p)
      <3>1. CASE store[id] # Absent /\ store' = [store EXCEPT ![id].form = "zeros"]
        BY <3>1 DEF TypeOK, StoreFile
      <3> QED BY <1>1, <2>2, <3>1 DEF DeleteWipe
    <2> QED BY <1>1, <2>1, <2>2, AtStep
  <1>2. ASSUME NEW q \in Proc, q # p, op'[q].step = "del_unlink"
        PROVE  store'[op'[q].id] = Absent \/ store'[op'[q].id].form = "zeros"
    <2>1. op[q].step = "del_unlink" /\ op'[q].id = op[q].id
      BY <1>2, OthersWait
    <2>2. /\ op[q].id \in FileId /\ issued[op[q].id] # Absent
          /\ issued[op[q].id].fate = "doomed"
      BY <2>1, CallKnown DEF DeletersDoomTheirIds, DrawnFor, DeleteSteps, HoldsId
    <2>3. store[op[q].id] = Absent \/ store[op[q].id].form = "zeros"
      BY <2>1 DEF WipedFirst
    <2>4. ~(op[p].step = "enc_write" /\ op[p].id = op[q].id)
      BY <2>2 DEF SealersOwnTheirIds, Sealing
    <2>5. CASE op[p].step = "del_wipe" /\ op[p].id = op[q].id
      <3>1. CASE Crash(p)
        BY <2>1, <2>3, <3>1 DEF Crash, disk
      <3>2. CASE DeleteWipe(p)
        <4>1. CASE store[op[q].id] # Absent /\ store' = [store EXCEPT ![op[q].id].form = "zeros"]
          BY <2>1, <2>2, <4>1 DEF TypeOK, StoreFile
        <4> QED BY <2>1, <2>3, <2>5, <3>2, <4>1 DEF DeleteWipe
      <3> QED BY <2>5, <3>1, <3>2, AtStep
    <2>6. CASE ~(op[p].step = "del_wipe" /\ op[p].id = op[q].id)
      BY <2>1, <2>2, <2>3, <2>4, <2>6, StoreChange, ZenonT(40)
    <2> QED BY <2>5, <2>6
  <1>3. ASSUME op'[p].step = "del_unlink"
        PROVE  store'[op'[p].id] = Absent \/ store'[op'[p].id].form = "zeros"
    <2>1. DeleteWipe(p) /\ op'[p].id = op[p].id
      <3>1. Delete(p)
        <4>1. ~Encrypt(p)
          BY <1>3, EncryptCalls
        <4>2. ~Decrypt(p)
          BY <1>3, DecryptCalls DEF DecryptSteps
        <4>3. ~(\E u \in User : List(p, u)) /\ ~Crash(p)
          BY <1>3, IdleAtReturn DEF List, Crash
        <4> QED BY <4>1, <4>2, <4>3 DEF StepOf
      <3> QED BY <1>3, <3>1, DeleteCalls
    <2>2. op[p].step = "del_wipe" /\ op[p].id \in FileId
      BY <2>1, CallKnown DEF DeleteWipe, HoldsId, DeleteSteps
    <2> QED BY <1>1, <1>3, <2>1, <2>2
  <1> QED BY <1>2, <1>3 DEF WipedFirst

\* If overwrite_with_zeros can open and finish the file, delete unlinks a
\* storage file only after overwriting all of it, whoever deletes the same file
\* at the same time (fileops.c:414).
THEOREM OverwrittenFirst ==
  ASSUME "zero" \notin Faults
  PROVE  Spec => OverwrittenBeforeUnlinked
  <1> DEFINE A == \A id \in FileId :
        (/\ store[id] # Absent /\ store'[id] = Absent
         /\ issued[id].fate = "doomed") => store[id].form = "zeros"
  <1>1. Init => WipedFirst
    BY DEF Init, WipedFirst, Rest
  <1>2. Inductive /\ WipedFirst /\ [Next]_vars => WipedFirst'
    <2>1. ASSUME WipedFirst, UNCHANGED <<store, meta, op, result, issued>>
          PROVE  WipedFirst'
      BY <2>1 DEF WipedFirst
    <2> QED BY <2>1, WipedStep DEF Next, Edit, vars, StepOf
  <1>3. Inductive /\ WipedFirst /\ [Next]_vars => [A]_vars
    <2> SUFFICES ASSUME Inductive, WipedFirst, Next, NEW id \in FileId,
                        store[id] # Absent, store'[id] = Absent,
                        issued[id].fate = "doomed"
                 PROVE  store[id].form = "zeros"
      OBVIOUS
    <2>1. PICK p \in Proc : StepOf(p)
      BY DEF Next, Edit, StepOf
    <2>2. op[p].step \in {"enc_undo", "del_unlink"} /\ op[p].id = id
      BY <2>1, StoreChange DEF Inductive, Bookkeeping, StoreIssued
    <2>3. op[p].step # "enc_undo"
      BY <2>2 DEF Inductive, Bookkeeping, SealersOwnTheirIds, Sealing
    <2> QED BY <2>2, <2>3 DEF WipedFirst
  <1> QED BY <1>1, <1>2, <1>3, InductiveHolds, PTL DEF Spec, OverwrittenBeforeUnlinked

-----------------------------------------------------------------------------
(***************************************************************************)
(* The list.                                                               *)
(***************************************************************************)
\* With names that are sequences, and no empty file name, metadata_list shows a
\* user exactly the files that metadata_load accepts from the same user,
\* although user names may contain the separator (metadata.c:270).
THEOREM ListShowsWhatLoads ==
  ASSUME NEW Token, User \subseteq Seq(Token), Name \subseteq Seq(Token) \ {<<>>},
         Separator \in Seq(Token)
  PROVE  Spec => []ListShowsLoadable
  <1>1. ASSUME NEW u \in User, NEW n \in Name
        PROVE  IsStrictPrefix(u \o Separator, MetaPath(u, n))
    <2> DEFINE s == u \o Separator
    <2>1. s \in Seq(Token) /\ n \in Seq(Token) /\ n # <<>>
      OBVIOUS
    <2> HIDE DEF s
    <2>2. Len(n) > 0
      BY <2>1
    <2>3. IsStrictPrefix(s, s \o n)
      BY <2>1, <2>2 DEF IsStrictPrefix, IsPrefix
    <2> QED BY <2>3 DEF s, MetaPath
  <1>2. Inductive => ListShowsLoadable
    <2> SUFFICES ASSUME Inductive, NEW u \in User
                 PROVE  Listing(u) = {n \in Name : Loadable(u, n)}
      BY DEF ListShowsLoadable
    <2>1. ASSUME NEW m \in MetaPaths, meta[m] # Absent, meta[m].form = "whole",
                 meta[m].owner = u
          PROVE  meta[m].name \in Name /\ Loadable(u, meta[m].name)
      <3>1. m = MetaPath(u, meta[m].name) /\ meta[m].name \in Name
        BY <2>1 DEF Inductive, Bookkeeping, RecordsIssued, TypeOK, MetaRecord
      <3> QED BY <2>1, <3>1 DEF Loadable, Loads
    <2>2. ASSUME NEW n \in Name, Loadable(u, n) PROVE n \in Listing(u)
      <3>1. MetaPath(u, n) \in MetaPaths
        BY DEF MetaPaths
      <3> QED BY <1>1, <2>2, <3>1 DEF Listing, Loadable, Loads
    <2> QED BY <2>1, <2>2 DEF Listing
  <1> QED BY <1>2, InductiveHolds, PTL

-----------------------------------------------------------------------------
(***************************************************************************)
(* The users' own files, for processes that work on different ones.        *)
(***************************************************************************)
\* A plain file changes only at the path of the call that takes the step.
LEMMA FilesWhere ==
  ASSUME TypeOK, NEW p \in Proc, StepOf(p), NEW path \in Path, files'[path] # files[path]
  PROVE  /\ path = op[p].path
         /\ \/ /\ op[p].step = "enc_wipe"
               /\ files[path] # Absent /\ files'[path].form # "text"
            \/ op[p].step = "enc_unlink" /\ files'[path] = Absent
            \/ /\ op[p].step = "dec_open"
               /\ files[path] = Absent /\ files'[path].form # "text"
            \/ op[p].step = "dec_write" /\ op[p].linked
  <1> files \in [Path -> Content \cup {Absent}]
    BY DEF TypeOK
  <1>1. CASE EncryptWipe(p)
    <2>1. PICK form \in {"zeros", "torn"} :
             files[op[p].path] # Absent /\ files' = [files EXCEPT ![op[p].path].form = form]
      BY <1>1 DEF EncryptWipe
    <2>2. op[p].step = "enc_wipe" /\ path = op[p].path
      BY <1>1, <2>1 DEF EncryptWipe
    <2>3. files'[path] = [files[path] EXCEPT !.form = form]
      BY <2>1, <2>2
    <2> QED BY <2>1, <2>2, <2>3 DEF Content
  <1>2. CASE EncryptUnlink(p)
    BY <1>2 DEF EncryptUnlink
  <1>3. CASE DecryptOpen(p)
    BY <1>3 DEF DecryptOpen
  <1>4. CASE DecryptWrite(p)
    BY <1>4 DEF DecryptWrite
  <1>5. CASE UNCHANGED files
    BY <1>5
  <1> QED
    BY <1>1, <1>2, <1>3, <1>4, <1>5
       DEF StepOf, Encrypt, EncryptStart, EncryptRead, EncryptCreate, EncryptWrite,
           EncryptMeta, EncryptRecord, EncryptDrop, EncryptUndo, Decrypt, DecryptStart,
           DecryptLoad, DecryptRead, Delete, DeleteStart, DeleteLoad, DeleteWipe,
           DeleteUnlink, DeleteRecord, List, Crash, Begin, disk

\* A process gains an open output file only by its own step.
LEMMA LinkedBefore ==
  ASSUME TypeOK, NEW p \in Proc, StepOf(p), NEW q \in Proc, q # p, op'[q].linked
  PROVE  op[q].linked
  <1>1. CASE EncryptUnlink(p)
    <2>1. op'[q] \in {op[q], [op[q] EXCEPT !.linked = FALSE]} /\ op[q] \in Call
      BY <1>1 DEF EncryptUnlink, TypeOK
    <2> QED BY <2>1 DEF Call
  <1>2. CASE \E o : op' = [op EXCEPT ![p] = o]
    BY <1>2 DEF TypeOK
  <1>3. CASE op' = op
    BY <1>3
  <1> QED
    BY <1>1, <1>2, <1>3
       DEF StepOf, Encrypt, EncryptStart, EncryptRead, EncryptCreate, EncryptWrite,
           EncryptMeta, EncryptRecord, EncryptDrop, EncryptUndo, EncryptWipe, Decrypt,
           DecryptStart, DecryptLoad, DecryptRead, DecryptOpen, DecryptWrite, Delete,
           DeleteStart, DeleteLoad, DeleteWipe, DeleteUnlink, DeleteRecord, List,
           Crash, Begin, Continue, Return

\* Processes that share no plain file leave each other's originals and output
\* files alone, and an encryption destroys nothing before it is kept.
LEMMA OwnFilesStep ==
  ASSUME FilesApart, Inductive, WorksForItsUser, OwnFiles, NEW p \in Proc, StepOf(p)
  PROVE  OwnFiles'
  <1> /\ TypeOK /\ SealersOwnTheirIds /\ DeletersDoomTheirIds
      /\ \A q \in Proc : op[q].gone => op[q].step = "del_record"
    BY DEF Inductive, Bookkeeping, DeletersDoomTheirIds
  <1>1. ASSUME NEW q \in Proc, q # p,
               op[q].step \in (EncryptSteps \ {"enc_read"}) \cup {"dec_write"}
        PROVE  files'[op[q].path] = files[op[q].path]
    <2>1. SUFFICES ASSUME files'[op[q].path] # files[op[q].path] PROVE FALSE
      OBVIOUS
    <2>2. op[q].path \in Path /\ op[q].path \in Touches(q)
      <3>1. op[q].step \in EncryptSteps \cup DecryptSteps /\ op[q].step # "idle"
        BY <1>1 DEF EncryptSteps, DecryptSteps
      <3> QED BY <3>1, CallKnown DEF WorksForItsUser
    <2>3. /\ op[p].path = op[q].path
          /\ op[p].step \in {"enc_wipe", "enc_unlink", "dec_open", "dec_write"}
      BY <2>1, <2>2, FilesWhere
    <2>4. op[p].path \in Touches(p)
      BY <2>3 DEF WorksForItsUser, EncryptSteps, DecryptSteps
    <2> QED BY <1>1, <2>2, <2>3, <2>4 DEF FilesApart
  <1>2. ASSUME NEW id \in FileId, issued[id] # Absent, issued[id].fate \in {"kept", "doomed"}
        PROVE  issued'[id] # Absent /\ issued'[id].fate \in {"kept", "doomed"}
    BY <1>2, IssuedChange DEF SealersOwnTheirIds
  <1>3. ASSUME NEW q \in Proc, op[q].step \in Destroying
        PROVE  /\ op[q].id \in FileId /\ issued'[op[q].id] # Absent
               /\ issued'[op[q].id].fate \in {"kept", "doomed"}
    BY <1>2, <1>3, CallKnown DEF OwnFiles, Destroying, HoldsId, EncryptSteps
  <1>4. ASSUME NEW q \in Proc, op'[q].step \in EncryptSteps \ {"enc_read"}
        PROVE  \/ files'[op'[q].path] = op'[q].plain
               \/ /\ op'[q].step = "enc_unlink"
                  /\ files'[op'[q].path] = Absent \/ files'[op'[q].path].form # "text"
    <2>1. CASE q # p
      <3>1. /\ op'[q].step = op[q].step /\ op'[q].path = op[q].path
            /\ op'[q].plain = op[q].plain
        BY <2>1, OthersWait
      <3>2. files'[op[q].path] = files[op[q].path]
        BY <1>1, <1>4, <2>1, <3>1
      <3> QED BY <1>4, <3>1, <3>2 DEF OwnFiles, NoTextAt
    <2>2. CASE q = p
      <3>1. Encrypt(p) /\ op'[p].step # "idle" /\ op'[p].step # "enc_read"
        <4>1. ~Delete(p) /\ ~Decrypt(p)
          BY <1>4, <2>2, DeleteCalls, DecryptCalls DEF DecryptSteps, EncryptSteps
        <4>2. ~(\E u \in User : List(p, u)) /\ ~Crash(p)
          BY <1>4, <2>2, IdleAtReturn DEF List, Crash, EncryptSteps
        <4> QED BY <1>4, <2>2, <4>1, <4>2 DEF StepOf, EncryptSteps
      <3>2. CASE op[p].step = "enc_read"
        BY <2>2, <3>1, <3>2, EncryptCalls
      <3>3. CASE op[p].step # "enc_read"
        <4>1. /\ op'[p].path = op[p].path /\ op'[p].plain = op[p].plain
              /\ op[p].step \in EncryptSteps \ {"enc_read"}
              /\ op[p].step = "enc_wipe" => op'[p].step = "enc_unlink"
              /\ op[p].step # "enc_unlink"
          BY <3>1, <3>3, EncryptCalls DEF EncryptSteps
        <4>2. files[op[p].path] = op[p].plain /\ op[p].path \in Path
          BY <4>1, CallKnown DEF OwnFiles, EncryptSteps
        <4>3. \/ files'[op[p].path] = files[op[p].path]
              \/ op[p].step = "enc_wipe" /\ files'[op[p].path].form # "text"
          BY <4>1, <4>2, FilesWhere DEF EncryptSteps
        <4> QED BY <2>2, <4>1, <4>2, <4>3
      <3> QED BY <3>2, <3>3
    <2> QED BY <2>1, <2>2
  <1>5. ASSUME NEW q \in Proc, op'[q].step \in Destroying
        PROVE  issued'[op'[q].id] # Absent /\ issued'[op'[q].id].fate \in {"kept", "doomed"}
    <2>1. CASE q # p
      BY <1>3, <1>5, <2>1, OthersWait
    <2>2. CASE q = p
      <3>1. /\ op'[p].id = op[p].id
            /\ \/ EncryptRecord(p) /\ op[p].step = "enc_record" /\ op'[p].step = "enc_wipe"
               \/ op[p].step \in Destroying
        <4>1. ~Delete(p) /\ ~Decrypt(p)
          BY <1>5, <2>2, DeleteCalls, DecryptCalls DEF DecryptSteps, Destroying
        <4>2. ~(\E u \in User : List(p, u)) /\ ~Crash(p)
          BY <1>5, <2>2, IdleAtReturn DEF List, Crash, Destroying
        <4>3. Encrypt(p) /\ op'[p].step \in {"enc_wipe", "enc_unlink"}
          BY <1>5, <2>2, <4>1, <4>2 DEF StepOf, Destroying
        <4> QED BY <4>3, EncryptCalls DEF Destroying
      <3>2. CASE EncryptRecord(p) /\ op[p].step = "enc_record" /\ op'[p].step = "enc_wipe"
        <4>1. op[p].id \in FileId /\ issued[op[p].id] \in Issue /\ op[p] \in Call
          BY <3>2, CallKnown DEF SealersOwnTheirIds, Sealing, DrawnFor, HoldsId,
             EncryptSteps, TypeOK
        <4>2. ~Continue(p, [op[p] EXCEPT !.step = "enc_drop"])
          <5> SUFFICES ASSUME Continue(p, [op[p] EXCEPT !.step = "enc_drop"]) PROVE FALSE
            OBVIOUS
          <5>1. op'[p] = [op[p] EXCEPT !.step = "enc_drop"]
            BY DEF Continue, TypeOK
          <5> QED BY <3>2, <4>1, <5>1 DEF Call
        <4>3. issued' = [issued EXCEPT ![op[p].id].fate = "kept"]
          BY <3>2, <4>2 DEF EncryptRecord, SetFate
        <4>4. issued'[op[p].id] = [issued[op[p].id] EXCEPT !.fate = "kept"]
          BY <4>1, <4>3 DEF TypeOK
        <4>5. issued'[op[p].id] \in Issue /\ issued'[op[p].id].fate = "kept"
          BY <4>1, <4>4 DEF Issue, Fate
        <4> QED BY <2>2, <3>1, <4>5, AbsentAssumption
      <3> QED BY <1>3, <2>2, <3>1, <3>2
    <2> QED BY <2>1, <2>2
  <1>6. ASSUME NEW q \in Proc, op'[q].step = "dec_write", op'[q].linked
        PROVE  files'[op'[q].path] = Absent \/ files'[op'[q].path].form # "text"
    <2>1. CASE q # p
      <3>1. op[q].step = "dec_write" /\ op[q].linked /\ op'[q].path = op[q].path
        BY <1>6, <2>1, OthersWait, LinkedBefore
      <3> QED BY <1>1, <2>1, <3>1 DEF OwnFiles, NoTextAt
    <2>2. CASE q = p
      <3>1. \/ DecryptLoad(p) \/ DecryptRead(p) \/ DecryptOpen(p)
        BY <1>6, <2>2, ActionOfStep DEF DecryptSteps
      <3>2. Decrypt(p) /\ op'[p].step # "idle"
        BY <1>6, <2>2, <3>1 DEF Decrypt
      <3>3. op[p].path \in Path /\ op'[p].path = op[p].path /\ op[p] \in Call
        BY <3>1, <3>2, <1>6, <2>2, DecryptCalls, CallKnown DEF DecryptSteps
      <3>4. ~Return(p, "failure")
        BY <3>2, IdleAtReturn DEF Return
      <3>5. CASE DecryptLoad(p) \/ DecryptRead(p)
        <4>1. PICK o \in {[op[p] EXCEPT !.step = "dec_read", !.id = meta[MetaPath(op[p].user, op[p].name)].id],
                          [op[p] EXCEPT !.step = "dec_open", !.plain = store[op[p].id].plain]} :
                 op' = [op EXCEPT ![p] = o]
          BY <3>4, <3>5 DEF DecryptLoad, DecryptRead, Continue
        <4>2. op'[p] = o
          BY <4>1 DEF TypeOK
        <4>3. o.step \in {"dec_read", "dec_open"}
          BY <3>3, <4>1 DEF Call
        <4> QED BY <1>6, <2>2, <4>2, <4>3
      <3>6. CASE DecryptOpen(p)
        <4>1. files' = [files EXCEPT ![op[p].path] =
                 [data |-> op[p].plain.data, form |-> "torn"]]
          BY <3>4, <3>6 DEF DecryptOpen
        <4> QED BY <2>2, <3>3, <4>1 DEF TypeOK
      <3> QED BY <3>1, <3>5, <3>6
    <2> QED BY <2>1, <2>2
  <1> QED BY <1>4, <1>5, <1>6 DEF OwnFiles, NoTextAt

\* With room for the header, processes that share no record path and no plain
\* file, nothing lost at fclose and no other program editing the files, a saved
\* text is destroyed only by an encryption that read exactly this text and can
\* give it back, or whose owner has asked for its deletion (fileops.c:301).
THEOREM TextSavedBeforeDestroyed ==
  ASSUME NamesApart, FilesApart, RoomForHeader, "flush" \notin Faults,
         "edit" \notin Faults
  PROVE  Spec => TextDestroyedOnlyWhenSaved
  <1> DEFINE A == \A path \in Path :
        (/\ files[path] # Absent /\ files[path].form = "text"
         /\ files'[path] # files[path]) =>
            \E p \in Proc :
                /\ op[p].step \in Destroying
                /\ op[p].path = path /\ op[p].plain = files[path]
                /\ issued[op[p].id].fate = "doomed" \/ Retrievable(op[p].id)
  <1>1. Init => OwnFiles
    BY DEF Init, OwnFiles, Rest, EncryptSteps, Destroying
  <1>2. [Next]_vars => (\E p \in Proc : StepOf(p)) \/ UNCHANGED vars
    BY DEF Next, Edit, StepOf
  <1>3. Inductive /\ OwnRecords /\ OwnFiles /\ [Next]_vars => OwnFiles'
    <2>1. ASSUME OwnFiles, UNCHANGED vars PROVE OwnFiles'
      BY <2>1 DEF OwnFiles, NoTextAt, vars
    <2> QED BY <1>2, <2>1, OwnFilesStep DEF OwnRecords
  <1>4. Inductive /\ OwnFiles /\ KeptIsRetrievable /\ [Next]_vars => [A]_vars
    <2> SUFFICES ASSUME Inductive, OwnFiles, KeptIsRetrievable, [Next]_vars,
                        NEW path \in Path, files[path] # Absent,
                        files[path].form = "text", files'[path] # files[path]
                 PROVE  \E p \in Proc :
                          /\ op[p].step \in Destroying
                          /\ op[p].path = path /\ op[p].plain = files[path]
                          /\ issued[op[p].id].fate = "doomed" \/ Retrievable(op[p].id)
      OBVIOUS
    <2> TypeOK
      BY DEF Inductive
    <2>1. PICK p \in Proc : StepOf(p)
      BY <1>2 DEF vars
    <2>2. path = op[p].path /\ op[p].step \in Destroying
      BY <2>1, FilesWhere DEF OwnFiles, NoTextAt, Destroying
    <2>3. op[p].plain = files[path]
      BY <2>2 DEF OwnFiles, NoTextAt, Destroying, EncryptSteps
    <2>4. /\ op[p].id \in FileId /\ issued[op[p].id] # Absent
          /\ issued[op[p].id].fate \in {"kept", "doomed"}
      BY <2>2, CallKnown DEF OwnFiles, Destroying, HoldsId, EncryptSteps
    <2>5. issued[op[p].id].fate = "kept" => Retrievable(op[p].id)
      BY <2>4 DEF KeptIsRetrievable
    <2> QED BY <2>2, <2>3, <2>4, <2>5
  <1> QED
    BY <1>1, <1>3, <1>4, OwnRecordsHold, KeptStaysRetrievable, PTL
       DEF Spec, TextDestroyedOnlyWhenSaved
-----------------------------------------------------------------------------
(***************************************************************************)
(* The original, once its encryption succeeds.                             *)
(***************************************************************************)
\* Nobody else touches the original of an encryption.
LEMMA OriginalsApart ==
  ASSUME FilesApart, TypeOK, WorksForItsUser, NEW p \in Proc, StepOf(p),
         NEW q \in Proc, q # p, op[q].step \in EncryptSteps \ {"enc_read"}
  PROVE  files'[op[q].path] = files[op[q].path]
  <1>1. op[q].path \in Path /\ op[q].path \in Touches(q)
    <2>1. op[q].step \in EncryptSteps \cup DecryptSteps /\ op[q].step # "idle"
      BY DEF EncryptSteps
    <2> QED BY <2>1, CallKnown DEF WorksForItsUser
  <1>2. SUFFICES ASSUME files'[op[q].path] # files[op[q].path] PROVE FALSE
    OBVIOUS
  <1>3. /\ op[p].path = op[q].path
        /\ op[p].step \in {"enc_wipe", "enc_unlink", "dec_open", "dec_write"}
    BY <1>1, <1>2, FilesWhere
  <1>4. op[p].path \in Touches(p)
    BY <1>3 DEF WorksForItsUser, EncryptSteps, DecryptSteps
  <1> QED BY <1>1, <1>3, <1>4 DEF FilesApart

\* What overwrite_with_zeros leaves, unless it fails: no text.
LEMMA Wiped ==
  ASSUME TypeOK, NEW p \in Proc, EncryptWipe(p), "zero" \notin Faults
  PROVE  files'[op[p].path] = Absent \/ files'[op[p].path].form # "text"
  <1>1. op[p].path \in Path /\ op[p].step = "enc_wipe"
    BY CallKnown DEF EncryptWipe, EncryptSteps
  <1>2. CASE files[op[p].path] # Absent
    <2>1. files' = [files EXCEPT ![op[p].path].form = "zeros"]
      BY <1>2 DEF EncryptWipe
    <2>2. /\ files'[op[p].path] = [files[op[p].path] EXCEPT !.form = "zeros"]
          /\ files[op[p].path] \in Content
      BY <1>1, <1>2, <2>1 DEF TypeOK
    <2> QED BY <2>2 DEF Content
  <1>3. CASE files[op[p].path] = Absent
    BY <1>3 DEF EncryptWipe
  <1> QED BY <1>2, <1>3

\* A step that leaves its process in an encryption that has read its original.
LEMMA OriginalOfStep ==
  ASSUME TypeOK, NEW p \in Proc, StepOf(p), op'[p].step \in EncryptSteps \ {"enc_read"}
  PROVE  \/ op'[p].step = "enc_create" /\ op'[p].opened = op'[p].path
         \/ /\ op[p].step \in EncryptSteps \ {"enc_read"} /\ op'[p].path = op[p].path
            /\ op'[p].opened = op[p].opened
            /\ op'[p].step = "enc_unlink" => EncryptWipe(p)
  <1>1. Encrypt(p) /\ op'[p].step # "idle" /\ op'[p].step # "enc_read"
    <2>1. ~Delete(p) /\ ~Decrypt(p)
      BY DeleteCalls, DecryptCalls DEF DecryptSteps, EncryptSteps
    <2>2. ~(\E u \in User : List(p, u)) /\ ~Crash(p)
      BY IdleAtReturn DEF List, Crash, EncryptSteps
    <2> QED BY <2>1, <2>2 DEF StepOf, EncryptSteps
  <1> QED BY <1>1, EncryptCalls DEF EncryptSteps

\* An encryption destroys under the path it has read from.
LEMMA DestroysStep ==
  ASSUME TypeOK, DestroysWhatItRead, NEW p \in Proc, StepOf(p)
  PROVE  DestroysWhatItRead'
  <1>1. ASSUME NEW q \in Proc, q # p, op'[q].step \in EncryptSteps \ {"enc_read"}
        PROVE  op'[q].opened = op'[q].path
    BY <1>1, OthersWait DEF DestroysWhatItRead
  <1>2. ASSUME op'[p].step \in EncryptSteps \ {"enc_read"}
        PROVE  op'[p].opened = op'[p].path
    BY <1>2, OriginalOfStep DEF DestroysWhatItRead
  <1> QED BY <1>1, <1>2 DEF DestroysWhatItRead

\* If overwrite_with_zeros works, and nobody else touches the original, it has
\* been overwritten before it is unlinked.
LEMMA OriginalsWipedStep ==
  ASSUME FilesApart, TypeOK, WorksForItsUser, OriginalsWiped,
         "zero" \notin Faults, NEW p \in Proc, StepOf(p)
  PROVE  OriginalsWiped'
  <1> USE DEF OriginalsWiped, NoTextAt
  <1>1. ASSUME NEW q \in Proc, q # p, op'[q].step = "enc_unlink"
        PROVE  files'[op'[q].path] = Absent \/ files'[op'[q].path].form # "text"
    <2>1. op[q].step = "enc_unlink" /\ op'[q].path = op[q].path
      BY <1>1, OthersWait
    <2> QED BY <1>1, <2>1, OriginalsApart DEF EncryptSteps
  <1>2. ASSUME op'[p].step = "enc_unlink"
        PROVE  files'[op'[p].path] = Absent \/ files'[op'[p].path].form # "text"
    <2>1. EncryptWipe(p) /\ op'[p].path = op[p].path
      BY <1>2, OriginalOfStep DEF EncryptSteps
    <2> QED BY <2>1, Wiped
  <1> QED BY <1>1, <1>2

\* If remove() works, or if overwrite_with_zeros does, the processes share no
\* plain file and no other program edits the files, an encryption that returns
\* success leaves the file it has read, under the typed path or the decomposed
\* one, without readable text (fileops.c:301-303).
THEOREM NothingReadableLeft ==
  ASSUME "remove" \notin Faults \/ (FilesApart /\ {"zero", "edit"} \cap Faults = {})
  PROVE  Spec => NoReadableCopy
  <1> DEFINE A == \A p \in Proc :
        (op[p].step = "enc_unlink" /\ op'[p].step = "idle"
           /\ result'[p] = "success") =>
            LET f == files'[op[p].opened] IN f = Absent \/ f.form # "text"
             Safe == FilesApart /\ {"zero", "edit"} \cap Faults = {}
             Inv == WorksForItsUser /\ DestroysWhatItRead /\ (Safe => OriginalsWiped)
  <1>1. Init => Inv
    BY DEF Init, WorksForItsUser, DestroysWhatItRead, OriginalsWiped, Rest,
           EncryptSteps, DecryptSteps
  <1>2. Inductive /\ Inv /\ [Next]_vars => Inv'
    <2> SUFFICES ASSUME Inductive, Inv, [Next]_vars PROVE Inv'
      OBVIOUS
    <2> TypeOK
      BY DEF Inductive
    <2>1. ASSUME NEW p \in Proc, StepOf(p) PROVE Inv'
      BY <2>1, WorksStep, DestroysStep, OriginalsWipedStep
    <2>2. ASSUME NEW path \in Path, NEW d \in Data, Edit(path, d) PROVE Inv'
      <3>1. op' = op /\ ~Safe
        BY <2>2 DEF Edit
      <3> QED BY <3>1 DEF WorksForItsUser, DestroysWhatItRead
    <2>3. CASE UNCHANGED vars
      BY <2>3 DEF vars, WorksForItsUser, DestroysWhatItRead, OriginalsWiped, NoTextAt
    <2> QED BY <2>1, <2>2, <2>3 DEF Next, StepOf
  <1>3. Inductive /\ Inv /\ [Next]_vars => [A]_vars
    <2> SUFFICES ASSUME Inductive, Inv, Next, NEW p \in Proc,
                        op[p].step = "enc_unlink", op'[p].step = "idle",
                        result'[p] = "success"
                 PROVE  files'[op[p].opened] = Absent \/ files'[op[p].opened].form # "text"
      OBVIOUS
    <2> TypeOK
      BY DEF Inductive
    <2>1. EncryptUnlink(p)
      <3>1. PICK q \in Proc : StepOf(q)
        BY DEF Next, Edit, StepOf
      <3>2. q = p
        BY <3>1, OthersWait
      <3>3. ~Crash(p)
        BY DEF Crash, TypeOK
      <3> QED
        BY <3>1, <3>2, <3>3
           DEF StepOf, Encrypt, EncryptStart, EncryptRead, EncryptCreate, EncryptWrite,
               EncryptMeta, EncryptRecord, EncryptDrop, EncryptUndo, EncryptWipe, Decrypt,
               DecryptStart, DecryptLoad, DecryptRead, DecryptOpen, DecryptWrite, Delete,
               DeleteStart, DeleteLoad, DeleteWipe, DeleteUnlink, DeleteRecord, List, Begin
    <2>2. op[p].path \in Path /\ op[p].opened = op[p].path
      BY CallKnown DEF DestroysWhatItRead, EncryptSteps
    <2>3. \/ files'[op[p].path] = Absent
          \/ "remove" \in Faults /\ files'[op[p].path] = files[op[p].path]
      BY <2>1, <2>2 DEF EncryptUnlink, TypeOK
    <2> QED BY <2>2, <2>3 DEF OriginalsWiped, NoTextAt
  <1> QED BY <1>1, <1>2, <1>3, InductiveHolds, PTL DEF Spec, NoReadableCopy
=============================================================================
