---------------------------- MODULE VaultProofs ----------------------------
(***************************************************************************)
(* Proofs about Vault, for every number of processes, users, names, files  *)
(* and ids, and every set of faults.                                       *)
(***************************************************************************)
EXTENDS VaultInv, TLAPS

\* The inductive invariant.
Inductive == TypeOK /\ Bookkeeping

\* The initial states are typed and their bookkeeping is in order.
LEMMA InitInductive == Init => Inductive
  <1> SUFFICES ASSUME Init PROVE Inductive
    OBVIOUS
  <1> USE VaultAssumption, AbsentAssumption
  <1>1. \A p \in Proc : op[p] = Rest
    BY DEF Init
  <1>2. TypeOK
    BY DEF Init, TypeOK, Rest, Call, Steps, WellFormed, EncryptSteps, DecryptSteps,
           DeleteSteps, HoldsId, HoldsPlain, Outcome, Content, Text
  <1>3. Bookkeeping
    BY <1>1 DEF Init, Rest, Bookkeeping, SealersOwnTheirIds, SealersUnrecorded,
           StoreIssued, RecordsIssued, DecryptersFaithful, DeletersDoomTheirIds,
           FailedEncryptLeavesNothing, Sealing, DecryptSteps, DeleteSteps
  <1> QED BY <1>2, <1>3 DEF Inductive

-----------------------------------------------------------------------------
(***************************************************************************)
(* Types.  An action replaces the call of one process and sets one place   *)
(* of one or two of the other functions.                                   *)
(***************************************************************************)
CallOK(o) == o \in Call /\ WellFormed(o)

\* Replacing one call by a well-formed one keeps all calls typed.
LEMMA CallReplaced ==
  ASSUME TypeOK, NEW p \in Proc, NEW o, CallOK(o), op' = [op EXCEPT ![p] = o]
  PROVE  op' \in [Proc -> Call] /\ \A q \in Proc : WellFormed(op'[q])
  BY DEF TypeOK, CallOK

\* The idle call is well formed.
LEMMA RestOK == CallOK(Rest)
  BY DEF CallOK, Rest, Call, WellFormed, Steps, EncryptSteps, DecryptSteps,
         DeleteSteps, HoldsId, HoldsPlain

\* A call that returns, whatever else its action does.
LEMMA ReturnTyped ==
  ASSUME TypeOK, NEW p \in Proc, NEW outcome \in Outcome, Return(p, outcome)
  PROVE  /\ op' \in [Proc -> Call] /\ \A q \in Proc : WellFormed(op'[q])
         /\ result' \in [Proc -> Outcome]
  BY RestOK, CallReplaced DEF Return, TypeOK

\* What a process knows of its own call at the steps after the first.
LEMMA CallKnown ==
  ASSUME TypeOK, NEW p \in Proc, op[p].step # "idle"
  PROVE  /\ op[p] \in Call /\ WellFormed(op[p])
         /\ op[p].user \in User /\ op[p].name \in Name
         /\ MetaPath(op[p].user, op[p].name) \in MetaPaths
         /\ op[p].step \in EncryptSteps \cup DecryptSteps => op[p].path \in Path
         /\ op[p].step \in HoldsId => op[p].id \in FileId
         /\ op[p].step \in HoldsPlain => op[p].plain \in Content
  BY DEF TypeOK, WellFormed, MetaPaths

\* The fallback to the decomposed name yields a path.
LEMMA OpeningsTyped ==
  ASSUME TypeOK, NEW path \in Path, NEW found \in Openings(path)
  PROVE  found \in Path
  BY VaultAssumption DEF Openings, Resolve, TypeOK

\* Overwriting or tearing a plain file keeps the files typed.
LEMMA FilesForm ==
  ASSUME TypeOK, NEW path \in Path, files[path] # Absent,
         NEW form \in {"text", "zeros", "torn"}
  PROVE  [files EXCEPT ![path].form = form] \in [Path -> Content \cup {Absent}]
  BY DEF TypeOK, Content

\* Completing, overwriting or tearing a storage file keeps the store typed.
LEMMA StoreForm ==
  ASSUME TypeOK, NEW id \in FileId, store[id] # Absent,
         NEW form \in {"whole", "zeros", "torn"}
  PROVE  [store EXCEPT ![id].form = form] \in [FileId -> StoreFile \cup {Absent}]
  BY DEF TypeOK, StoreFile

\* Recording the fate of a drawn id keeps the history typed.
LEMMA FateTyped ==
  ASSUME TypeOK, NEW id \in FileId, issued[id] # Absent, NEW fate \in Fate,
         SetFate(id, fate)
  PROVE  issued' \in [FileId -> Issue \cup {Absent}]
  BY DEF TypeOK, Issue, SetFate

\* The record that metadata_load accepts, as a place in the model.
LEMMA LoadedTyped ==
  ASSUME TypeOK, NEW u \in User, NEW n \in Name, Loadable(u, n)
  PROVE  /\ MetaPath(u, n) \in MetaPaths
         /\ meta[MetaPath(u, n)] \in MetaRecord
         /\ meta[MetaPath(u, n)].id \in FileId
  BY DEF Loadable, Loads, MetaPaths, TypeOK, MetaRecord

-----------------------------------------------------------------------------
\* Every step of an encryption leads to a typed state.
LEMMA EncryptTyped ==
  ASSUME Inductive, NEW p \in Proc, Encrypt(p)
  PROVE  TypeOK'
  <1> TypeOK /\ SealersOwnTheirIds
    BY DEF Inductive, Bookkeeping
  <1> USE DEF CallOK, Call, WellFormed, Steps, EncryptSteps, DecryptSteps,
              DeleteSteps, HoldsId, HoldsPlain
  <1>1. ASSUME NEW u \in User, NEW path \in Path, EncryptStart(p, u, path)
        PROVE  TypeOK'
    <2>1. CallOK([Rest EXCEPT !.step = "enc_read", !.user = u,
                              !.name = BaseName[path], !.path = path])
      BY VaultAssumption DEF Rest
    <2> QED BY <1>1, <2>1, CallReplaced DEF EncryptStart, Begin, TypeOK
  <1>2. ASSUME EncryptRead(p) PROVE TypeOK'
    <2>1. op[p].step = "enc_read" /\ op[p].path \in Path /\ op[p] \in Call
      BY <1>2, CallKnown DEF EncryptRead
    <2>2. ASSUME NEW found \in Openings(op[p].path), Fits(files[found]),
                 Continue(p, [op[p] EXCEPT !.step = "enc_create", !.path = found,
                                           !.plain = files[found], !.opened = found])
          PROVE  TypeOK'
      <3>1. found \in Path
        BY <2>1, <2>2, OpeningsTyped
      <3>2. files[found] \in Content
        BY <2>2, <3>1 DEF Fits, TypeOK
      <3>3. CallOK([op[p] EXCEPT !.step = "enc_create", !.path = found,
                                 !.plain = files[found], !.opened = found])
        BY <1>2, <2>1, <3>1, <3>2, CallKnown DEF EncryptRead
      <3> QED BY <1>2, <2>2, <3>3, CallReplaced DEF EncryptRead, Continue, TypeOK, disk
    <2>3. CASE Return(p, "failure")
      BY <1>2, <2>3, ReturnTyped DEF EncryptRead, TypeOK, disk, Outcome
    <2> QED BY <1>2, <2>2, <2>3 DEF EncryptRead
  <1>3. ASSUME EncryptCreate(p) PROVE TypeOK'
    <2>1. /\ op[p].step = "enc_create" /\ op[p] \in Call /\ op[p].path \in Path
          /\ op[p].user \in User /\ op[p].name \in Name /\ op[p].plain \in Content
      BY <1>3, CallKnown DEF EncryptCreate
    <2>2. CASE Return(p, "failure") /\ UNCHANGED <<store, issued>>
      BY <1>3, <2>2, ReturnTyped DEF EncryptCreate, TypeOK, Outcome
    <2>3. ASSUME NEW id \in FileId,
                 issued' = [issued EXCEPT ![id] =
                    [owner |-> op[p].user, name |-> op[p].name,
                     plain |-> op[p].plain, fate |-> "writing"]],
                 store' = [store EXCEPT ![id] =
                    [key |-> op[p].user, plain |-> op[p].plain, form |-> "torn"]],
                 Continue(p, [op[p] EXCEPT !.step = "enc_write", !.id = id])
          PROVE  TypeOK'
      <3>1. CallOK([op[p] EXCEPT !.step = "enc_write", !.id = id])
        BY <2>1
      <3>2. issued' \in [FileId -> Issue \cup {Absent}]
        BY <2>1, <2>3 DEF Issue, Fate, TypeOK
      <3>3. store' \in [FileId -> StoreFile \cup {Absent}]
        BY <2>1, <2>3 DEF StoreFile, TypeOK
      <3> QED BY <1>3, <2>3, <3>1, <3>2, <3>3, CallReplaced
              DEF EncryptCreate, Continue, TypeOK
    <2> QED BY <1>3, <2>2, <2>3 DEF EncryptCreate
  <1>4. ASSUME NEW s \in {"enc_meta", "enc_record", "enc_drop", "enc_undo",
                          "enc_wipe", "enc_unlink"},
               op[p].step \in {"enc_write", "enc_meta", "enc_record", "enc_drop",
                               "enc_wipe"},
               Continue(p, [op[p] EXCEPT !.step = s])
        PROVE  /\ op' \in [Proc -> Call] /\ \A q \in Proc : WellFormed(op'[q])
               /\ result' \in [Proc -> Outcome]
    <2>1. CallOK([op[p] EXCEPT !.step = s])
      BY <1>4, CallKnown
    <2> QED BY <1>4, <2>1, CallReplaced DEF Continue, TypeOK
  <1>5. ASSUME op[p].step \in Sealing
        PROVE  op[p].id \in FileId /\ store[op[p].id] # Absent /\ issued[op[p].id] # Absent
    BY <1>5, CallKnown DEF Sealing, SealersOwnTheirIds, DrawnFor
  <1>6. ASSUME EncryptWrite(p) PROVE TypeOK'
    <2> op[p].step = "enc_write" /\ op[p].id \in FileId /\ store[op[p].id] # Absent
      BY <1>5, <1>6 DEF EncryptWrite, Sealing
    <2>1. store' \in [FileId -> StoreFile \cup {Absent}]
      <3>1. [store EXCEPT ![op[p].id].form = "whole"] \in [FileId -> StoreFile \cup {Absent}]
        BY StoreForm
      <3> QED BY <1>6, <3>1 DEF EncryptWrite, TypeOK
    <2> QED BY <1>4, <1>6, <2>1 DEF EncryptWrite, TypeOK
  <1>7. ASSUME EncryptMeta(p) PROVE TypeOK'
    <2>1. op[p].step = "enc_meta" /\ op[p].user \in User /\ op[p].name \in Name
            /\ MetaPath(op[p].user, op[p].name) \in MetaPaths /\ op[p].id \in FileId
      BY <1>7, CallKnown DEF EncryptMeta
    <2>2. meta' \in [MetaPaths -> MetaRecord \cup {Absent}]
      BY <1>7, <2>1 DEF EncryptMeta, TypeOK, MetaRecord
    <2> QED BY <1>4, <1>7, <2>2 DEF EncryptMeta, TypeOK
  <1>8. ASSUME EncryptRecord(p) PROVE TypeOK'
    <2>1. /\ op[p].step = "enc_record" /\ op[p].id \in FileId
          /\ MetaPath(op[p].user, op[p].name) \in MetaPaths
      BY <1>8, CallKnown DEF EncryptRecord
    <2>2. meta' \in [MetaPaths -> MetaRecord \cup {Absent}]
      <3> DEFINE m == MetaPath(op[p].user, op[p].name)
      <3>1. ASSUME meta[m] # Absent
            PROVE  [meta EXCEPT ![m].form = "whole"] \in [MetaPaths -> MetaRecord \cup {Absent}]
        <4>1. meta[m] \in MetaRecord /\ m \in MetaPaths
          BY <2>1, <3>1 DEF TypeOK
        <4>2. [meta[m] EXCEPT !.form = "whole"] \in MetaRecord
          BY <4>1 DEF MetaRecord
        <4> QED BY <4>1, <4>2 DEF TypeOK
      <3>2. \/ meta[m] # Absent /\ meta' = [meta EXCEPT ![m].form = "whole"]
            \/ meta' = meta
        BY <1>8 DEF EncryptRecord, RecordLinked
      <3> HIDE DEF m
      <3> QED BY <3>1, <3>2 DEF TypeOK
    <2>3. issued' \in [FileId -> Issue \cup {Absent}]
      BY <1>5, <1>8, <2>1, FateTyped DEF EncryptRecord, Sealing, Fate, TypeOK
    <2> QED BY <1>4, <1>8, <2>2, <2>3 DEF EncryptRecord, TypeOK
  <1>9. ASSUME EncryptDrop(p) PROVE TypeOK'
    <2>1. issued' \in [FileId -> Issue \cup {Absent}]
      BY <1>5, <1>9, FateTyped DEF EncryptDrop, Sealing, Fate, TypeOK
    <2> QED BY <1>4, <1>9, <2>1 DEF EncryptDrop, TypeOK
  <1>10. ASSUME EncryptUndo(p) PROVE TypeOK'
    <2>1. issued' \in [FileId -> Issue \cup {Absent}]
      BY <1>5, <1>10, FateTyped DEF EncryptUndo, Sealing, Fate, TypeOK
    <2> QED BY <1>10, <2>1, ReturnTyped DEF EncryptUndo, TypeOK, Outcome
  <1>11. ASSUME EncryptWipe(p) PROVE TypeOK'
    <2>1. op[p].step = "enc_wipe" /\ op[p].path \in Path
      BY <1>11, CallKnown DEF EncryptWipe
    <2>2. files' \in [Path -> Content \cup {Absent}]
      <3>1. ASSUME files[op[p].path] # Absent, NEW form \in {"zeros", "torn"}
            PROVE  [files EXCEPT ![op[p].path].form = form]
                     \in [Path -> Content \cup {Absent}]
        BY <2>1, <3>1, FilesForm
      <3> QED BY <1>11, <3>1 DEF EncryptWipe, TypeOK
    <2> QED BY <1>4, <1>11, <2>2 DEF EncryptWipe, TypeOK
  <1>12. ASSUME EncryptUnlink(p) PROVE TypeOK'
    <2>1. \A q \in Proc : CallOK(op[q])
      BY DEF TypeOK
    <2>2. ASSUME NEW q \in Proc PROVE CallOK([op[q] EXCEPT !.linked = FALSE])
      <3>1. op[q] \in Call /\ WellFormed(op[q])
        BY DEF TypeOK
      <3>2. [op[q] EXCEPT !.linked = FALSE] \in Call
        BY <3>1, ZenonT(40)
      <3> QED BY <3>1, <3>2, ZenonT(40)
    <2> HIDE DEF CallOK
    <2>3. \A q \in Proc : CallOK(op'[q])
      BY <1>12, <2>1, <2>2, RestOK DEF EncryptUnlink, TypeOK
    <2>4. op' \in [Proc -> Call]
      BY <1>12, <2>3 DEF EncryptUnlink, CallOK, TypeOK
    <2> QED BY <1>12, <2>3, <2>4 DEF EncryptUnlink, CallOK, TypeOK, Outcome
  <1> QED BY <1>1, <1>2, <1>3, <1>6, <1>7, <1>8, <1>9, <1>10, <1>11, <1>12 DEF Encrypt

\* Every step of a decryption leads to a typed state.
LEMMA DecryptTyped ==
  ASSUME Inductive, NEW p \in Proc, Decrypt(p)
  PROVE  TypeOK'
  <1> TypeOK
    BY DEF Inductive
  <1> USE DEF CallOK, Call, WellFormed, Steps, EncryptSteps, DecryptSteps,
              DeleteSteps, HoldsId, HoldsPlain
  <1>1. ASSUME NEW u \in User, NEW n \in Name, NEW out \in Path,
               DecryptStart(p, u, n, out)
        PROVE  TypeOK'
    <2>1. CallOK([Rest EXCEPT !.step = "dec_load", !.user = u,
                              !.name = n, !.path = out])
      BY DEF Rest
    <2> QED BY <1>1, <2>1, CallReplaced DEF DecryptStart, Begin, TypeOK
  <1>2. ASSUME NEW o, CallOK(o), Continue(p, o)
        PROVE  /\ op' \in [Proc -> Call] /\ \A q \in Proc : WellFormed(op'[q])
               /\ result' \in [Proc -> Outcome]
    BY <1>2, CallReplaced DEF Continue, TypeOK
  <1>3. ASSUME DecryptLoad(p) PROVE TypeOK'
    <2>1. /\ op[p].step = "dec_load" /\ op[p] \in Call /\ op[p].path \in Path
          /\ op[p].user \in User /\ op[p].name \in Name
      BY <1>3, CallKnown DEF DecryptLoad
    <2> DEFINE id == meta[MetaPath(op[p].user, op[p].name)].id
    <2>2. CASE /\ Loadable(op[p].user, op[p].name)
               /\ Continue(p, [op[p] EXCEPT !.step = "dec_read", !.id = id])
      <3>1. id \in FileId
        BY <2>1, <2>2, LoadedTyped
      <3> HIDE DEF id
      <3>2. CallOK([op[p] EXCEPT !.step = "dec_read", !.id = id])
        BY <2>1, <3>1
      <3> QED BY <1>2, <1>3, <2>2, <3>2 DEF DecryptLoad, TypeOK, disk
    <2>3. CASE Return(p, "failure")
      BY <1>3, <2>3, ReturnTyped DEF DecryptLoad, TypeOK, disk, Outcome
    <2> QED BY <1>3, <2>2, <2>3 DEF DecryptLoad
  <1>4. ASSUME DecryptRead(p) PROVE TypeOK'
    <2>1. /\ op[p].step = "dec_read" /\ op[p] \in Call /\ op[p].path \in Path
          /\ op[p].user \in User /\ op[p].name \in Name /\ op[p].id \in FileId
      BY <1>4, CallKnown DEF DecryptRead
    <2> DEFINE plain == store[op[p].id].plain
    <2>2. CASE /\ Opens(store[op[p].id], op[p].user)
               /\ Continue(p, [op[p] EXCEPT !.step = "dec_open", !.plain = plain])
      <3>1. plain \in Content
        BY <2>1, <2>2 DEF Opens, TypeOK, StoreFile
      <3> HIDE DEF plain
      <3>2. CallOK([op[p] EXCEPT !.step = "dec_open", !.plain = plain])
        BY <2>1, <3>1
      <3> QED BY <1>2, <1>4, <2>2, <3>2 DEF DecryptRead, TypeOK, disk
    <2>3. CASE Return(p, "failure")
      BY <1>4, <2>3, ReturnTyped DEF DecryptRead, TypeOK, disk, Outcome
    <2> QED BY <1>4, <2>2, <2>3 DEF DecryptRead
  <1>5. ASSUME DecryptOpen(p) PROVE TypeOK'
    <2>1. /\ op[p].step = "dec_open" /\ op[p] \in Call /\ op[p].path \in Path
          /\ op[p].user \in User /\ op[p].name \in Name /\ op[p].id \in FileId
          /\ op[p].plain \in Content
      BY <1>5, CallKnown DEF DecryptOpen
    <2>2. CallOK([op[p] EXCEPT !.step = "dec_write", !.linked = TRUE])
      BY <2>1
    <2>3. files' \in [Path -> Content \cup {Absent}]
      BY <1>5, <2>1 DEF DecryptOpen, TypeOK, Content
    <2>4. CASE Continue(p, [op[p] EXCEPT !.step = "dec_write", !.linked = TRUE])
      BY <1>2, <1>5, <2>2, <2>3, <2>4 DEF DecryptOpen, TypeOK
    <2>5. CASE Return(p, "failure")
      BY <1>5, <2>3, <2>5, ReturnTyped DEF DecryptOpen, TypeOK, Outcome
    <2> QED BY <1>5, <2>4, <2>5 DEF DecryptOpen
  <1>6. ASSUME DecryptWrite(p) PROVE TypeOK'
    <2>1. op[p].step = "dec_write" /\ op[p].plain \in Content
      BY <1>6, CallKnown DEF DecryptWrite
    <2>2. files' \in [Path -> Content \cup {Absent}]
      BY <1>6, <2>1 DEF DecryptWrite, TypeOK
    <2> QED BY <1>6, <2>2, ReturnTyped DEF DecryptWrite, TypeOK, Outcome
  <1> QED BY <1>1, <1>3, <1>4, <1>5, <1>6 DEF Decrypt

\* Every step of a deletion leads to a typed state.
LEMMA DeleteTyped ==
  ASSUME Inductive, NEW p \in Proc, Delete(p)
  PROVE  TypeOK'
  <1> TypeOK /\ RecordsIssued
    BY DEF Inductive, Bookkeeping
  <1> USE DEF CallOK, Call, WellFormed, Steps, EncryptSteps, DecryptSteps,
              DeleteSteps, HoldsId, HoldsPlain
  <1>1. ASSUME NEW u \in User, NEW n \in Name, DeleteStart(p, u, n)
        PROVE  TypeOK'
    <2>1. CallOK([Rest EXCEPT !.step = "del_load", !.user = u, !.name = n])
      BY DEF Rest
    <2> QED BY <1>1, <2>1, CallReplaced DEF DeleteStart, Begin, TypeOK
  <1>2. ASSUME NEW o, CallOK(o), Continue(p, o)
        PROVE  /\ op' \in [Proc -> Call] /\ \A q \in Proc : WellFormed(op'[q])
               /\ result' \in [Proc -> Outcome]
    BY <1>2, CallReplaced DEF Continue, TypeOK
  <1>3. ASSUME DeleteLoad(p) PROVE TypeOK'
    <2>1. /\ op[p].step = "del_load" /\ op[p] \in Call
          /\ op[p].user \in User /\ op[p].name \in Name
      BY <1>3, CallKnown DEF DeleteLoad
    <2> DEFINE id == meta[MetaPath(op[p].user, op[p].name)].id
    <2>2. CASE /\ Loadable(op[p].user, op[p].name) /\ SetFate(id, "doomed")
               /\ Continue(p, [op[p] EXCEPT !.step = "del_wipe", !.id = id])
      <3>1. id \in FileId /\ issued[id] # Absent
        BY <2>1, <2>2, LoadedTyped DEF RecordsIssued, DrawnFor, Loadable, Loads
      <3> HIDE DEF id
      <3>2. issued' \in [FileId -> Issue \cup {Absent}]
        BY <2>2, <3>1, FateTyped DEF Fate
      <3>3. CallOK([op[p] EXCEPT !.step = "del_wipe", !.id = id])
        BY <2>1, <3>1
      <3> QED BY <1>2, <1>3, <2>2, <3>2, <3>3 DEF DeleteLoad, TypeOK, disk
    <2>3. CASE Return(p, "failure") /\ UNCHANGED issued
      BY <1>3, <2>3, ReturnTyped DEF DeleteLoad, TypeOK, disk, Outcome
    <2> QED BY <1>3, <2>2, <2>3 DEF DeleteLoad
  <1>4. ASSUME DeleteWipe(p) PROVE TypeOK'
    <2>1. op[p].step = "del_wipe" /\ op[p].id \in FileId /\ op[p] \in Call
            /\ op[p].user \in User /\ op[p].name \in Name
      BY <1>4, CallKnown DEF DeleteWipe
    <2>2. store' \in [FileId -> StoreFile \cup {Absent}]
      <3>1. ASSUME store[op[p].id] # Absent, NEW form \in {"zeros", "torn"}
            PROVE  [store EXCEPT ![op[p].id].form = form]
                     \in [FileId -> StoreFile \cup {Absent}]
        BY <2>1, <3>1, StoreForm
      <3> QED BY <1>4, <3>1 DEF DeleteWipe, TypeOK
    <2>3. CallOK([op[p] EXCEPT !.step = "del_unlink"])
      BY <2>1
    <2> QED BY <1>2, <1>4, <2>2, <2>3 DEF DeleteWipe, TypeOK
  <1>5. ASSUME DeleteUnlink(p) PROVE TypeOK'
    <2>1. op[p].step = "del_unlink" /\ op[p].id \in FileId /\ op[p] \in Call
            /\ op[p].user \in User /\ op[p].name \in Name
      BY <1>5, CallKnown DEF DeleteUnlink
    <2>2. /\ CallOK([op[p] EXCEPT !.step = "del_record", !.gone = TRUE])
          /\ CallOK([op[p] EXCEPT !.step = "del_record"])
      BY <2>1
    <2>3. store' \in [FileId -> StoreFile \cup {Absent}]
      BY <1>5 DEF DeleteUnlink, TypeOK
    <2> HIDE DEF CallOK
    <2> QED BY <1>2, <1>5, <2>2, <2>3 DEF DeleteUnlink, TypeOK
  <1>6. ASSUME DeleteRecord(p) PROVE TypeOK'
    <2>1. meta' \in [MetaPaths -> MetaRecord \cup {Absent}]
      BY <1>6 DEF DeleteRecord, TypeOK
    <2> QED BY <1>6, <2>1, ReturnTyped DEF DeleteRecord, TypeOK, Outcome
  <1> QED BY <1>1, <1>3, <1>4, <1>5, <1>6 DEF Delete

\* So do listing, a crash, an edit by another program, and stuttering.
LEMMA OtherTyped ==
  ASSUME Inductive,
         \/ \E p \in Proc : (\E u \in User : List(p, u)) \/ Crash(p)
         \/ \E path \in Path, d \in Data : Edit(path, d)
         \/ UNCHANGED vars
  PROVE  TypeOK'
  <1> TypeOK /\ SealersOwnTheirIds
    BY DEF Inductive, Bookkeeping
  <1>1. ASSUME NEW p \in Proc, NEW u \in User, List(p, u) PROVE TypeOK'
    BY <1>1 DEF List, TypeOK, disk, Outcome
  <1>2. ASSUME NEW p \in Proc, Crash(p) PROVE TypeOK'
    <2>1. op' \in [Proc -> Call] /\ \A q \in Proc : WellFormed(op'[q])
      BY <1>2, RestOK, CallReplaced DEF Crash
    <2>2. CASE op[p].step \in Sealing
      <3>1. op[p].id \in FileId /\ issued[op[p].id] # Absent
        BY <1>2, <2>2, CallKnown DEF Crash, SealersOwnTheirIds, DrawnFor,
           Sealing, HoldsId, EncryptSteps
      <3>2. issued' \in [FileId -> Issue \cup {Absent}]
        BY <1>2, <2>2, <3>1, FateTyped DEF Crash, Fate
      <3> QED BY <1>2, <2>1, <3>2 DEF Crash, TypeOK, disk, Outcome
    <2> QED BY <1>2, <2>1, <2>2 DEF Crash, TypeOK, disk, Outcome
  <1>3. ASSUME NEW path \in Path, NEW d \in Data, Edit(path, d) PROVE TypeOK'
    BY <1>3 DEF Edit, TypeOK, Content, Text
  <1>4. CASE UNCHANGED vars
    BY <1>4 DEF vars, TypeOK
  <1> QED BY <1>1, <1>2, <1>3, <1>4

\* Every step leads to a typed state.
LEMMA StepTyped ==
  ASSUME Inductive, [Next]_vars
  PROVE  TypeOK'
  BY EncryptTyped, DecryptTyped, DeleteTyped, OtherTyped DEF Next

-----------------------------------------------------------------------------
(***************************************************************************)
(* What a step of process p leaves alone.                                  *)
(***************************************************************************)
StepOf(p) == \/ Encrypt(p) \/ Decrypt(p) \/ Delete(p)
             \/ \E u \in User : List(p, u)
             \/ Crash(p)

\* The other processes' calls stay where they are.
LEMMA OthersWait ==
  ASSUME TypeOK, NEW p \in Proc, StepOf(p), NEW q \in Proc, q # p
  PROVE  /\ op'[q].step = op[q].step /\ op'[q].user = op[q].user
         /\ op'[q].name = op[q].name /\ op'[q].id = op[q].id
         /\ op'[q].path = op[q].path
         /\ op'[q].plain = op[q].plain /\ op'[q].gone = op[q].gone
         /\ op'[q].opened = op[q].opened
  <1> USE DEF Continue, Return, Begin
  <1>1. CASE EncryptUnlink(p)
    <2>1. op'[q] \in {op[q], [op[q] EXCEPT !.linked = FALSE]}
      BY <1>1 DEF EncryptUnlink, TypeOK
    <2>2. op[q] \in Call
      BY DEF TypeOK
    <2> QED BY <2>1, <2>2 DEF Call
  <1>2. ASSUME NEW o, op' = [op EXCEPT ![p] = o] PROVE op'[q] = op[q]
    BY <1>2 DEF TypeOK
  <1>3. CASE Encrypt(p) /\ ~EncryptUnlink(p)
    BY <1>2, <1>3 DEF Encrypt, EncryptStart, EncryptRead, EncryptCreate, EncryptWrite,
       EncryptMeta, EncryptRecord, EncryptDrop, EncryptUndo, EncryptWipe
  <1>4. CASE Decrypt(p)
    BY <1>2, <1>4 DEF Decrypt, DecryptStart, DecryptLoad, DecryptRead, DecryptOpen,
       DecryptWrite
  <1>5. CASE Delete(p)
    BY <1>2, <1>5 DEF Delete, DeleteStart, DeleteLoad, DeleteWipe, DeleteUnlink,
       DeleteRecord
  <1>6. CASE (\E u \in User : List(p, u)) \/ Crash(p)
    BY <1>2, <1>6 DEF List, Crash
  <1> QED BY <1>1, <1>3, <1>4, <1>5, <1>6 DEF StepOf

\* An id keeps what it was drawn for; its fate changes only by the encryption
\* that drew it or by a delete of a kept one.
LEMMA IssuedChange ==
  ASSUME Inductive, NEW p \in Proc, StepOf(p), NEW id \in FileId
  PROVE  \/ issued'[id] = issued[id]
         \/ /\ op[p].step = "enc_create" /\ issued[id] = Absent
            /\ issued'[id] # Absent /\ issued'[id].fate = "writing"
            /\ op'[p].step = "enc_write" /\ op'[p].id = id
         \/ /\ issued[id] # Absent /\ issued'[id] # Absent
            /\ issued'[id].owner = issued[id].owner
            /\ issued'[id].name = issued[id].name
            /\ issued'[id].plain = issued[id].plain
            /\ \/ /\ op[p].step \in Sealing /\ op[p].id = id
                  /\ issued'[id].fate = "undone" =>
                        /\ op[p].step = "enc_undo" /\ issued[id].fate = "writing"
                        /\ store'[id] = Absent /\ meta' = meta
                  /\ issued'[id].fate = "kept" => op[p].step = "enc_record"
               \/ /\ op[p].step = "del_load" /\ op'[p].id = id
                  /\ issued[id].fate \in {"kept", "doomed"}
                  /\ issued'[id].fate = "doomed"
  <1> TypeOK /\ SealersOwnTheirIds /\ RecordsIssued
    BY DEF Inductive, Bookkeeping
  <1>1. ASSUME NEW i \in FileId, issued[i] # Absent, NEW fate \in Fate, SetFate(i, fate)
        PROVE  /\ id # i => issued'[id] = issued[id]
               /\ id = i => /\ issued'[id] # Absent
                            /\ issued'[id].owner = issued[id].owner
                            /\ issued'[id].name = issued[id].name
                            /\ issued'[id].plain = issued[id].plain
                            /\ issued'[id].fate = fate
    <2>1. issued[i] \in Issue
      BY <1>1 DEF TypeOK
    <2>2. issued'[i] \in Issue
      BY <1>1, <2>1 DEF SetFate, TypeOK, Issue
    <2> QED BY <1>1, <2>1, <2>2, AbsentAssumption DEF SetFate, TypeOK, Issue
  <1>2. ASSUME op[p].step \in Sealing
        PROVE  op[p].id \in FileId /\ issued[op[p].id] # Absent
    BY <1>2, CallKnown DEF Sealing, SealersOwnTheirIds, DrawnFor, HoldsId, EncryptSteps
  <1>3. CASE EncryptCreate(p)
    <2>1. op[p].user \in User /\ op[p].name \in Name /\ op[p].plain \in Content
      BY <1>3, CallKnown DEF EncryptCreate, HoldsPlain, EncryptSteps
    <2>2. [owner |-> op[p].user, name |-> op[p].name, plain |-> op[p].plain,
           fate |-> "writing"] # Absent
      BY <2>1, AbsentAssumption DEF Issue, Fate
    <2>3. ASSUME NEW i \in FileId, issued[i] = Absent,
                 issued' = [issued EXCEPT ![i] =
                    [owner |-> op[p].user, name |-> op[p].name,
                     plain |-> op[p].plain, fate |-> "writing"]],
                 Continue(p, [op[p] EXCEPT !.step = "enc_write", !.id = i])
          PROVE  \/ issued'[id] = issued[id]
                 \/ /\ issued[id] = Absent /\ issued'[id] # Absent
                    /\ issued'[id].fate = "writing" /\ op'[p].step = "enc_write" /\ op'[p].id = id
      <3>1. op'[p].step = "enc_write" /\ op'[p].id = i
        BY <2>3 DEF Continue, TypeOK, Call
      <3> QED BY <2>2, <2>3, <3>1 DEF TypeOK
    <2> QED BY <1>3, <2>3 DEF EncryptCreate
  <1>4. CASE EncryptRecord(p) \/ EncryptDrop(p) \/ EncryptUndo(p)
    BY <1>1, <1>2, <1>4 DEF EncryptRecord, EncryptDrop, EncryptUndo, Sealing, Fate, TypeOK
  <1>5. CASE DeleteLoad(p)
    <2>1. op[p].user \in User /\ op[p].name \in Name /\ op[p].step = "del_load"
      BY <1>5, CallKnown DEF DeleteLoad
    <2> DEFINE i == meta[MetaPath(op[p].user, op[p].name)].id
    <2>2. ASSUME Loadable(op[p].user, op[p].name)
          PROVE  i \in FileId /\ issued[i] # Absent /\ issued[i].fate \in {"kept", "doomed"}
      BY <2>1, <2>2, LoadedTyped DEF RecordsIssued, DrawnFor, Loadable, Loads
    <2>3. CASE /\ Loadable(op[p].user, op[p].name) /\ SetFate(i, "doomed")
               /\ Continue(p, [op[p] EXCEPT !.step = "del_wipe", !.id = i])
      <3>1. op[p] \in Call
        BY DEF TypeOK
      <3> HIDE DEF i
      <3>2. op'[p].id = i
        BY <2>3, <3>1 DEF Continue, TypeOK, Call
      <3> QED BY <1>1, <2>1, <2>2, <2>3, <3>2 DEF Fate
    <2> QED BY <1>5, <2>3 DEF DeleteLoad
  <1>6. CASE Crash(p)
    BY <1>1, <1>2, <1>6 DEF Crash, Fate
  <1>7. CASE UNCHANGED issued
    BY <1>7
  <1> QED
    BY <1>3, <1>4, <1>5, <1>6, <1>7
       DEF StepOf, Encrypt, EncryptStart, EncryptRead, EncryptWrite, EncryptMeta,
           EncryptWipe, EncryptUnlink, Decrypt, DecryptStart, DecryptLoad,
           DecryptRead, DecryptOpen, DecryptWrite, Delete, DeleteStart, DeleteWipe,
           DeleteUnlink, DeleteRecord, List, Begin

\* A storage file changes only by the encryption that created it or by a
\* delete that loaded its id, and never in what was sealed.
LEMMA StoreChange ==
  ASSUME Inductive, NEW p \in Proc, StepOf(p), NEW id \in FileId
  PROVE  \/ store'[id] = store[id]
         \/ /\ op[p].step = "enc_create" /\ issued[id] = Absent /\ issued'[id] # Absent
            /\ issued'[id].owner = op[p].user /\ issued'[id].plain = op[p].plain
            /\ store'[id] = [key |-> op[p].user, plain |-> op[p].plain, form |-> "torn"]
         \/ /\ store[id] # Absent /\ store'[id] # Absent
            /\ store'[id].key = store[id].key /\ store'[id].plain = store[id].plain
            /\ op[p].step \in {"enc_write", "del_wipe"} /\ op[p].id = id
            /\ op[p].step = "enc_write" => store'[id].form = "whole"
         \/ /\ store[id] # Absent /\ store'[id] = Absent
            /\ op[p].step \in {"enc_undo", "del_unlink"} /\ op[p].id = id
  <1> TypeOK /\ SealersOwnTheirIds
    BY DEF Inductive, Bookkeeping
  <1>1. ASSUME NEW i \in FileId, store[i] # Absent, NEW f \in {"whole", "zeros", "torn"},
               store' = [store EXCEPT ![i].form = f]
        PROVE  /\ id # i => store'[id] = store[id]
               /\ id = i => /\ store'[id] # Absent
                            /\ store'[id].key = store[id].key
                            /\ store'[id].plain = store[id].plain
                            /\ store'[id].form = f
    <2>1. store[i] \in StoreFile
      BY <1>1 DEF TypeOK
    <2>2. store'[i] \in StoreFile
      BY <1>1, <2>1 DEF TypeOK, StoreFile
    <2> QED BY <1>1, <2>1, <2>2, AbsentAssumption DEF TypeOK, StoreFile
  <1>2. CASE EncryptCreate(p)
    <2>1. ASSUME NEW i \in FileId, issued[i] = Absent,
                 issued' = [issued EXCEPT ![i] =
                    [owner |-> op[p].user, name |-> op[p].name,
                     plain |-> op[p].plain, fate |-> "writing"]],
                 store' = [store EXCEPT ![i] =
                    [key |-> op[p].user, plain |-> op[p].plain, form |-> "torn"]]
          PROVE  \/ store'[id] = store[id]
                 \/ /\ issued[id] = Absent /\ issued'[id] # Absent
                    /\ issued'[id].owner = op[p].user /\ issued'[id].plain = op[p].plain
                    /\ store'[id] = [key |-> op[p].user, plain |-> op[p].plain,
                                     form |-> "torn"]
      <3>1. op[p].user \in User /\ op[p].name \in Name /\ op[p].plain \in Content
        BY <1>2, CallKnown DEF EncryptCreate, HoldsPlain, EncryptSteps
      <3>2. [owner |-> op[p].user, name |-> op[p].name, plain |-> op[p].plain,
             fate |-> "writing"] # Absent
        BY <3>1, AbsentAssumption DEF Issue, Fate
      <3> QED BY <2>1, <3>2 DEF TypeOK
    <2> QED BY <1>2, <2>1 DEF EncryptCreate
  <1>3. CASE EncryptWrite(p)
    <2>1. op[p].id \in FileId /\ store[op[p].id] # Absent
      BY <1>3, CallKnown DEF EncryptWrite, Sealing, SealersOwnTheirIds, HoldsId, EncryptSteps
    <2> QED BY <1>1, <1>3, <2>1 DEF EncryptWrite
  <1>4. CASE DeleteWipe(p)
    <2>1. op[p].id \in FileId
      BY <1>4, CallKnown DEF DeleteWipe, HoldsId, DeleteSteps
    <2> QED BY <1>1, <1>4, <2>1 DEF DeleteWipe
  <1>5. CASE EncryptUndo(p) \/ DeleteUnlink(p)
    BY <1>5 DEF EncryptUndo, DeleteUnlink, TypeOK
  <1>6. CASE UNCHANGED store
    BY <1>6
  <1> QED
    BY <1>2, <1>3, <1>4, <1>5, <1>6
       DEF StepOf, Encrypt, EncryptStart, EncryptRead, EncryptMeta, EncryptRecord,
           EncryptDrop, EncryptWipe, EncryptUnlink, Decrypt, DecryptStart,
           DecryptLoad, DecryptRead, DecryptOpen, DecryptWrite, Delete, DeleteStart,
           DeleteLoad, DeleteRecord, List, Crash, Begin, disk

\* A record appears, torn, only where an encryption creates it, and becomes
\* complete only when that encryption writes it.
LEMMA MetaChange ==
  ASSUME Inductive, NEW p \in Proc, StepOf(p), NEW m \in MetaPaths
  PROVE  \/ meta'[m] = meta[m]
         \/ meta'[m] = Absent
         \/ /\ meta[m] = Absent
            /\ op[p].step = "enc_meta" /\ op'[p].step = "enc_record"
            /\ m = MetaPath(op[p].user, op[p].name)
            /\ meta'[m] = [owner |-> op[p].user, name |-> op[p].name,
                           id |-> op[p].id, form |-> "torn"]
            /\ meta'[m].id = op[p].id
         \/ /\ meta[m] # Absent /\ meta'[m].id = meta[m].id
            /\ meta'[m].owner = meta[m].owner /\ meta'[m].name = meta[m].name
            /\ op[p].step = "enc_record" /\ op[p].id = meta[m].id
            /\ issued'[meta[m].id].fate = "kept"
  <1> TypeOK /\ SealersOwnTheirIds
    BY DEF Inductive, Bookkeeping
  <1>1. CASE EncryptMeta(p)
    <2>1. op[p] \in Call
      BY DEF TypeOK
    <2> QED BY <1>1, <2>1 DEF EncryptMeta, Continue, TypeOK, Call
  <1>2. CASE EncryptRecord(p)
    <2> DEFINE r == MetaPath(op[p].user, op[p].name)
    <2>1. /\ op[p].step = "enc_record" /\ op[p].id \in FileId /\ r \in MetaPaths
          /\ issued[op[p].id] \in Issue
      BY <1>2, CallKnown DEF EncryptRecord, Sealing, SealersOwnTheirIds, DrawnFor,
         HoldsId, EncryptSteps, TypeOK
    <2>2. CASE RecordLinked(p) /\ meta' = [meta EXCEPT ![r].form = "whole"]
                 /\ SetFate(op[p].id, "kept")
      <3>1. meta[r] \in MetaRecord /\ meta[r].id = op[p].id
        BY <2>1, <2>2 DEF RecordLinked, TypeOK
      <3>2. issued'[op[p].id].fate = "kept"
        BY <2>1, <2>2 DEF SetFate, TypeOK, Issue
      <3>3. CASE m = r
        <4>1. meta'[m] = [meta[r] EXCEPT !.form = "whole"]
          BY <2>2, <3>3 DEF TypeOK
        <4> QED BY <2>1, <2>2, <3>1, <3>2, <3>3, <4>1 DEF MetaRecord, RecordLinked
      <3>4. CASE m # r
        BY <2>2, <3>4 DEF TypeOK
      <3> QED BY <3>3, <3>4
    <2>3. CASE UNCHANGED meta
      BY <2>3
    <2> QED BY <1>2, <2>2, <2>3 DEF EncryptRecord
  <1>3. CASE EncryptDrop(p) \/ DeleteRecord(p)
    BY <1>3 DEF EncryptDrop, DeleteRecord, TypeOK
  <1>4. CASE UNCHANGED meta
    BY <1>4
  <1> QED
    BY <1>1, <1>2, <1>3, <1>4
       DEF StepOf, Encrypt, EncryptStart, EncryptRead, EncryptCreate, EncryptWrite,
           EncryptUndo, EncryptWipe, EncryptUnlink, Decrypt, DecryptStart,
           DecryptLoad, DecryptRead, DecryptOpen, DecryptWrite, Delete, DeleteStart,
           DeleteLoad, DeleteWipe, DeleteUnlink, List, Crash, Begin, disk

-----------------------------------------------------------------------------
(***************************************************************************)
(* Where a step of process p takes its own call.                           *)
(***************************************************************************)
\* A call that ends leaves its process idle.
LEMMA IdleAtReturn ==
  ASSUME TypeOK, NEW p \in Proc, op' = [op EXCEPT ![p] = Rest]
  PROVE  op'[p].step = "idle" /\ op'[p].gone = FALSE
  BY DEF TypeOK, Rest

\* A process is at a step because of the action that leads there.
LEMMA ActionOfStep ==
  ASSUME TypeOK, NEW p \in Proc, StepOf(p), \A q \in Proc : op[q].gone => op[q].step = "del_record"
  PROVE  /\ op'[p].step \in Sealing =>
              \/ EncryptCreate(p) \/ EncryptWrite(p) \/ EncryptMeta(p)
              \/ EncryptRecord(p) \/ EncryptDrop(p)
         /\ op'[p].step \in DecryptSteps \ {"dec_load"} =>
              DecryptLoad(p) \/ DecryptRead(p) \/ DecryptOpen(p)
         /\ op'[p].step \in DeleteSteps \ {"del_load"} \/ op'[p].gone =>
              DeleteLoad(p) \/ DeleteWipe(p) \/ DeleteUnlink(p)
  <1> op[p] \in Call
    BY DEF TypeOK
  <1> USE DEF Sealing, DecryptSteps, DeleteSteps
  <1>1. ASSUME NEW o, op' = [op EXCEPT ![p] = o] PROVE op'[p] = o
    BY <1>1 DEF TypeOK
  <1>2. ASSUME NEW s, Continue(p, [op[p] EXCEPT !.step = s])
        PROVE  op'[p].step = s /\ op'[p].gone = op[p].gone
    <2>1. op'[p] = [op[p] EXCEPT !.step = s]
      BY <1>1, <1>2 DEF Continue
    <2> QED BY <2>1 DEF Call
  <1>3. CASE \/ \E u \in User, path \in Path : EncryptStart(p, u, path)
             \/ \E u \in User, n \in Name, out \in Path : DecryptStart(p, u, n, out)
             \/ \E u \in User, n \in Name : DeleteStart(p, u, n)
    <2>1. ASSUME NEW u, NEW path, EncryptStart(p, u, path)
          PROVE  op'[p].step = "enc_read" /\ op'[p].gone = FALSE
      <3>1. op'[p] = [Rest EXCEPT !.step = "enc_read", !.user = u,
                                  !.name = BaseName[path], !.path = path]
        BY <2>1, <1>1 DEF EncryptStart, Begin
      <3> QED BY <3>1 DEF Rest
    <2>2. ASSUME NEW u, NEW n, NEW out, DecryptStart(p, u, n, out)
          PROVE  op'[p].step = "dec_load" /\ op'[p].gone = FALSE
      <3>1. op'[p] = [Rest EXCEPT !.step = "dec_load", !.user = u, !.name = n, !.path = out]
        BY <2>2, <1>1 DEF DecryptStart, Begin
      <3> QED BY <3>1 DEF Rest
    <2>3. ASSUME NEW u, NEW n, DeleteStart(p, u, n)
          PROVE  op'[p].step = "del_load" /\ op'[p].gone = FALSE
      <3>1. op'[p] = [Rest EXCEPT !.step = "del_load", !.user = u, !.name = n]
        BY <2>3, <1>1 DEF DeleteStart, Begin
      <3> QED BY <3>1 DEF Rest
    <2> QED BY <1>3, <2>1, <2>2, <2>3
  <1>4. CASE EncryptRead(p)
    <2>1. ASSUME NEW path, NEW c,
                 Continue(p, [op[p] EXCEPT !.step = "enc_create", !.path = path, !.plain = c,
                                           !.opened = path])
          PROVE  op'[p].step = "enc_create" /\ op'[p].gone = op[p].gone
      <3>1. op'[p] = [op[p] EXCEPT !.step = "enc_create", !.path = path, !.plain = c,
                                   !.opened = path]
        BY <1>1, <2>1 DEF Continue
      <3> QED BY <3>1 DEF Call
    <2>2. op'[p].step \in {"idle", "enc_create"} /\ (op'[p].gone => op[p].gone)
      BY <1>4, <2>1, IdleAtReturn DEF EncryptRead, Return
    <2> QED BY <1>4, <2>2 DEF EncryptRead
  <1>5. CASE EncryptCreate(p)
    <2>1. ASSUME NEW i, Continue(p, [op[p] EXCEPT !.step = "enc_write", !.id = i])
          PROVE  op'[p].step = "enc_write" /\ op'[p].gone = op[p].gone
      <3>1. op'[p] = [op[p] EXCEPT !.step = "enc_write", !.id = i]
        BY <1>1, <2>1 DEF Continue
      <3> QED BY <3>1 DEF Call
    <2>2. op'[p].step \in {"idle", "enc_write"} /\ (op'[p].gone => op[p].gone)
      BY <1>5, <2>1, IdleAtReturn DEF EncryptCreate, Return
    <2> QED BY <1>5, <2>2 DEF EncryptCreate
  <1>6. CASE \/ EncryptWrite(p) \/ EncryptMeta(p) \/ EncryptRecord(p)
             \/ EncryptDrop(p) \/ EncryptWipe(p)
    <2>1. /\ op'[p].step \in {"enc_meta", "enc_undo", "enc_record", "enc_wipe",
                              "enc_drop", "enc_unlink"}
          /\ op[p].step \in EncryptSteps /\ op'[p].gone = op[p].gone
          /\ EncryptWipe(p) => op'[p].step = "enc_unlink"
      BY <1>2, <1>6 DEF EncryptWrite, EncryptMeta, EncryptRecord, EncryptDrop,
         EncryptWipe, EncryptSteps
    <2> QED BY <1>6, <2>1 DEF EncryptSteps
  <1>7. CASE \/ EncryptUndo(p) \/ DecryptWrite(p) \/ DeleteRecord(p) \/ Crash(p)
    BY <1>7, IdleAtReturn DEF EncryptUndo, DecryptWrite, DeleteRecord, Crash, Return
  <1>8. CASE EncryptUnlink(p)
    <2>1. op'[p] = Rest
      BY <1>8 DEF EncryptUnlink, TypeOK
    <2> QED BY <2>1 DEF Rest
  <1>9. CASE DecryptLoad(p) \/ DecryptRead(p) \/ DecryptOpen(p)
    <2>1. ASSUME NEW i, Continue(p, [op[p] EXCEPT !.step = "dec_read", !.id = i])
          PROVE  op'[p].step = "dec_read" /\ op'[p].gone = op[p].gone
      <3>1. op'[p] = [op[p] EXCEPT !.step = "dec_read", !.id = i]
        BY <1>1, <2>1 DEF Continue
      <3> QED BY <3>1 DEF Call
    <2>2. ASSUME NEW c, Continue(p, [op[p] EXCEPT !.step = "dec_open", !.plain = c])
          PROVE  op'[p].step = "dec_open" /\ op'[p].gone = op[p].gone
      <3>1. op'[p] = [op[p] EXCEPT !.step = "dec_open", !.plain = c]
        BY <1>1, <2>2 DEF Continue
      <3> QED BY <3>1 DEF Call
    <2>3. ASSUME Continue(p, [op[p] EXCEPT !.step = "dec_write", !.linked = TRUE])
          PROVE  op'[p].step = "dec_write" /\ op'[p].gone = op[p].gone
      <3>1. op'[p] = [op[p] EXCEPT !.step = "dec_write", !.linked = TRUE]
        BY <1>1, <2>3 DEF Continue
      <3> QED BY <3>1 DEF Call
    <2>4. /\ op'[p].step \in {"idle", "dec_read", "dec_open", "dec_write"}
          /\ op'[p].gone => op[p].gone
          /\ op[p].step # "del_record"
      BY <1>9, <2>1, <2>2, <2>3, IdleAtReturn
         DEF DecryptLoad, DecryptRead, DecryptOpen, Return
    <2> QED BY <1>9, <2>4
  <1>10. CASE DeleteLoad(p) \/ DeleteWipe(p) \/ DeleteUnlink(p)
    <2>1. ASSUME NEW i, Continue(p, [op[p] EXCEPT !.step = "del_wipe", !.id = i])
          PROVE  op'[p].step = "del_wipe"
      <3>1. op'[p] = [op[p] EXCEPT !.step = "del_wipe", !.id = i]
        BY <1>1, <2>1 DEF Continue
      <3> QED BY <3>1 DEF Call
    <2>2. ASSUME Continue(p, [op[p] EXCEPT !.step = "del_record", !.gone = TRUE])
          PROVE  op'[p].step = "del_record"
      <3>1. op'[p] = [op[p] EXCEPT !.step = "del_record", !.gone = TRUE]
        BY <1>1, <2>2 DEF Continue
      <3> QED BY <3>1 DEF Call
    <2>3. op'[p].step \in {"idle", "del_wipe", "del_unlink", "del_record"}
      BY <1>2, <1>10, <2>1, <2>2, IdleAtReturn
         DEF DeleteLoad, DeleteWipe, DeleteUnlink, Return
    <2> QED BY <1>10, <2>3
  <1>11. CASE \E u \in User : List(p, u)
    BY <1>11 DEF List
  <1> QED
    BY <1>3, <1>4, <1>5, <1>6, <1>7, <1>8, <1>9, <1>10, <1>11
       DEF StepOf, Encrypt, Decrypt, Delete

\* An encryption keeps its id until it is over.
LEMMA SealerStep ==
  ASSUME Inductive, NEW p \in Proc, StepOf(p), op'[p].step \in Sealing
  PROVE  /\ op'[p].user = op[p].user /\ op'[p].name = op[p].name
         /\ op'[p].plain = op[p].plain
         /\ \/ /\ op[p].step = "enc_create" /\ op'[p].step = "enc_write"
               /\ op'[p].id \in FileId
               /\ issued[op'[p].id] = Absent
               /\ issued'[op'[p].id] =
                    [owner |-> op[p].user, name |-> op[p].name,
                     plain |-> op[p].plain, fate |-> "writing"]
               /\ store'[op'[p].id] = [key |-> op[p].user, plain |-> op[p].plain,
                                       form |-> "torn"]
               /\ meta' = meta
            \/ /\ op'[p].id = op[p].id /\ issued' = issued
               /\ \/ /\ op[p].step = "enc_write" /\ op'[p].step \in {"enc_meta", "enc_undo"}
                     /\ meta' = meta
                  \/ op[p].step = "enc_meta" /\ op'[p].step = "enc_undo" /\ meta' = meta
                  \/ op[p].step = "enc_meta" /\ op'[p].step = "enc_record"
                  \/ op[p].step = "enc_record" /\ op'[p].step = "enc_drop"
                  \/ /\ op[p].step = "enc_drop" /\ op'[p].step = "enc_undo"
                     /\ meta' = [meta EXCEPT ![MetaPath(op[p].user, op[p].name)] = Absent]
            \/ /\ op'[p].id = op[p].id
               /\ op[p].step = "enc_drop" /\ op'[p].step = "enc_undo" /\ meta' = meta
               /\ SetFate(op[p].id, "left")
  <1> TypeOK /\ op[p] \in Call /\ \A q \in Proc : op[q].gone => op[q].step = "del_record"
    BY DEF Inductive, Bookkeeping, DeletersDoomTheirIds, TypeOK
  <1>1. ASSUME NEW o, op' = [op EXCEPT ![p] = o] PROVE op'[p] = o
    BY <1>1 DEF TypeOK
  <1>2. CASE EncryptCreate(p)
    <2>1. ~Return(p, "failure")
      BY IdleAtReturn DEF Return, Sealing
    <2>2. ASSUME NEW i \in FileId, issued[i] = Absent,
                 issued' = [issued EXCEPT ![i] =
                    [owner |-> op[p].user, name |-> op[p].name,
                     plain |-> op[p].plain, fate |-> "writing"]],
                 store' = [store EXCEPT ![i] =
                    [key |-> op[p].user, plain |-> op[p].plain, form |-> "torn"]],
                 Continue(p, [op[p] EXCEPT !.step = "enc_write", !.id = i])
          PROVE  /\ op'[p].step = "enc_write" /\ op'[p].id = i
                 /\ op'[p].user = op[p].user /\ op'[p].name = op[p].name
                 /\ op'[p].plain = op[p].plain
                 /\ issued'[i] = [owner |-> op[p].user, name |-> op[p].name,
                                  plain |-> op[p].plain, fate |-> "writing"]
                 /\ store'[i] = [key |-> op[p].user, plain |-> op[p].plain,
                                 form |-> "torn"]
      <3>1. op'[p] = [op[p] EXCEPT !.step = "enc_write", !.id = i]
        BY <1>1, <2>2 DEF Continue
      <3> QED BY <2>2, <3>1 DEF TypeOK, Call
    <2> QED BY <1>2, <2>1, <2>2 DEF EncryptCreate
  <1>3. ASSUME NEW s, Continue(p, [op[p] EXCEPT !.step = s])
        PROVE  /\ op'[p].step = s /\ op'[p].id = op[p].id
               /\ op'[p].user = op[p].user /\ op'[p].name = op[p].name
               /\ op'[p].plain = op[p].plain
    <2>1. op'[p] = [op[p] EXCEPT !.step = s]
      BY <1>1, <1>3 DEF Continue
    <2> QED BY <2>1 DEF Call
  <1>4. CASE EncryptWrite(p)
    BY <1>3, <1>4 DEF EncryptWrite
  <1>5. CASE EncryptMeta(p)
    BY <1>3, <1>5 DEF EncryptMeta
  <1>6. CASE EncryptRecord(p)
    BY <1>3, <1>6 DEF EncryptRecord, Sealing
  <1>7. CASE EncryptDrop(p)
    BY <1>3, <1>7 DEF EncryptDrop
  <1> QED
    BY <1>2, <1>4, <1>5, <1>6, <1>7, ActionOfStep

-----------------------------------------------------------------------------
(***************************************************************************)
(* The parts of Bookkeeping, one lemma each.                               *)
(***************************************************************************)
\* No step makes two encryptions share an id, or takes a storage file away
\* from the encryption that writes it.
LEMMA SealersOwnStep ==
  ASSUME Inductive, NEW p \in Proc, StepOf(p)
  PROVE  SealersOwnTheirIds'
  <1> TypeOK /\ SealersOwnTheirIds /\ DeletersDoomTheirIds
    BY DEF Inductive, Bookkeeping
  <1> SUFFICES ASSUME NEW q \in Proc, op'[q].step \in Sealing
               PROVE  /\ DrawnFor(op[q].id, op[q].user, op[q].name)'
                      /\ issued'[op'[q].id].plain = op'[q].plain
                      /\ issued'[op'[q].id].fate \in
                           IF op'[q].step = "enc_undo" THEN {"writing", "left"}
                                                       ELSE {"writing"}
                      /\ store'[op'[q].id] # Absent
                      /\ \A r \in Proc : (op'[r].step \in Sealing /\ op'[r].id = op'[q].id)
                            => r = q
    BY DEF SealersOwnTheirIds
  \* an id in use was drawn, and its owner has reached it
  <1>1. ASSUME NEW r \in Proc, op[r].step \in Sealing
        PROVE  /\ op[r].id \in FileId /\ issued[op[r].id] # Absent
               /\ issued[op[r].id].fate \in {"writing", "left"}
    BY <1>1, CallKnown DEF Sealing, SealersOwnTheirIds, DrawnFor, HoldsId, EncryptSteps
  <1>2. ASSUME NEW r \in Proc, r # p, op'[r].step \in Sealing
        PROVE  op[r].step \in Sealing /\ op'[r].id = op[r].id
    BY <1>2, OthersWait
  <1>3. ASSUME op'[p].step \in Sealing
        PROVE  \/ op'[p].id \in FileId /\ issued[op'[p].id] = Absent
               \/ op[p].step \in Sealing /\ op'[p].id = op[p].id
    BY <1>3, SealerStep DEF Sealing
  <1>4. \A r \in Proc : (op'[r].step \in Sealing /\ op'[r].id = op'[q].id) => r = q
    BY <1>1, <1>2, <1>3 DEF SealersOwnTheirIds
  <1>5. CASE q # p
    <2>1. /\ op[q].step = op'[q].step /\ op[q].id = op'[q].id /\ op[q].user = op'[q].user
          /\ op[q].name = op'[q].name /\ op[q].plain = op'[q].plain
      BY <1>5, OthersWait
    <2>2. ~(op[p].step \in Sealing /\ op[p].id = op[q].id)
      BY <1>5, <2>1 DEF SealersOwnTheirIds
    <2>3. issued'[op[q].id] = issued[op[q].id]
      BY <1>1, <2>1, <2>2, IssuedChange
    <2>4. ~(op[p].step \in {"enc_undo", "del_unlink"} /\ op[p].id = op[q].id)
      BY <1>1, <2>1, <2>2 DEF DeletersDoomTheirIds, DeleteSteps, Sealing
    <2>5. store'[op[q].id] # Absent
      <3>1. /\ op[q].id \in FileId /\ issued[op[q].id] # Absent
            /\ store[op[q].id] # Absent
        BY <1>1, <2>1 DEF SealersOwnTheirIds
      <3> QED BY <2>4, <3>1, StoreChange
    <2> QED BY <1>4, <2>1, <2>3, <2>5 DEF SealersOwnTheirIds, DrawnFor
  <1>6. CASE q = p
    <2>1. CASE op[p].step = "enc_create"
      <3>1. /\ op'[p].step = "enc_write" /\ op'[p].user = op[p].user
            /\ op'[p].name = op[p].name /\ op'[p].plain = op[p].plain
            /\ issued'[op'[p].id] = [owner |-> op[p].user, name |-> op[p].name,
                                     plain |-> op[p].plain, fate |-> "writing"]
            /\ store'[op'[p].id] = [key |-> op[p].user, plain |-> op[p].plain,
                                    form |-> "torn"]
        BY <1>6, <2>1, SealerStep
      <3>2. op[p].user \in User /\ op[p].name \in Name /\ op[p].plain \in Content
        BY <2>1, CallKnown DEF HoldsPlain, EncryptSteps
      <3>3. issued'[op'[p].id] # Absent /\ store'[op'[p].id] # Absent
        BY <3>1, <3>2, AbsentAssumption DEF Issue, Fate, StoreFile
      <3> QED BY <1>4, <1>6, <3>1, <3>3 DEF DrawnFor
    <2>2. CASE op[p].step # "enc_create"
      <3>1. /\ op[p].step \in Sealing \ {"enc_undo"} /\ op'[p].id = op[p].id
            /\ op'[p].user = op[p].user /\ op'[p].name = op[p].name
            /\ op'[p].plain = op[p].plain
            /\ \/ issued' = issued
               \/ op'[p].step = "enc_undo" /\ SetFate(op[p].id, "left")
        BY <1>6, <2>2, SealerStep DEF Sealing
      <3>2. /\ DrawnFor(op[p].id, op[p].user, op[p].name)
            /\ issued[op[p].id].plain = op[p].plain
            /\ issued[op[p].id].fate = "writing" /\ store[op[p].id] # Absent
        BY <3>1 DEF SealersOwnTheirIds
      <3>3. store'[op[p].id] # Absent
        BY <1>1, <3>1, <3>2, StoreChange DEF Sealing, DrawnFor
      <3>4. SetFate(op[p].id, "left") => issued'[op[p].id].fate = "left"
        BY <1>1, <3>1 DEF SetFate, TypeOK, Issue
      <3>5. /\ issued'[op[p].id] # Absent
            /\ issued'[op[p].id].owner = issued[op[p].id].owner
            /\ issued'[op[p].id].name = issued[op[p].id].name
            /\ issued'[op[p].id].plain = issued[op[p].id].plain
        BY <1>1, <3>1, IssuedChange DEF Sealing
      <3> QED BY <1>4, <1>6, <3>1, <3>2, <3>3, <3>4, <3>5 DEF DrawnFor
    <2> QED BY <2>1, <2>2
  <1> QED BY <1>5, <1>6

\* No step makes a record lead to the id of an encryption that has none yet, or
\* that has removed it again.
LEMMA SealersUnrecordedStep ==
  ASSUME Inductive, NEW p \in Proc, StepOf(p)
  PROVE  SealersUnrecorded'
  <1> /\ TypeOK /\ SealersOwnTheirIds /\ SealersUnrecorded /\ RecordsIssued
    BY DEF Inductive, Bookkeeping
  <1> SUFFICES ASSUME NEW q \in Proc,
                      \/ op'[q].step \in {"enc_write", "enc_meta"}
                      \/ op'[q].step = "enc_undo" /\ issued'[op'[q].id].fate = "writing",
                      NEW m \in MetaPaths, meta'[m] # Absent
               PROVE  meta'[m].id # op'[q].id
    BY DEF SealersUnrecorded, Unrecorded
  <1>1. CASE q # p
    <2>1. op[q].step = op'[q].step /\ op[q].id = op'[q].id /\ op[q].step \in Sealing
      BY <1>1, OthersWait DEF Sealing
    <2>2. ~(op[p].step \in Sealing /\ op[p].id = op[q].id)
      BY <1>1, <2>1 DEF SealersOwnTheirIds
    <2>3. /\ op[q].id \in FileId /\ issued[op[q].id] # Absent
          /\ issued[op[q].id].fate \in {"writing", "left"}
      BY <2>1, CallKnown DEF Sealing, SealersOwnTheirIds, DrawnFor, HoldsId, EncryptSteps
    <2>4. issued'[op[q].id] = issued[op[q].id]
      BY <2>2, <2>3, IssuedChange
    <2>5. Unrecorded(op[q].id)
      BY <2>1, <2>4 DEF SealersUnrecorded
    <2>6. \/ meta'[m] = meta[m]
          \/ meta'[m].id = op[p].id /\ op[p].step \in Sealing
          \/ meta[m] # Absent /\ meta'[m].id = meta[m].id
      <3>1. CASE op[p].step = "enc_meta"
        <4>1. op[p].step \in Sealing
          BY <3>1 DEF Sealing
        <4> QED BY <3>1, <4>1, MetaChange
      <3>2. CASE op[p].step # "enc_meta"
        BY <3>2, MetaChange
      <3> QED BY <3>1, <3>2
    <2> QED BY <2>1, <2>2, <2>5, <2>6 DEF Unrecorded
  <1>2. CASE q = p
    <2>0. op'[p].step \in Sealing
      BY <1>2 DEF Sealing
    <2>1. CASE op[p].step = "enc_create"
      <3>1. meta' = meta /\ issued[op'[p].id] = Absent
        BY <2>0, <2>1, SealerStep DEF Sealing
      <3> QED BY <1>2, <3>1 DEF RecordsIssued, DrawnFor
    <2>2. CASE op[p].step \in {"enc_write", "enc_meta"}
      <3>1. meta' = meta /\ op'[p].id = op[p].id
        BY <1>2, <2>0, <2>2, SealerStep
      <3> QED BY <1>2, <2>2, <3>1 DEF SealersUnrecorded, Unrecorded
    <2>3. CASE op[p].step = "enc_drop"
      <3>1. op[p].id \in FileId /\ DrawnFor(op[p].id, op[p].user, op[p].name)
        BY <2>3, CallKnown DEF HoldsId, EncryptSteps, Sealing, SealersOwnTheirIds
      <3>2. op'[p].id = op[p].id /\ op'[p].step = "enc_undo"
        BY <2>0, <2>3, SealerStep
      <3>3. ~SetFate(op[p].id, "left")
        BY <1>2, <3>1, <3>2 DEF SetFate, TypeOK, Issue, DrawnFor
      <3>4. meta' = [meta EXCEPT ![MetaPath(op[p].user, op[p].name)] = Absent]
        BY <2>0, <2>3, <3>3, SealerStep
      <3>5. m # MetaPath(op[p].user, op[p].name) /\ meta'[m] = meta[m]
        BY <3>4 DEF TypeOK
      <3> QED BY <1>2, <3>1, <3>2, <3>5 DEF RecordsIssued, DrawnFor
    <2> QED BY <1>2, <2>0, <2>1, <2>2, <2>3, SealerStep
  <1> QED BY <1>1, <1>2

\* Nothing is forgotten of an id once it is drawn.
LEMMA DrawnStays ==
  ASSUME Inductive, NEW p \in Proc, StepOf(p), NEW id \in FileId, issued[id] # Absent
  PROVE  /\ issued'[id] # Absent
         /\ issued'[id].owner = issued[id].owner
         /\ issued'[id].name = issued[id].name
         /\ issued'[id].plain = issued[id].plain
         /\ issued[id].fate \in {"kept", "doomed"} => issued'[id].fate \in {"kept", "doomed"}
         /\ issued[id].fate = "doomed" => issued'[id].fate = "doomed"
  <1> /\ TypeOK /\ SealersOwnTheirIds
    BY DEF Inductive, Bookkeeping
  <1>1. (op[p].step \in Sealing /\ op[p].id = id) => issued[id].fate \in {"writing", "left"}
    BY DEF SealersOwnTheirIds
  <1> QED BY <1>1, IssuedChange

\* What is in storage/ stays what was sealed under its id.
LEMMA StoreIssuedStep ==
  ASSUME Inductive, NEW p \in Proc, StepOf(p)
  PROVE  StoreIssued'
  <1> TypeOK /\ StoreIssued
    BY DEF Inductive, Bookkeeping
  <1> SUFFICES ASSUME NEW id \in FileId, store'[id] # Absent
               PROVE  /\ issued'[id] # Absent
                      /\ store'[id].key = issued'[id].owner
                      /\ store'[id].plain = issued'[id].plain
    BY DEF StoreIssued
  <1>1. CASE store[id] # Absent
    <2>1. /\ issued[id] # Absent /\ store[id].key = issued[id].owner
          /\ store[id].plain = issued[id].plain
      BY <1>1 DEF StoreIssued
    <2> QED BY <1>1, <2>1, DrawnStays, StoreChange
  <1>2. CASE store[id] = Absent
    <2>1. /\ op[p].step = "enc_create" /\ issued[id] = Absent
          /\ issued'[id].owner = op[p].user /\ issued'[id].plain = op[p].plain
          /\ store'[id] = [key |-> op[p].user, plain |-> op[p].plain, form |-> "torn"]
          /\ issued'[id] # Absent
      BY <1>2, StoreChange
    <2> QED BY <2>1
  <1> QED BY <1>1, <1>2

\* Records stay at the path of their owner and name, and become complete only
\* for an encryption that is kept.
LEMMA RecordsIssuedStep ==
  ASSUME Inductive, NEW p \in Proc, StepOf(p)
  PROVE  RecordsIssued'
  <1> TypeOK /\ RecordsIssued /\ SealersOwnTheirIds
    BY DEF Inductive, Bookkeeping
  <1> SUFFICES ASSUME NEW m \in MetaPaths, meta'[m] # Absent
               PROVE  /\ DrawnFor(meta[m].id, meta[m].owner, meta[m].name)'
                      /\ m = MetaPath(meta'[m].owner, meta'[m].name)
                      /\ meta'[m].form = "whole" =>
                            issued'[meta'[m].id].fate \in {"kept", "doomed"}
    BY DEF RecordsIssued
  <1>1. CASE meta[m] # Absent
    <2>1. /\ meta[m].id \in FileId
          /\ DrawnFor(meta[m].id, meta[m].owner, meta[m].name)
          /\ m = MetaPath(meta[m].owner, meta[m].name)
          /\ meta[m].form = "whole" => issued[meta[m].id].fate \in {"kept", "doomed"}
      BY <1>1 DEF RecordsIssued, TypeOK, MetaRecord
    <2>2. CASE meta'[m] = meta[m]
      BY <2>1, <2>2, DrawnStays DEF DrawnFor
    <2>3. CASE /\ meta'[m].id = meta[m].id /\ meta'[m].owner = meta[m].owner
               /\ meta'[m].name = meta[m].name /\ issued'[meta[m].id].fate = "kept"
      BY <2>1, <2>3, DrawnStays DEF DrawnFor
    <2> QED BY <1>1, <2>2, <2>3, MetaChange
  <1>2. CASE meta[m] = Absent
    <2>1. /\ op[p].step = "enc_meta" /\ op'[p].step = "enc_record"
          /\ m = MetaPath(op[p].user, op[p].name)
          /\ meta'[m] = [owner |-> op[p].user, name |-> op[p].name,
                         id |-> op[p].id, form |-> "torn"]
      BY <1>2, MetaChange
    <2>2. op[p].id \in FileId /\ DrawnFor(op[p].id, op[p].user, op[p].name)
      BY <2>1, CallKnown DEF Sealing, SealersOwnTheirIds, HoldsId, EncryptSteps
    <2> QED BY <2>1, <2>2, DrawnStays DEF DrawnFor
  <1> QED BY <1>1, <1>2

\* A decryption stays with the id and content of its user and name.
LEMMA DecryptersStep ==
  ASSUME Inductive, NEW p \in Proc, StepOf(p)
  PROVE  DecryptersFaithful'
  <1> /\ TypeOK /\ DecryptersFaithful /\ RecordsIssued /\ StoreIssued
      /\ \A q \in Proc : op[q].gone => op[q].step = "del_record"
    BY DEF Inductive, Bookkeeping, DeletersDoomTheirIds
  <1> SUFFICES ASSUME NEW q \in Proc, op'[q].step \in DecryptSteps \ {"dec_load"}
               PROVE  /\ DrawnFor(op[q].id, op[q].user, op[q].name)'
                      /\ op'[q].step # "dec_read" =>
                            issued'[op'[q].id].plain = op'[q].plain
    BY DEF DecryptersFaithful
  <1>1. ASSUME NEW id \in FileId, NEW u, NEW n, DrawnFor(id, u, n)
        PROVE  DrawnFor(id, u, n)' /\ issued'[id].plain = issued[id].plain
    BY <1>1, DrawnStays DEF DrawnFor
  <1>2. CASE q # p
    <2>1. /\ op[q].step = op'[q].step /\ op[q].id = op'[q].id /\ op[q].user = op'[q].user
          /\ op[q].name = op'[q].name /\ op[q].plain = op'[q].plain
      BY <1>2, OthersWait
    <2>2. op[q].id \in FileId
      BY <2>1, CallKnown DEF HoldsId, DecryptSteps
    <2> QED BY <2>1, <2>2, <1>1, DrawnStays DEF DecryptersFaithful, DrawnFor
  <1>3. CASE q = p
    <2> op[p] \in Call
      BY DEF TypeOK
    <2> ~Return(p, "failure")
      BY <1>3, IdleAtReturn DEF Return, DecryptSteps
    <2>1. CASE DecryptLoad(p)
      <3> DEFINE i == meta[MetaPath(op[p].user, op[p].name)].id
      <3>1. /\ Loadable(op[p].user, op[p].name)
            /\ op' = [op EXCEPT ![p] = [op[p] EXCEPT !.step = "dec_read", !.id = i]]
        BY <2>1 DEF DecryptLoad, Continue
      <3>2. i \in FileId /\ DrawnFor(i, op[p].user, op[p].name)
        BY <2>1, <3>1, CallKnown, LoadedTyped DEF DecryptLoad, RecordsIssued, Loadable, Loads
      <3> HIDE DEF i
      <3>3. op'[p] = [op[p] EXCEPT !.step = "dec_read", !.id = i]
        BY <3>1 DEF TypeOK
      <3>4. /\ op'[p].step = "dec_read" /\ op'[p].id = i
            /\ op'[p].user = op[p].user /\ op'[p].name = op[p].name
        BY <3>3 DEF Call
      <3> QED BY <1>1, <1>3, <3>2, <3>4, DrawnStays DEF DrawnFor
    <2>2. CASE DecryptRead(p)
      <3> DEFINE c == store[op[p].id].plain
      <3>1. /\ Opens(store[op[p].id], op[p].user) /\ op[p].step = "dec_read"
            /\ op' = [op EXCEPT ![p] = [op[p] EXCEPT !.step = "dec_open", !.plain = c]]
        BY <2>2 DEF DecryptRead, Continue
      <3>2. op[p].id \in FileId /\ DrawnFor(op[p].id, op[p].user, op[p].name)
        BY <3>1, CallKnown DEF HoldsId, DecryptSteps, DecryptersFaithful
      <3>3. issued[op[p].id].plain = c
        BY <3>1, <3>2 DEF StoreIssued, Opens
      <3> HIDE DEF c
      <3>4. op'[p] = [op[p] EXCEPT !.step = "dec_open", !.plain = c]
        BY <3>1 DEF TypeOK
      <3>5. /\ op'[p].id = op[p].id /\ op'[p].plain = c
            /\ op'[p].user = op[p].user /\ op'[p].name = op[p].name
        BY <3>4 DEF Call
      <3> QED BY <1>3, <3>2, <3>3, <3>5, DrawnStays DEF DrawnFor
    <2>3. CASE DecryptOpen(p)
      <3>1. /\ op[p].step = "dec_open"
            /\ op' = [op EXCEPT ![p] = [op[p] EXCEPT !.step = "dec_write", !.linked = TRUE]]
        BY <2>3 DEF DecryptOpen, Continue
      <3>2. op'[p] = [op[p] EXCEPT !.step = "dec_write", !.linked = TRUE]
        BY <3>1 DEF TypeOK
      <3>3. /\ op'[p].id = op[p].id /\ op'[p].plain = op[p].plain
            /\ op'[p].user = op[p].user /\ op'[p].name = op[p].name
        BY <3>2 DEF Call
      <3>4. /\ op[p].id \in FileId /\ DrawnFor(op[p].id, op[p].user, op[p].name)
            /\ issued[op[p].id].plain = op[p].plain
        BY <3>1, CallKnown DEF HoldsId, DecryptSteps, DecryptersFaithful
      <3> QED BY <1>3, <3>3, <3>4, DrawnStays DEF DrawnFor
    <2> QED BY <1>3, <2>1, <2>2, <2>3, ActionOfStep
  <1> QED BY <1>2, <1>3

\* A deletion stays with an id that is given up, and what it unlinked does not
\* come back.
LEMMA DeletersStep ==
  ASSUME Inductive, NEW p \in Proc, StepOf(p)
  PROVE  DeletersDoomTheirIds'
  <1> TypeOK /\ DeletersDoomTheirIds /\ RecordsIssued
    BY DEF Inductive, Bookkeeping
  <1> SUFFICES ASSUME NEW q \in Proc
               PROVE  /\ op'[q].step \in DeleteSteps \ {"del_load"} =>
                            /\ DrawnFor(op[q].id, op[q].user, op[q].name)'
                            /\ issued'[op'[q].id].fate = "doomed"
                      /\ op'[q].gone =>
                            op'[q].step = "del_record" /\ store'[op'[q].id] = Absent
    BY DEF DeletersDoomTheirIds
  <1>2. CASE q # p
    <2>1. /\ op[q].step = op'[q].step /\ op[q].id = op'[q].id /\ op[q].user = op'[q].user
          /\ op[q].name = op'[q].name /\ op[q].gone = op'[q].gone
      BY <1>2, OthersWait
    <2>2. op[q].step \in DeleteSteps \ {"del_load"} => op[q].id \in FileId
      BY CallKnown DEF HoldsId, DeleteSteps
    <2>3. op[q].step \in DeleteSteps \ {"del_load"} =>
              /\ DrawnFor(op[q].id, op[q].user, op[q].name)'
              /\ issued'[op[q].id].fate = "doomed"
              /\ store[op[q].id] = Absent => store'[op[q].id] = Absent
      <3> SUFFICES ASSUME op[q].step \in DeleteSteps \ {"del_load"}
                   PROVE  /\ DrawnFor(op[q].id, op[q].user, op[q].name)'
                          /\ issued'[op[q].id].fate = "doomed"
                          /\ store[op[q].id] = Absent => store'[op[q].id] = Absent
        BY <2>1 DEF DrawnFor
      <3>1. /\ DrawnFor(op[q].id, op[q].user, op[q].name) /\ op[q].id \in FileId
            /\ issued[op[q].id].fate = "doomed"
        BY <2>2 DEF DeletersDoomTheirIds
      <3>2. /\ issued'[op[q].id] # Absent
            /\ issued'[op[q].id].owner = op[q].user /\ issued'[op[q].id].name = op[q].name
            /\ issued'[op[q].id].fate = "doomed"
        BY <3>1, DrawnStays DEF DrawnFor
      <3>3. store[op[q].id] = Absent => store'[op[q].id] = Absent
        BY <3>1, StoreChange DEF DrawnFor
      <3> QED BY <2>1, <3>2, <3>3 DEF DrawnFor
    <2>4. op[q].gone => op[q].step \in DeleteSteps \ {"del_load"}
      BY DEF DeletersDoomTheirIds, DeleteSteps
    <2> QED BY <2>1, <2>3, <2>4 DEF DeletersDoomTheirIds, DrawnFor
  <1>3. CASE q = p /\ (op'[p].step \in DeleteSteps \ {"del_load"} \/ op'[p].gone)
    <2> op[p] \in Call
      BY DEF TypeOK
    <2> ~Return(p, "failure")
      BY <1>3, IdleAtReturn DEF Return, DeleteSteps
    <2>1. CASE DeleteLoad(p)
      <3> DEFINE i == meta[MetaPath(op[p].user, op[p].name)].id
      <3>1. /\ Loadable(op[p].user, op[p].name) /\ SetFate(i, "doomed")
            /\ op' = [op EXCEPT ![p] = [op[p] EXCEPT !.step = "del_wipe", !.id = i]]
        BY <2>1 DEF DeleteLoad, Continue
      <3>2. i \in FileId /\ DrawnFor(i, op[p].user, op[p].name)
        BY <2>1, <3>1, CallKnown, LoadedTyped DEF DeleteLoad, RecordsIssued, Loadable, Loads
      <3> HIDE DEF i
      <3>3. op'[p] = [op[p] EXCEPT !.step = "del_wipe", !.id = i]
        BY <3>1 DEF TypeOK
      <3>4. /\ op'[p].step = "del_wipe" /\ op'[p].id = i /\ op'[p].gone = op[p].gone
            /\ op'[p].user = op[p].user /\ op'[p].name = op[p].name
        BY <3>3 DEF Call
      <3>5. issued'[i].fate = "doomed"
        BY <3>1, <3>2 DEF SetFate, TypeOK, Issue, DrawnFor
      <3>6. ~op[p].gone
        BY <2>1 DEF DeleteLoad, DeletersDoomTheirIds
      <3> QED BY <1>3, <3>2, <3>4, <3>5, <3>6, DrawnStays DEF DrawnFor
    <2>2. ASSUME DeleteWipe(p) \/ DeleteUnlink(p)
          PROVE  /\ op[p].id \in FileId /\ DrawnFor(op[p].id, op[p].user, op[p].name)
                 /\ issued[op[p].id].fate = "doomed" /\ ~op[p].gone
      BY <2>2, CallKnown DEF DeleteWipe, DeleteUnlink, HoldsId, DeleteSteps,
         DeletersDoomTheirIds
    <2>3. CASE DeleteWipe(p)
      <3>1. op'[p] = [op[p] EXCEPT !.step = "del_unlink"]
        BY <2>3 DEF DeleteWipe, Continue, TypeOK
      <3>2. /\ op'[p].step = "del_unlink" /\ op'[p].id = op[p].id
            /\ op'[p].gone = op[p].gone
            /\ op'[p].user = op[p].user /\ op'[p].name = op[p].name
        BY <3>1 DEF Call
      <3> QED BY <1>3, <2>2, <2>3, <3>2, DrawnStays DEF DrawnFor
    <2>4. CASE DeleteUnlink(p)
      <3>1. /\ op'[p].step = "del_record" /\ op'[p].id = op[p].id
            /\ op'[p].user = op[p].user /\ op'[p].name = op[p].name
            /\ op'[p].gone => store'[op[p].id] = Absent
        <4>1. CASE /\ store' = [store EXCEPT ![op[p].id] = Absent]
                   /\ Continue(p, [op[p] EXCEPT !.step = "del_record", !.gone = TRUE])
          <5>1. op'[p] = [op[p] EXCEPT !.step = "del_record", !.gone = TRUE]
            BY <4>1 DEF Continue, TypeOK
          <5> QED BY <2>2, <2>4, <4>1, <5>1 DEF Call, TypeOK
        <4>2. CASE Continue(p, [op[p] EXCEPT !.step = "del_record"])
          <5>1. op'[p] = [op[p] EXCEPT !.step = "del_record"]
            BY <4>2 DEF Continue, TypeOK
          <5> QED BY <2>2, <2>4, <5>1 DEF Call
        <4> QED BY <2>4, <4>1, <4>2 DEF DeleteUnlink
      <3> QED BY <1>3, <2>2, <2>4, <3>1, DrawnStays DEF DrawnFor
    <2> QED BY <1>3, <2>1, <2>3, <2>4, ActionOfStep DEF DeletersDoomTheirIds
  <1> QED BY <1>2, <1>3

\* Nothing of an encryption that was undone comes back.
LEMMA FailedEncryptStep ==
  ASSUME Inductive, NEW p \in Proc, StepOf(p)
  PROVE  FailedEncryptLeavesNothing'
  <1> /\ TypeOK /\ FailedEncryptLeavesNothing /\ SealersOwnTheirIds
      /\ SealersUnrecorded
    BY DEF Inductive, Bookkeeping
  <1> SUFFICES ASSUME NEW id \in FileId, issued'[id] # Absent, issued'[id].fate = "undone"
               PROVE  store'[id] = Absent /\ Unrecorded(id)'
    BY DEF FailedEncryptLeavesNothing, Unrecorded
  <1>1. CASE issued'[id] = issued[id]
    <2>1. store[id] = Absent /\ Unrecorded(id)
      BY <1>1 DEF FailedEncryptLeavesNothing, Unrecorded
    <2>2. op[p].step \in Sealing => op[p].id # id
      BY <1>1 DEF SealersOwnTheirIds
    <2>3. store'[id] = Absent
      BY <1>1, <2>1, StoreChange
    <2>4. ASSUME NEW m \in MetaPaths, meta'[m] # Absent PROVE meta'[m].id # id
      <3>1. CASE op[p].step = "enc_meta"
        <4>1. op[p].id # id
          BY <2>2, <3>1 DEF Sealing
        <4> QED BY <2>1, <2>4, <3>1, <4>1, MetaChange, ZenonT(40) DEF Unrecorded
      <3>2. CASE op[p].step # "enc_meta"
        BY <2>1, <2>4, <3>2, MetaChange DEF Unrecorded
      <3> QED BY <3>1, <3>2
    <2> QED BY <2>3, <2>4 DEF Unrecorded
  <1>2. CASE issued'[id] # issued[id]
    <2>1. /\ op[p].step = "enc_undo" /\ op[p].id = id /\ issued[id].fate = "writing"
          /\ store'[id] = Absent /\ meta' = meta
      BY <1>2, IssuedChange
    <2> QED BY <2>1 DEF SealersUnrecorded, Unrecorded
  <1> QED BY <1>1, <1>2

\* Every step keeps the bookkeeping in order.
LEMMA StepBookkeeping ==
  ASSUME Inductive, [Next]_vars
  PROVE  Bookkeeping'
  <1>1. ASSUME NEW p \in Proc, StepOf(p) PROVE Bookkeeping'
    BY <1>1, SealersOwnStep, SealersUnrecordedStep, StoreIssuedStep, RecordsIssuedStep,
       DecryptersStep, DeletersStep, FailedEncryptStep DEF Bookkeeping
  <1>2. CASE UNCHANGED <<store, meta, op, result, issued>>
    BY <1>2 DEF Inductive, Bookkeeping, SealersOwnTheirIds, SealersUnrecorded, StoreIssued,
       RecordsIssued, DecryptersFaithful, DeletersDoomTheirIds,
       FailedEncryptLeavesNothing, DrawnFor, Unrecorded
  <1> QED BY <1>1, <1>2 DEF Next, Edit, vars, StepOf

-----------------------------------------------------------------------------
(***************************************************************************)
(* The theorems.                                                           *)
(***************************************************************************)
\* Every reachable state is well typed and the ids and processes agree.
THEOREM InductiveHolds == Spec => []Inductive
  <1>1. Init => Inductive
    BY InitInductive
  <1>2. Inductive /\ [Next]_vars => Inductive'
    BY StepTyped, StepBookkeeping DEF Inductive
  <1> QED BY <1>1, <1>2, PTL DEF Spec

\* The ids and the processes agree in every reachable state, whatever fails and
\* however many processes interleave (fileops.c, metadata.c).
THEOREM BookkeepingHolds == Spec => []Bookkeeping
  <1>1. Inductive => Bookkeeping
    BY DEF Inductive
  <1> QED BY <1>1, InductiveHolds, PTL

\* The variables of the vault, and the locals of every call, have their types.
THEOREM TypeCorrect == Spec => []TypeOK
  <1>1. Inductive => TypeOK
    BY DEF Inductive
  <1> QED BY <1>1, InductiveHolds, PTL

\* Whatever other processes, crashes and failures do between its steps, an
\* encryption that went through its failure path leaves no storage file and no
\* record (fileops.c, metadata.c).
THEOREM FailedEncryptClean == Spec => []FailedEncryptLeavesNothing
  <1>1. Inductive => FailedEncryptLeavesNothing
    BY DEF Inductive, Bookkeeping
  <1> QED BY <1>1, InductiveHolds, PTL

\* What decrypt is about to write is what its user encrypted under this name,
\* whatever fails and whoever deletes or encrypts at the same time.
THEOREM DecryptGivesBackWhatWasSealed == Spec => []DecryptFaithful
  <1>1. Inductive => DecryptFaithful
    <2> SUFFICES ASSUME Inductive, NEW p \in Proc, op[p].step \in {"dec_open", "dec_write"}
                 PROVE  /\ issued[op[p].id] # Absent
                        /\ issued[op[p].id].owner = op[p].user
                        /\ issued[op[p].id].name = op[p].name
                        /\ issued[op[p].id].plain = op[p].plain
      BY DEF DecryptFaithful
    <2> QED BY DEF Inductive, Bookkeeping, DecryptersFaithful, DrawnFor, DecryptSteps
  <1> QED BY <1>1, InductiveHolds, PTL
-----------------------------------------------------------------------------
(***************************************************************************)
(* What holds as long as fclose loses no data.                             *)
(***************************************************************************)
\* Without a lost flush every step keeps the written storage files complete.
LEMMA StoreCompleteStep ==
  ASSUME "flush" \notin Faults, Inductive, StoreComplete, NEW p \in Proc, StepOf(p)
  PROVE  StoreComplete'
  <1> /\ TypeOK /\ SealersOwnTheirIds /\ DeletersDoomTheirIds
      /\ \A q \in Proc : op[q].gone => op[q].step = "del_record"
    BY DEF Inductive, Bookkeeping, DeletersDoomTheirIds
  <1> DEFINE Whole(id) == store[id] # Absent /\ store[id].form = "whole"
  <1> DEFINE Sealed(q) == op[q].step \in {"enc_meta", "enc_record"}
  <1>1. ASSUME NEW q \in Proc, Sealed(q)
        PROVE  /\ op[q].id \in FileId /\ Whole(op[q].id)
               /\ issued[op[q].id] # Absent /\ issued[op[q].id].fate = "writing"
    BY <1>1, CallKnown DEF StoreComplete, SealersOwnTheirIds, DrawnFor, Sealing,
       HoldsId, EncryptSteps
  \* nobody else's step breaks a file that is kept or being recorded
  <1>2. ASSUME NEW id \in FileId, Whole(id), issued[id] # Absent,
               op[p].step \in Sealing => op[p].id # id \/ op[p].step \in {"enc_meta", "enc_record"},
               issued[id].fate # "doomed"
        PROVE  store'[id] # Absent /\ store'[id].form = "whole"
    <2>1. ~(op[p].step \in {"enc_write", "enc_undo"} /\ op[p].id = id)
      BY <1>2 DEF Sealing
    <2>2. ~(op[p].step \in {"del_wipe", "del_unlink"} /\ op[p].id = id)
      BY <1>2 DEF DeletersDoomTheirIds, DeleteSteps
    <2> QED BY <1>2, <2>1, <2>2, StoreChange, ZenonT(40)
  <1>3. ASSUME NEW id \in FileId, issued'[id] # Absent, issued'[id].fate = "kept"
        PROVE  store'[id] # Absent /\ store'[id].form = "whole"
    <2>1. CASE issued'[id] = issued[id]
      <3>1. Whole(id)
        BY <1>3, <2>1 DEF StoreComplete
      <3>2. op[p].step \in Sealing => op[p].id # id
        BY <1>3, <2>1 DEF SealersOwnTheirIds
      <3> QED BY <1>2, <1>3, <2>1, <3>1, <3>2
    <2>2. CASE issued'[id] # issued[id]
      <3>1. op[p].step = "enc_record" /\ op[p].id = id
        BY <1>3, <2>2, IssuedChange
      <3> QED BY <1>1, <1>2, <3>1
    <2> QED BY <2>1, <2>2
  <1>4. ASSUME NEW q \in Proc, op'[q].step \in {"enc_meta", "enc_record"}
        PROVE  /\ op'[q].id \in FileId
               /\ store'[op'[q].id] # Absent /\ store'[op'[q].id].form = "whole"
    <2>1. CASE q # p
      <3>1. Sealed(q) /\ op'[q].id = op[q].id
        BY <1>4, <2>1, OthersWait
      <3>2. op[p].step \in Sealing => op[p].id # op[q].id
        BY <2>1, <3>1 DEF SealersOwnTheirIds, Sealing
      <3> QED BY <1>1, <1>2, <3>1, <3>2
    <2>2. CASE q = p
      <3>1. /\ op'[p].id = op[p].id
            /\ \/ op[p].step = "enc_write"
               \/ op[p].step = "enc_meta"
        BY <1>4, <2>2, SealerStep DEF Sealing
      <3>2. CASE op[p].step = "enc_meta"
        BY <1>1, <1>2, <2>2, <3>1, <3>2
      <3>3. CASE op[p].step = "enc_write"
        <4>1. EncryptWrite(p) \/ op'[p].step = "idle"
          BY <1>4, <2>2, <3>3, ActionOfStep
             DEF Sealing, EncryptCreate, EncryptMeta, EncryptRecord, EncryptDrop
        <4>2. op[p].id \in FileId /\ store[op[p].id] # Absent /\ op[p] \in Call
          BY <3>3, CallKnown DEF SealersOwnTheirIds, Sealing, HoldsId, EncryptSteps
        <4>3. ~Continue(p, [op[p] EXCEPT !.step = "enc_undo"])
          <5> SUFFICES ASSUME Continue(p, [op[p] EXCEPT !.step = "enc_undo"]) PROVE FALSE
            OBVIOUS
          <5>1. op'[p] = [op[p] EXCEPT !.step = "enc_undo"]
            BY DEF Continue, TypeOK
          <5> QED BY <1>4, <2>2, <4>2, <5>1 DEF Call
        <4>4. store' = [store EXCEPT ![op[p].id].form = "whole"]
          BY <1>4, <2>2, <4>1, <4>3 DEF EncryptWrite
        <4>5. store'[op[p].id] # Absent
          BY <3>3, <4>2, StoreChange DEF Sealing
        <4>6. store'[op[p].id].form = "whole"
          BY <4>2, <4>4 DEF TypeOK, StoreFile
        <4> QED BY <2>2, <3>1, <4>2, <4>5, <4>6
      <3> QED BY <3>1, <3>2, <3>3
    <2> QED BY <2>1, <2>2
  <1> QED BY <1>3, <1>4 DEF StoreComplete

\* Once an encryption has written its storage file, the file stays complete
\* until a delete loads its id, if no data is lost at fclose (fileops.c:290).
THEOREM SealedFilesStayComplete ==
  ASSUME "flush" \notin Faults
  PROVE  Spec => [](Inductive /\ StoreComplete)
  <1>1. Init => Inductive /\ StoreComplete
    <2>1. Init => StoreComplete
      BY DEF Init, StoreComplete, Rest
    <2> QED BY <2>1, InitInductive
  <1>2. Inductive /\ StoreComplete /\ [Next]_vars => (Inductive /\ StoreComplete)'
    <2> SUFFICES ASSUME Inductive, StoreComplete, [Next]_vars
                 PROVE  Inductive' /\ StoreComplete'
      OBVIOUS
    <2>1. Inductive'
      BY StepTyped, StepBookkeeping DEF Inductive
    <2>2. ASSUME NEW p \in Proc, StepOf(p) PROVE StoreComplete'
      BY <2>2, StoreCompleteStep
    <2>3. CASE UNCHANGED <<store, meta, op, result, issued>>
      BY <2>1, <2>3 DEF StoreComplete
    <2> QED BY <2>1, <2>2, <2>3 DEF Next, Edit, vars, StepOf
  <1> QED BY <1>1, <1>2, PTL DEF Spec

\* If no data is lost at fclose, every complete record that no delete has
\* loaded leads to a complete storage file, sealed for the record's owner from
\* the content that was read: encrypt writes the record last and nothing but
\* the id's own encryption and delete ever touches the storage file.
THEOREM RecordsAreBacked ==
  ASSUME "flush" \notin Faults
  PROVE  Spec => []RecordBacked
  <1>1. Inductive /\ StoreComplete => RecordBacked
    <2> SUFFICES ASSUME Inductive, StoreComplete, NEW m \in MetaPaths,
                        meta[m] # Absent, meta[m].form = "whole",
                        issued[meta[m].id].fate # "doomed"
                 PROVE  store[meta[m].id] = [key |-> meta[m].owner,
                                             plain |-> issued[meta[m].id].plain,
                                             form |-> "whole"]
      BY DEF RecordBacked
    <2>1. /\ meta[m].id \in FileId /\ issued[meta[m].id] # Absent
          /\ issued[meta[m].id].owner = meta[m].owner
          /\ issued[meta[m].id].fate = "kept"
      BY DEF Inductive, Bookkeeping, TypeOK, MetaRecord, RecordsIssued, DrawnFor
    <2>2. store[meta[m].id] # Absent /\ store[meta[m].id].form = "whole"
      BY <2>1 DEF StoreComplete
    <2>3. /\ store[meta[m].id].key = meta[m].owner
          /\ store[meta[m].id].plain = issued[meta[m].id].plain
          /\ store[meta[m].id] \in StoreFile
      BY <2>1, <2>2 DEF Inductive, Bookkeeping, StoreIssued, TypeOK
    <2> QED BY <2>2, <2>3 DEF StoreFile
  <1> QED BY <1>1, SealedFilesStayComplete, PTL

-----------------------------------------------------------------------------
\* Delete returns success only when the storage file it loaded and every
\* record leading to it are gone, however many deletes and encryptions of the
\* same name overlap (fileops.c:398, metadata.c:227).
THEOREM DeleteSuccessIsTrue == Spec => DeleteSuccessMeansGone
  <1> DEFINE A == \A p \in Proc :
        (op[p].step = "del_record" /\ op'[p].step = "idle" /\ result'[p] = "success") =>
            /\ store'[op[p].id] = Absent
            /\ \A m \in MetaPaths : meta'[m] # Absent => meta'[m].id # op[p].id
  <1>1. Inductive /\ [Next]_vars => [A]_vars
    <2> SUFFICES ASSUME Inductive, Next, NEW p \in Proc, op[p].step = "del_record",
                        op'[p].step = "idle", result'[p] = "success"
                 PROVE  /\ store'[op[p].id] = Absent
                        /\ \A m \in MetaPaths : meta'[m] # Absent => meta'[m].id # op[p].id
      OBVIOUS
    <2> TypeOK /\ RecordsIssued /\ DeletersDoomTheirIds
      BY DEF Inductive, Bookkeeping
    <2>1. PICK q \in Proc : StepOf(q)
      BY DEF Next, Edit, StepOf
    <2>2. StepOf(p)
      BY <2>1, OthersWait
    <2>3. DeleteRecord(p)
      <3>1. ~Crash(p)
        BY DEF Crash, TypeOK
      <3> QED BY <2>2, <3>1
          DEF StepOf, Encrypt, EncryptStart, EncryptRead, EncryptCreate, EncryptWrite,
              EncryptMeta, EncryptRecord, EncryptDrop, EncryptUndo, EncryptWipe,
              EncryptUnlink, Decrypt, DecryptStart, DecryptLoad, DecryptRead,
              DecryptOpen, DecryptWrite, Delete, DeleteStart, DeleteLoad, DeleteWipe,
              DeleteUnlink, List, Begin
    <2>4. /\ op[p].gone /\ store' = store
          /\ meta' = [meta EXCEPT ![MetaPath(op[p].user, op[p].name)] = Absent]
      BY <2>3 DEF DeleteRecord, Return, TypeOK
    <2>5. store[op[p].id] = Absent /\ DrawnFor(op[p].id, op[p].user, op[p].name)
      BY <2>4 DEF DeletersDoomTheirIds, DeleteSteps
    <2>6. ASSUME NEW m \in MetaPaths, meta'[m] # Absent PROVE meta'[m].id # op[p].id
      <3>1. meta'[m] = meta[m] /\ m # MetaPath(op[p].user, op[p].name)
        BY <2>4, <2>6 DEF TypeOK
      <3> QED BY <2>5, <2>6, <3>1 DEF RecordsIssued, DrawnFor
    <2> QED BY <2>4, <2>5, <2>6
  <1> QED BY <1>1, InductiveHolds, PTL DEF Spec, DeleteSuccessMeansGone
=============================================================================
