------------------------------ MODULE VaultInv ------------------------------
(***************************************************************************)
(* Why the vault is right: what every reachable state of Vault knows of    *)
(* each file id.  The parts below are inductive together; VaultProofs      *)
(* proves that, and the runs of MCVault check them on small instances.     *)
(***************************************************************************)
EXTENDS Vault

\* No record of metadata/ leads to the id.
Unrecorded(id) == \A m \in MetaPaths : meta[m] # Absent => meta[m].id # id

\* The id was drawn for this user and file name.
DrawnFor(id, u, n) ==
    issued[id] # Absent /\ issued[id].owner = u /\ issued[id].name = n

\* An encryption that is not over owns a file id nobody else works with, and
\* its storage file is there.
SealersOwnTheirIds ==
    \A p \in Proc : op[p].step \in Sealing =>
        /\ DrawnFor(op[p].id, op[p].user, op[p].name)
        /\ issued[op[p].id].plain = op[p].plain
        /\ issued[op[p].id].fate \in
             IF op[p].step = "enc_undo" THEN {"writing", "left"} ELSE {"writing"}
        /\ store[op[p].id] # Absent
        /\ \A q \in Proc : (op[q].step \in Sealing /\ op[q].id = op[p].id) => q = p

\* Until it creates its record no record leads to the id, and on the failure
\* path none is left unless remove() failed.
SealersUnrecorded ==
    \A p \in Proc :
        (\/ op[p].step \in {"enc_write", "enc_meta"}
         \/ op[p].step = "enc_undo" /\ issued[op[p].id].fate = "writing")
            => Unrecorded(op[p].id)

\* What is in storage/ is what was sealed under the id.
StoreIssued ==
    \A id \in FileId : store[id] # Absent =>
        /\ issued[id] # Absent
        /\ store[id].key = issued[id].owner /\ store[id].plain = issued[id].plain

\* A record sits at the path of the owner and name its id was drawn for, and
\* is complete only if the encryption was kept.
RecordsIssued ==
    \A m \in MetaPaths : meta[m] # Absent =>
        /\ DrawnFor(meta[m].id, meta[m].owner, meta[m].name)
        /\ m = MetaPath(meta[m].owner, meta[m].name)
        /\ meta[m].form = "whole" => issued[meta[m].id].fate \in {"kept", "doomed"}

\* A decryption works on an id of its user and name, and on what was sealed.
DecryptersFaithful ==
    \A p \in Proc : op[p].step \in DecryptSteps \ {"dec_load"} =>
        /\ DrawnFor(op[p].id, op[p].user, op[p].name)
        /\ op[p].step # "dec_read" => issued[op[p].id].plain = op[p].plain

\* A deletion works on an id of its user and name that is given up, and
\* storage_ok says that the storage file is gone for good.
DeletersDoomTheirIds ==
    \A p \in Proc :
        /\ op[p].step \in DeleteSteps \ {"del_load"} =>
              /\ DrawnFor(op[p].id, op[p].user, op[p].name)
              /\ issued[op[p].id].fate = "doomed"
        /\ op[p].gone => op[p].step = "del_record" /\ store[op[p].id] = Absent

\* The ids and the processes agree, whatever fails.
Bookkeeping ==
    /\ SealersOwnTheirIds
    /\ SealersUnrecorded
    /\ StoreIssued
    /\ RecordsIssued
    /\ DecryptersFaithful
    /\ DeletersDoomTheirIds
    /\ FailedEncryptLeavesNothing

\* Once written the storage file stays complete until a delete: true as long
\* as no data is lost after fclose was taken to have succeeded.
StoreComplete ==
    \A id \in FileId :
        (\/ issued[id] # Absent /\ issued[id].fate = "kept"
         \/ \E p \in Proc : op[p].step \in {"enc_meta", "enc_record"} /\ op[p].id = id)
            => store[id] # Absent /\ store[id].form = "whole"
-----------------------------------------------------------------------------
(***************************************************************************)
(* When the processes keep apart.  The code removes records and originals  *)
(* by path and locks nothing, so some properties hold only for processes   *)
(* that do not meet: a single process, or several with names and files of  *)
(* their own.                                                              *)
(***************************************************************************)
\* No record path can be reached from two processes.
NamesApart ==
    \A p, q \in Proc : p # q =>
        \A u \in Login[p], v \in Login[q], n, k \in Name :
            MetaPath(u, n) # MetaPath(v, k)

\* No plain file can.
Touches(p) == Reach[p] \cup {Nfd[path] : path \in Reach[p]}
FilesApart == \A p, q \in Proc : p # q => Touches(p) \cap Touches(q) = {}

\* No file is so long that its storage file is over the limit.
RoomForHeader ==
    /\ HeaderLen <= MaxFileSize
    /\ \A d \in Data : Size[d] + HeaderLen <= MaxFileSize

\* A call works for a user of its process, on a path typed there.
WorksForItsUser ==
    \A p \in Proc :
        /\ op[p].step # "idle" => op[p].user \in Login[p]
        /\ op[p].step \in EncryptSteps \cup DecryptSteps => op[p].path \in Touches(p)
        /\ op[p].step = "enc_read" => op[p].path \in Reach[p]

\* The record a call has created or loaded stays at its path.
HoldsItsRecord ==
    \A p \in Proc :
        op[p].step \in {"enc_record", "enc_drop", "del_wipe", "del_unlink", "del_record"} =>
            LET r == meta[MetaPath(op[p].user, op[p].name)]
            IN  r # Absent /\ r.id = op[p].id

\* An encryption that was kept has its record, complete.
KeptRecorded ==
    \A id \in FileId :
        (issued[id] # Absent /\ issued[id].fate = "kept") =>
            /\ Loadable(issued[id].owner, issued[id].name)
            /\ meta[MetaPath(issued[id].owner, issued[id].name)].id = id

OwnRecords == WorksForItsUser /\ HoldsItsRecord

\* The original that an encryption destroys is still what it read, and the
\* encryption was kept; the file a decryption writes is the one it created.
NoTextAt(path) == files[path] = Absent \/ files[path].form # "text"
OwnFiles ==
    \A p \in Proc :
        /\ op[p].step \in EncryptSteps \ {"enc_read"} =>
              \/ files[op[p].path] = op[p].plain
              \/ op[p].step = "enc_unlink" /\ NoTextAt(op[p].path)
        /\ op[p].step \in Destroying =>
              issued[op[p].id] # Absent /\ issued[op[p].id].fate \in {"kept", "doomed"}
        /\ op[p].step = "dec_write" /\ op[p].linked => NoTextAt(op[p].path)

\* A deletion that is about to unlink its storage file has overwritten it.
WipedFirst ==
    \A p \in Proc : op[p].step = "del_unlink" =>
        store[op[p].id] = Absent \/ store[op[p].id].form = "zeros"

\* The path an encryption overwrites and unlinks is the one it has read from.
DestroysWhatItRead ==
    \A p \in Proc : op[p].step \in EncryptSteps \ {"enc_read"} => op[p].opened = op[p].path

\* The original that an encryption is about to unlink has been overwritten.
OriginalsWiped == \A p \in Proc : op[p].step = "enc_unlink" => NoTextAt(op[p].path)
=============================================================================
