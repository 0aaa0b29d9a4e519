------------------------------- MODULE Vault -------------------------------
(***************************************************************************)
(* The file vault of secfile: fileops.c (encrypt, decrypt, delete, list)   *)
(* over metadata.c (ownership records), as several secfile processes run   *)
(* it on one set of directories.                                           *)
(*                                                                         *)
(* The directories are the shared state: the users' own files, storage/    *)
(* and metadata/.  A process executes one fileops_* call at a time; each   *)
(* action below is the part of the call between two points where another   *)
(* process, a crash or an outside program can get in, that is, one visit   *)
(* to the disk.  Every failure path of a call is a disjunct of the action  *)
(* in which the code takes it.                                             *)
(*                                                                         *)
(* A definition whose name ends in _Word, like EncryptWrite_Unchecked, is  *)
(* the definition before the _ with one plausible mistake in it.  Nothing  *)
(* uses them; README.md says which property notices each one.              *)
(***************************************************************************)
EXTENDS Naturals, SequencesExt

CONSTANTS
    Proc,         \* running secfile processes
    User,         \* account names, as sequences of tokens
    Name,         \* base names of files, as sequences of tokens
    SafeName,     \* the names stored_name_is_safe accepts
    Path,         \* paths of plain files outside the tool's directories
    BaseName,     \* BaseName[p]: what follows the last '/' of p
    Nfd,          \* Nfd[p]: p with its precomposed letters decomposed
    Data,         \* what files can contain
    Size,         \* Size[d]: the length of d
    MaxFileSize,  \* FILEOPS_MAX_FILE_SIZE
    HeaderLen,    \* FILEOPS_HEADER_LEN: the IV and the tag before the ciphertext
    FileId,       \* the random ids drawn in a behaviour (bounds the encryptions)
    Login,        \* Login[p]: the users who log in at process p
    Reach,        \* Reach[p]: the paths they type there
    Faults,       \* which failures of the environment occur
    Absent        \* no file, or no value

(***************************************************************************)
(* The failures a run can include:                                         *)
(*   crash   the process is killed between two visits to the disk          *)
(*   read    opening or reading an existing file fails                     *)
(*   write   opening, chmod or fwrite fails and the code sees it           *)
(*   flush   buffered data is lost at fclose, whose result no call checks  *)
(*   zero    overwrite_with_zeros cannot open or finish the file           *)
(*   remove  remove() fails                                                *)
(*   edit    another program saves one of the users' files                 *)
(***************************************************************************)
FaultKinds == {"crash", "read", "write", "flush", "zero", "remove", "edit"}

ASSUME VaultAssumption ==
    /\ SafeName \subseteq Name
    /\ BaseName \in [Path -> Name]
    /\ Nfd \in [Path -> Path]
    /\ Size \in [Data -> Nat]
    /\ MaxFileSize \in Nat /\ HeaderLen \in Nat
    /\ Login \in [Proc -> SUBSET User]
    /\ Reach \in [Proc -> SUBSET Path]
    /\ Faults \subseteq FaultKinds

(***************************************************************************)
(* A name on disk is built by concatenation: "%s__%s.rec".  User names may *)
(* contain '_', so two different pairs can share a path.                   *)
(***************************************************************************)
Separator == <<"__">>
MetaPath(owner, name) == owner \o Separator \o name
MetaPaths == {MetaPath(u, n) : u \in User, n \in Name}

\* A plain file, or a buffer holding one: text as saved, overwritten with
\* zeros, or torn (created or written only in part).
Content == [data: Data, form: {"text", "zeros", "torn"}]
Text(d) == [data |-> d, form |-> "text"]

\* A file of storage/: the key and the plaintext it was sealed from.
StoreFile == [key: User, plain: Content, form: {"whole", "zeros", "torn"}]

\* A record of metadata/.
MetaRecord == [owner: User, name: Name, id: FileId, form: {"whole", "torn"}]

\* What became of an encryption (a history value, not on disk).
Fate == {"writing", "undone", "left", "kept", "doomed"}
Issue == [owner: User, name: Name, plain: Content, fate: Fate]

ASSUME AbsentAssumption ==
    /\ Absent \notin Content /\ Absent \notin StoreFile
    /\ Absent \notin MetaRecord /\ Absent \notin Issue

VARIABLES
    files,   \* files[p]: the users' plain files
    store,   \* store[id]: storage/<id>.sfm
    meta,    \* meta[m]: metadata/<m>.rec
    op,      \* op[p]: the call process p is executing and its locals
    result,  \* result[p]: what the last call of p returned and wrote to the log
    issued   \* history: issued[id], what the file id was drawn for

disk == <<files, store, meta>>
vars == <<files, store, meta, op, result, issued>>

-----------------------------------------------------------------------------
(***************************************************************************)
(* The calls in progress.                                                  *)
(***************************************************************************)
EncryptSteps == {"enc_read", "enc_create", "enc_write", "enc_meta",
                 "enc_record", "enc_drop", "enc_undo", "enc_wipe", "enc_unlink"}
DecryptSteps == {"dec_load", "dec_read", "dec_open", "dec_write"}
DeleteSteps  == {"del_load", "del_wipe", "del_unlink", "del_record"}
Steps == {"idle"} \cup EncryptSteps \cup DecryptSteps \cup DeleteSteps

\* Steps at which record.file_id and the plaintext buffer are set.
HoldsId == (EncryptSteps \ {"enc_read", "enc_create"})
             \cup (DecryptSteps \ {"dec_load"}) \cup (DeleteSteps \ {"del_load"})
HoldsPlain == (EncryptSteps \ {"enc_read"}) \cup {"dec_open", "dec_write"}

\* Steps at which an encryption owns a storage file nobody else knows of.
Sealing == {"enc_write", "enc_meta", "enc_record", "enc_drop", "enc_undo"}
Destroying == {"enc_wipe", "enc_unlink"}

Rest == [step |-> "idle", user |-> Absent, name |-> Absent, path |-> Absent,
         id |-> Absent, plain |-> Absent, linked |-> FALSE, gone |-> FALSE,
         opened |-> Absent]

Call == [step: Steps, user: User \cup {Absent}, name: Name \cup {Absent},
         path: Path \cup {Absent}, id: FileId \cup {Absent},
         plain: Content \cup {Absent}, linked: BOOLEAN, gone: BOOLEAN,
         opened: Path \cup {Absent}]   \* history: the file encrypt has read

WellFormed(o) ==
    /\ o.step # "idle" => o.user \in User /\ o.name \in Name
    /\ o.step \in EncryptSteps \cup DecryptSteps => o.path \in Path
    /\ o.step \in HoldsId => o.id \in FileId
    /\ o.step \in HoldsPlain => o.plain \in Content

Outcome == {"none", "success", "failure"}

Begin(p, o) ==
    /\ op[p].step = "idle"
    /\ op' = [op EXCEPT ![p] = o]
    /\ UNCHANGED <<files, store, meta, result, issued>>

Continue(p, o) ==
    /\ op' = [op EXCEPT ![p] = o]
    /\ UNCHANGED result

\* The call's end: its locals go, its outcome is returned and logged.
Return(p, outcome) ==
    /\ op' = [op EXCEPT ![p] = Rest]
    /\ result' = [result EXCEPT ![p] = outcome]

SetFate(id, fate) == issued' = [issued EXCEPT ![id].fate = fate]

-----------------------------------------------------------------------------
(***************************************************************************)
(* What the code asks of the disk.                                         *)
(***************************************************************************)
SizeOf(c) == IF c.form = "torn" THEN 0 ELSE Size[c.data]

\* read_whole_file_resolved accepts the file.
Fits(f) == f # Absent /\ SizeOf(f) <= MaxFileSize

\* fopen_with_nfd_fallback_resolved: the path as typed, else decomposed.
Resolve(path) == IF files[path] # Absent THEN path ELSE Nfd[path]
\* A file that is there may still not open; then, too, the decomposed name is tried.
Openings(path) == {Resolve(path)} \cup (IF "read" \in Faults THEN {Nfd[path]} ELSE {})

\* (metadata_load without the owner and name comparison)
Loads_AnyOwner(r, u, n) == r # Absent /\ r.form = "whole"
\* (metadata_load with a short fread taken for a record)
Loads_Truncated(r, u, n) == r # Absent /\ r.owner = u /\ r.name = n

\* metadata_load: the record is complete and names this owner and file.
Loads(r, u, n) == r # Absent /\ r.form = "whole" /\ r.owner = u /\ r.name = n
Loadable(u, n) == Loads(meta[MetaPath(u, n)], u, n)

\* read_whole_file and crypto_aes_gcm_decrypt: not too long, and the tag
\* verifies under the user's key only if every byte is as it was sealed.
Opens(f, u) == /\ f # Absent /\ f.form = "whole" /\ f.key = u
               /\ SizeOf(f.plain) + HeaderLen <= MaxFileSize

\* (metadata_list without the owner check)
Listing_ByPrefix(u) ==
    {meta[m].name : m \in {k \in MetaPaths :
        /\ meta[k] # Absent /\ meta[k].form = "whole"
        /\ IsStrictPrefix(u \o Separator, k)}}

\* metadata_list: every file with the owner's prefix, then the owner check.
Listing(u) ==
    {meta[m].name : m \in {k \in MetaPaths :
        /\ meta[k] # Absent /\ meta[k].form = "whole"
        /\ IsStrictPrefix(u \o Separator, k)
        /\ meta[k].owner = u}}

-----------------------------------------------------------------------------
(***************************************************************************)
(* fileops_encrypt.                                                        *)
(***************************************************************************)
EncryptStart(p, u, path) ==
    /\ u \in Login[p] /\ path \in Reach[p]
    /\ Begin(p, [Rest EXCEPT !.step = "enc_read", !.user = u,
                             !.name = BaseName[path], !.path = path])

\* (with the typed path kept although the decomposed one was opened)
EncryptRead_TypedPath(p) ==
    LET found == Resolve(op[p].path) IN
    /\ op[p].step = "enc_read" /\ Fits(files[found])
    /\ Continue(p, [op[p] EXCEPT !.step = "enc_create", !.plain = files[found],
                                 !.opened = found])
    /\ UNCHANGED <<disk, issued>>

\* read_whole_file_resolved; from here on path is original_resolved_path.
EncryptRead(p) ==
    /\ op[p].step = "enc_read"
    /\ \/ \E found \in Openings(op[p].path) :
             /\ Fits(files[found])
             /\ Continue(p, [op[p] EXCEPT !.step = "enc_create", !.path = found,
                                          !.plain = files[found], !.opened = found])
       \/ /\ ~Fits(files[Resolve(op[p].path)]) \/ "read" \in Faults
          /\ Return(p, "failure")
    /\ UNCHANGED <<disk, issued>>

\* Draw a file id and an IV, encrypt in memory, create storage/<id>.sfm.
EncryptCreate(p) ==
    /\ op[p].step = "enc_create"
    /\ UNCHANGED <<files, meta>>
    /\ \/ \E id \in FileId :
             /\ issued[id] = Absent
             /\ issued' = [issued EXCEPT ![id] =
                    [owner |-> op[p].user, name |-> op[p].name,
                     plain |-> op[p].plain, fate |-> "writing"]]
             /\ store' = [store EXCEPT ![id] =
                    [key |-> op[p].user, plain |-> op[p].plain, form |-> "torn"]]
             /\ Continue(p, [op[p] EXCEPT !.step = "enc_write", !.id = id])
       \/ \* no randomness, no memory, or the file cannot be created
          /\ Return(p, "failure")
          /\ UNCHANGED <<store, issued>>

\* (with the results of fwrite ignored)
EncryptWrite_Unchecked(p) ==
    /\ op[p].step = "enc_write"
    /\ \/ store' = [store EXCEPT ![op[p].id].form = "whole"]
       \/ "write" \in Faults /\ UNCHANGED store
    /\ Continue(p, [op[p] EXCEPT !.step = "enc_meta"])
    /\ UNCHANGED <<files, meta, issued>>
\* (with the original read again while it is written)
EncryptWrite_Rereads(p) ==
    /\ op[p].step = "enc_write"
    /\ files[op[p].path] # Absent
    /\ store' = [store EXCEPT ![op[p].id].form = "whole",
                              ![op[p].id].plain = files[op[p].path]]
    /\ Continue(p, [op[p] EXCEPT !.step = "enc_meta"])
    /\ UNCHANGED <<files, meta, issued>>

\* Write IV, tag and ciphertext, and close the file.
EncryptWrite(p) ==
    /\ op[p].step = "enc_write"
    /\ \/ /\ store' = [store EXCEPT ![op[p].id].form = "whole"]
          /\ Continue(p, [op[p] EXCEPT !.step = "enc_meta"])
       \/ /\ "write" \in Faults
          /\ Continue(p, [op[p] EXCEPT !.step = "enc_undo"])
          /\ UNCHANGED store
       \/ /\ "flush" \in Faults
          /\ Continue(p, [op[p] EXCEPT !.step = "enc_meta"])
          /\ UNCHANGED store
    /\ UNCHANGED <<files, meta, issued>>

\* (with "wb" for "wxb")
EncryptMeta_Overwrites(p) ==
    /\ op[p].step = "enc_meta"
    /\ meta' = [meta EXCEPT ![MetaPath(op[p].user, op[p].name)] =
           [owner |-> op[p].user, name |-> op[p].name,
            id |-> op[p].id, form |-> "torn"]]
    /\ Continue(p, [op[p] EXCEPT !.step = "enc_record"])
    /\ UNCHANGED <<files, store, issued>>

\* metadata_create up to the exclusive open of the record.
EncryptMeta(p) ==
    LET m == MetaPath(op[p].user, op[p].name)
        refused == op[p].name \notin SafeName \/ meta[m] # Absent
    IN
    /\ op[p].step = "enc_meta"
    /\ \/ /\ ~refused
          /\ meta' = [meta EXCEPT ![m] =
                 [owner |-> op[p].user, name |-> op[p].name,
                  id |-> op[p].id, form |-> "torn"]]
          /\ Continue(p, [op[p] EXCEPT !.step = "enc_record"])
       \/ /\ refused \/ "write" \in Faults
          /\ Continue(p, [op[p] EXCEPT !.step = "enc_undo"])
          /\ UNCHANGED meta
    /\ UNCHANGED <<files, store, issued>>

\* The record open at enc_record is still the one its path leads to: another
\* process may have unlinked it and even created the next one.
RecordLinked(p) ==
    LET r == meta[MetaPath(op[p].user, op[p].name)]
    IN  r # Absent /\ r.id = op[p].id

\* (with a failure reported after the record is complete)
EncryptRecord_LateFailure(p) ==
    LET m == MetaPath(op[p].user, op[p].name) IN
    /\ op[p].step = "enc_record"
    /\ RecordLinked(p)
    /\ meta' = [meta EXCEPT ![m].form = "whole"]
    /\ Continue(p, [op[p] EXCEPT !.step = "enc_drop"])
    /\ UNCHANGED <<files, store, issued>>

\* metadata_create from there on; if it succeeds the call's result is 0.
EncryptRecord(p) ==
    LET m == MetaPath(op[p].user, op[p].name) IN
    /\ op[p].step = "enc_record"
    /\ \/ /\ IF RecordLinked(p)
               THEN meta' = [meta EXCEPT ![m].form = "whole"]
               ELSE UNCHANGED meta
          /\ SetFate(op[p].id, "kept")
          /\ Continue(p, [op[p] EXCEPT !.step = "enc_wipe"])
       \/ /\ "flush" \in Faults
          /\ SetFate(op[p].id, "kept")
          /\ Continue(p, [op[p] EXCEPT !.step = "enc_wipe"])
          /\ UNCHANGED meta
       \/ \* chmod, which follows the path, or fwrite fails
          /\ meta[m] = Absent \/ "write" \in Faults
          /\ Continue(p, [op[p] EXCEPT !.step = "enc_drop"])
          /\ UNCHANGED <<meta, issued>>
    /\ UNCHANGED <<files, store>>

\* metadata_create removes the path on its failure path, whatever is there.
EncryptDrop(p) ==
    LET m == MetaPath(op[p].user, op[p].name) IN
    /\ op[p].step = "enc_drop"
    /\ \/ /\ meta' = [meta EXCEPT ![m] = Absent]
          /\ UNCHANGED issued
       \/ /\ "remove" \in Faults
          /\ SetFate(op[p].id, "left")
          /\ UNCHANGED meta
    /\ Continue(p, [op[p] EXCEPT !.step = "enc_undo"])
    /\ UNCHANGED <<files, store>>

\* (with the storage file forgotten)
EncryptUndo_KeepsFile(p) ==
    /\ op[p].step = "enc_undo"
    /\ SetFate(op[p].id, "undone")
    /\ Return(p, "failure")
    /\ UNCHANGED disk

\* The failure path: the storage file goes, the original stays.
EncryptUndo(p) ==
    /\ op[p].step = "enc_undo"
    /\ \/ /\ store' = [store EXCEPT ![op[p].id] = Absent]
          /\ IF issued[op[p].id].fate = "writing"
               THEN SetFate(op[p].id, "undone")
               ELSE UNCHANGED issued
       \/ /\ "remove" \in Faults
          /\ SetFate(op[p].id, "left")
          /\ UNCHANGED store
    /\ Return(p, "failure")
    /\ UNCHANGED <<files, meta>>

\* overwrite_with_zeros(original_resolved_path), its result ignored.
EncryptWipe(p) ==
    LET path == op[p].path IN
    /\ op[p].step = "enc_wipe"
    /\ \/ /\ files[path] # Absent
          /\ files' = [files EXCEPT ![path].form = "zeros"]
       \/ /\ files[path] # Absent /\ "zero" \in Faults
          /\ files' = [files EXCEPT ![path].form = "torn"]
       \/ /\ files[path] = Absent \/ "zero" \in Faults
          /\ UNCHANGED files
    /\ Continue(p, [op[p] EXCEPT !.step = "enc_unlink"])
    /\ UNCHANGED <<store, meta, issued>>

\* remove(original_resolved_path), its result ignored.  A decryption that has
\* the file open goes on writing to a file that has no name any more.
EncryptUnlink(p) ==
    LET path == op[p].path
        writers == {q \in Proc : op[q].step = "dec_write" /\ op[q].path = path}
    IN
    /\ op[p].step = "enc_unlink"
    /\ result' = [result EXCEPT ![p] = "success"]
    /\ \/ /\ files' = [files EXCEPT ![path] = Absent]
          /\ op' = [q \in Proc |->
                      IF q = p THEN Rest
                      ELSE IF q \in writers THEN [op[q] EXCEPT !.linked = FALSE]
                      ELSE op[q]]
       \/ /\ "remove" \in Faults
          /\ op' = [op EXCEPT ![p] = Rest]
          /\ UNCHANGED files
    /\ UNCHANGED <<store, meta, issued>>

-----------------------------------------------------------------------------
(***************************************************************************)
(* fileops_decrypt.                                                        *)
(***************************************************************************)
DecryptStart(p, u, n, out) ==
    /\ u \in Login[p] /\ out \in Reach[p]
    /\ Begin(p, [Rest EXCEPT !.step = "dec_load", !.user = u,
                             !.name = n, !.path = out])

DecryptLoad(p) ==
    LET u == op[p].user
        n == op[p].name
    IN
    /\ op[p].step = "dec_load"
    /\ \/ /\ Loadable(u, n)
          /\ Continue(p, [op[p] EXCEPT !.step = "dec_read",
                                       !.id = meta[MetaPath(u, n)].id])
       \/ /\ ~Loadable(u, n) \/ "read" \in Faults
          /\ Return(p, "failure")
    /\ UNCHANGED <<disk, issued>>

\* (with the plaintext buffer left unset)
DecryptRead_NoPlain(p) ==
    /\ op[p].step = "dec_read"
    /\ Continue(p, [op[p] EXCEPT !.step = "dec_open"])
    /\ UNCHANGED <<disk, issued>>

\* Read the storage file, check its length, verify the tag.
DecryptRead(p) ==
    LET f == store[op[p].id] IN
    /\ op[p].step = "dec_read"
    /\ \/ /\ Opens(f, op[p].user)
          /\ Continue(p, [op[p] EXCEPT !.step = "dec_open", !.plain = f.plain])
       \/ /\ ~Opens(f, op[p].user) \/ "read" \in Faults
          /\ Return(p, "failure")
    /\ UNCHANGED <<disk, issued>>

\* (with "wb" for "wxb")
DecryptOpen_Overwrites(p) ==
    /\ op[p].step = "dec_open"
    /\ files' = [files EXCEPT ![op[p].path] =
           [data |-> op[p].plain.data, form |-> "torn"]]
    /\ Continue(p, [op[p] EXCEPT !.step = "dec_write", !.linked = TRUE])
    /\ UNCHANGED <<store, meta, issued>>

\* fopen(output_path, "wxb"): never an existing file.
DecryptOpen(p) ==
    LET out == op[p].path IN
    /\ op[p].step = "dec_open"
    /\ \/ /\ files[out] = Absent
          /\ files' = [files EXCEPT ![out] =
                 [data |-> op[p].plain.data, form |-> "torn"]]
          /\ Continue(p, [op[p] EXCEPT !.step = "dec_write", !.linked = TRUE])
       \/ /\ files[out] # Absent \/ "write" \in Faults
          /\ Return(p, "failure")
          /\ UNCHANGED files
    /\ UNCHANGED <<store, meta, issued>>

\* Write and close.  A failed write leaves the partial file where it is.
DecryptWrite(p) ==
    LET out == op[p].path IN
    /\ op[p].step = "dec_write"
    /\ \/ /\ IF op[p].linked
               THEN files' = [files EXCEPT ![out] = op[p].plain]
               ELSE UNCHANGED files
          /\ Return(p, "success")
       \/ /\ "write" \in Faults /\ Return(p, "failure") /\ UNCHANGED files
       \/ /\ "flush" \in Faults /\ Return(p, "success") /\ UNCHANGED files
    /\ UNCHANGED <<store, meta, issued>>

-----------------------------------------------------------------------------
(***************************************************************************)
(* fileops_delete and fileops_list.                                        *)
(***************************************************************************)
DeleteStart(p, u, n) ==
    /\ u \in Login[p]
    /\ Begin(p, [Rest EXCEPT !.step = "del_load", !.user = u, !.name = n])

DeleteLoad(p) ==
    LET u == op[p].user
        n == op[p].name
        id == meta[MetaPath(u, n)].id
    IN
    /\ op[p].step = "del_load"
    /\ \/ /\ Loadable(u, n)
          /\ SetFate(id, "doomed")
          /\ Continue(p, [op[p] EXCEPT !.step = "del_wipe", !.id = id])
       \/ /\ ~Loadable(u, n) \/ "read" \in Faults
          /\ Return(p, "failure")
          /\ UNCHANGED issued
    /\ UNCHANGED disk

\* (with the overwrite skipped)
DeleteWipe_Skipped(p) ==
    /\ op[p].step = "del_wipe"
    /\ Continue(p, [op[p] EXCEPT !.step = "del_unlink"])
    /\ UNCHANGED <<disk, issued>>

\* overwrite_with_zeros(storage_path), its result ignored.
DeleteWipe(p) ==
    LET id == op[p].id IN
    /\ op[p].step = "del_wipe"
    /\ \/ /\ store[id] # Absent
          /\ store' = [store EXCEPT ![id].form = "zeros"]
       \/ /\ store[id] # Absent /\ "zero" \in Faults
          /\ store' = [store EXCEPT ![id].form = "torn"]
       \/ /\ store[id] = Absent \/ "zero" \in Faults
          /\ UNCHANGED store
    /\ Continue(p, [op[p] EXCEPT !.step = "del_unlink"])
    /\ UNCHANGED <<files, meta, issued>>

\* (with remove's result ignored)
DeleteUnlink_Unchecked(p) ==
    /\ op[p].step = "del_unlink"
    /\ \/ store' = [store EXCEPT ![op[p].id] = Absent]
       \/ "remove" \in Faults /\ UNCHANGED store
    /\ Continue(p, [op[p] EXCEPT !.step = "del_record", !.gone = TRUE])
    /\ UNCHANGED <<files, meta, issued>>

\* storage_ok = (remove(storage_path) == 0)
DeleteUnlink(p) ==
    LET id == op[p].id IN
    /\ op[p].step = "del_unlink"
    /\ \/ /\ store[id] # Absent
          /\ store' = [store EXCEPT ![id] = Absent]
          /\ Continue(p, [op[p] EXCEPT !.step = "del_record", !.gone = TRUE])
       \/ /\ store[id] = Absent \/ "remove" \in Faults
          /\ Continue(p, [op[p] EXCEPT !.step = "del_record"])
          /\ UNCHANGED store
    /\ UNCHANGED <<files, meta, issued>>

\* metadata_delete: whatever record is at the path now.
DeleteRecord(p) ==
    LET m == MetaPath(op[p].user, op[p].name) IN
    /\ op[p].step = "del_record"
    /\ \/ /\ meta[m] # Absent
          /\ meta' = [meta EXCEPT ![m] = Absent]
          /\ Return(p, IF op[p].gone THEN "success" ELSE "failure")
       \/ /\ meta[m] = Absent \/ {"read", "remove"} \cap Faults # {}
          /\ Return(p, "failure")
          /\ UNCHANGED meta
    /\ UNCHANGED <<files, store, issued>>

\* fileops_list prints Listing(u) and changes nothing on the disk.
List(p, u) ==
    /\ u \in Login[p]
    /\ op[p].step = "idle"
    /\ \/ result' = [result EXCEPT ![p] = "success"]
       \/ "read" \in Faults /\ result' = [result EXCEPT ![p] = "failure"]
    /\ UNCHANGED <<disk, op, issued>>

-----------------------------------------------------------------------------
(***************************************************************************)
(* The environment.                                                        *)
(***************************************************************************)
\* The process is killed; what reached the disk stays there.
Crash(p) ==
    /\ "crash" \in Faults
    /\ op[p].step # "idle"
    /\ op' = [op EXCEPT ![p] = Rest]
    /\ result' = [result EXCEPT ![p] = "none"]
    /\ IF op[p].step \in Sealing
         THEN SetFate(op[p].id, "left")
         ELSE UNCHANGED issued
    /\ UNCHANGED disk

\* Another program saves a file the user works on.
Edit(path, d) ==
    /\ "edit" \in Faults
    /\ files' = [files EXCEPT ![path] = Text(d)]
    /\ UNCHANGED <<store, meta, op, result, issued>>

Init ==
    /\ files \in [Path -> {Text(d) : d \in Data} \cup {Absent}]
    /\ store = [id \in FileId |-> Absent]
    /\ meta = [m \in MetaPaths |-> Absent]
    /\ op = [p \in Proc |-> Rest]
    /\ result = [p \in Proc |-> "none"]
    /\ issued = [id \in FileId |-> Absent]

Encrypt(p) ==
    \/ \E u \in User, path \in Path : EncryptStart(p, u, path)
    \/ EncryptRead(p) \/ EncryptCreate(p) \/ EncryptWrite(p)
    \/ EncryptMeta(p) \/ EncryptRecord(p) \/ EncryptDrop(p)
    \/ EncryptUndo(p) \/ EncryptWipe(p) \/ EncryptUnlink(p)

Decrypt(p) ==
    \/ \E u \in User, n \in Name, out \in Path : DecryptStart(p, u, n, out)
    \/ DecryptLoad(p) \/ DecryptRead(p) \/ DecryptOpen(p) \/ DecryptWrite(p)

Delete(p) ==
    \/ \E u \in User, n \in Name : DeleteStart(p, u, n)
    \/ DeleteLoad(p) \/ DeleteWipe(p) \/ DeleteUnlink(p) \/ DeleteRecord(p)

Next ==
    \/ \E p \in Proc : \/ Encrypt(p) \/ Decrypt(p) \/ Delete(p)
                       \/ \E u \in User : List(p, u)
                       \/ Crash(p)
    \/ \E path \in Path, d \in Data : Edit(path, d)

Spec == Init /\ [][Next]_vars
-----------------------------------------------------------------------------
(***************************************************************************)
(* Invariants.                                                             *)
(***************************************************************************)
\* Every variable has its type, and a call in progress has set the locals
\* that its next step reads.
TypeOK ==
    /\ files \in [Path -> Content \cup {Absent}]
    /\ store \in [FileId -> StoreFile \cup {Absent}]
    /\ meta \in [MetaPaths -> MetaRecord \cup {Absent}]
    /\ op \in [Proc -> Call]
    /\ result \in [Proc -> Outcome]
    /\ issued \in [FileId -> Issue \cup {Absent}]
    /\ \A p \in Proc : WellFormed(op[p])

\* A complete metadata record that no delete has loaded leads to a complete
\* storage file, sealed under the record owner's key from the very content
\* that was read for it: whatever other processes, crashes and reported
\* failures do between the steps of encrypt, delete and decrypt.
RecordBacked ==
    \A m \in MetaPaths :
        LET r == meta[m] IN
        (r # Absent /\ r.form = "whole" /\ issued[r.id].fate # "doomed") =>
            store[r.id] = [key |-> r.owner, plain |-> issued[r.id].plain,
                           form |-> "whole"]

Retrievable(id) ==
    LET o == issued[id].owner
        n == issued[id].name
    IN  /\ Loadable(o, n) /\ meta[MetaPath(o, n)].id = id
        /\ Opens(store[id], o)

\* Once encrypt has decided to return success, and to destroy the original,
\* its owner can decrypt the file until a delete of it begins.
KeptIsRetrievable ==
    \A id \in FileId :
        (issued[id] # Absent /\ issued[id].fate = "kept") => Retrievable(id)

\* The plaintext decrypt is about to put in the output file is what this
\* user encrypted under this name, although the record and the storage file
\* were read at different times.
DecryptFaithful ==
    \A p \in Proc :
        op[p].step \in {"dec_open", "dec_write"} =>
            LET i == issued[op[p].id] IN
            /\ i # Absent
            /\ <<i.owner, i.name, i.plain>> = <<op[p].user, op[p].name, op[p].plain>>

\* An encryption that took its failure path to the end leaves no storage
\* file and no record behind.
FailedEncryptLeavesNothing ==
    \A id \in FileId :
        (issued[id] # Absent /\ issued[id].fate = "undone") =>
            /\ store[id] = Absent
            /\ \A m \in MetaPaths : meta[m] # Absent => meta[m].id # id

\* The prefix scan of metadata_list shows a user exactly the names that
\* metadata_load will accept from the same user.
ListShowsLoadable ==
    \A u \in User : Listing(u) = {n \in Name : Loadable(u, n)}

(***************************************************************************)
(* Action properties.                                                      *)
(***************************************************************************)
\* A saved text disappears or changes only at the hands of an encryption
\* that read exactly this text and can give it back (or whose owner has
\* meanwhile asked for its deletion).  Decrypt never writes over a file.
TextDestroyedOnlyWhenSaved ==
    [][\A path \in Path :
        (/\ files[path] # Absent /\ files[path].form = "text"
         /\ files'[path] # files[path]) =>
            \E p \in Proc :
                /\ op[p].step \in Destroying
                /\ op[p].path = path /\ op[p].plain = files[path]
                /\ issued[op[p].id].fate = "doomed" \/ Retrievable(op[p].id)]_vars

\* When encrypt returns success the file it has read, under the typed path or
\* under the decomposed one, is no readable text any more.  (Where both paths
\* lead to a file, the one it did not read is left as it is.)
NoReadableCopy ==
    [][\A p \in Proc :
        (op[p].step = "enc_unlink" /\ op'[p].step = "idle"
           /\ result'[p] = "success") =>
            LET f == files'[op[p].opened] IN f = Absent \/ f.form # "text"]_vars

\* Delete unlinks a storage file only after overwriting all of it.
OverwrittenBeforeUnlinked ==
    [][\A id \in FileId :
        (/\ store[id] # Absent /\ store'[id] = Absent
         /\ issued[id].fate = "doomed") => store[id].form = "zeros"]_vars

\* The record a call removes is the one it loaded or created, not one that
\* has taken the same path since.
RemovesItsOwnRecord ==
    [][\A m \in MetaPaths :
        (meta[m] # Absent /\ meta'[m] = Absent) =>
            \E p \in Proc : op'[p] # op[p] /\ op[p].user = meta[m].owner
                                           /\ op[p].id = meta[m].id]_vars

\* Delete reports success only when neither the storage file it loaded nor
\* any record leading to it remains, whoever else was deleting.
DeleteSuccessMeansGone ==
    [][\A p \in Proc :
        (op[p].step = "del_record" /\ op'[p].step = "idle"
           /\ result'[p] = "success") =>
            /\ store'[op[p].id] = Absent
            /\ \A m \in MetaPaths : meta'[m] # Absent => meta'[m].id # op[p].id]_vars
=============================================================================
