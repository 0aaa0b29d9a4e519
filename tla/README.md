# A TLA+ model of secfile

`secfile` is a menu-driven program in C that keeps users' files encrypted in a
vault: AES-256-GCM under a key derived from the user's password, one storage
file and one ownership record per encrypted file, one record per user, and an
audit log. This directory models its control flow, from the prompts down to the
disk, checks it with TLC on small instances and proves every safety property it
checks with TLAPS for all instances, some of them under conditions.

Paths below are relative to the repository; `fileops.c` stands for
`src/fileops.c` there, and likewise for the other sources.

## 1. Inventory

| Component | State it keeps | Operations | Modelled in |
|---|---|---|---|
| `fileops.c` | `storage/<id>.sfm`; the users' own files | encrypt, decrypt, delete, list | `Vault`; `Session`, `Text` |
| `metadata.c` | `metadata/<owner>__<name>.rec` | create, load, delete, list, draw a file id | `Vault`; `Text` |
| `users.c` | `users/<name>.rec` | exists, create, load, scan for an admin, list | `Accounts`; `Session`, `Text` |
| `auth.c` | none (locals of a call) | create user, create admin, login, admin login | `Accounts`; `Session` |
| `main.c` | none | directory layout, `--create-admin`, first-run admin, menu | `Session`; `Accounts`, `Text` |
| `menu.c` | the session: user name, key, typed passwords | menus, dialogues, logout, exit | `Session`; `Text`, `Accounts`, `Vault` |
| `logging.c` | `logs/audit.log`, the open handle | init, event, close | `Session`; `Text` |
| `crypto.c` | none | PBKDF2, AES-GCM, random bytes, zeroing | the failure paths of a decryption in `Session` |
| `validation.c` | | empty file | not modelled |

**How they interact.** All calls are synchronous. The menu calls `auth` until a
login succeeds, then `fileops` with the canonical user name and the key.
`fileops` uses `metadata` for ownership, `crypto` for the data and `logging` at
the end of each call. `auth` uses `users` and `crypto`. There are no threads
and no locks; **the disk is the only shared state**, and nothing prevents two
`secfile` processes from working in the same directory. The only
synchronisation is the exclusive open `"wxb"` of records, storage files and
decrypted outputs.

**What is hard.** (a) Two processes between each other's disk accesses:
everything after a load works on paths that may have changed hands. (b) A kill
between two disk accesses: encrypt makes four changes (storage file, record,
overwrite, unlink), delete three, and nothing cleans up at the next start.
(c) Failures that are reported (open, write, chmod) and failures that are not:
`fclose`, `overwrite_with_zeros` and the `remove` of the original are called
without looking at their results. (d) Boundaries: the size limit, names that
join ambiguously, decomposed spellings, directories that ignore case, lines
longer than their buffer. (e) The way out: every dialogue can be cancelled,
refused or cut off by the end of input at every prompt, and each return has its
own list of buffers to zero. (f) The log is written last, after the effect.

**What makes each component correct.**

* *fileops*: the original is destroyed only when its text can be had back;
  decrypt returns what was encrypted under the name; a failed encryption leaves
  nothing; a successful one leaves no readable original; delete's success is true.
* *metadata*: a complete record leads to a complete storage file of its owner;
  two users whose paths collide do not see or remove each other's files; the
  list is what load accepts.
* *users / auth*: at most one creator of a name is told success; a record never
  changes; one admin; a session is the account that is on disk; no half-taken name.
* *main / menu*: whatever is wiped is wiped whichever way a dialogue ends; a
  line typed answers one prompt; every dialogue ends when the input does.
* *logging*: the log tells what happened to the disk, each line under an account
  that was logged in; a field cannot break its line.

## 2. Modules

| Module | What it is |
|---|---|
| `Vault` | fileops over metadata: the core specification, its invariants and action properties |
| `VaultInv` | what every reachable state knows about each file id: the inductive invariant in named parts |
| `VaultProofs` | the TLAPS proofs about `Vault` that need no condition on its processes |
| `VaultApartProofs` | those for processes that keep apart, or without certain failures |
| `VaultStore` | the abstract promise: a map from (owner, name) to documents |
| `VaultRefinement` | the mapping of `Vault` onto `VaultStore` |
| `VaultPromiseProofs` | the TLAPS proof that it is a refinement |
| `Accounts` | users, auth and the ways main and menu reach them |
| `AccountsInv` | its inductive invariant, and the mapping onto `Registry` |
| `AccountsProofs` | the TLAPS proofs about `Accounts` |
| `Registry` | the abstract promise of accounts and sessions |
| `Session` | main and menu at the terminal, over all the calls: dialogues, secrets, the audit log |
| `SessionInv` | its inductive invariant in named parts |
| `SessionProofs` | the TLAPS proofs about the secrets, accounts and documents of `Session` |
| `SessionLogProofs` | those about its types and its log |
| `Text` | the pure functions on bytes: lines, choices, names, decomposition, quoting |
| `Recursion` | for the proofs: induction over the naturals, and functions defined recursively on an interval |
| `TextProofs` | the TLAPS proofs about `Text` |
| `MCVault`, `MCAccounts`, `MCSession`, `MCText` | constants for TLC |

`VaultStore` and `Registry` are each implemented twice. `Vault` and `Accounts`
show that the calls, cut into visits to the disk and interleaved with those of
other processes, keep the promise; `Session` takes each call as one or a few
steps that keep it, and shows that the program built from these calls, with its
menus, dialogues, ends of input and kills, still does.

### Vault

Variables and what they are in the program:

| Variable | Program |
|---|---|
| `files[path]` | the users' plain files: text, overwritten with zeros, or torn (created or written in part) |
| `store[id]` | `storage/<id>.sfm`; the key and the plaintext it was sealed from stand for IV, tag and ciphertext |
| `meta[m]` | the record at path `m`; torn if short, so that `read_record` fails |
| `op[p]` | the call process `p` is in: its next step and the locals it still needs (and, as history, the path its encryption has read, `opened`) |
| `result[p]` | what the last call returned, which is also what it logged |
| `issued[id]` | history only: for whom the id was drawn and what became of the encryption |

An action is the code from one visit to the disk to the next. `fileops_encrypt`
is `EncryptStart`, `EncryptRead` (read the original), `EncryptCreate` (create
the storage file), `EncryptWrite`, `EncryptMeta` (create the record file),
`EncryptRecord` (chmod, write and close it), then `EncryptWipe` and
`EncryptUnlink`, or on failure `EncryptDrop` and `EncryptUndo`.
`fileops_decrypt` is `DecryptStart`, `DecryptLoad`, `DecryptRead`,
`DecryptOpen`, `DecryptWrite`; `fileops_delete` is `DeleteStart`, `DeleteLoad`,
`DeleteWipe`, `DeleteUnlink`, `DeleteRecord`; `fileops_list` is `List`.
Every failure path is a disjunct of the action in which the code takes it.
Failures that depend on the environment need their kind in the constant
`Faults`; those the state explains (a name taken, a file absent or too long, a
tag that does not verify) need nothing. `Crash` kills a process, `Edit` is
another program saving one of the users' files.

Some details that matter:

* An open file outlives its name. `RecordLinked` says whether the record a
  process is writing is still the one at its path; `op.linked` the same for a
  decrypted output. A `chmod` or `remove`, which take a path, act on what is
  there.
* A record path is the concatenation of owner, `__` and name, and both parts
  may contain `__` (`MCVault` has two users whose records meet at one path).
* Bytes are abstracted: a tag verifies exactly when the storage file is whole
  and the key is the one it was sealed with; a drawn id is new.
* A name accepted by `stored_name_is_safe` is a member of `SafeName`; the
  decomposed spelling of a path is `Nfd[path]`.

### Accounts

`users[f]` is a record of `users/`, `call[p]` where a process is and its
locals, `session[p]` the canonical name, key and role it is logged in with,
`outcome[p]` the result of its last call, and `claimed` (history) the accounts
reported as created. The password stands for hash, salts and key. `Start`,
`ScanPass`, `ScanFound`, `ScanEnd`, `Prompt` and `PromptCancel` are
`--create-admin` and the first run, with the admin scan one directory entry at
a time; `readdir` may or may not show a file created after `opendir` (`Scans`).
`CreateUser`, `Exists`, `Open`, `Write` and `Drop` are `create_user_with_role`;
`Login` and `Verify` are `login_as_role`, with the load and the password check
as separate steps. `FileOf` lets two spellings of a name share a file, as on a
file system that ignores case.

### Session

One process, started again and again, with the user at its terminal.

| Variable | Program |
|---|---|
| `pc`, `choice` | where the program is: a menu, a prompt, a call; and the choice that led there |
| `typed` | the answers read so far in this dialogue, in the order of its prompts |
| `outcome` | what the call is about to log and return |
| `input` | stdin: open, or at its end |
| `session` | the account of `run_authenticated_session` or `run_admin_session` |
| `mem` | which secrets are in memory: the two passwords, the key, a plaintext, the part of one that a short read leaves, and the remnant of a password whose `memset` the compiler dropped |
| `accounts`, `docs` | what `users/`, and `storage/` with `metadata/`, amount to |
| `log` | the lines this run has appended to `logs/audit.log` |
| `changes` | history: what it has changed on disk |

`Launch` is `main` up to the first prompt or menu; `Choose` is a menu choice
that leads to a call, logged before anything is asked; `Answer` reads one line
and does what the handler does with it, `Cancel` is every return without a
call, `AnswerEnds` the return at the end of input. `Authenticate`, `Create`,
`EncryptRead`/`EncryptSave`, `DecryptLoad`/`DecryptOpen`/`DecryptOutput`,
`DeleteFile` and `Listing` are the calls, each with its failures, and `Report`
is what every call ends with: its log line and what is zeroed on return. A call
is split where a buffer is filled or a failure leaves something behind.
`Memset` is how the handlers wipe a password: with a plain `memset` of a buffer
that nothing reads again, which an optimizing compiler may drop (`elide`; the
Makefile builds without `-O`, so that the shipped build keeps it). Keys and
plaintexts are wiped by `crypto_zero`, which is `OPENSSL_cleanse`.
`Reprompt` is the menu printed again after a line that is no choice; at the end
of input the program does nothing else, for ever. `LaunchFails` is a start
refused before anything is asked. A document is the account whose key seals it;
`Lost` is a name taken by a record without a storage file, which a half-done
deletion leaves.

Facts of the code the model shows: `--create-admin` logs neither `APP_START`
nor `APP_EXIT`, and nothing at all when it is refused or cancelled; a failed
deletion may have deleted; the key stays in memory from login to logout, and
inside a session whose input has ended for ever, which is not what
`docs/checkpoint1-design.md:83` asks for (finding `session_memory`).

### Text

`kind` says what is typed and `text` grows byte by byte, so that a run visits
every sequence up to a length. `ReadLine` is `read_line` of `menu.c` and
`main.c`, over `Fgets`; `MenuChoice` is `read_menu_choice`, over `Strtol`;
`SafeUsername`, `SafeOwner`, `SafeStoredName` (with `Accepts` and `Utf8Len`) are
the checks of `users.c` and `metadata.c`, one `Character` at a time; `Nfd` is `to_nfd_fallback` with its
table; `JsonEscape` is `json_escape`. Loops over a text are recursive functions
of the position reached. The buffer sizes are constants.

Facts: `stored_name_is_safe` lets surrogates and code points up to 13FFFF
through; the capital and small `y` with diaeresis are not in the table (the
small one would be C3 BF); bytes that are not UTF-8 go into the log as they are.

## 3. Properties, runs and bounds

Every run but the four in the table of findings passes, with deadlock checking
on except in `text`, where a text stops growing at its bound.

| Run | Instance | Question and properties |
|---|---|---|
| `vault_solo` | 1 process, 2 users with colliding record paths, 2 files, 2 ids; crash, write, remove | `RecordBacked`, `KeptIsRetrievable`, `ListShowsLoadable`, `RemovesItsOwnRecord` |
| `vault_names` | 1 process, typed and decomposed path, a refused name, 2 contents; crash, read, write, remove | `FailedEncryptLeavesNothing`, `TextDestroyedOnlyWhenSaved`, `NoReadableCopy`, `OverwrittenBeforeUnlinked` |
| `vault_pair` | 2 processes with a user each, so with names and records of their own, on 1 plain file they share, 2 ids; read, write, zero | `RecordBacked`, `StoreComplete`, `KeptIsRetrievable`, `KeepsItsPromise` across processes |
| `vault_rough` | 2 processes on one user, name and plain file, 2 ids, 1 content; all seven kinds of failure | `TypeOK`, `Bookkeeping`, `DecryptFaithful`, `DeleteSuccessMeansGone` |
| `accounts_solo` | 1 process, 4 names on 2 files, 3 passwords (one empty); crash, write, flush, remove | `TypeOK`, `OneAdmin`, `SessionIsAccount` |
| `accounts_race` | 2 processes, 2 names, 2 passwords; read, write | `Accounted`, `NoDebris`, `SuccessMeansAccount`, `KeepsTheRegister`, `AccountNeverChanges` |
| `session` | 2 spellings of one name, 2 passwords (one empty), 1 document name, all nine failures, up to 5 log lines before a choice | `TypeOK`, `Logged`, `SecretsGone`, `LogMatchesDisk`, `AttributedToLogin`, `OwnersKey`, `UsesTheRegister`, `UsesTheStore`; liveness: `CallsAreLogged`, `EndOfInputLeavesDialogue` |
| `text` | 4 to 7 bytes of 4 to 21 values, buffers of 4 to 12 bytes | `OneLinePerRead`, `ChoiceIsMeant`, `StoredNamesStay`, `UsersCanOwn`, `NfdIsOtherSpelling`, `FieldIsJson` |

What the properties say:

* `RecordBacked`: a complete record not yet loaded by a delete leads to the
  complete storage file sealed from what its encryption read.
* `KeptIsRetrievable`: once encrypt has decided on success, its owner can
  decrypt the file until a delete of it begins.
* `TextDestroyedOnlyWhenSaved`: a saved text changes or goes only at the hands
  of an encryption that read exactly this text and can give it back.
* `DecryptFaithful`: what decrypt is about to write is what this user encrypted
  under this name, although record and storage file were read apart.
* `NoReadableCopy`: when encrypt returns success, the file it has read, under the
  typed path or under the decomposed one, is no readable text any more. Where
  both paths lead to a file, the other one is not the original and stays.
* `FailedEncryptLeavesNothing`, `OverwrittenBeforeUnlinked`,
  `DeleteSuccessMeansGone`, `RemovesItsOwnRecord`, `ListShowsLoadable`: as named.
* `KeepsItsPromise`: through the mapping "what decrypt would return now", every
  step is a step of `VaultStore` or changes nothing there. A document is saved
  whole, never changed, and goes only while its owner is having it deleted.
* `OneAdmin`, `SuccessMeansAccount`, `SessionIsAccount`, `NoDebris`,
  `AccountNeverChanges`: for the accounts, as in the inventory.
* `KeepsTheRegister`: seen through "the complete record at each place", every
  step of `Accounts` is a step of `Registry` or changes nothing there.
* `SecretsGone`: every way out of a dialogue or call passes the statements that
  wipe what it had in memory. What is left all the same is named: what a short
  read frees without zeroing (`fileops.c:175`), a password whose `memset` the
  compiler dropped, and the key from login to logout.
* `CleansedAtMenu`: what the design document asks for, neither key nor password
  in memory while a session waits at its menu. It is false (`session_memory`).
* `LogMatchesDisk`: the changes made are in the log in their order, each in a
  line of its own, and no other line claims a change; a half-done deletion has
  its own line; only the change of the call about to report, or killed there,
  may be missing.
* `AttributedToLogin`: a line about a document leads to one account on disk and
  to a login of it since which it has not logged out; users are listed to an
  admin only.
* `OwnersKey`: the account on disk under a document's owner is the one whose
  key sealed it.
* `UsesTheRegister`, `UsesTheStore`: the program implements both abstractions.
* `CallsAreLogged`: a call that begins ends in a log line about it, unless the
  process is killed. `EndOfInputLeavesDialogue`: when the input ends, the
  program gets back to a menu, or out.
* `OneLinePerRead`: a prompt gets its own line, cut to the buffer, and the next
  prompt the next line; a NUL is the one thing that swallows a line.
* `ChoiceIsMeant`: the choice is what the bytes that the buffer kept of the line
  denote, up to a NUL, and none if they denote none. A number that was cut is
  taken for its first digits only where all but the last one kept are padding:
  with the code's eight bytes `1000000` is refused, `00000012` is the choice 1.
* `StoredNamesStay`: the names accepted are those whose characters are each in
  their only encoding, and they stay in their directory. `UsersCanOwn`: the
  checks of `users.c` and `metadata.c` agree.
* `NfdIsOtherSpelling`: of every path that a prompt can return (one that fits its
  buffer and holds no NUL) the second spelling, under which the code looks for
  the file, fits its own buffer, is spelt the same the second time, breaks no
  character, and put together again is the path put together, so that nobody is
  handed a file with another name. (Only the typed spelling is ever stored.)
* `FieldIsJson`: no field breaks its line of the log; a reader understands all
  of it and gets back a prefix of what was logged that fills the field.

**Bounds, and why they are enough.** `FileId` bounds the number of encryptions
in a behaviour: two let one be stale while another takes its name, which is
what the races on one name need. One race, in the table below, needs three; the
run that has two processes on one name (`vault_rough`) therefore claims only
what is proved for any number of ids. Two processes
are enough for each pairwise race; no step looks at more than one other
process's work. Two contents distinguish "this text" from "another" in
`vault_names`; `vault_rough`, with all its failures, has room for one, set off
against a file that is overwritten, torn or gone. Sizes are all one byte below
the limit less the header except in
`vault_boundary`. `Data` and `FileId` are symmetric. `MaxLog` in `session`
stops a run at a menu once it has logged five lines (it may still be killed, or
its input end), which is a login and one call, or a login that is followed by a
logout at once; a logout after a call is beyond it, and with six lines the run
takes too long, but the theorems about the log hold for any bound
(`LinesAreOwned`, `LogTellsTheDisk`). The disk carries over to the
next run, so that its histories are as long as they like. The alphabets of `text`
are the bytes on either side of every comparison in the code, its buffers small
enough to overflow. No liveness is checked with symmetry.

**Why not every property in every run.** Some are true only under conditions,
and the conditions are part of the result:

| Property | fails with | because |
|---|---|---|
| `RemovesItsOwnRecord`, `KeptIsRetrievable` | two processes on one name | a delete removes by path (`metadata.c:242`): process 2 loads the record for a delete, process 1 deletes the file and encrypts a new one of the same name, and process 2's `metadata_delete` removes the new record. `RecordBacked` and `StoreComplete` hold there |
| `TextDestroyedOnlyWhenSaved` | two processes on one plain file | process 1 reads the output that a decryption of process 2 has opened and not yet written, and wipes what is written there meanwhile. No document says anything of two processes |
| `KeepsItsPromise` | two processes on one name, three encryptions | the failure path of `metadata_create` removes by path, too (`metadata.c:190`): the record it created was deleted, and a third encryption has finished in its place |
| `KeptIsRetrievable`, `StoreComplete`, `RecordBacked` | `flush` | results of `fclose` are ignored (`fileops.c:290`, `metadata.c:195`) |
| `KeptIsRetrievable` | sizes within 28 bytes of the limit | finding `vault_boundary` |
| `NoReadableCopy` | `remove` together with `zero` or `edit` | results ignored (finding `vault_readable`) |
| `NoReadableCopy` | `remove`, and two processes on one plain file | a decryption of the one writes its output between the overwrite of the other and its failing `remove` |
| `OverwrittenBeforeUnlinked` | `zero` | result ignored (`fileops.c:414`) |
| `TextDestroyedOnlyWhenSaved` | `edit` | a text saved between read and wipe is wiped |
| `OneAdmin` | two processes; or `read` | finding `accounts_admins`; unreadable records are skipped (`users.c:166`) |
| `NoDebris` | `crash`, `flush`, `remove` | nothing removes a truncated record |
| `SuccessMeansAccount` | `flush` | `users.c:134` |

**Findings.** Four runs end in a counterexample, each against a sentence of the
documentation:

| Run | Property | What happens |
|---|---|---|
| `vault_boundary` | `KeptIsRetrievable` | A file of 64 MB (or up to 27 bytes less) is accepted, sealed and destroyed; the storage file is longer than the limit and decrypt refuses it (`fileops.c:156`; `docs/checkpoint2-core.md:23` and `:44`). |
| `vault_readable` | `NoReadableCopy` | Overwrite and removal of the original fail, success is reported (`fileops.c:302`; `docs/checkpoint2-core.md:19`). |
| `session_memory` | `CleansedAtMenu` | The session waits at its menu with the key in memory, in every build (`menu.c:292`), and with the login's password where the compiler dropped its plain `memset` (`menu.c:288`); `docs/checkpoint1-design.md:83` wants `OPENSSL_cleanse` or `explicit_bzero`, "not a plain `memset`", and the key only around the call that needs it. |
| `accounts_admins` | `OneAdmin` | Two processes both scan before either has created its admin (`auth.c:122`; `docs/checkpoint2-core.md:35`, `README.md:33`). |

**Fairness.** `Session` assumes `WF_vars(Program)`: a single-threaded process
that is not waiting for a line executes its code, and every loop in it ends.
Nothing is assumed of the user, who may stop at any prompt, of the end of input
or of kills; the menus at the end of input do take steps, but none that changes
anything. Where a prompt stands at the end of input, `AnswerEnds` is a step of
the program, not of the user. `Vault` and `Accounts` have no fairness: a process
in them may stop at any disk access, which safety has to bear.

### Variants

To see that a property depends on the code, the component modules hold
variants of their definitions (`Name_Word`), each with one plausible mistake.
Put in the place of `Name`, the run named here finds the property violated:

| Variant | Mistake | Run: property |
|---|---|---|
| `EncryptRecord_LateFailure` | failure reported after the record is complete | `vault_solo`: `RecordBacked` |
| `EncryptMeta_Overwrites` | record opened with `"wb"` | `vault_solo`: `KeptIsRetrievable` |
| `Listing_ByPrefix` | no owner check in the list | `vault_solo`: `ListShowsLoadable` |
| `Loads_AnyOwner` | no comparison after `read_record` | `vault_solo`: `RemovesItsOwnRecord` |
| `EncryptUndo_KeepsFile` | storage file not removed on failure | `vault_names`: `FailedEncryptLeavesNothing`; `vault_rough`: `Bookkeeping` |
| `DecryptOpen_Overwrites` | output opened with `"wb"` | `vault_names`: `TextDestroyedOnlyWhenSaved` |
| `EncryptRead_TypedPath` | the typed path wiped, not the opened one | `vault_names`: `NoReadableCopy` |
| `DeleteWipe_Skipped` | no overwrite before the unlink | `vault_names`: `OverwrittenBeforeUnlinked` |
| `Loads_Truncated` | a short record accepted | `vault_pair`: `KeepsItsPromise` |
| `EncryptWrite_Unchecked` | results of `fwrite` ignored | `vault_pair`: `KeptIsRetrievable`, `StoreComplete` |
| `DecryptRead_NoPlain` | plaintext buffer not set | `vault_rough`: `TypeOK` |
| `EncryptWrite_Rereads` | original read again while sealing | `vault_rough`: `DecryptFaithful`; `vault_pair`: `RecordBacked` |
| `DeleteUnlink_Unchecked` | `remove`'s result ignored | `vault_rough`: `DeleteSuccessMeansGone` |
| `Prompt_NoPassword` | password not passed on | `accounts_solo`: `TypeOK` |
| `ScanPass_AnyRole` | an admin's record passed over | `accounts_solo`: `OneAdmin` |
| `Verify_TypedName` | session under the typed name | `accounts_solo`: `SessionIsAccount` |
| `Write_NoDrop` | partial record not removed | `accounts_race`: `NoDebris` |
| `Open_Overwrites` | record opened with `"wb"` | `accounts_race`: `SuccessMeansAccount`, `Accounted` |
| `Open_DropsTaken` | failure path also removes a taken record | `accounts_race`: `AccountNeverChanges`, `KeepsTheRegister` |
| `Home_Session` | the first run's admin taken for a session | `session`: `TypeOK` |
| `Cancel_KeepsPassword` | password not wiped on a cancelled dialogue | `session`: `SecretsGone`, `Logged` |
| `EncryptSave_ReturnsEarly` | return before `logging_event` | `session`: `LogMatchesDisk`, `CallsAreLogged` |
| `EncryptSave_DropsTaken` | a taken record removed on failure | `session`: `UsesTheStore` |
| `Authenticate_TypedName` | session under the typed name | `session`: `AttributedToLogin` |
| `Create_Overwrites` | record opened with `"wb"` | `session`: `OwnersKey`, `UsesTheRegister` |
| `AnswerEnds_AsksAgain` | question repeated at the end of input | `session`: `EndOfInputLeavesDialogue` |
| `ReadLine_NoFlush` | rest of a cut line not discarded | `text`: `OneLinePerRead` |
| `MenuChoice_NoEnd` | `*endptr` not looked at | `text`: `ChoiceIsMeant` |
| `Utf8Len_Overlong` | no lower bounds on the lead and second byte | `text`: `StoredNamesStay` |
| `SafeOwner_AnyLength` | no length limit for owners | `text`: `UsersCanOwn` |
| `Nfd_OneByte` | one byte consumed per replaced letter | `text`: `NfdIsOtherSpelling` |
| `JsonEscape_Cuts` | no look at the room for an escape | `text`: `FieldIsJson` |

## 4. Proofs

Every theorem holds for any sets of processes, users, names, paths, contents,
ids and passwords, any size limit and, unless it says otherwise, any set of
failures. What is assumed are the types of the constants (`VaultAssumption`,
`AccountsAssumption`, `SessionAssumption`, `TextAssumption`, which also says that
a buffer holds a byte and its NUL and that of a decomposed name is twice as long
as that of a name) and that the values for "nothing" are none of the values
they stand beside (`AbsentAssumption`, `NoneAssumption`). Conditions beyond
these are hypotheses of the theorem.

| Module | Theorem | Statement |
|---|---|---|
| `VaultProofs` | `InductiveHolds`, `BookkeepingHolds`, `TypeCorrect` | `[]Inductive`, `[]Bookkeeping`, `[]TypeOK` |
| | `FailedEncryptClean` | `[]FailedEncryptLeavesNothing` |
| | `DecryptGivesBackWhatWasSealed` | `[]DecryptFaithful` |
| | `DeleteSuccessIsTrue` | `DeleteSuccessMeansGone` |
| | `SealedFilesStayComplete`, `RecordsAreBacked` | no `flush`: `[]StoreComplete`, `[]RecordBacked` |
| `VaultApartProofs` | `OwnRecordsHold` | `NamesApart`: `[](Inductive /\ OwnRecords)` |
| | `OwnRecordRemoved` | `NamesApart`: `RemovesItsOwnRecord` |
| | `KeptStaysRetrievable` | `NamesApart`, `RoomForHeader`, no `flush`: `[]KeptIsRetrievable` |
| | `TextSavedBeforeDestroyed` | also `FilesApart`, no `edit`: `TextDestroyedOnlyWhenSaved` |
| | `NothingReadableLeft` | no `remove`; or `FilesApart` and neither `zero` nor `edit`: `NoReadableCopy` |
| | `OverwrittenFirst` | no `zero`: `OverwrittenBeforeUnlinked` |
| | `ListShowsWhatLoads` | names are sequences, no empty file name: `[]ListShowsLoadable` |
| `VaultPromiseProofs` | `PromiseKept` | `NamesApart`: `KeepsItsPromise` (`Vault` implements `VaultStore`) |
| `AccountsProofs` | `AccountsInductive`, `AccountsTyped` | `[]Accounted`, `[]TypeOK` |
| | `SessionsAreAccounts` | `[]SessionIsAccount` |
| | `AccountsStay` | `AccountNeverChanges` |
| | `RegisterKept` | `KeepsTheRegister` (`Accounts` implements `Registry`) |
| | `SuccessIsTrue` | no `flush`: `[]SuccessMeansAccount` |
| | `NoNameHalfTaken` | no `crash`, `flush`, `remove`: `[]NoDebris` |
| | `OnlyOneAdmin` | one process, no `read`: `[]OneAdmin` |
| `SessionProofs` | `AlwaysAttended` | `[]Attended` |
| | `WipesAreReached` | `[]SecretsGone` |
| | `DocumentsStayOpenable` | `[]OwnersKey` |
| | `RegisterUsed`, `StoreUsed` | `UsesTheRegister`, `UsesTheStore` (`Session` implements `Registry` and `VaultStore`) |
| `SessionLogProofs` | `AlwaysLogged`, `SessionTyped` | `[]Logged`, `[]TypeOK` |
| | `LogTellsTheDisk` | `[]LogMatchesDisk` |
| | `LinesAreOwned` | `[]AttributedToLogin` |
| `TextProofs` | `ALineAPrompt` | `[]OneLinePerRead` |
| | `ChoicesAreMeant` | `[]ChoiceIsMeant` |
| | `DocumentNamesStay`, `AnyUserCanOwn` | `[]StoredNamesStay`, `[]UsersCanOwn` |
| | `OtherSpellingIsTheSameName` | `[]NfdIsOtherSpelling` |
| | `FieldsAreJson` | `[]FieldIsJson` |

The conditions are those of the table in section 3 turned round, which says what
goes wrong without them; only `FilesApart` may be more than
`TextSavedBeforeDestroyed` needs, as it keeps even readers of one file apart.
`NamesApart` says that no record path can be reached from two processes,
`FilesApart` the same of plain files, `RoomForHeader` that no file comes within
28 bytes of the limit. A single process satisfies the first two whatever its
users are called.

**Vault, whatever happens.** None of the properties is inductive alone: that a
record is backed depends on nobody else touching the storage file, and that
depends on who may know its id. `Bookkeeping` (in `VaultInv`) says it id by id:

* an encryption that is not over owns its id alone, its storage file exists,
  and no record leads to the id before it has created one (`SealersOwnTheirIds`,
  `SealersUnrecorded`);
* what is in `store` and `meta` under an id belongs to the owner, name and
  plaintext the id was drawn for (`StoreIssued`, `RecordsIssued`);
* decryptions and deletions work on ids of their own user and name
  (`DecryptersFaithful`, `DeletersDoomTheirIds`), and a deletion marks its id as
  given up before it touches the storage file, so storage files are wiped or
  removed only for ids nobody relies on;
* the flag `storage_ok` of a deletion means that the storage file is gone, and
  it stays gone, since ids are not drawn twice (`DeletersDoomTheirIds`).

With `TypeOK` this is inductive under every kind of failure, concurrency
included. The proof first shows per action that the state stays typed, then
states once for each variable what a step can do to it (`StoreChange`,
`MetaChange`, `IssuedChange`, `ActionOfStep`), and derives each part from these.
A lost flush is the one failure that breaks `StoreComplete`.

**Vault, when processes keep apart.** `metadata.c` opens, writes and removes
records by path. What a call knows of the record at its path after it has
loaded or created it is `HoldsItsRecord`, and that is inductive only if nobody
else can reach the path (`MetaWhere`: a step changes metadata only at the path
of its own call). From it follow which record is removed, that a kept
encryption has its complete record (`KeptRecorded`), and, with the same argument
for plain files (`OwnFiles`, `FilesWhere`), that the original destroyed is the
text that was sealed. That success leaves no readable copy rests on the path
that is wiped and removed being the one that was opened (`DestroysWhatItRead`).
Either that step removes the file, or what it leaves has been overwritten
(`OriginalsWiped`).

**The refinement.** `DocumentStep` says what a step can do to what decrypt
would return: the last step of an encryption saves one document, where there
was none; the three steps of a deletion that touch the disk discard the one
asked for; everything else, in particular every failure path and every kill,
changes no document. `AskedStep` says the same of the deletions under way.

**Accounts.** `Accounted`: from the exclusive open to its last write the record
is the creator's alone (`CreatorsHoldTheirFile`, `OneCreatorPerFile`), a record
is where its own name leads, and what a login has loaded is still on disk when
the password is checked. That an admin is the only one needs a scan that
misses none (`AdminScanIsComplete`), true for one process only.

**Session.** `Attended`: what has been typed answers the questions of the
dialogue in order, memory holds what this point of the dialogue may hold, and
the session is an account on disk. The step lemmas go call by call and reply by
reply through the returns of the handlers.

**The log.** `Logged` adds to `Attended` what the lines say. `Reports`: between
two calls the changes made are all told (`Told`), and at a report at most one is
ahead, the one the line to come will tell; a report that tells of no change
claims none. `Sessions`: inside a session its login is in the log with no logout
after it, and the session of a report that is about to log its login is of the
role and the file the dialogue asked for. The proof appends one line at a time:
`Told` and `LoggedIn` are kept by lines that claim nothing, and by the one that
tells the next change.

**Text.** A state of `Text` is a text, so what matters is not the steps
(`AlwaysTextTyped` is the only invariant, and trivial) but what the functions do
with a text of any length. The library's induction theorems take a predicate,
which the provers cannot instantiate. `Recursion` therefore states induction
with a set in the predicate's place, from the well-foundedness of strict
inclusion among finite sets (`Least`, `Upwards`, `Downwards`), and shows that a
function on an interval defined from its values before (`Iterates`) or behind
(`Backwards`) exists. With that each loop of the code is characterised by a
relation between its values at neighbouring positions (`Walks` for
`stored_name_is_safe`, `Rewrites` for `to_nfd_fallback`, `Escapes` for
`json_escape`, `Sums` for `strtol`, and `Reads` for a reader of the log), and
each theorem by an induction along it: a name is accepted up to a position
exactly when some split into characters reaches it; what is rewritten up to a
position is settled, accepted as far as the path was, and read back (`Composes`)
as what the path reads back as;
what is escaped up to a position reads back as what was logged up to there.

**Only model-checked.** The liveness properties `CallsAreLogged` and
`EndOfInputLeavesDialogue`: fairness and `ENABLED` are out of the prover's reach.

## 5. Not modelled, and why

* Cryptography and randomness (`crypto.c`, OpenSSL): assumed to work as used. A
  tag verifies exactly for the key and the bytes it was made with, ids are
  drawn once, `OPENSSL_cleanse` zeroes. `Session` has the ways a decryption can
  fail.
* Copies of secrets outside the program's own buffers: in the buffer of stdin,
  in freed stdio buffers of the plain file and the output, in swap. `SecretsGone`
  is about the arrays and heap blocks that the code zeroes by name.
* Symbolic links (`O_NOFOLLOW`): an open that fails.
* The output path of a decryption inside the program's own directories, and
  users' files there: `Path` holds plain files outside them.
* Lengths of paths that the operating system refuses: a failed open.
* A file that changes between `ftell` and `fread`: contents are read in one step.
* Power loss: a crash kills the process; what was written stays.
* The time stamps in records and log lines, and a log append that fails (its
  result is ignored, so the properties about the log do not hold then).
* Terminal echo and wording. `validation.c` is empty; the build files and
  binaries in the repository have no behaviour of their own.

## 6. Plan

Done: `Vault`, `Accounts`, `Session` and `Text`, with both abstractions, their
refinements, and the proofs of all safety properties that hold. Left:

1. Appends to the log that fail, as a fault of `Session`, with the weaker
   property the code then keeps: no line that tells of something that did not
   happen.
2. A read of the original in two steps (`ftell`, then `fread`) in `Vault`, for a
   file that grows in between.
3. `KeptIsRetrievable` and `KeepsItsPromise` for processes that share names but
   never delete or fail on them, a weaker condition than `NamesApart`.
