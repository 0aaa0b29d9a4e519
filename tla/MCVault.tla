------------------------------ MODULE MCVault ------------------------------
(***************************************************************************)
(* Small instances of Vault.  A user's name may contain the separator of   *)
(* the metadata file names, as users_username_is_safe allows.              *)
(***************************************************************************)
EXTENDS VaultRefinement

CONSTANTS P1, P2

\* MetaPath(a, bc) = MetaPath(ab, c): two users, one record path.
a  == <<"a">>
ab == <<"a", "__", "b">>
b  == <<"b">>
c  == <<"c">>
bc == <<"b", "__", "c">>
spaced == <<"c", " ">>

CollidingUsers == {a, ab}
ApartUsers == {a, b}
OneUser == {a}

CollidingNames == {c, bc}
OneName == {c}
SomeUnsafe == {c, spaced}

\* Two plain files whose base names are c and bc.
TwoPaths == {"p", "q"}
TwoBase == [p |-> c, q |-> bc]
TwoNfd == [p |-> "p", q |-> "q"]

\* p is typed with a precomposed letter and may be stored as pd; s has a
\* base name that metadata_create refuses.
TypedPaths == {"p", "pd", "s"}
TypedBase == [p |-> c, pd |-> c, s |-> spaced]
TypedNfd == [p |-> "pd", pd |-> "pd", s |-> "s"]

OnePath == {"p"}
OneBase == [p |-> c]
OneNfd == [p |-> "p"]

\* One byte below the limit with its header, and exactly at it without.
Below == [d \in Data |-> MaxFileSize - HeaderLen]
AtLimit == [d \in Data |-> MaxFileSize]

Anyone == [p \in Proc |-> User]
Anywhere == [p \in Proc |-> Path]
\* Each process serves a user of its own.
OwnUser == [p \in Proc |-> IF p = P1 THEN {a} ELSE {b}]

Symmetry == Permutations(FileId) \cup Permutations(Data)
=============================================================================
