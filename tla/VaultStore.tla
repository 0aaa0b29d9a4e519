----------------------------- MODULE VaultStore -----------------------------
(***************************************************************************)
(* What the vault promises its users, with no disk, no steps and no        *)
(* failures: a document is saved once under its name, is never changed,    *)
(* and disappears only while its owner is having it deleted.               *)
(***************************************************************************)
CONSTANTS User, Name, Content, Absent

VARIABLES
    docs,   \* docs[u, n]: what decrypt gives user u for name n
    asked   \* the <<u, n>> whose deletion u has called for and not yet left

vars == <<docs, asked>>

Init == /\ docs = [d \in User \X Name |-> Absent]
        /\ asked = {}

Save(d, c) ==
    /\ docs[d] = Absent
    /\ docs' = [docs EXCEPT ![d] = c]
    /\ UNCHANGED asked

Discard(d) ==
    /\ d \in asked
    /\ docs' = [docs EXCEPT ![d] = Absent]
    /\ asked' \in {asked, asked \ {d}}

Ask(d) == asked' = asked \cup {d} /\ UNCHANGED docs
Leave(d) == asked' = asked \ {d} /\ UNCHANGED docs

Next == \E d \in User \X Name :
            \/ \E c \in Content : Save(d, c)
            \/ Discard(d) \/ Ask(d) \/ Leave(d)

Spec == Init /\ [][Next]_vars
=============================================================================
