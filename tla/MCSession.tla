----------------------------- MODULE MCSession -----------------------------
(***************************************************************************)
(* A small instance of Session: one place in users/ and two spellings of   *)
(* the name that leads there, as in a directory that ignores case.         *)
(***************************************************************************)
EXTENDS SessionInv

CONSTANT f1

Spellings == {"ann", "ANN"}
OneFile == {f1}
SameFile == [u \in Spellings |-> f1]
=============================================================================
