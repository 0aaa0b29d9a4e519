-------------------------- MODULE VaultRefinement --------------------------
(***************************************************************************)
(* Vault implements VaultStore: the directories, seen through what decrypt *)
(* would return, are a map from owners and names to documents.             *)
(***************************************************************************)
EXTENDS VaultInv

\* What fileops_decrypt would put in the output file for u and n, now.
Document(u, n) ==
    LET r == meta[MetaPath(u, n)]
    IN  IF Loads(r, u, n) /\ Opens(store[r.id], u) THEN store[r.id].plain ELSE Absent

Deleting == {<<op[p].user, op[p].name>> :
                p \in {q \in Proc : op[q].step \in DeleteSteps}}

Promise == INSTANCE VaultStore WITH
    docs <- [d \in User \X Name |-> Document(d[1], d[2])],
    asked <- Deleting

\* The calls of fileops.c, step by step, with crashes and reported failures,
\* amount to saving and discarding whole documents.
KeepsItsPromise == Promise!Spec
=============================================================================
