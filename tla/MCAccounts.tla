----------------------------- MODULE MCAccounts -----------------------------
(* Accounts on small instances.                                            *)
EXTENDS Accounts, TLC

MCStart == [u \in Users |-> CASE u = 1 -> "root" [] u = 2 -> "unborn" [] OTHER -> "member"]
MCRootStart == [u \in Users |-> IF u = 1 THEN "root" ELSE "member"]

Promote == [role |-> "root", active |-> "keep"]
Demote == [role |-> "member", active |-> "keep"]
MakeAdmin == [role |-> "admin", active |-> "keep"]
Disable == [role |-> "keep", active |-> "no"]
Enable == [role |-> "keep", active |-> "yes"]

MCBodies == [u \in Users |-> {Promote, Demote, Disable, Enable} \cup (IF u = 2 THEN {MakeAdmin} ELSE {})]
MCRootBodies == [u \in Users |-> IF u = 1 THEN {Demote} ELSE {Promote, Demote}]

Symmetry == Permutations(Requests) \cup Permutations(Identities)
=============================================================================
