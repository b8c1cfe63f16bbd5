------------------------------- MODULE MCRows -------------------------------
(* Components whose writers meet in rows of the database and that share    *)
(* nothing, on small instances and in one run: which one goes is chosen at *)
(* the beginning, and the others stay as they began.                       *)
EXTENDS MCIndexRun, MCAccounts, SecretRefresh

VARIABLE part

\* Where a part that stays as it began may begin in many ways, one is enough.
Begins ==
  /\ part \in {"index", "accounts", "secret"}
  /\ Init /\ AccountsInit /\ SecretInit
  /\ part # "index" => /\ disk = [f \in Files |-> Gone]
                       /\ model = (CHOOSE m \in Models : TRUE)
                       /\ settings = [s \in Sources |-> CHOOSE v \in Settings : TRUE]
  /\ part # "secret" => row.here = "not yet"

Goes ==
  /\ UNCHANGED part
  /\ \/ part = "index" /\ Next /\ UNCHANGED <<accountVars, refreshVars>>
     \/ part = "accounts" /\ AccountsNext /\ UNCHANGED <<vars, refreshVars>>
     \/ part = "secret" /\ SecretNext /\ UNCHANGED <<vars, accountVars>>

RowsSpec == Begins /\ [][Goes]_<<part, vars, accountVars, refreshVars>>

\* Requests and identities are alike, and so are the run and the probe that refresh a token.
RowsSymmetry == Symmetry \cup Permutations(Drivers)

\* The types of the accounts and of the secret (that of the index is checked by its own run),
\* and with them that no lock of theirs has two holders or one that is past it.
RowsTypeOK == (part = "accounts" => AccountsTypeOK) /\ (part = "secret" => SecretTypeOK)
=============================================================================
