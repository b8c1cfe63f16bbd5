--------------------------- MODULE MCSourceToken ---------------------------
(***************************************************************************)
(* Two PATCHes of one source at a time for TLC.  One of them, Saver, only  *)
(* ever saves what it read: it is the one that can overwrite the other.    *)
(* What two that both change something do to one another is covered by the *)
(* theorem (SourceTokenProofs), which is for any number of any kind.       *)
(***************************************************************************)
EXTENDS SourceToken

CONSTANT Saver

SaverOnlySaves == patch[Saver].at = "write" => patch'[Saver].at \in {"write", "off"}

MCSpec == Init /\ [][Next /\ SaverOnlySaves]_vars /\ Fairness
=============================================================================
