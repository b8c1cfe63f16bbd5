--------------------------- MODULE MCSyncSchedule ---------------------------
(***************************************************************************)
(* Two sources for a tick that takes one: a workspace that nothing but its *)
(* webhook reports on, and a directory that is due every minute.           *)
(***************************************************************************)
EXTENDS SyncSchedule

CONSTANTS notion, local, p1, p2

MCSources == {notion, local}
MCPushed == {notion}
MCInterval == [s \in MCSources |-> IF s = local THEN 1 ELSE None]
MCProjectOf == [s \in MCSources |-> IF s = local THEN p1 ELSE p2]
=============================================================================
