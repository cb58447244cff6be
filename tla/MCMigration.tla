---------------------------- MODULE MCMigration ----------------------------
(***************************************************************************)
(* Bounds for Migration: two teams of two sessions.  The first shares a    *)
(* table, and one session has a table of its own; both sessions of the     *)
(* second have a part of each of two tables.                               *)
(***************************************************************************)
EXTENDS Migration

CONSTANTS t1, t2, t3, t4

MCInstances == 1 .. 4
MCTeams == {{1, 2}, {3, 4}}
MCTables == {t1, t2, t3, t4}
MCParts == 1 .. 8

\* t1 is shared, t2 is the first session's own, t3 and t4 are loaded crosswise; part 3 is not chosen.
MCChosen == MCParts \ {3}
MCTableOf    == <<t1, t1, t1, t2, t3, t3, t4, t4>>
MCInstanceOf == <<1, 2, 2, 1, 3, 4, 3, 4>>
=============================================================================
