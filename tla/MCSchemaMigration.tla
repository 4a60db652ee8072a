------------------------- MODULE MCSchemaMigration -------------------------
(* Small instances of SchemaMigration for TLC. *)
EXTENDS SchemaMigration

CONSTANTS a, b

SmallRequests == {<< >>, <<a>>, <<b, a>>}
=============================================================================
