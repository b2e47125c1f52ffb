-------------------------- MODULE MCSchemaMigration --------------------------
(* Two processes open a database of two runs an older program left behind.   *)
EXTENDS SchemaMigration

Old(created, graph) == [created |-> created, graph |-> graph]

MCOldStreams ==
    { <<>>,
      <<Old(TRUE, "reference")>>,
      <<Old(TRUE, "reference"), Old(FALSE, "any")>>,
      <<Old(TRUE, "reference"), Old(FALSE, "own")>>,
      <<Old(TRUE, "own")>>,
      <<Old(TRUE, "own"), Old(FALSE, "own")>>,
      <<Old(TRUE, "corrupt")>> }
=============================================================================
