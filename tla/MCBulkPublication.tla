-------------------------- MODULE MCBulkPublication --------------------------
EXTENDS RepositoryExport, RuntimePublication

NoScript ==
  /\ script = [pc |-> "idle", g |-> Scripts, backup |-> 0] /\ runtime = 0 /\ neo4j = Stopped /\ mcp = Stopped
  /\ volumes = <<>> /\ outcome = <<>>
NoExport ==
  /\ exporter = [e \in Exports |-> [NoExporter EXCEPT !.pc = "done"]] /\ generation = <<>>
  /\ flat = Absent /\ content = <<>> /\ temporary = Absent /\ top = Absent /\ alone = FALSE

(* Either exports, or publications.                                          *)
Init == (ExportInit /\ NoScript) \/ (ScriptInit /\ NoExport)
Next ==
  \/ volumes = <<>> /\ ExportNext /\ UNCHANGED scriptVars
  \/ generation = <<>> /\ ScriptNext /\ UNCHANGED exportVars
Spec == Init /\ [][Next]_<<exportVars, scriptVars>> /\ ExportFairness
=============================================================================
