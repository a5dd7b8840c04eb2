------------------------------ MODULE MCIngest ------------------------------
(* Small instances of IngestPipeline.  v1 has two chunks, v2 one: pushing v2 *)
(* over v1 is what leaves a tail behind when nothing is deleted first.  v0   *)
(* converts to empty Markdown and vx has an unsupported file type.           *)
EXTENDS IngestPipeline, TLC

CONSTANTS v0, v1, v2, vx

MCChunkCount ==
  [v \in Versions |-> CASE v = v0 -> 0 [] v = v1 -> 2 [] v = v2 -> 1 [] v = vx -> 1]

MCUnsupported == {vx} \cap Versions

=============================================================================
