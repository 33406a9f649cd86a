----------------------------- MODULE MCToolCall -----------------------------
(* Instances of ToolCall and HttpTool for TLC. *)
EXTENDS HttpTool

=============================================================================
