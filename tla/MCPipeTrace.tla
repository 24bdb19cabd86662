----------------------------- MODULE MCPipeTrace -----------------------------
(* The tracer, for model checking; the .cfg file gives every constant.       *)
EXTENDS PipeTrace
=============================================================================
