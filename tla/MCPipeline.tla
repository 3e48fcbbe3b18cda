----------------------------- MODULE MCPipeline -----------------------------
(***************************************************************************)
(* A queue of two frames, and enough frames and messages that each way a   *)
(* frame ends meets each kind of message.                                  *)
(***************************************************************************)
EXTENDS Pipeline
=============================================================================
