--------------------------- MODULE MCToolRuntime ---------------------------
(* ToolRuntime for TLC: the bounds are given by the configuration.          *)
EXTENDS ToolRuntime, TLC
=============================================================================
