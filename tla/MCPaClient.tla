----------------------------- MODULE MCPaClient -----------------------------
(* Instances of PaClient for TLC.                                          *)
EXTENDS PaClient

AllFaults == {"ac restart", "pa restart", "loss"}
NoFaults == {}
NoPumps == {}
=============================================================================
