---------------------------- MODULE MCAgentQueue ----------------------------
(* Instances of AgentQueue for TLC.                                        *)
EXTENDS AgentQueue

AllBuilds == {"THREAD_SAFE", "plain"}
=============================================================================
