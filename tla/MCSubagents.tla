---------------------------- MODULE MCSubagents ----------------------------
(***************************************************************************)
(* Two subagents of one session and two faults.                            *)
(***************************************************************************)
EXTENDS Subagents

MCAgents == {"a", "b"}
=============================================================================
