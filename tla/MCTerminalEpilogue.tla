------------------------- MODULE MCTerminalEpilogue -------------------------
(* Three supervisors and as many runners: one may coalesce while another     *)
(* starts a runner and a third finds a runner on its way out.                *)
EXTENDS TerminalEpilogue

CONSTANTS s1, s2, s3, e1, e2, e3
=============================================================================
