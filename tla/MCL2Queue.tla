------------------------------ MODULE MCL2Queue ------------------------------
(* Requests are independent (every file is named by the key), so one request   *)
(* with several drainers, reapers and verifiers meets every race.              *)
EXTENDS L2Queue

CONSTANTS k1, d1, d2, p1, j1, j2
==============================================================================
