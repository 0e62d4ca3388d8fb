----------------------------- MODULE MCWorkerRun -----------------------------
(* Two runs of one packet: two dispatchers that race, or an attempt and its    *)
(* retry.                                                                      *)
EXTENDS WorkerRun

CONSTANTS r1, r2

\* ACTION_CONSTRAINT: the parent stops once.
OneStop == asked = {} \/ pat' = pat \/ pat' = "idle"

\* ACTION_CONSTRAINT: only a dispatcher that has not begun reads the ledger, so
\* its later steps change nothing that a property or another action sees.
LedgerIsRead == ledger' = ledger \/ \E r \in Runs : dat[r] = "new"
==============================================================================
