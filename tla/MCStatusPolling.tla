---------------------------- MODULE MCStatusPolling ----------------------------
(* Model values for the runs of StatusPolling.                                *)
EXTENDS StatusPolling

CONSTANTS alice, light, guest, home1, home2, x1, x2, e1, e2, f1

MCPermits == [s \in Scopes |-> Entities]

==============================================================================
