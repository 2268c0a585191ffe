---------------------------- MODULE MCOwnerActions ----------------------------
(* Model values for the run of OwnerActions.                                  *)
EXTENDS OwnerActions

CONSTANTS alice, light, guest, home1, x1, x2, r1, r2, status

MCPermits == [s \in Scopes |-> Entities]

==============================================================================
