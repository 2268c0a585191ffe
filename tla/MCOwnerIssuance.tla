--------------------------- MODULE MCOwnerIssuance ---------------------------
(* Model values for the runs of OwnerIssuance.                                *)
EXTENDS OwnerIssuance, TLC

CONSTANTS alice, bob, light, lock1, guest, wide, home1, home2,
          x1, x2, x3, r1, r2, status, cli, gateway

(* Two scopes of one subject: guest reaches the light, wide both entities.    *)
MCPermits == [s \in Scopes |-> IF s = wide THEN {light, lock1} ELSE {light}]

MCSymmetry ==
  Permutations({x1, x2}) \cup Permutations({r1, r2}) \cup Permutations({alice, bob})

==============================================================================
