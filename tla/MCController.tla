----------------------------- MODULE MCController -----------------------------
(* Model values for the runs of Controller.                                   *)
EXTENDS Controller, TLC

CONSTANTS r1, r2, d1, d2, c1, c2, light, lock1, home1, i1, i2, k1,
          executed, denied

(* c1 is d1's and reaches the light, c2 is d2's and reaches every entity.     *)
MCSubjectOf == [c \in Credentials |-> IF c = c1 THEN d1 ELSE d2]
MCReach == [c \in Credentials |-> IF c = c1 THEN {light} ELSE Entities]

(* i1 is drawn for a command to the light, i2 for one to the lock.            *)
MCCommand ==
  {[conn |-> home1, id |-> i, entity |-> IF i = i1 THEN light ELSE lock1] : i \in Ids}

==============================================================================
