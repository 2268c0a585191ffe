---------------------------- MODULE MCCommandGate ----------------------------
(* Model values for the runs of CommandGate.                                  *)
EXTENDS CommandGate, TLC

CONSTANTS alice, bob, anna, bert, light, lock1, guest, wide, other, home1,
          x1, x2, h1, h2, h3, i1, i2, i3

(* guest and wide are anna's, wide reaches both entities; other is bert's.    *)
MCPermits == [s \in Scopes |-> IF s = wide THEN {light, lock1} ELSE {light}]
MCSubjectOf == [s \in Scopes |-> IF s = other THEN bert ELSE anna]

MCSymmetry == Permutations({h1, h2})
MCSymmetry3 == Permutations({h1, h2, h3}) \cup Permutations({i1, i2})

==============================================================================
