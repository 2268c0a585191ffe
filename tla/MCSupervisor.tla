----------------------------- MODULE MCSupervisor -----------------------------
(* Model values for the run of Supervisor.                                    *)
EXTENDS Supervisor, TLC

CONSTANTS s1, s2, s3

==============================================================================
