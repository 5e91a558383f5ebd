------------------------------ MODULE MCCliRun ------------------------------
(* Instances of CliRun, and of the Invoke inside it, for TLC: every command  *)
(* line over limits below, at and above the records a handler produces, none *)
(* (0) and a negative one, which the code treats as none.                    *)
EXTENDS CliRun

MCLimits == {-1, 0, 1, 2, 3, 4}
=============================================================================
