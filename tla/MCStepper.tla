----------------------------- MODULE MCStepper -----------------------------
(* Values for Stepper that a configuration file cannot write: -1 is the      *)
(* steps argument for an unlimited move.                                     *)
EXTENDS Stepper

NoLimitOrOne == {-1, 1}
============================================================================
